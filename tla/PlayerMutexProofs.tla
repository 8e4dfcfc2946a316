------------------------- MODULE PlayerMutexProofs -------------------------
(***************************************************************************)
(* Proofs about PlayerMutex for every number of bots and every settings.   *)
(*                                                                         *)
(* That two bots never play the same side rests on three facts: a bot has  *)
(* a handle to the mutex it plays with (Handles), so that the object does  *)
(* not go away under it; it owns that mutex (Owns), and a mutex has one    *)
(* owner; and the side it has asked for is the one its settings name       *)
(* (AsksForItsSetting).  The last needs that the section "Option", which   *)
(* change_player and search_key write, is the last one with a Player: no   *)
(* dev.ini sets it, NoOverride.                                            *)
(***************************************************************************)
EXTENDS PlayerMutex, SequenceTheorems, TLAPS

NoOverride == Overrides \subseteq {0}

Steps ==
  {"off", "create1", "wait1", "close1", "create2", "wait2", "keys", "run", "release", "close"}

TypeOK ==
  /\ pc \in [Bots -> Steps]
  /\ DOMAIN ini = Bots
  /\ n \in [Bots -> Sides]
  /\ h \in [Bots -> Sides \cup {None}]
  /\ searching \in [Bots -> BOOLEAN]
  /\ keys \in [Bots -> Sides \cup {None}]
  /\ owner \in [Sides -> Bots \cup {Nobody, Abandoned}]
  /\ DOMAIN count = Sides
  /\ calm \in [Bots -> BOOLEAN]

\* Who has a handle, and to what.
Handles ==
  \A b \in Bots :
    /\ pc[b] \in {"wait1", "wait2"} => h[b] = n[b]
    /\ pc[b] \in {"close1", "keys", "run", "release", "close"} => h[b] \in Sides
    /\ pc[b] \in {"off", "create1", "create2"} => h[b] = None

\* A bot that plays owns the mutex that it has a handle to.
Owns == \A b \in Bots : pc[b] \in {"keys", "run"} => owner[h[b]] = b

\* The side that was tried first still has another owner, if nothing happened.
FirstTaken ==
  \A b \in Bots : pc[b] \in {"close1", "create2", "wait2"} /\ calm[b] =>
    owner[Other(n[b])] \in Bots \ {b}

MutexInv == TypeOK /\ Handles /\ Owns /\ FirstTaken

-----------------------------------------------------------------------------
LEMMA SideInSides == \A p : Side(p) \in Sides
  BY DEF Side, Sides

LEMMA OtherInSides == \A m \in Sides : Other(m) \in Sides /\ Other(m) # m /\ Other(Other(m)) = m
  BY DEF Other, Sides

LEMMA MutexInit == Init => MutexInv
<1> SUFFICES ASSUME Init PROVE MutexInv
  OBVIOUS
<1> USE DEF Init
<1>1. TypeOK
  BY DEF TypeOK, Steps, Sides
<1>2. Handles /\ Owns /\ FirstTaken
  BY DEF Handles, Owns, FirstTaken
<1>3. QED
  BY <1>1, <1>2 DEF MutexInv

LEMMA MutexStart ==
  ASSUME MutexInv, NEW b \in Bots, Start(b)
  PROVE  MutexInv'
<1> USE DEF MutexInv, Start, Goto, mutexes
<1>1. /\ pc' = [pc EXCEPT ![b] = "create1"] /\ pc[b] = "off"
      /\ \E s : n' = [n EXCEPT ![b] = Side(s)]
      /\ \E i : ini' = [ini EXCEPT ![b] = i]
  OBVIOUS
<1>2. TypeOK'
  BY <1>1, SideInSides DEF TypeOK, Steps
<1>3. Handles'
  BY <1>1 DEF Handles, TypeOK
<1>4. Owns' /\ FirstTaken'
  BY <1>1 DEF Owns, FirstTaken, TypeOK
<1>5. QED
  BY <1>2, <1>3, <1>4

LEMMA MutexSearchKey ==
  ASSUME MutexInv, NEW b \in Bots, NEW side \in Sides, search_key(b, side)
  PROVE  MutexInv'
<1> USE DEF MutexInv, search_key, Goto, mutexes
<1>1. /\ pc' = [pc EXCEPT ![b] = "keys"] \/ pc' = [pc EXCEPT ![b] = "release"]
      /\ pc[b] = "run"
      /\ n' = n \/ \E s : n' = [n EXCEPT ![b] = Side(s)]
      /\ ini' = ini \/ \E i : ini' = [ini EXCEPT ![b] = i]
  OBVIOUS
<1>2. TypeOK'
  BY <1>1, SideInSides DEF TypeOK, Steps
<1>3. Handles'
  BY <1>1 DEF Handles, TypeOK
<1>4. Owns' /\ FirstTaken'
  BY <1>1 DEF Owns, FirstTaken, TypeOK
<1>5. QED
  BY <1>2, <1>3, <1>4

LEMMA MutexMap ==
  ASSUME MutexInv, NEW b \in Bots, search_key_map(b)
  PROVE  MutexInv'
<1> USE DEF MutexInv, search_key_map, Goto, mutexes
<1>1. TypeOK'
  BY SideInSides DEF TypeOK, Steps, Player
<1>2. Handles' /\ Owns' /\ FirstTaken'
  BY DEF Handles, Owns, FirstTaken, TypeOK
<1>3. QED
  BY <1>1, <1>2

LEMMA MutexRelease ==
  ASSUME MutexInv, NEW b \in Bots, ReleaseMutex(b)
  PROVE  MutexInv'
<1> USE DEF MutexInv, ReleaseMutex, Goto, mutexes, Disturb
<1>1. TypeOK'
  BY DEF TypeOK, Steps
<1>2. Handles'
  BY DEF Handles, TypeOK
<1>3. Owns'
  <2> SUFFICES ASSUME NEW c \in Bots, pc'[c] \in {"keys", "run"} PROVE owner'[h[c]] = c
    BY DEF Owns
  <2>1. c # b /\ pc[c] = pc'[c]
    BY DEF TypeOK
  <2>2. owner[h[c]] = c /\ h[c] \in Sides /\ h[b] \in Sides
    BY <2>1 DEF Owns, Handles
  <2>3. QED
    BY <2>1, <2>2 DEF TypeOK
<1>4. FirstTaken'
  BY DEF FirstTaken, TypeOK
<1>5. QED
  BY <1>1, <1>2, <1>3, <1>4

LEMMA MutexClose ==
  ASSUME MutexInv, NEW b \in Bots,
         CloseHandle(b, "close", "create1") \/ CloseHandle(b, "close1", "create2")
  PROVE  MutexInv'
<1> USE DEF MutexInv, CloseHandle, Goto, mutexes
<1>1. /\ h[b] \in Sides /\ Drop(b, h[b])
      /\ h' = [h EXCEPT ![b] = None] /\ UNCHANGED <<ini, n, searching, keys>>
      /\ calm' = IF owner' = owner THEN calm ELSE [c \in Bots |-> FALSE]
  BY DEF Handles
<1>2. \/ pc[b] = "close" /\ pc' = [pc EXCEPT ![b] = "create1"]
      \/ pc[b] = "close1" /\ pc' = [pc EXCEPT ![b] = "create2"]
  OBVIOUS
<1> HIDE DEF CloseHandle
<1>3. TypeOK'
  BY <1>1, <1>2 DEF TypeOK, Steps, Drop
<1>4. Handles'
  BY <1>1, <1>2 DEF Handles, TypeOK
<1>5. Owns'
  <2> SUFFICES ASSUME NEW c \in Bots, pc'[c] \in {"keys", "run"} PROVE owner'[h'[c]] = c
    BY DEF Owns
  <2>1. c # b /\ pc[c] = pc'[c] /\ h'[c] = h[c]
    BY <1>1, <1>2 DEF TypeOK
  <2>2. owner[h[c]] = c /\ h[c] \in Sides
    BY <2>1 DEF Owns, Handles
  <2>3. CASE UNCHANGED owner
    BY <2>1, <2>2, <2>3
  <2>4. CASE ~ \E d \in Bots \ {b} : h[d] = h[b]
    BY <1>1, <2>1, <2>2, <2>4 DEF Drop, TypeOK
  <2>5. QED
    BY <1>1, <2>3, <2>4 DEF Drop
<1>6. FirstTaken'
  <2> SUFFICES ASSUME NEW c \in Bots, pc'[c] \in {"close1", "create2", "wait2"}, calm'[c]
               PROVE  owner'[Other(n'[c])] \in Bots \ {c}
    BY DEF FirstTaken
  <2>1. owner' = owner /\ calm' = calm
    BY <1>1
  <2>2. pc[c] \in {"close1", "create2", "wait2"}
    BY <1>2 DEF TypeOK
  <2>3. QED
    BY <1>1, <2>1, <2>2 DEF FirstTaken
<1>7. QED
  BY <1>3, <1>4, <1>5, <1>6

LEMMA MutexCreate ==
  ASSUME MutexInv, NEW b \in Bots,
         CreateMutex(b, "create1", "wait1") \/ CreateMutex(b, "create2", "wait2")
  PROVE  MutexInv'
<1> USE DEF MutexInv, mutexes
<1>1. /\ h' = [h EXCEPT ![b] = n[b]]
      /\ UNCHANGED <<ini, n, searching, keys, owner, count>>
  BY DEF CreateMutex
<1>2. \/ /\ pc[b] = "create1" /\ pc' = [pc EXCEPT ![b] = "wait1"]
         /\ calm' = [calm EXCEPT ![b] = TRUE]
      \/ pc[b] = "create2" /\ pc' = [pc EXCEPT ![b] = "wait2"] /\ calm' = calm
  BY DEF CreateMutex, Goto
<1>3. TypeOK'
  BY <1>1, <1>2 DEF TypeOK, Steps
<1>4. Handles'
  BY <1>1, <1>2 DEF Handles, TypeOK
<1>5. Owns' /\ FirstTaken'
  BY <1>1, <1>2 DEF Owns, FirstTaken, TypeOK
<1>6. QED
  BY <1>3, <1>4, <1>5

\* What a wait does to the mutexes, whoever waits: it takes a free one only.
LEMMA WaitTakesFree ==
  ASSUME MutexInv, NEW b \in Bots, h[b] \in Sides, WaitForSingleObject(b)
  PROVE  /\ owner' \in [Sides -> Bots \cup {Nobody, Abandoned}]
         /\ DOMAIN count' = Sides
         /\ calm' \in [Bots -> BOOLEAN]
         /\ \A m \in Sides : owner[m] \in Bots => owner'[m] = owner[m]
         /\ Succeeds(b) => owner'[h[b]] = b
         /\ \A c \in Bots : calm'[c] => calm[c] /\ (c = b \/ UNCHANGED owner)
         /\ ~Succeeds(b) /\ calm'[b] => owner[h[b]] \in Bots \ {b}
<1> USE BotsAssumption DEF MutexInv, TypeOK, Disturb, mutexes, WaitForSingleObject, Succeeds, Acquires
<1>1. CASE Acquires(b)
  <2>1. owner' = [owner EXCEPT ![h[b]] = b] /\ owner[h[b]] \in {Nobody, Abandoned, b}
    BY <1>1
  <2>2. /\ DOMAIN count' = Sides
        /\ calm' = IF owner[h[b]] = Abandoned THEN [c \in Bots |-> FALSE]
                   ELSE [c \in Bots |-> calm[c] /\ c = b]
    BY <1>1
  <2>3. QED
    BY <2>1, <2>2
<1>2. CASE ~Acquires(b)
  <2>1. UNCHANGED <<owner, count, calm>>
    BY <1>2
  <2>2. QED
    BY <1>2, <2>1
<1>3. QED
  BY <1>1, <1>2

LEMMA MutexFirstWait ==
  ASSUME MutexInv, NEW b \in Bots, FirstWait(b)
  PROVE  MutexInv'
<1> USE DEF MutexInv
<1>1. /\ pc[b] = "wait1" /\ WaitForSingleObject(b)
      /\ UNCHANGED <<h, searching, keys>>
      /\ h[b] = n[b] /\ h[b] \in Sides
  BY DEF FirstWait, Handles, TypeOK
<1>2. \/ /\ Succeeds(b) /\ pc' = [pc EXCEPT ![b] = "keys"] /\ UNCHANGED <<ini, n>>
      \/ /\ ~Succeeds(b) /\ pc' = [pc EXCEPT ![b] = "close1"]
         /\ n' = [n EXCEPT ![b] = Other(n[b])]
         /\ \E i : ini' = [ini EXCEPT ![b] = i]
  BY DEF FirstWait, Goto
<1>3. TypeOK'
  BY <1>1, <1>2, WaitTakesFree, OtherInSides DEF TypeOK, Steps
<1>4. Handles'
  BY <1>1, <1>2 DEF Handles, TypeOK
<1>5. Owns'
  <2> SUFFICES ASSUME NEW c \in Bots, pc'[c] \in {"keys", "run"} PROVE owner'[h[c]] = c
    BY <1>1 DEF Owns
  <2>1. CASE c = b
    BY <1>1, <1>2, <2>1, WaitTakesFree DEF TypeOK
  <2>2. CASE c # b
    <3>1. owner[h[c]] = c /\ h[c] \in Sides
      BY <1>2, <2>2 DEF Owns, Handles, TypeOK
    <3>2. QED
      BY <1>1, <3>1, WaitTakesFree
  <2>3. QED
    BY <2>1, <2>2
<1>6. FirstTaken'
  <2> SUFFICES ASSUME NEW c \in Bots, pc'[c] \in {"close1", "create2", "wait2"}, calm'[c]
               PROVE  owner'[Other(n'[c])] \in Bots \ {c}
    BY DEF FirstTaken
  <2>1. CASE c = b
    <3>1. ~Succeeds(b) /\ n'[b] = Other(n[b]) /\ Other(n'[b]) = h[b]
      BY <1>1, <1>2, <2>1, OtherInSides DEF TypeOK
    <3>2. owner[h[b]] \in Bots \ {b}
      BY <1>1, <2>1, <3>1, WaitTakesFree
    <3>3. QED
      BY <1>1, <2>1, <3>1, <3>2, WaitTakesFree
  <2>2. CASE c # b
    <3>1. pc[c] = pc'[c] /\ n'[c] = n[c] /\ calm[c] /\ owner' = owner
      BY <1>1, <1>2, <2>2, WaitTakesFree DEF TypeOK
    <3>2. QED
      BY <3>1 DEF FirstTaken
  <2>3. QED
    BY <2>1, <2>2
<1>7. QED
  BY <1>3, <1>4, <1>5, <1>6

LEMMA MutexEnd ==
  ASSUME MutexInv, NEW b \in Bots, EndOf(b)
  PROVE  MutexInv'
<1> USE DEF MutexInv, EndOf, Disturb
<1>1. /\ pc' = [pc EXCEPT ![b] = "off"] /\ h' = [h EXCEPT ![b] = None]
      /\ ini' = [ini EXCEPT ![b] = EmptyStore] /\ n' = [n EXCEPT ![b] = 1]
      /\ keys' = [keys EXCEPT ![b] = None] /\ searching' = [searching EXCEPT ![b] = FALSE]
      /\ calm' = [c \in Bots |-> calm[c] /\ c = b]
  OBVIOUS
<1>2. \A m \in Sides :
        owner'[m] = IF h[b] = m /\ ~(\E c \in Bots \ {b} : h[c] = m) THEN Nobody
                    ELSE IF owner[m] = b THEN Abandoned ELSE owner[m]
  OBVIOUS
<1>3. TypeOK'
  <2>1. owner' \in [Sides -> Bots \cup {Nobody, Abandoned}] /\ DOMAIN count' = Sides
    BY DEF TypeOK
  <2>2. QED
    BY <1>1, <2>1 DEF TypeOK, Steps, Sides
<1> HIDE DEF EndOf
<1>4. Handles'
  BY <1>1 DEF Handles, TypeOK
<1>5. Owns'
  <2> SUFFICES ASSUME NEW c \in Bots, pc'[c] \in {"keys", "run"} PROVE owner'[h'[c]] = c
    BY DEF Owns
  <2>1. c # b /\ pc[c] = pc'[c] /\ h'[c] = h[c]
    BY <1>1 DEF TypeOK
  <2>2. owner[h[c]] = c /\ h[c] \in Sides
    BY <2>1 DEF Owns, Handles
  <2>3. QED
    BY <1>2, <2>1, <2>2
<1>6. FirstTaken'
  BY <1>1 DEF FirstTaken, TypeOK
<1>7. QED
  BY <1>3, <1>4, <1>5, <1>6

LEMMA MutexSecondWait ==
  ASSUME MutexInv, NEW b \in Bots, SecondWait(b)
  PROVE  MutexInv'
<1>1. CASE ~Succeeds(b)
  BY <1>1, MutexEnd DEF SecondWait
<1>2. CASE Succeeds(b)
  <2> USE DEF MutexInv
  <2>1. /\ pc[b] = "wait2" /\ WaitForSingleObject(b) /\ pc' = [pc EXCEPT ![b] = "keys"]
        /\ UNCHANGED <<ini, n, h, searching, keys>>
        /\ h[b] \in Sides
    BY <1>2 DEF SecondWait, Goto, Handles, TypeOK
  <2>2. TypeOK'
    BY <2>1, WaitTakesFree DEF TypeOK, Steps
  <2>3. Handles'
    BY <2>1 DEF Handles, TypeOK
  <2>4. Owns'
    <3> SUFFICES ASSUME NEW c \in Bots, pc'[c] \in {"keys", "run"} PROVE owner'[h[c]] = c
      BY <2>1 DEF Owns
    <3>1. CASE c = b
      BY <1>2, <2>1, <3>1, WaitTakesFree
    <3>2. CASE c # b
      <4>1. owner[h[c]] = c /\ h[c] \in Sides
        BY <2>1, <3>2 DEF Owns, Handles, TypeOK
      <4>2. QED
        BY <2>1, <4>1, WaitTakesFree
    <3>3. QED
      BY <3>1, <3>2
  <2>5. FirstTaken'
    BY <2>1, WaitTakesFree DEF FirstTaken, TypeOK
  <2>6. QED
    BY <2>2, <2>3, <2>4, <2>5
<1>3. QED
  BY <1>1, <1>2

LEMMA MutexNext == MutexInv /\ [Next]_vars => MutexInv'
<1> SUFFICES ASSUME MutexInv, [Next]_vars PROVE MutexInv'
  OBVIOUS
<1>1. ASSUME NEW b \in Bots, Start(b) \/ Exit(b) \/ search_key_map(b) PROVE MutexInv'
  BY <1>1, MutexStart, MutexEnd, MutexMap DEF Exit
<1>2. ASSUME NEW b \in Bots, NEW side \in Sides, search_key(b, side) PROVE MutexInv'
  BY <1>2, MutexSearchKey
<1>3. ASSUME NEW b \in Bots, change_player(b) PROVE MutexInv'
  BY <1>3, MutexRelease, MutexClose, MutexCreate, MutexFirstWait, MutexSecondWait
     DEF change_player
<1>4. ASSUME UNCHANGED vars PROVE MutexInv'
  BY <1>4 DEF vars, mutexes, MutexInv, TypeOK, Handles, Owns, FirstTaken
<1>5. QED
  BY <1>1, <1>2, <1>3, <1>4 DEF Next

\* Every mutex step leaves a mutex with one owner, a bot, Nobody or Abandoned,
\* and a bot that plays with a handle to a mutex it owns, whatever dev.ini says.
THEOREM MutexSafe == Spec => []MutexInv
BY MutexInit, MutexNext, PTL DEF Spec

\* A bot gives up (exit(0) in change_player, main.cpp:501) only when it found both
\* sides taken by other bots or left locked by dead ones.
THEOREM GivesUp == Spec => []GivesUpOnlyWhenFull
<1>1. MutexInv => GivesUpOnlyWhenFull
  <2> SUFFICES ASSUME MutexInv, NEW b \in Bots, pc[b] = "wait2", ~Succeeds(b), calm[b],
                      NEW m \in Sides
               PROVE  owner[m] \in (Bots \ {b}) \cup {Abandoned}
    BY DEF GivesUpOnlyWhenFull
  <2>1. h[b] = n[b] /\ n[b] \in Sides
    BY DEF MutexInv, Handles, TypeOK
  <2>2. owner[h[b]] \in (Bots \ {b}) \cup {Abandoned}
    BY <2>1 DEF Succeeds, MutexInv, TypeOK
  <2>3. owner[Other(n[b])] \in Bots \ {b}
    BY DEF MutexInv, FirstTaken
  <2>4. m = n[b] \/ m = Other(n[b])
    BY <2>1 DEF Sides, Other
  <2>5. QED
    BY <2>1, <2>2, <2>3, <2>4
<1>2. QED
  BY <1>1, MutexSafe, PTL

-----------------------------------------------------------------------------
(* With no dev.ini that sets Player, the setting is always the one of the     *)
(* section "Option", which change_player and search_key write.                *)

OneSetting(v) ==
  << [name |-> "default", params |-> [k \in {"Player"} |-> 1]],
     [name |-> "Option", params |-> [k \in {"Player"} |-> v]] >>

LEMMA AppendToOne == \A a, b : Append(<<a>>, b) = <<a, b>>
<1> SUFFICES ASSUME NEW a, NEW b PROVE Append(<<a>>, b) = <<a, b>>
  OBVIOUS
<1>1. <<a>> \in Seq({a, b}) /\ <<a, b>> \in Seq({a, b})
  OBVIOUS
<1>2. Len(<<a>>) = 1 /\ Len(<<a, b>>) = 2 /\ <<a>>[1] = a /\ <<a, b>>[1] = a /\ <<a, b>>[2] = b
  OBVIOUS
<1>3. /\ Append(<<a>>, b) \in Seq({a, b}) /\ Len(Append(<<a>>, b)) = 2
      /\ Append(<<a>>, b)[1] = a /\ Append(<<a>>, b)[2] = b
  BY <1>1, <1>2, AppendProperties
<1>4. \A i \in 1..2 : Append(<<a>>, b)[i] = <<a, b>>[i]
  BY <1>2, <1>3
<1>5. QED
  BY <1>1, <1>2, <1>3, <1>4, SeqEqual

LEMMA LoadedIsOneSetting == \A v : Loaded(v, 0) = OneSetting(v)
<1> SUFFICES ASSUME NEW v PROVE Loaded(v, 0) = OneSetting(v)
  OBVIOUS
<1> DEFINE default == [name |-> "default", params |-> [k \in {"Player"} |-> 1]]
           option == [name |-> "Option", params |-> [k \in {"Player"} |-> v]]
<1>1. Add(EmptyStore, "default", "Player", 1) = <<default>>
  BY DEF Add, EmptyStore, Section
<1>2. DOMAIN <<default>> = {1} /\ <<default>>[1].name = "default"
  OBVIOUS
<1>3. ~ \E s \in DOMAIN <<default>> : <<default>>[s].name = "Option"
  BY <1>2
<1>4. Add(<<default>>, "Option", "Player", v)
        = Append(<<default>>, Section("Option", "Player", v))
  BY <1>3 DEF Add
<1>5. Append(<<default>>, option) = <<default, option>> /\ Section("Option", "Player", v) = option
  BY AppendToOne DEF Section
<1>6. QED
  BY <1>1, <1>4, <1>5 DEF Loaded, OneSetting

LEMMA AddToOneSetting == \A v, w : Add(OneSetting(v), "Option", "Player", w) = OneSetting(w)
<1> SUFFICES ASSUME NEW v, NEW w PROVE Add(OneSetting(v), "Option", "Player", w) = OneSetting(w)
  OBVIOUS
<1>1. /\ DOMAIN OneSetting(v) = {1, 2}
      /\ OneSetting(v)[1].name = "default" /\ OneSetting(v)[2].name = "Option"
      /\ OneSetting(v)[1] = OneSetting(w)[1] /\ OneSetting(v)[2].params = [k \in {"Player"} |-> v]
      /\ OneSetting(w)[2] = [name |-> "Option", params |-> [k \in {"Player"} |-> w]]
  BY DEF OneSetting
<1> DEFINE result == [s \in {1, 2} |-> OneSetting(w)[s]]
<1>2. Add(OneSetting(v), "Option", "Player", w) = result
  BY <1>1 DEF Add
<1>3. result = OneSetting(w)
  BY DEF OneSetting
<1>4. QED
  BY <1>2, <1>3

LEMMA SearchOneSetting == \A v : Search(OneSetting(v), "Player") = v
<1> SUFFICES ASSUME NEW v PROVE Search(OneSetting(v), "Player") = v
  OBVIOUS
<1>1. /\ DOMAIN OneSetting(v) = {1, 2}
      /\ \A s \in {1, 2} : DOMAIN OneSetting(v)[s].params = {"Player"}
      /\ OneSetting(v)[2].params["Player"] = v
  BY DEF OneSetting
<1> DEFINE last(s) ==
      /\ "Player" \in DOMAIN OneSetting(v)[s].params
      /\ \A r \in DOMAIN OneSetting(v) : "Player" \in DOMAIN OneSetting(v)[r].params => r <= s
<1>2. (CHOOSE s \in DOMAIN OneSetting(v) : last(s)) = 2
  BY <1>1
<1>3. QED
  BY <1>1, <1>2 DEF Search

\* A bot's store, what change_player's n is, and, while it plays, the side it took
\* and the keys it uses.
Asks(b) ==
  /\ \E v : ini[b] = OneSetting(v)
  /\ n[b] = Player(b)
  /\ pc[b] \in {"keys", "run"} => h[b] = n[b]
  /\ pc[b] = "run" => keys[b] \in {None, Player(b)}

AsksForItsSetting == \A b \in Bots : pc[b] # "off" => Asks(b)

SettingInv == MutexInv /\ AsksForItsSetting

LEMMA SettingInit == Init => SettingInv
BY MutexInit DEF SettingInv, AsksForItsSetting, Init

LEMMA OtherIsSide == \A m \in Sides : Side(Other(m)) = Other(m) /\ Side(m) = m
  BY DEF Side, Other, Sides

LEMMA SearchAfterAdd ==
  ASSUME NEW store, NEW v, store = OneSetting(v), NEW w
  PROVE  /\ Add(store, "Option", "Player", w) = OneSetting(w)
         /\ Search(Add(store, "Option", "Player", w), "Player") = w
BY AddToOneSetting, SearchOneSetting

\* What a step of b does to what b asks for.
LEMMA StepAsks ==
  ASSUME NoOverride, SettingInv, NEW b \in Bots,
         \/ Start(b) \/ Exit(b) \/ search_key_map(b) \/ change_player(b)
         \/ \E side \in Sides : search_key(b, side)
  PROVE  pc'[b] # "off" => Asks(b)'
<1> SUFFICES ASSUME pc'[b] # "off" PROVE Asks(b)'
  OBVIOUS
<1> USE DEF Goto
<1>0. TypeOK /\ Handles /\ (pc[b] # "off" => Asks(b))
  BY DEF SettingInv, MutexInv, AsksForItsSetting
<1>1. CASE Start(b)
  <2>1. PICK setting \in Settings, override \in Overrides :
          /\ ini' = [ini EXCEPT ![b] = Loaded(setting, override)]
          /\ n' = [n EXCEPT ![b] = Side(Search(ini'[b], "Player"))]
    BY <1>1 DEF Start
  <2>2. ini'[b] = OneSetting(setting) /\ n'[b] = Side(Search(ini'[b], "Player"))
    BY <1>0, <2>1, LoadedIsOneSetting DEF NoOverride, TypeOK
  <2>3. pc'[b] = "create1"
    BY <1>0, <1>1 DEF Start, TypeOK
  <2>4. QED
    BY <2>2, <2>3 DEF Asks, Player
<1>2. CASE Exit(b)
  <2>1. pc'[b] = "off"
    BY <1>0, <1>2 DEF Exit, EndOf, TypeOK
  <2>2. QED
    BY <2>1
<1>3. CASE search_key_map(b)
  <2>1. pc[b] = "keys" /\ pc'[b] = "run" /\ UNCHANGED <<ini, n, h>>
    BY <1>0, <1>3 DEF search_key_map, TypeOK
  <2>2. keys'[b] \in {None, Player(b)}
    BY <1>0, <1>3 DEF search_key_map, TypeOK
  <2>3. QED
    BY <1>0, <2>1, <2>2 DEF Asks, Player
<1>4. ASSUME NEW side \in Sides, search_key(b, side) PROVE Asks(b)'
  <2>1. PICK v : ini[b] = OneSetting(v)
    BY <1>0, <1>4 DEF search_key, Asks
  <2>2. CASE side = Player(b)
    <3>1. pc'[b] = "keys" /\ pc[b] = "run" /\ UNCHANGED <<ini, n, h, keys>>
      BY <1>0, <1>4, <2>2 DEF search_key, TypeOK
    <3>2. QED
      BY <1>0, <3>1 DEF Asks, Player
  <2>3. CASE side # Player(b)
    <3>1. /\ pc'[b] = "release"
          /\ ini'[b] = Add(ini[b], "Option", "Player", side)
          /\ n'[b] = Side(Search(ini'[b], "Player"))
      BY <1>0, <1>4, <2>3 DEF search_key, TypeOK
    <3>2. ini'[b] = OneSetting(side)
      BY <2>1, <3>1, SearchAfterAdd
    <3>3. QED
      BY <3>1, <3>2 DEF Asks, Player
  <2>4. QED
    BY <2>2, <2>3
<1>5. CASE ReleaseMutex(b) \/ CloseHandle(b, "close", "create1")
           \/ CloseHandle(b, "close1", "create2")
           \/ CreateMutex(b, "create1", "wait1") \/ CreateMutex(b, "create2", "wait2")
  <2>1. pc[b] # "off" /\ pc'[b] \notin {"keys", "run"} /\ UNCHANGED <<ini, n>>
    BY <1>0, <1>5 DEF ReleaseMutex, CloseHandle, CreateMutex, TypeOK
  <2>2. QED
    BY <1>0, <2>1 DEF Asks, Player
<1>6. CASE FirstWait(b)
  <2>1. pc[b] = "wait1" /\ h[b] = n[b] /\ UNCHANGED h
    BY <1>0, <1>6 DEF FirstWait, Handles
  <2>2. CASE Succeeds(b)
    <3>1. pc'[b] = "keys" /\ UNCHANGED <<ini, n>>
      BY <1>0, <1>6, <2>2 DEF FirstWait, TypeOK
    <3>2. QED
      BY <1>0, <2>1, <3>1 DEF Asks, Player
  <2>3. CASE ~Succeeds(b)
    <3>1. /\ pc'[b] = "close1" /\ n'[b] = Other(n[b])
          /\ ini'[b] = Add(ini[b], "Option", "Player", Other(n[b]))
      BY <1>0, <1>6, <2>3 DEF FirstWait, TypeOK
    <3>2. PICK v : ini[b] = OneSetting(v)
      BY <1>0, <2>1 DEF Asks
    <3>3. ini'[b] = OneSetting(Other(n[b])) /\ Search(ini'[b], "Player") = Other(n[b])
      BY <3>1, <3>2, SearchAfterAdd
    <3>4. Side(Other(n[b])) = Other(n[b])
      BY <1>0, OtherIsSide DEF TypeOK
    <3>5. QED
      BY <3>1, <3>3, <3>4 DEF Asks, Player
  <2>4. QED
    BY <2>2, <2>3
<1>7. CASE SecondWait(b)
  <2>1. Succeeds(b)
    BY <1>0, <1>7 DEF SecondWait, EndOf, TypeOK
  <2>2. /\ pc[b] = "wait2" /\ h[b] = n[b] /\ pc'[b] = "keys"
        /\ UNCHANGED <<ini, n, h>>
    BY <1>0, <1>7, <2>1 DEF SecondWait, Handles, TypeOK
  <2>3. QED
    BY <1>0, <2>2 DEF Asks, Player
<1>8. QED
  BY <1>1, <1>2, <1>3, <1>4, <1>5, <1>6, <1>7 DEF change_player

\* A step of b leaves what the other bots ask for as it is.
LEMMA OthersAsk ==
  ASSUME TypeOK, NEW b \in Bots, NEW c \in Bots, c # b, Asks(c),
         \/ Start(b) \/ Exit(b) \/ search_key_map(b) \/ change_player(b)
         \/ \E side \in Sides : search_key(b, side)
  PROVE  pc'[c] = pc[c] /\ Asks(c)'
<1> DEFINE same == /\ pc'[c] = pc[c] /\ ini'[c] = ini[c] /\ n'[c] = n[c]
                   /\ h'[c] = h[c] /\ keys'[c] = keys[c]
<1> USE DEF TypeOK, Goto
<1>1. CASE Start(b) \/ search_key_map(b)
  <2>1. same
    BY <1>1 DEF Start, search_key_map
  <2>2. QED
    BY <2>1 DEF Asks, Player
<1>2. CASE Exit(b) \/ SecondWait(b)
  <2>1. same
    BY <1>2 DEF Exit, SecondWait, EndOf
  <2>2. QED
    BY <2>1 DEF Asks, Player
<1>3. CASE ReleaseMutex(b) \/ CloseHandle(b, "close", "create1")
           \/ CloseHandle(b, "close1", "create2")
           \/ CreateMutex(b, "create1", "wait1") \/ CreateMutex(b, "create2", "wait2")
  <2>1. same
    BY <1>3 DEF ReleaseMutex, CloseHandle, CreateMutex
  <2>2. QED
    BY <2>1 DEF Asks, Player
<1>4. CASE FirstWait(b) \/ \E side \in Sides : search_key(b, side)
  <2>1. same
    BY <1>4 DEF FirstWait, search_key
  <2>2. QED
    BY <2>1 DEF Asks, Player
<1>5. QED
  BY <1>1, <1>2, <1>3, <1>4 DEF change_player

LEMMA SettingNext ==
  ASSUME NoOverride, SettingInv, [Next]_vars
  PROVE  SettingInv'
<1>1. MutexInv'
  BY MutexNext DEF SettingInv
<1>2. ASSUME NEW b \in Bots,
             \/ Start(b) \/ Exit(b) \/ search_key_map(b) \/ change_player(b)
             \/ \E side \in Sides : search_key(b, side)
      PROVE  AsksForItsSetting'
  <2> SUFFICES ASSUME NEW c \in Bots, pc'[c] # "off" PROVE Asks(c)'
    BY DEF AsksForItsSetting
  <2>1. CASE c = b
    BY <1>2, <2>1, StepAsks
  <2>2. CASE c # b /\ pc[c] # "off"
    BY <1>2, <2>2, OthersAsk DEF SettingInv, MutexInv, AsksForItsSetting
  <2>3. CASE c # b /\ pc[c] = "off"
    <3>1. pc'[c] = pc[c]
      BY <1>2, <2>3 DEF SettingInv, MutexInv, TypeOK, Goto, Start, Exit, EndOf, search_key_map,
         search_key, change_player, ReleaseMutex, CloseHandle, CreateMutex, FirstWait, SecondWait
    <3>2. QED
      BY <2>3, <3>1
  <2>4. QED
    BY <2>1, <2>2, <2>3
<1>3. ASSUME UNCHANGED vars PROVE AsksForItsSetting'
  BY <1>3 DEF vars, mutexes, SettingInv, AsksForItsSetting, Asks, Player
<1>4. QED
  BY <1>1, <1>2, <1>3 DEF SettingInv, Next

\* With no dev.ini that sets Player: every bot has the side of its settings as the one
\* change_player last tried, between any two Win32 calls of any of them.
THEOREM SettingsAgree == ASSUME NoOverride PROVE Spec => []SettingInv
<1>1. SettingInv /\ [Next]_vars => SettingInv'
  BY SettingNext
<1>2. QED
  BY <1>1, SettingInit, PTL DEF Spec

LEMMA OwnSide == SettingInv => PlaysItsOwnSide
BY DEF SettingInv, MutexInv, Owns, AsksForItsSetting, Asks, PlaysItsOwnSide, Runs

\* With no dev.ini that sets Player, a bot that plays owns the mutex of the side in its
\* settings and presses that side's keys (change_player and search_key, main.cpp).
THEOREM OwnSideAlways == ASSUME NoOverride PROVE Spec => []PlaysItsOwnSide
BY SettingsAgree, OwnSide, PTL

\* With no dev.ini that sets Player, no two bots ever play the same side: the mutex of
\* one's side is the other's too, and has one owner.
THEOREM NeverTheSameSide == ASSUME NoOverride PROVE Spec => []OneBotPerSide
<1>1. SettingInv => OneBotPerSide
  BY OwnSide DEF OneBotPerSide, PlaysItsOwnSide
<1>2. QED
  BY <1>1, SettingsAgree, PTL
=============================================================================
