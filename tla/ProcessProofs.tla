----------------------------- MODULE ProcessProofs -----------------------------
(***************************************************************************)
(* Proofs about the three loops of MCProcess.                              *)
(*                                                                         *)
(* How the game is found (GameProcess), for every set of addresses and     *)
(* every number of suspended searches.  AddressesOfTheGame is not          *)
(* inductive: a search could find a game with the list filled for another  *)
(* one.  What excludes this is that the list is empty as long as a search  *)
(* goes on (EmptyWhileSearching), that outside of one it is filled for the *)
(* type of the game found last (FilledForType), and that whoever leaves a  *)
(* search other than by finding a game has no handle (SearchesWithout), so *)
(* that the next thing it does is to begin a search anew, with an empty    *)
(* list.                                                                   *)
(*                                                                         *)
(* The wait for frames and battles (FrameLoop), for every set of keys and  *)
(* every number of queued events: which keys can be held where yield() is. *)
(*                                                                         *)
(* The turns of the script's threads (ScriptThreads), for any number of    *)
(* them: which ones have had their turn, by their place in the list.       *)
(***************************************************************************)
EXTENDS MCProcess, Sequences, TLAPS

Searching == pc \in {"soku", "swr", "keys", "start"}

\* While a search goes on no address is known.
EmptyWhileSearching == Searching /\ ~resumed => \A a \in Addresses : list[a] = None

\* With a handle, of a running game or not, the list holds addresses of its type.
FilledForType == pc = "run" /\ ph # None /\ ~resumed => \A a \in Addresses : list[a] \in {None, type}

\* After the first window was not found there is no handle; F12 and F11 are
\* looked at then.
SearchesWithout == pc \in {"swr", "keys"} => ph = None

\* A live handle is of the game whose type is set.
TypeOfHandle == pc = "run" /\ ph \in Games => type = ph

IInv ==
  /\ TypeOK /\ EmptyWhileSearching /\ FilledForType /\ SearchesWithout /\ TypeOfHandle
  /\ OneHandle

-----------------------------------------------------------------------------
LEMMA InitInv == Init => IInv
<1> SUFFICES ASSUME Init PROVE IInv
  OBVIOUS
<1>1. pc = "run" /\ ph = None
  BY DEF Init
<1>2. TypeOK
  <2>1. /\ is_first_run \in BOOLEAN /\ resumed \in BOOLEAN
        /\ is_first_run => data_ph = None
    BY DEF Init
  <2>2. list \in [Addresses -> Games \cup {None}]
    BY DEF Init
  <2>3. outer \in 0 .. MaxOuter
    BY MaxOuterAssumption DEF Init
  <2>4. /\ running \subseteq Games /\ AppDownExit \in {0, 1}
        /\ pc = "run" /\ ph = None /\ data_ph = None /\ type = None
    BY DEF Init
  <2>5. QED
    BY <2>1, <2>2, <2>3, <2>4 DEF TypeOK
<1>3. QED
  BY <1>1, <1>2
  DEF IInv, EmptyWhileSearching, FilledForType, SearchesWithout, TypeOfHandle, OneHandle,
      Searching, Games, None

\* Types alone.
LEMMA TypeStep == TypeOK /\ [Next]_vars => TypeOK'
<1> SUFFICES ASSUME TypeOK, [Next]_vars PROVE TypeOK'
  OBVIOUS
<1> USE AddressAssumption, MaxOuterAssumption DEF TypeOK, Games, None, Dead
<1>1. CASE Game
  <2>1. running' \subseteq Games
    BY <1>1 DEF Game, Start, Close
  <2>2. /\ ph' \in {ph, Dead} /\ data_ph' \in {data_ph, Dead}
        /\ data_ph = None => data_ph' = None
    BY <1>1 DEF Game, Start, Close
  <2>3. UNCHANGED <<pc, type, list, outer, is_first_run, AppDownExit, resumed>>
    BY <1>1 DEF Game, flags
  <2>4. QED
    BY <2>1, <2>2, <2>3
<1>2. CASE Search
  BY <1>2 DEF Search, Find, Found
<1>3. CASE AutoStart
  <2>1. is_first_run' \in BOOLEAN /\ (is_first_run' => is_first_run)
    <3>1. is_first_run' \in {is_first_run, FALSE}
      BY <1>3 DEF AutoStart
    <3>2. CASE is_first_run' = is_first_run
      BY <3>2
    <3>3. CASE is_first_run' = FALSE
      BY <3>3
    <3>4. QED
      BY <3>1, <3>2, <3>3, Zenon
  <2>2. pc' = "soku" /\ UNCHANGED <<running, ph, data_ph, type, list, AppDownExit, outer, resumed>>
    BY <1>3 DEF AutoStart, handles
  <2>3. QED
    BY <2>1, <2>2
<1>4. CASE NoKey
  BY <1>4 DEF NoKey, handles, flags
<1>5. CASE yield
  BY <1>5 DEF yield, GetProcessHandle, handles, flags
<1>6. CASE check_th105
  BY <1>6 DEF check_th105, GetProcessHandle, LookUp, handles, flags
<1>7. CASE PressF12
  BY <1>7 DEF PressF12, LookUp, handles, flags
<1>8. CASE PressF11
  <2>1. outer' \in 0 .. MaxOuter
    BY <1>8 DEF PressF11
  <2>2. QED
    BY <1>8, <2>1 DEF PressF11, handles, flags
<1>9. CASE ScriptEnds
  <2>1. outer' \in 0 .. MaxOuter
    BY <1>9 DEF ScriptEnds
  <2>2. resumed' \in BOOLEAN /\ pc' \in {"start", "ended"}
    BY <1>9 DEF ScriptEnds
  <2>3. UNCHANGED <<running, ph, data_ph, type, list, is_first_run, AppDownExit>>
    BY <1>9 DEF ScriptEnds, handles
  <2>4. QED
    BY <2>1, <2>2, <2>3
<1>10. CASE UNCHANGED vars
  BY <1>10 DEF vars
<1>11. QED
  BY <1>1, <1>2, <1>3, <1>4, <1>5, <1>6, <1>7, <1>8, <1>9, <1>10 DEF Next, Bot

\* The games' own steps touch neither the list nor where the bot is.
LEMMA GameStep == IInv /\ Game => IInv'
<1> SUFFICES ASSUME IInv, Game PROVE IInv'
  OBVIOUS
<1>1. TypeOK'
  BY TypeStep DEF IInv, Next
<1>2. UNCHANGED <<pc, type, list, resumed>>
  BY DEF Game, flags
<1>3. /\ ph' = None <=> ph = None
      /\ ph' \in Games => ph' = ph
      /\ data_ph = ph => data_ph' = ph'
  BY DEF Game, Start, Close, Games, None, Dead, IInv, TypeOK
<1>4. QED
  BY <1>1, <1>2, <1>3
  DEF IInv, EmptyWhileSearching, FilledForType, SearchesWithout, TypeOfHandle, OneHandle,
      Searching

\* The beginning of a search empties the list, or the bot ends.
LEMMA Calls ==
  ASSUME IInv, GetProcessHandle, UNCHANGED <<running, handles, outer, flags>>, TypeOK'
  PROVE  IInv'
<1>1. \/ pc' = "ended"
      \/ pc' = "soku" /\ \A a \in Addresses : list'[a] = None
  BY DEF GetProcessHandle
<1>2. QED
  BY <1>1
  DEF IInv, EmptyWhileSearching, FilledForType, SearchesWithout, TypeOfHandle, OneHandle,
      Searching, handles, flags

\* An address looked up belongs to the type set.
LEMMA LookUpFacts ==
  ASSUME TypeOK, NEW a \in Addresses, LookUp(a)
  PROVE  \A b \in Addresses : list'[b] = list[b] \/ list'[b] = type
BY DEF LookUp, TypeOK

LEMMA StepInv == IInv /\ [Next]_vars => IInv'
<1> SUFFICES ASSUME IInv, [Next]_vars PROVE IInv'
  OBVIOUS
<1>0. TypeOK /\ TypeOK'
  BY TypeStep DEF IInv
<1>1. CASE Game
  BY <1>1, GameStep
<1>2. CASE Search
  <2>1. UNCHANGED <<list, resumed>>
    BY <1>2 DEF Search
  <2>2. ASSUME NEW g \in Games, Found(g), Searching PROVE IInv'
    BY <1>0, <2>1, <2>2
    DEF Found, IInv, EmptyWhileSearching, FilledForType, SearchesWithout, TypeOfHandle,
        OneHandle, Searching, Games, None
  <2>3. ASSUME NEW other \in {"swr", "keys"}, ph' = None, pc' = other, UNCHANGED type, Searching
        PROVE  IInv'
    BY <1>0, <2>1, <2>3
    DEF IInv, EmptyWhileSearching, FilledForType, SearchesWithout, TypeOfHandle, OneHandle,
        Searching, Games, None
  <2>4. CASE pc = "soku" /\ Find("soku", "swr")
    BY <2>2, <2>3, <2>4 DEF Find, Games, Searching
  <2>5. CASE pc = "swr" /\ Find("swr", "keys")
    BY <2>2, <2>3, <2>5 DEF Find, Games, Searching
  <2>6. QED
    BY <1>2, <2>4, <2>5 DEF Search
<1>3. CASE AutoStart
  BY <1>0, <1>3
  DEF AutoStart, handles, IInv, EmptyWhileSearching, FilledForType, SearchesWithout,
      TypeOfHandle, OneHandle, Searching
<1>4. CASE NoKey
  BY <1>0, <1>4
  DEF NoKey, handles, flags, IInv, EmptyWhileSearching, FilledForType, SearchesWithout,
      TypeOfHandle, OneHandle, Searching
<1>5. CASE yield
  BY <1>0, <1>5, Calls DEF yield
<1>6. CASE check_th105
  <2>1. CASE ph = Dead
    BY <1>0, <1>6, <2>1, Calls DEF check_th105
  <2>2. CASE ph # Dead
    <3>1. /\ pc = "run" /\ ph # None /\ UNCHANGED <<pc, handles, flags>>
          /\ \E a \in Addresses : LookUp(a)
      BY <1>6, <2>2 DEF check_th105
    <3>2. \A b \in Addresses : list'[b] = list[b] \/ list'[b] = type
      BY <1>0, <3>1, LookUpFacts
    <3>3. QED
      BY <1>0, <3>1, <3>2
      DEF handles, flags, IInv, EmptyWhileSearching, FilledForType, SearchesWithout,
          TypeOfHandle, OneHandle, Searching
  <2>3. QED
    BY <2>1, <2>2
<1>7. CASE PressF12
  <2>1. \A b \in Addresses : list'[b] = list[b] \/ list'[b] = type
    BY <1>0, <1>7, LookUpFacts, AddressAssumption DEF PressF12
  <2>2. /\ pc \in {"keys", "run"} /\ pc' \in {"run", "ended"} /\ UNCHANGED <<handles, flags>>
        /\ pc = "keys" => ph = None
    BY <1>7 DEF PressF12, IInv, SearchesWithout
  <2>3. QED
    BY <1>0, <2>1, <2>2
    DEF handles, flags, IInv, EmptyWhileSearching, FilledForType, SearchesWithout,
        TypeOfHandle, OneHandle, Searching, Games, None
<1>8. CASE PressF11
  <2>1. /\ pc' \in {"run", "ended"} /\ ph = None /\ UNCHANGED <<handles, list, flags>>
    BY <1>8 DEF PressF11, IInv, SearchesWithout
  <2>2. QED
    BY <1>0, <2>1
    DEF handles, flags, IInv, EmptyWhileSearching, FilledForType, SearchesWithout,
        TypeOfHandle, OneHandle, Searching, Games, None
<1>9. CASE ScriptEnds
  BY <1>0, <1>9
  DEF ScriptEnds, handles, IInv, EmptyWhileSearching, FilledForType, SearchesWithout,
      TypeOfHandle, OneHandle, Searching
<1>10. CASE UNCHANGED vars
  BY <1>0, <1>10
  DEF vars, IInv, EmptyWhileSearching, FilledForType, SearchesWithout, TypeOfHandle,
      OneHandle, Searching
<1>11. QED
  BY <1>1, <1>2, <1>3, <1>4, <1>5, <1>6, <1>7, <1>8, <1>9, <1>10 DEF Next, Bot

LEMMA Invariance == Spec => []IInv
BY InitInv, StepInv, PTL DEF Spec

-----------------------------------------------------------------------------
\* No address of one game is used on the other, however many entries the list has
\* and however deeply searches are nested.
THEOREM AddressesCorrect == Spec => []AddressesOfTheGame
<1>1. IInv => AddressesOfTheGame
  BY DEF IInv, FilledForType, TypeOfHandle, AddressesOfTheGame, Games, None
<1>2. QED
  BY <1>1, Invariance, PTL

\* The characters are read through the handle the scene is read through.
THEOREM HandlesAgree == Spec => []OneHandle
<1>1. IInv => OneHandle
  BY DEF IInv
<1>2. QED
  BY <1>1, Invariance, PTL

-----------------------------------------------------------------------------
(* The keys held when a battle begins.                                         *)

Events == [key : Keys, down : BOOLEAN]

FrameType ==
  /\ on \subseteq Keys /\ held \subseteq Keys /\ pending \in Seq(Events)
  /\ skips \in BOOLEAN /\ moved \in BOOLEAN /\ scene \in F!Scenes /\ seen \in F!Scenes

\* The events that are left turn the keys pressed into those the script holds.
EventsLead == F!After(held, pending) = on

InBattle == seen = "battle" /\ mode = "battle"

\* A battle is not read right after a scene without keys, but for the first.
BattleAfterMenu ==
  scene = "battle" /\ seen = "other" => F!NothingPressed /\ yield_pc # "script"

\* The clock of a battle has moved, and the wait for the next frame is over at once.
MovedInBattle ==
  moved /\ ~skips /\ yield_pc \in {"script", "active", "wait", "scene", "first", "last"}
    => InBattle \/ (F!NothingPressed /\ yield_pc # "script")

\* With keys pressed yield gets only as far as the battle they are for goes on, ...
SentInBattle ==
  ~skips /\ yield_pc \in {"send", "scene"} /\ ~F!NothingPressed => InBattle

\* ... or, in the wait for the first frame, until a menu is seen.
SyncNotInMenu ==
  ~skips /\ yield_pc = "sync" /\ ~F!NothingPressed => seen = mode /\ seen # "menu"

FrameInv ==
  /\ FrameType /\ EventsLead /\ BattleAfterMenu /\ MovedInBattle /\ SentInBattle
  /\ SyncNotInMenu

\* The events one after the other: one more, ...
LEMMA AfterOne ==
  ASSUME NEW X, NEW es \in Seq(Events), NEW e \in Events
  PROVE  F!After(X, Append(es, e)) =
           IF e.down THEN F!After(X, es) \cup {e.key} ELSE F!After(X, es) \ {e.key}
<1> DEFINE more == Append(es, e)
<1>1. /\ Len(es) \in Nat /\ Len(more) = Len(es) + 1 /\ more[Len(es) + 1] = e
      /\ \A k \in 1 .. Len(es) : more[k] = es[k]
  OBVIOUS
<1>2. e.key \in Keys /\ e.down \in BOOLEAN
  BY DEF Events
<1> HIDE DEF more
<1>3. ASSUME NEW n \in Keys, n = e.key
      PROVE  n \in F!After(X, more) <=> e.down
  <2>1. ~\A k \in 1 .. Len(more) : more[k].key # n
    BY <1>1, <1>3
  <2>2. \A k \in 1 .. Len(more) :
          (\A m \in k + 1 .. Len(more) : more[m].key # n) => k = Len(es) + 1
    BY <1>1, <1>3
  <2>3. \A m \in Len(es) + 1 + 1 .. Len(more) : more[m].key # n
    BY <1>1
  <2>4. QED
    BY <1>1, <1>3, <2>1, <2>2, <2>3 DEF F!After
<1>4. ASSUME NEW n \in Keys, n # e.key
      PROVE  n \in F!After(X, more) <=> n \in F!After(X, es)
  <2>1. (\A k \in 1 .. Len(more) : more[k].key # n) <=> (\A k \in 1 .. Len(es) : es[k].key # n)
    BY <1>1, <1>4
  <2>2. \A k \in 1 .. Len(es) :
          (\A m \in k + 1 .. Len(more) : more[m].key # n)
            <=> (\A m \in k + 1 .. Len(es) : es[m].key # n)
    BY <1>1, <1>4
  <2>3. \A k \in 1 .. Len(more) : more[k].key = n => k \in 1 .. Len(es)
    BY <1>1, <1>4
  <2>4. (\E k \in 1 .. Len(more) : /\ more[k].key = n /\ more[k].down
                                   /\ \A m \in k + 1 .. Len(more) : more[m].key # n)
        <=> (\E k \in 1 .. Len(es) : /\ es[k].key = n /\ es[k].down
                                     /\ \A m \in k + 1 .. Len(es) : es[m].key # n)
    <3>1. 1 .. Len(es) \subseteq 1 .. Len(more)
      BY <1>1
    <3>2. QED
      BY <1>1, <2>2, <2>3, <3>1
  <2>5. QED
    BY <2>1, <2>4 DEF F!After
<1>5. F!After(X, more) \subseteq Keys /\ F!After(X, es) \subseteq Keys
  BY DEF F!After
<1>6. QED
  BY <1>2, <1>3, <1>4, <1>5 DEF more

\* ... none, ...
LEMMA AfterNone == \A X \in SUBSET Keys : F!After(X, <<>>) = X
<1> SUFFICES ASSUME NEW X \in SUBSET Keys PROVE F!After(X, <<>>) = X
  OBVIOUS
<1>1. 1 .. Len(<<>>) = {}
  OBVIOUS
<1>2. QED
  BY <1>1 DEF F!After

\* ... and in two parts.
LEMMA AfterSplit ==
  ASSUME NEW X, NEW es \in Seq(Events), NEW s \in 0 .. Len(es)
  PROVE  F!After(F!After(X, SubSeq(es, 1, s)), SubSeq(es, s + 1, Len(es))) = F!After(X, es)
<1> DEFINE due == SubSeq(es, 1, s)
           rest == SubSeq(es, s + 1, Len(es))
           L == Len(es)
<1>1. /\ L \in Nat /\ s \in Nat /\ s <= L
      /\ Len(due) = s /\ \A k \in 1 .. s : due[k] = es[k]
      /\ Len(rest) = L - s /\ \A k \in 1 .. L - s : rest[k] = es[s + k]
  OBVIOUS
<1> HIDE DEF due, rest, L
<1>2. ASSUME NEW n \in Keys
      PROVE  n \in F!After(F!After(X, due), rest) <=> n \in F!After(X, es)
  <2> DEFINE LastIn(q, k) == /\ q[k].key = n /\ q[k].down
                             /\ \A m \in k + 1 .. Len(q) : q[m].key # n
             Free(q) == \A k \in 1 .. Len(q) : q[k].key # n
  <2>1. /\ n \in F!After(X, es) <=> (n \in X /\ Free(es)) \/ \E k \in 1 .. L : LastIn(es, k)
        /\ n \in F!After(X, due) <=> (n \in X /\ Free(due)) \/ \E k \in 1 .. s : LastIn(due, k)
        /\ n \in F!After(F!After(X, due), rest)
             <=> (n \in F!After(X, due) /\ Free(rest)) \/ \E k \in 1 .. L - s : LastIn(rest, k)
    BY <1>1 DEF F!After, L
  <2>2. Free(es) <=> Free(due) /\ Free(rest)
    <3>1. ASSUME Free(due), Free(rest), NEW k \in 1 .. L PROVE es[k].key # n
      <4>1. CASE k <= s
        BY <1>1, <3>1, <4>1
      <4>2. CASE k > s
        <5>1. k - s \in 1 .. L - s /\ es[k] = rest[k - s]
          BY <1>1, <4>2
        <5>2. QED
          BY <1>1, <3>1, <5>1
      <4>3. QED
        BY <1>1, <4>1, <4>2
    <3>2. ASSUME Free(es) PROVE Free(due) /\ Free(rest)
      <4>1. \A k \in 1 .. L - s : s + k \in 1 .. L
        BY <1>1
      <4>2. QED
        BY <1>1, <3>2, <4>1 DEF L
    <3>3. QED
      BY <3>1, <3>2 DEF L
  <2>3. ASSUME NEW k \in 1 .. L - s PROVE LastIn(rest, k) <=> LastIn(es, s + k)
    <3>1. s + k \in 1 .. L /\ rest[k] = es[s + k]
      BY <1>1
    <3>2. (\A m \in k + 1 .. Len(rest) : rest[m].key # n)
            <=> (\A m \in s + k + 1 .. L : es[m].key # n)
      <4>1. \A m \in k + 1 .. L - s : s + m \in s + k + 1 .. L /\ rest[m] = es[s + m]
        BY <1>1
      <4>2. \A m \in s + k + 1 .. L : m - s \in k + 1 .. L - s /\ rest[m - s] = es[m]
        BY <1>1
      <4>3. ASSUME \A m \in k + 1 .. L - s : rest[m].key # n, NEW m \in s + k + 1 .. L
            PROVE  es[m].key # n
        BY <4>2, <4>3
      <4>4. ASSUME \A m \in s + k + 1 .. L : es[m].key # n, NEW m \in k + 1 .. L - s
            PROVE  rest[m].key # n
        BY <4>1, <4>4
      <4>5. QED
        BY <1>1, <4>3, <4>4
    <3>3. QED
      BY <3>1, <3>2 DEF L
  <2>4. ASSUME NEW k \in 1 .. s PROVE LastIn(es, k) <=> LastIn(due, k) /\ Free(rest)
    <3>1. k \in 1 .. L /\ due[k] = es[k]
      BY <1>1
    <3>2. (\A m \in k + 1 .. L : es[m].key # n)
            <=> (\A m \in k + 1 .. s : due[m].key # n) /\ Free(rest)
      <4>1. \A m \in 1 .. L - s : s + m \in k + 1 .. L /\ rest[m] = es[s + m]
        BY <1>1
      <4>2. \A m \in k + 1 .. s : m \in k + 1 .. L /\ due[m] = es[m]
        BY <1>1
      <4>3. \A m \in k + 1 .. L : m \in k + 1 .. s \/ (m - s \in 1 .. L - s /\ rest[m - s] = es[m])
        BY <1>1
      <4>4. ASSUME \A m \in k + 1 .. L : es[m].key # n
            PROVE  (\A m \in k + 1 .. s : due[m].key # n) /\ Free(rest)
        <5>1. \A m \in k + 1 .. s : due[m].key # n
          BY <4>2, <4>4
        <5>2. \A m \in 1 .. L - s : rest[m].key # n
          BY <4>1, <4>4
        <5>3. QED
          BY <1>1, <5>1, <5>2
      <4>5. ASSUME \A m \in k + 1 .. s : due[m].key # n, Free(rest), NEW m \in k + 1 .. L
            PROVE  es[m].key # n
        <5>1. \A j \in 1 .. L - s : rest[j].key # n
          BY <1>1, <4>5
        <5>2. QED
          BY <4>2, <4>3, <4>5, <5>1
      <4>6. QED
        BY <4>4, <4>5
    <3>3. QED
      BY <1>1, <3>1, <3>2 DEF L
  <2>5. (\E k \in 1 .. L : LastIn(es, k))
        <=> \/ \E k \in 1 .. s : LastIn(due, k) /\ Free(rest)
            \/ \E k \in 1 .. L - s : LastIn(rest, k)
    <3> HIDE DEF LastIn, Free
    <3>1. \A k \in 1 .. L : k \in 1 .. s \/ (k - s \in 1 .. L - s /\ s + (k - s) = k)
      BY <1>1
    <3>2. /\ \A k \in 1 .. s : k \in 1 .. L
          /\ \A k \in 1 .. L - s : s + k \in 1 .. L
      BY <1>1
    <3>3. QED
      BY <2>3, <2>4, <3>1, <3>2
  <2> HIDE DEF LastIn, Free
  <2>6. QED
    BY <2>1, <2>2, <2>5
<1>3. /\ F!After(F!After(X, due), rest) \subseteq Keys
      /\ F!After(X, es) \subseteq Keys
  BY DEF F!After
<1>4. QED
  BY <1>2, <1>3 DEF due, rest, L

LEMMA FrameInit == F!Init => FrameInv
<1> SUFFICES ASSUME F!Init PROVE FrameInv
  OBVIOUS
<1>1. /\ on = {} /\ pending = <<>> /\ held = {} /\ yield_pc = "active"
      /\ moved \in BOOLEAN /\ skips = FALSE /\ scene \in F!Scenes /\ seen = "other"
  BY DEF F!Init
<1>2. F!NothingPressed
  BY <1>1 DEF F!NothingPressed
<1>3. EventsLead
  BY <1>1, AfterNone DEF EventsLead
<1>4. pending \in Seq(Events)
  BY <1>1
<1>5. FrameType
  BY <1>1, <1>4 DEF FrameType, F!Scenes
<1>6. QED
  BY <1>1, <1>2, <1>3, <1>5
  DEF FrameInv, BattleAfterMenu, MovedInBattle, SentInBattle, SyncNotInMenu

\* What is true of the keys alone.
KeysTrue == on \subseteq Keys /\ held \subseteq Keys /\ pending \in Seq(Events) /\ EventsLead

LEMMA KeyboardKept ==
  ASSUME KeysTrue, UNCHANGED F!keyboard
  PROVE  KeysTrue' /\ (F!NothingPressed' <=> F!NothingPressed)
BY DEF KeysTrue, EventsLead, F!After, F!keyboard, F!NothingPressed

LEMMA ReleaseAllClears ==
  ASSUME KeysTrue, F!ReleaseAll
  PROVE  KeysTrue' /\ F!NothingPressed'
<1>1. on' = {} /\ pending' = <<>> /\ held' = {}
  BY DEF F!ReleaseAll, KeysTrue, EventsLead
<1>2. F!After({}, <<>>) = {}
  BY AfterNone
<1>3. EventsLead'
  BY <1>1, <1>2 DEF EventsLead, F!After
<1>4. QED
  BY <1>1, <1>3 DEF KeysTrue, F!NothingPressed

\* The script presses and releases keys through the queue only.
LEMMA ScriptKeepsKeys ==
  ASSUME KeysTrue, NEW n \in Keys, F!key_on(n) \/ F!key_off(n)
  PROVE  KeysTrue'
<1>1. PICK down \in BOOLEAN :
        /\ pending' = Append(pending, [key |-> n, down |-> down]) /\ held' = held
        /\ on' = IF down THEN on \cup {n} ELSE on \ {n}
  BY DEF F!key_on, F!key_off
<1> DEFINE e == [key |-> n, down |-> down]
<1>2. e \in Events /\ e.key = n /\ e.down = down
  BY DEF Events
<1>3. pending \in Seq(Events) /\ F!After(held, pending) = on
  BY DEF KeysTrue, EventsLead
<1>4. pending' = Append(pending, e)
  BY <1>1
<1> HIDE DEF e
<1>5. F!After(held, Append(pending, e)) =
        IF e.down THEN F!After(held, pending) \cup {e.key} ELSE F!After(held, pending) \ {e.key}
  BY <1>2, <1>3, AfterOne
<1>6. F!After(held, pending') = on'
  BY <1>1, <1>2, <1>3, <1>4, <1>5
<1>7. EventsLead'
  BY <1>1, <1>6 DEF EventsLead, F!After
<1>8. pending' \in Seq(Events)
  BY <1>2, <1>3, <1>4
<1>9. QED
  BY <1>1, <1>7, <1>8 DEF KeysTrue

LEMMA SendKeepsKeys ==
  ASSUME KeysTrue, F!ProcessEvent
  PROVE  KeysTrue' /\ (F!NothingPressed => F!NothingPressed')
<1>1. PICK s \in 0 .. Len(pending) :
        /\ held' = F!After(held, SubSeq(pending, 1, s))
        /\ pending' = SubSeq(pending, s + 1, Len(pending))
  BY DEF F!ProcessEvent
<1>2. on' = on /\ pending \in Seq(Events)
  BY DEF F!ProcessEvent, KeysTrue
<1>3. F!After(held, pending) = on
  BY DEF KeysTrue, EventsLead
<1>4. pending' \in Seq(Events)
  BY <1>1, <1>2
<1>5. held' \subseteq Keys
  BY <1>1 DEF F!After
<1>6. F!After(F!After(held, SubSeq(pending, 1, s)), SubSeq(pending, s + 1, Len(pending))) = on
  BY <1>2, <1>3, AfterSplit
<1>7. EventsLead'
  BY <1>1, <1>2, <1>6 DEF EventsLead, F!After
<1>8. KeysTrue'
  BY <1>2, <1>4, <1>5, <1>7 DEF KeysTrue
<1>9. ASSUME F!NothingPressed PROVE F!NothingPressed'
  <2>1. held = {} /\ pending = <<>> /\ on = {}
    BY <1>9 DEF F!NothingPressed
  <2>2. s = 0 /\ SubSeq(pending, 1, s) = <<>> /\ SubSeq(pending, s + 1, Len(pending)) = <<>>
    BY <1>1, <2>1
  <2>3. F!After({}, <<>>) = {}
    BY AfterNone
  <2>4. QED
    BY <1>1, <1>2, <2>1, <2>2, <2>3 DEF F!NothingPressed
<1>10. QED
  BY <1>8, <1>9

LEMMA PollKeeps ==
  ASSUME KeysTrue, F!Poll
  PROVE  /\ KeysTrue' /\ (F!NothingPressed => F!NothingPressed')
         /\ scene = "menu" /\ mode # "menu" => F!NothingPressed'
         /\ scene' = scene /\ seen' = scene /\ mode' = scene
         /\ moved' = moved \/ (scene = "battle" /\ mode = "battle" /\ moved' = (moved \/ ticked))
<1>1. /\ scene' = scene /\ seen' = scene /\ mode' = scene
      /\ moved' = moved \/ (scene = "battle" /\ mode = "battle" /\ moved' = (moved \/ ticked))
  BY DEF F!Poll, F!ReadGame, F!BattleBegins
<1>2. CASE scene = "menu" /\ mode # "menu"
  BY <1>1, <1>2, ReleaseAllClears DEF F!Poll
<1>3. CASE ~(scene = "menu" /\ mode # "menu")
  BY <1>1, <1>3, KeyboardKept DEF F!Poll
<1>4. QED
  BY <1>2, <1>3

LEMMA FrameNext == FrameInv /\ [F!Next]_(F!vars) => FrameInv'
<1> SUFFICES ASSUME FrameInv, [F!Next]_(F!vars) PROVE FrameInv'
  OBVIOUS
<1> DEFINE Rest == BattleAfterMenu /\ MovedInBattle /\ SentInBattle /\ SyncNotInMenu
           Values == skips \in BOOLEAN /\ moved \in BOOLEAN /\ scene \in F!Scenes /\ seen \in F!Scenes
<1>1. KeysTrue /\ Values /\ Rest
  BY DEF FrameInv, FrameType, KeysTrue
<1>2. KeysTrue' /\ Values' /\ Rest' => FrameInv'
  BY DEF FrameInv, FrameType, KeysTrue
<1> USE DEF BattleAfterMenu, MovedInBattle, SentInBattle, SyncNotInMenu, InBattle
<1>3. CASE F!Game
  <2>1. /\ UNCHANGED <<seen, mode, moved, yield_pc, skips>> /\ UNCHANGED F!keyboard
        /\ scene' = "battle" => scene = "battle" \/ seen = "menu"
        /\ scene' \in F!Scenes
    BY <1>1, <1>3 DEF F!Game, F!Tick, F!ChangeScene, F!SwitchWindow
  <2>2. QED
    BY <1>1, <1>2, <2>1, KeyboardKept
<1>4. ASSUME NEW n \in Keys, F!key_on(n) \/ F!key_off(n) PROVE FrameInv'
  <2>1. yield_pc = "script" /\ UNCHANGED <<scene, seen, mode, moved, yield_pc, skips>>
    BY <1>4 DEF F!key_on, F!key_off, F!game
  <2>2. KeysTrue'
    BY <1>1, <1>4, ScriptKeepsKeys
  <2>3. QED
    BY <1>1, <1>2, <2>1, <2>2
<1>5. CASE F!CallYield
  <2>1. /\ yield_pc = "script" /\ yield_pc' = "active" /\ UNCHANGED F!keyboard
        /\ UNCHANGED <<scene, seen, mode, moved, skips>>
    BY <1>5 DEF F!CallYield, F!game
  <2>2. QED
    BY <1>1, <1>2, <2>1, KeyboardKept
<1>6. CASE F!WaitActive
  <2>1. /\ yield_pc = "active" /\ yield_pc' \in {"active", "wait"} /\ UNCHANGED F!keyboard
        /\ UNCHANGED <<scene, mode, moved>>
        /\ \/ UNCHANGED <<seen, skips>>
           \/ seen' = scene /\ skips' = (skips \/ (scene # "battle" /\ moved))
    BY <1>6 DEF F!WaitActive, F!game, F!NoWait
  <2>2. QED
    BY <1>1, <1>2, <2>1, KeyboardKept
<1>7. CASE F!WaitFrame
  <2>1. yield_pc = "wait" /\ UNCHANGED skips
    BY <1>7 DEF F!WaitFrame
  <2>2. CASE moved
    <3>1. /\ yield_pc' = "send" /\ UNCHANGED F!keyboard
          /\ UNCHANGED <<scene, seen, mode, moved>>
      BY <1>7, <2>2 DEF F!WaitFrame, F!game
    <3>2. QED
      BY <1>1, <1>2, <2>1, <2>2, <3>1, KeyboardKept
  <2>3. CASE ~moved
    <3>1. F!Poll /\ yield_pc' \in {"wait", "active"}
      BY <1>7, <2>3 DEF F!WaitFrame, F!get_th105param, F!Reload
    <3>2. QED
      BY <1>1, <1>2, <2>1, <2>3, <3>1, PollKeeps
  <2>4. QED
    BY <2>2, <2>3
<1>8. CASE F!WaitFrameTimeout
  <2>1. /\ ~moved /\ scene' = scene /\ seen' = scene /\ mode' = scene /\ UNCHANGED skips
        /\ moved' \in BOOLEAN
    BY <1>1, <1>8 DEF F!WaitFrameTimeout, F!ReadGame
  <2>2. CASE F!BattleBegins
    <3>1. yield_pc' = "active" /\ UNCHANGED F!keyboard /\ UNCHANGED moved
      BY <1>8, <2>2 DEF F!WaitFrameTimeout, F!ReadGame, F!Reload, F!BattleBegins
    <3>2. QED
      BY <1>1, <1>2, <2>1, <3>1, KeyboardKept
  <2>3. CASE ~F!BattleBegins
    <3>1. yield_pc' = "send" /\ F!ReleaseAll
      BY <1>8, <2>3 DEF F!WaitFrameTimeout
    <3>2. QED
      BY <1>1, <1>2, <2>1, <3>1, ReleaseAllClears
  <2>4. QED
    BY <2>2, <2>3
<1>9. CASE F!ProcessEvent
  <2>1. /\ yield_pc = "send" /\ yield_pc' = "scene" /\ moved' = FALSE
        /\ UNCHANGED <<scene, seen, mode, skips>>
    BY <1>9 DEF F!ProcessEvent, F!game
  <2>2. QED
    BY <1>1, <1>2, <1>9, <2>1, SendKeepsKeys
<1>10. CASE F!WaitBattle
  <2>1. yield_pc = "scene" /\ UNCHANGED skips
    BY <1>10 DEF F!WaitBattle
  <2>2. CASE seen = "battle"
    <3>1. /\ yield_pc' \in {"last", "sync"} /\ UNCHANGED F!keyboard
          /\ UNCHANGED <<scene, seen, mode, moved>>
      BY <1>10, <2>2 DEF F!WaitBattle, F!game
    <3>2. QED
      BY <1>1, <1>2, <2>1, <2>2, <3>1, KeyboardKept
  <2>3. CASE seen # "battle"
    <3>1. F!Poll /\ yield_pc' \in {"scene", "active"}
      BY <1>10, <2>3 DEF F!WaitBattle, F!get_th105param, F!Reload
    <3>2. QED
      BY <1>1, <1>2, <2>1, <2>3, <3>1, PollKeeps
  <2>4. QED
    BY <2>2, <2>3
<1>11. CASE F!Sync
  <2>1. yield_pc = "sync" /\ UNCHANGED skips /\ F!Poll
    BY <1>11 DEF F!Sync, F!get_th105param
  <2>2. \/ yield_pc' = "sync"
        \/ yield_pc' \in {"first", "active"} /\ scene = "battle"
    BY <1>11 DEF F!Sync, F!get_th105param, F!Reload, F!BattleBegins
  <2>3. QED
    BY <1>1, <1>2, <2>1, <2>2, PollKeeps
<1>12. CASE F!Return
  <2>1. F!Poll /\ skips' = (yield_pc' = "script" /\ scene # "battle" /\ moved')
    BY <1>12 DEF F!Return, F!get_th105param, F!NoWait
  <2>2. \/ yield_pc' = "script"
        \/ yield_pc' = "active" /\ scene = "battle"
    BY <1>12 DEF F!Return, F!get_th105param, F!Reload, F!BattleBegins
  <2>3. QED
    BY <1>1, <1>2, <2>1, <2>2, PollKeeps
<1>13. CASE F!PressF12
  <2>1. /\ yield_pc \in {"active", "scene", "first", "last"} /\ yield_pc' = "active"
        /\ UNCHANGED F!keyboard /\ UNCHANGED <<scene, seen, mode, moved, skips>>
    BY <1>13 DEF F!PressF12, F!Reload, F!game
  <2>2. QED
    BY <1>1, <1>2, <2>1, KeyboardKept
<1>14. CASE UNCHANGED F!vars
  <2>1. /\ UNCHANGED F!keyboard
        /\ UNCHANGED <<scene, seen, mode, moved, skips, yield_pc>>
    BY <1>14 DEF F!vars, F!keyboard
  <2>2. QED
    BY <1>1, <1>2, <2>1, KeyboardKept
<1>15. QED
  BY <1>3, <1>4, <1>5, <1>6, <1>7, <1>8, <1>9, <1>10, <1>11, <1>12, <1>13, <1>14
  DEF F!Next, F!Script, F!Yield

LEMMA FrameInvariance == MCSpec => []FrameInv
<1>1. MCInit => FrameInv
  BY FrameInit DEF MCInit, NoBattle
<1>2. [ProcessStep \/ FrameStep \/ ThreadStep]_<<part, vars, frame, threads>> => [F!Next]_(F!vars)
  BY DEF ProcessStep, FrameStep, ThreadStep, frame, F!vars
<1>3. QED
  BY <1>1, <1>2, FrameNext, PTL DEF MCSpec

\* When a battle that the bot has waited for begins, search_key remaps no key that is
\* pressed or about to be, whatever the keys and however many events are queued.
THEOREM KeysFreeAtBattle == MCSpec => RemapsReleased
<1>1. FrameInv => [F!ReadGame /\ F!BattleBegins /\ F!Waiting /\ ~skips => F!NothingPressed]_(F!vars)
  BY DEF FrameInv, BattleAfterMenu, SentInBattle, SyncNotInMenu, InBattle, F!BattleBegins,
         F!Waiting, FrameType, F!Scenes
<1>2. QED
  BY <1>1, FrameInvariance, PTL DEF RemapsReleased, F!RemapsReleased

-----------------------------------------------------------------------------
(* The turns of the script's threads.                                          *)

Positions == 0 .. thread_num - 1

\* The loop does not get past a first thread that has ended: table.remove takes nothing out
\* of position 0, and thread_num runs down.
Draining ==
  i = 0 /\ 0 \in Positions \cap DOMAIN thread_list /\ status[thread_list[0]] = "dead"
RunsDown == (thread_num = 0 \/ Draining) /\ T!NoneRuns

\* The list holds every live thread once; the one that runs is where the loop is.
Listed ==
  /\ Positions \subseteq DOMAIN thread_list
  /\ \A p \in Positions : thread_list[p] \in T!Threads /\ status[thread_list[p]] # "none"
  /\ \A p, q \in Positions : thread_list[p] = thread_list[q] => p = q
  /\ \A t \in T!Threads : status[t] \in {"suspended", "running"} =>
       \E p \in Positions : thread_list[p] = t
  /\ \A t \in T!Threads : status[t] = "running" => i \in Positions /\ thread_list[i] = t

\* The thread at p has had its turn since the one at f, which updates, had its own.
HadTurn(p, f) == IF i <= f THEN p < i \/ p > f ELSE f < p /\ p < i

Turns ==
  \A p, f \in Positions : thread_list[f] = FrameSkip /\ thread_list[p] \notin young =>
    /\ status[thread_list[p]] = "suspended" =>
         turns[thread_list[p]] = IF HadTurn(p, f) THEN 1 ELSE 0
    /\ status[thread_list[p]] = "running" => turns[thread_list[p]] = 1

ThreadsType ==
  /\ thread_num \in Nat /\ i \in 0 .. thread_num
  /\ status \in [T!Threads -> {"none", "suspended", "running", "dead"}]
  /\ turns \in [T!Threads -> 0 .. T!TurnsCap]

\* Before the rounds begin nothing has had a turn.
Starting ==
  /\ i = 0 /\ T!NoneRuns
  /\ \A t \in T!Threads : status[t] # "none" => t \in young /\ t # FrameSkip

ThreadsInv ==
  /\ ThreadsType
  /\ thread_pc \in {"top", "start1", "start2"} => Starting /\ Listed
  /\ thread_pc = "rounds" =>
       RunsDown \/ (Listed /\ Turns /\ status[FrameSkip] \in {"suspended", "running"})

LEMMA ThreadsInit == T!Init => ThreadsInv
<1> SUFFICES ASSUME T!Init PROVE ThreadsInv
  OBVIOUS
<1>1. /\ thread_num = 0 /\ i = 0 /\ thread_pc = "top"
      /\ status = [t \in T!Threads |-> "none"] /\ turns = [t \in T!Threads |-> 0]
  BY DEF T!Init
<1>2. ThreadsType
  BY <1>1 DEF ThreadsType, T!TurnsCap
<1>3. Starting
  BY <1>1 DEF Starting, T!NoneRuns
<1>4. Positions = {}
  BY <1>1 DEF Positions
<1>5. Listed
  BY <1>1, <1>4 DEF Listed
<1>6. QED
  BY <1>1, <1>2, <1>3, <1>5 DEF ThreadsInv

\* A new thread is put behind the others.
LEMMA CreateKeeps ==
  ASSUME ThreadsType, Listed, NEW t \in T!Threads, T!create_thread(t)
  PROVE  /\ ThreadsType' /\ Listed' /\ i' = i /\ turns' = turns
         /\ Positions' = Positions \cup {thread_num} /\ thread_num \notin Positions
         /\ thread_list'[thread_num] = t
         /\ \A p \in Positions : /\ thread_list'[p] = thread_list[p] /\ thread_list[p] # t
                                 /\ status'[thread_list[p]] = status[thread_list[p]]
         /\ status' = [status EXCEPT ![t] = "suspended"] /\ young' = young \cup {t}
<1>1. /\ status[t] = "none" /\ thread_num' = thread_num + 1 /\ i' = i /\ turns' = turns
      /\ status' = [status EXCEPT ![t] = "suspended"] /\ young' = young \cup {t}
      /\ thread_list' = [q \in DOMAIN thread_list \cup {thread_num} |->
                           IF q = thread_num THEN t ELSE thread_list[q]]
  BY DEF T!create_thread, T!Put
<1>2. /\ Positions' = Positions \cup {thread_num} /\ thread_num \notin Positions
      /\ thread_num \in Nat /\ i \in 0 .. thread_num
  BY <1>1 DEF ThreadsType, Positions
<1>3. \A p \in Positions : /\ p \in DOMAIN thread_list /\ thread_list[p] # t
                           /\ thread_list[p] \in T!Threads
  BY <1>1 DEF Listed
<1>4. /\ thread_list'[thread_num] = t
      /\ \A p \in Positions : thread_list'[p] = thread_list[p]
  BY <1>1, <1>2, <1>3
<1>5. /\ status'[t] = "suspended"
      /\ \A u \in T!Threads \ {t} : status'[u] = status[u]
  BY <1>1 DEF ThreadsType
<1>6. ThreadsType'
  <2>1. thread_num' \in Nat /\ i' \in 0 .. thread_num'
    BY <1>1, <1>2
  <2>2. QED
    BY <1>1, <2>1 DEF ThreadsType
<1>7. Listed'
  <2>1. Positions' \subseteq DOMAIN thread_list'
    BY <1>1, <1>2, <1>3
  <2>2. \A p \in Positions' :
          thread_list'[p] \in T!Threads /\ status'[thread_list'[p]] # "none"
    BY <1>2, <1>3, <1>4, <1>5 DEF Listed
  <2>3. \A p, q \in Positions' : thread_list'[p] = thread_list'[q] => p = q
    BY <1>2, <1>3, <1>4 DEF Listed
  <2>4. \A u \in T!Threads : status'[u] \in {"suspended", "running"} =>
          \E p \in Positions' : thread_list'[p] = u
    <3> SUFFICES ASSUME NEW u \in T!Threads, status'[u] \in {"suspended", "running"}
                 PROVE  \E p \in Positions' : thread_list'[p] = u
      OBVIOUS
    <3>1. CASE u = t
      BY <1>2, <1>4, <3>1
    <3>2. CASE u # t
      <4>1. PICK p \in Positions : thread_list[p] = u
        BY <1>5, <3>2 DEF Listed
      <4>2. QED
        BY <1>2, <1>4, <4>1
    <3>3. QED
      BY <3>1, <3>2
  <2>5. \A u \in T!Threads : status'[u] = "running" => i' \in Positions' /\ thread_list'[i'] = u
    BY <1>1, <1>2, <1>4, <1>5 DEF Listed
  <2>6. QED
    BY <2>1, <2>2, <2>3, <2>4, <2>5 DEF Listed
<1>8. QED
  BY <1>1, <1>2, <1>3, <1>4, <1>5, <1>6, <1>7

Rounds == Listed /\ Turns /\ status[FrameSkip] \in {"suspended", "running"}

LEMMA PositionFacts ==
  ASSUME ThreadsType
  PROVE  /\ thread_num \in Nat /\ i \in Nat /\ i <= thread_num
         /\ \A p : p \in Positions <=> p \in Nat /\ p < thread_num
BY DEF ThreadsType, Positions

\* Only the thread at i can run.
LEMMA OneRuns ==
  ASSUME Listed, NEW p \in Positions, status[thread_list[p]] = "running"
  PROVE  p = i
BY DEF Listed

LEMMA ResumeKeeps ==
  ASSUME ThreadsType, Rounds, T!Resume
  PROVE  ThreadsType' /\ Rounds'
<1> DEFINE t == thread_list[i]
<1>1. /\ i < thread_num /\ T!NoneRuns /\ status[t] = "suspended"
      /\ status' = [status EXCEPT ![t] = "running"]
      /\ turns' = [turns EXCEPT ![t] = IF turns[t] < T!TurnsCap THEN turns[t] + 1 ELSE turns[t]]
      /\ UNCHANGED <<thread_list, thread_num, i, young>>
  BY DEF T!Resume
<1>2. i \in Positions /\ Positions' = Positions
  BY <1>1, PositionFacts DEF Positions
<1>3. t \in T!Threads
  BY <1>2 DEF Rounds, Listed
<1>4. /\ status'[t] = "running" /\ \A u \in T!Threads \ {t} : status'[u] = status[u]
      /\ \A u \in T!Threads \ {t} : turns'[u] = turns[u]
  BY <1>1, <1>3 DEF ThreadsType
<1>5. turns[t] = 0 => turns'[t] = 1
  BY <1>1, <1>3 DEF ThreadsType, T!TurnsCap
<1>6. ThreadsType'
  <2>1. turns[t] \in 0 .. T!TurnsCap
    BY <1>3 DEF ThreadsType
  <2>2. (IF turns[t] < T!TurnsCap THEN turns[t] + 1 ELSE turns[t]) \in 0 .. T!TurnsCap
    BY <2>1 DEF T!TurnsCap
  <2>3. turns' \in [T!Threads -> 0 .. T!TurnsCap]
    BY <1>1, <2>2 DEF ThreadsType
  <2>4. QED
    BY <1>1, <2>3 DEF ThreadsType
<1>7. \A p \in Positions : p # i => thread_list[p] \in T!Threads \ {t}
  BY <1>2 DEF Rounds, Listed
<1> HIDE DEF t
<1>8. Listed'
  <2>1. \A u \in T!Threads : status'[u] = "running" => u = t
    BY <1>1, <1>4 DEF T!NoneRuns
  <2>2. \A u \in T!Threads : status'[u] \in {"suspended", "running"} =>
          status[u] \in {"suspended", "running"}
    BY <1>1, <1>4
  <2>3. \A u \in T!Threads : status'[u] \in {"suspended", "running"} =>
          \E p \in Positions : thread_list[p] = u
    BY <2>2 DEF Rounds, Listed
  <2>4. \A p \in Positions : thread_list[p] \in T!Threads /\ status'[thread_list[p]] # "none"
    BY <1>1, <1>3, <1>4 DEF Rounds, Listed
  <2>5. QED
    BY <1>1, <1>2, <2>1, <2>3, <2>4 DEF Rounds, Listed, t
<1>9. Turns'
  <2> SUFFICES ASSUME NEW p \in Positions, NEW f \in Positions,
                      thread_list[f] = FrameSkip, thread_list[p] \notin young
               PROVE  /\ status'[thread_list[p]] = "suspended" =>
                           turns'[thread_list[p]] = IF HadTurn(p, f) THEN 1 ELSE 0
                      /\ status'[thread_list[p]] = "running" => turns'[thread_list[p]] = 1
    BY <1>1, <1>2 DEF Turns, HadTurn
  <2>1. CASE p = i
    <3>1. ~HadTurn(p, f)
      BY <2>1, PositionFacts DEF HadTurn
    <3>2. thread_list[p] = t
      BY <2>1 DEF t
    <3>3. turns[t] = 0
      BY <1>1, <3>1, <3>2 DEF Rounds, Turns
    <3>4. QED
      BY <1>4, <1>5, <3>2, <3>3
  <2>2. CASE p # i
    <3>1. /\ status'[thread_list[p]] = status[thread_list[p]]
          /\ turns'[thread_list[p]] = turns[thread_list[p]]
      BY <1>4, <1>7, <2>2
    <3>2. QED
      BY <3>1 DEF Rounds, Turns
  <2>3. QED
    BY <2>1, <2>2
<1>10. status'[FrameSkip] \in {"suspended", "running"}
  BY <1>4 DEF Rounds, T!Threads
<1>11. QED
  BY <1>6, <1>8, <1>9, <1>10 DEF Rounds

\* The thread at i ends its turn: it yields, returns, or is frame_skip and updates.
LEMMA TurnEnds ==
  ASSUME ThreadsType, Rounds, NEW t \in T!Threads, status[t] = "running",
         NEW s \in {"suspended", "dead"}, status' = [status EXCEPT ![t] = s], i' = i + 1,
         UNCHANGED <<thread_list, thread_num>>,
         IF t = FrameSkip
         THEN s = "suspended" /\ turns' = [u \in T!Threads |-> 0] /\ young' = {}
         ELSE UNCHANGED <<turns, young>>
  PROVE  ThreadsType' /\ Rounds'
<1>1. i \in Positions /\ thread_list[i] = t /\ Positions' = Positions
  BY DEF Rounds, Listed, Positions
<1>2. /\ i \in Nat /\ i < thread_num /\ thread_num \in Nat
  BY <1>1, PositionFacts
<1>3. /\ status'[t] = s /\ \A u \in T!Threads \ {t} : status'[u] = status[u]
  BY DEF ThreadsType
<1>4. \A p \in Positions : p # i => thread_list[p] \in T!Threads \ {t}
  BY <1>1 DEF Rounds, Listed
<1>5. ThreadsType'
  <2>1. i' \in 0 .. thread_num'
    BY <1>2
  <2>2. turns' \in [T!Threads -> 0 .. T!TurnsCap]
    BY DEF ThreadsType, T!TurnsCap
  <2>3. QED
    BY <2>1, <2>2 DEF ThreadsType
<1>6. \A u \in T!Threads : status'[u] # "running"
  BY <1>1, <1>3 DEF Rounds, Listed
<1>7. Listed'
  <2>1. \A u \in T!Threads : status'[u] \in {"suspended", "running"} =>
          \E p \in Positions : thread_list[p] = u
    BY <1>1, <1>3 DEF Rounds, Listed
  <2>2. \A p \in Positions : thread_list[p] \in T!Threads /\ status'[thread_list[p]] # "none"
    BY <1>1, <1>3 DEF Rounds, Listed
  <2>3. QED
    BY <1>1, <1>6, <2>1, <2>2 DEF Rounds, Listed
<1>8. Turns'
  <2> SUFFICES ASSUME NEW p \in Positions, NEW f \in Positions,
                      thread_list[f] = FrameSkip, thread_list[p] \notin young',
                      status'[thread_list[p]] = "suspended"
               PROVE  turns'[thread_list[p]] = IF HadTurn(p, f)' THEN 1 ELSE 0
    BY <1>1, <1>4, <1>6 DEF Turns
  <2>1. p \in Nat /\ f \in Nat
    BY PositionFacts
  <2>2. CASE t = FrameSkip
    <3>1. f = i
      BY <1>1, <2>2 DEF Rounds, Listed
    <3>2. ~HadTurn(p, f)'
      BY <1>2, <2>1, <3>1 DEF HadTurn
    <3>3. turns'[thread_list[p]] = 0
      BY <1>1, <1>4, <2>2
    <3>4. QED
      BY <3>2, <3>3
  <2>3. CASE t # FrameSkip
    <3>1. f # i /\ UNCHANGED <<turns, young>>
      BY <1>1, <2>3
    <3>2. CASE p = i
      <4>1. HadTurn(p, f)'
        BY <1>2, <2>1, <3>1, <3>2 DEF HadTurn
      <4>2. turns[thread_list[p]] = 1
        BY <1>1, <3>1, <3>2 DEF Rounds, Turns
      <4>3. QED
        BY <3>1, <4>1, <4>2
    <3>3. CASE p # i
      <4>1. HadTurn(p, f)' = HadTurn(p, f)
        BY <1>2, <2>1, <3>1, <3>3 DEF HadTurn
      <4>2. status[thread_list[p]] = "suspended"
        BY <1>3, <1>4, <3>3
      <4>3. QED
        BY <3>1, <4>1, <4>2 DEF Rounds, Turns
    <3>4. QED
      BY <3>2, <3>3
  <2>4. QED
    BY <2>2, <2>3
<1>9. status'[FrameSkip] \in {"suspended", "running"}
  BY <1>3 DEF Rounds, T!Threads
<1>10. QED
  BY <1>5, <1>7, <1>8, <1>9 DEF Rounds

\* A thread that has ended leaves the list, unless it is at position 0.
LEMMA RemovalKeeps ==
  ASSUME ThreadsType, Rounds, T!ResumeDead, i # 0
  PROVE  ThreadsType' /\ Rounds'
<1> DEFINE from(q) == IF q >= i THEN q + 1 ELSE q
<1>1. /\ i < thread_num /\ T!NoneRuns /\ status[thread_list[i]] = "dead"
      /\ thread_num' = thread_num - 1 /\ UNCHANGED <<status, i, turns, young>>
      /\ thread_list' = [q \in DOMAIN thread_list |->
                           IF q >= i /\ i >= 1 /\ q + 1 < thread_num
                           THEN thread_list[q + 1] ELSE thread_list[q]]
  BY DEF T!ResumeDead, T!table_remove
<1>2. /\ i \in Nat /\ i >= 1 /\ thread_num \in Nat
      /\ \A q : q \in Positions <=> q \in Nat /\ q < thread_num
      /\ \A q : q \in Positions' <=> q \in Nat /\ q + 1 < thread_num
  <2>1. i \in Nat /\ thread_num \in Nat /\ i >= 1
    BY PositionFacts
  <2>2. \A q : q \in Positions' <=> q \in Nat /\ q + 1 < thread_num
    BY <1>1, <2>1 DEF Positions
  <2>3. QED
    BY <2>1, <2>2, PositionFacts
<1>3. \A q \in Positions' : q \in Positions /\ from(q) \in Positions \ {i}
  BY <1>2
<1>4. \A q \in Positions' : thread_list'[q] = thread_list[from(q)] /\ q \in DOMAIN thread_list'
  <2>1. Positions \subseteq DOMAIN thread_list
    BY DEF Rounds, Listed
  <2>2. QED
    BY <1>1, <1>2, <1>3, <2>1
<1>5. \A p, q \in Positions' : from(p) = from(q) => p = q
  BY <1>2
<1>6. \A r \in Positions \ {i} : \E q \in Positions' : from(q) = r
  <2> SUFFICES ASSUME NEW r \in Positions \ {i} PROVE \E q \in Positions' : from(q) = r
    OBVIOUS
  <2>1. CASE r < i
    <3>1. r \in Positions' /\ from(r) = r
      BY <1>1, <1>2, <2>1
    <3>2. QED
      BY <3>1
  <2>2. CASE r > i
    <3>1. r - 1 \in Positions' /\ from(r - 1) = r
      BY <1>1, <1>2, <2>2
    <3>2. QED
      BY <3>1
  <2>3. QED
    BY <1>2, <2>1, <2>2
<1>7. \A p, f \in Positions' : HadTurn(p, f)' <=> HadTurn(from(p), from(f))
  BY <1>1, <1>2 DEF HadTurn
<1> HIDE DEF from
<1>8. ThreadsType'
  <2>1. thread_num' \in Nat /\ i' \in 0 .. thread_num'
    BY <1>1, <1>2
  <2>2. QED
    BY <1>1, <2>1 DEF ThreadsType
<1>9. Listed'
  <2>1. Positions' \subseteq DOMAIN thread_list'
    BY <1>4
  <2>2. \A p \in Positions' : thread_list'[p] \in T!Threads /\ status'[thread_list'[p]] # "none"
    BY <1>1, <1>3, <1>4 DEF Rounds, Listed
  <2>3. \A p, q \in Positions' : thread_list'[p] = thread_list'[q] => p = q
    BY <1>3, <1>4, <1>5 DEF Rounds, Listed
  <2>4. \A u \in T!Threads : status[u] \in {"suspended", "running"} =>
          \E p \in Positions \ {i} : thread_list[p] = u
    BY <1>1 DEF Rounds, Listed
  <2>5. \A u \in T!Threads : status'[u] \in {"suspended", "running"} =>
          \E p \in Positions' : thread_list'[p] = u
    <3> SUFFICES ASSUME NEW u \in T!Threads, status'[u] \in {"suspended", "running"}
                 PROVE  \E p \in Positions' : thread_list'[p] = u
      OBVIOUS
    <3>1. PICK r \in Positions \ {i} : thread_list[r] = u
      BY <1>1, <2>4
    <3>2. PICK q \in Positions' : from(q) = r
      BY <1>6
    <3>3. QED
      BY <1>4, <3>1, <3>2
  <2>6. \A u \in T!Threads : status'[u] # "running"
    BY <1>1 DEF T!NoneRuns
  <2>7. QED
    BY <2>1, <2>2, <2>3, <2>5, <2>6 DEF Listed
<1>10. Turns'
  <2> SUFFICES ASSUME NEW p \in Positions', NEW f \in Positions',
                      thread_list'[f] = FrameSkip, thread_list'[p] \notin young
               PROVE  /\ status[thread_list'[p]] = "suspended" =>
                           turns[thread_list'[p]] = IF HadTurn(p, f)' THEN 1 ELSE 0
                      /\ status[thread_list'[p]] = "running" => turns[thread_list'[p]] = 1
    BY <1>1 DEF Turns
  <2>1. from(p) \in Positions /\ from(f) \in Positions
    BY <1>3
  <2>2. /\ status[thread_list[from(p)]] = "suspended" =>
             turns[thread_list[from(p)]] = IF HadTurn(from(p), from(f)) THEN 1 ELSE 0
        /\ status[thread_list[from(p)]] = "running" => turns[thread_list[from(p)]] = 1
    BY <1>4, <2>1 DEF Rounds, Turns
  <2>3. QED
    BY <1>4, <1>7, <2>2
<1>11. status'[FrameSkip] \in {"suspended", "running"}
  BY <1>1 DEF Rounds
<1>12. QED
  BY <1>8, <1>9, <1>10, <1>11 DEF Rounds

LEMMA ThreadsNext == ThreadsInv /\ [T!Next]_(T!vars) => ThreadsInv'
<1> SUFFICES ASSUME ThreadsInv, [T!Next]_(T!vars) PROVE ThreadsInv'
  OBVIOUS
<1> USE DEF Rounds
<1>1. ThreadsType /\ FrameSkip \in T!Threads
  BY DEF ThreadsInv, T!Threads
<1>2. ASSUME NEW u \in T!Threads, Starting, Listed, T!create_thread(u), u # FrameSkip,
             thread_pc' \in {"top", "start2"}
      PROVE  ThreadsInv'
  <2>1. /\ ThreadsType' /\ Listed' /\ i' = i
        /\ status' = [status EXCEPT ![u] = "suspended"] /\ young' = young \cup {u}
    BY <1>1, <1>2, CreateKeeps
  <2>2. Starting'
    BY <1>1, <1>2, <2>1 DEF Starting, T!NoneRuns, ThreadsType
  <2>3. QED
    BY <1>2, <2>1, <2>2 DEF ThreadsInv
<1>3. CASE T!TopLevel
  <2>1. thread_pc = "top" /\ Starting /\ Listed
    BY <1>3 DEF T!TopLevel, ThreadsInv
  <2>2. CASE \E u \in Others : T!create_thread(u) /\ thread_pc' = "top"
    <3>1. PICK u \in Others : T!create_thread(u) /\ thread_pc' = "top"
      BY <2>2
    <3>2. u \in T!Threads /\ u # FrameSkip
      BY DistinctAssumption DEF T!Threads
    <3>3. QED
      BY <1>2, <2>1, <3>1, <3>2
  <2>3. CASE /\ thread_pc' = "start1"
             /\ UNCHANGED <<thread_list, thread_num, status, i, first, turns, young>>
    BY <1>1, <2>1, <2>3
    DEF ThreadsInv, ThreadsType, Starting, Listed, Positions, T!NoneRuns
  <2>4. QED
    BY <1>3, <2>2, <2>3 DEF T!TopLevel
<1>4. CASE T!api_main
  <2>1. Starting /\ Listed
    BY <1>4 DEF T!api_main, ThreadsInv
  <2>2. CASE thread_pc' = "start2" /\ T!create_thread(Main)
    <3>1. Main \in T!Threads /\ Main # FrameSkip
      BY DistinctAssumption DEF T!Threads
    <3>2. QED
      BY <1>2, <2>1, <2>2, <3>1
  <2>3. CASE thread_pc' = "rounds" /\ T!create_thread(FrameSkip)
    <3>1. /\ ThreadsType' /\ Listed'
          /\ status' = [status EXCEPT ![FrameSkip] = "suspended"]
          /\ young' = young \cup {FrameSkip}
      BY <1>1, <2>1, <2>3, CreateKeeps
    <3>2. \A u \in T!Threads : status'[u] # "none" => u \in young'
      BY <1>1, <2>1, <3>1 DEF Starting, ThreadsType
    <3>3. \A p \in Positions' : thread_list'[p] \in young'
      BY <3>1, <3>2 DEF Listed
    <3>4. Turns'
      BY <3>3 DEF Turns
    <3>5. status'[FrameSkip] = "suspended"
      BY <1>1, <3>1 DEF ThreadsType
    <3>6. QED
      BY <2>3, <3>1, <3>4, <3>5 DEF ThreadsInv
  <2>4. QED
    BY <1>4, <2>2, <2>3 DEF T!api_main
<1>5. CASE T!NextRound
  <2>1. /\ thread_pc = "rounds" /\ T!NoneRuns /\ i >= thread_num
        /\ UNCHANGED <<thread_list, thread_num, status, first, turns, young>>
    BY <1>5 DEF T!NextRound
  <2>2. CASE thread_num >= 2
    <3>1. i' = 0 /\ thread_pc' = "rounds"
      BY <1>5, <2>2 DEF T!NextRound
    <3>2. ~RunsDown
      BY <1>1, <2>1, <2>2 DEF RunsDown, Draining, ThreadsType
    <3>3. Rounds
      BY <2>1, <3>2 DEF ThreadsInv
    <3>4. ThreadsType'
      BY <1>1, <2>1, <3>1 DEF ThreadsType
    <3>5. Listed'
      BY <2>1, <3>3 DEF Listed, Positions, T!NoneRuns
    <3>6. \A p, f \in Positions : HadTurn(p, f)' <=> HadTurn(p, f)
      BY <1>1, <2>1, <3>1, PositionFacts DEF HadTurn
    <3>7. Turns'
      <4> SUFFICES ASSUME NEW p \in Positions, NEW f \in Positions,
                          thread_list[f] = FrameSkip, thread_list[p] \notin young
                   PROVE  /\ status[thread_list[p]] = "suspended" =>
                               turns[thread_list[p]] = IF HadTurn(p, f)' THEN 1 ELSE 0
                          /\ status[thread_list[p]] = "running" => turns[thread_list[p]] = 1
        BY <2>1 DEF Turns, Positions
      <4>1. QED
        BY <3>3, <3>6 DEF Turns
    <3>8. QED
      BY <2>1, <3>1, <3>3, <3>4, <3>5, <3>7 DEF ThreadsInv
  <2>3. CASE ~(thread_num >= 2)
    BY <1>1, <1>5, <2>1, <2>3 DEF T!NextRound, ThreadsInv, ThreadsType
  <2>4. QED
    BY <2>2, <2>3
<1>6. CASE T!Resume
  <2>1. /\ thread_pc = "rounds" /\ i < thread_num /\ status[thread_list[i]] = "suspended"
        /\ UNCHANGED thread_pc
    BY <1>6 DEF T!Resume
  <2>2. ~RunsDown
    BY <1>1, <2>1 DEF RunsDown, Draining, ThreadsType
  <2>3. ThreadsType' /\ Rounds'
    BY <1>1, <1>6, <2>1, <2>2, ResumeKeeps DEF ThreadsInv
  <2>4. QED
    BY <2>1, <2>3 DEF ThreadsInv
<1>7. CASE T!ResumeDead
  <2>1. /\ thread_pc = "rounds" /\ UNCHANGED <<thread_pc, status, i>> /\ T!NoneRuns
        /\ i < thread_num /\ thread_num' = thread_num - 1
        /\ status[thread_list[i]] = "dead"
    BY <1>7 DEF T!ResumeDead
  <2>2. CASE i # 0
    <3>1. ~RunsDown
      BY <1>1, <2>1, <2>2 DEF RunsDown, Draining, ThreadsType
    <3>2. ThreadsType' /\ Rounds'
      BY <1>1, <1>7, <2>1, <2>2, <3>1, RemovalKeeps DEF ThreadsInv
    <3>3. QED
      BY <2>1, <3>2 DEF ThreadsInv
  <2>3. CASE i = 0
    <3>1. DOMAIN thread_list' = DOMAIN thread_list /\ UNCHANGED turns
          /\ \A q \in DOMAIN thread_list : thread_list'[q] = thread_list[q]
      BY <1>7, <2>3 DEF T!ResumeDead, T!table_remove
    <3>2. 0 \in DOMAIN thread_list
      BY <1>1, <2>1, <2>3, PositionFacts DEF ThreadsInv, RunsDown, Draining, Listed, ThreadsType
    <3>3. ThreadsType'
      BY <1>1, <2>1, <2>3, <3>1 DEF ThreadsType
    <3>4. thread_num' = 0 \/ Draining'
      BY <1>1, <2>1, <2>3, <3>1, <3>2 DEF Draining, Positions, ThreadsType
    <3>5. QED
      BY <2>1, <3>3, <3>4 DEF ThreadsInv, RunsDown, T!NoneRuns
  <2>4. QED
    BY <2>2, <2>3
<1>8. ASSUME NEW t \in T!Threads, T!Running(t) PROVE Rounds
  BY <1>8 DEF T!Running, ThreadsInv, RunsDown, T!NoneRuns
<1>9. CASE T!frame_skip
  <2>1. ThreadsType' /\ Rounds'
    BY <1>1, <1>8, <1>9, TurnEnds DEF T!frame_skip, T!Running
  <2>2. QED
    BY <1>9, <2>1 DEF T!frame_skip, T!Running, ThreadsInv
<1>10. ASSUME NEW t \in {Main} \cup Others, T!Ends(t) PROVE ThreadsInv'
  <2>1. t \in T!Threads /\ T!Running(t) /\ t # FrameSkip
    BY <1>10 DEF T!Threads, T!Ends, T!Yield, T!Return
  <2>2. PICK s \in {"suspended", "dead"} : status' = [status EXCEPT ![t] = s]
    BY <1>10 DEF T!Ends, T!Yield, T!Return
  <2>3. i' = i + 1 /\ UNCHANGED <<thread_list, thread_num, thread_pc, turns, young>>
    BY <1>10 DEF T!Ends, T!Yield, T!Return
  <2>4. ThreadsType' /\ Rounds'
    BY <1>1, <1>8, <2>1, <2>2, <2>3, TurnEnds DEF T!Running
  <2>5. QED
    BY <2>1, <2>3, <2>4 DEF T!Running, ThreadsInv
<1>11. ASSUME NEW t \in {Main} \cup Others, T!Create(t) PROVE ThreadsInv'
  <2>1. T!Running(t) /\ t \in T!Threads /\ UNCHANGED thread_pc
    BY <1>11 DEF T!Create, T!Threads
  <2>2. Rounds
    BY <1>8, <2>1
  <2>3. PICK u \in Others : T!create_thread(u)
    BY <1>11 DEF T!Create
  <2>4. u \in T!Threads /\ u # FrameSkip
    BY DistinctAssumption DEF T!Threads
  <2>5. /\ ThreadsType' /\ Listed' /\ i' = i /\ turns' = turns
        /\ Positions' = Positions \cup {thread_num} /\ thread_list'[thread_num] = u
        /\ \A p \in Positions : /\ thread_list'[p] = thread_list[p] /\ thread_list[p] # u
                                /\ status'[thread_list[p]] = status[thread_list[p]]
        /\ status' = [status EXCEPT ![u] = "suspended"] /\ young' = young \cup {u}
    BY <1>1, <2>2, <2>3, <2>4, CreateKeeps
  <2>6. Turns'
    <3> SUFFICES ASSUME NEW p \in Positions', NEW f \in Positions',
                        thread_list'[f] = FrameSkip, thread_list'[p] \notin young'
                 PROVE  /\ status'[thread_list'[p]] = "suspended" =>
                             turns[thread_list'[p]] = IF HadTurn(p, f)' THEN 1 ELSE 0
                        /\ status'[thread_list'[p]] = "running" => turns[thread_list'[p]] = 1
      BY <2>5 DEF Turns
    <3>1. p \in Positions /\ f \in Positions
      BY <2>4, <2>5
    <3>2. HadTurn(p, f)' <=> HadTurn(p, f)
      BY <2>5 DEF HadTurn
    <3>3. /\ thread_list[f] = FrameSkip /\ thread_list[p] \notin young
          /\ status'[thread_list'[p]] = status[thread_list[p]]
          /\ thread_list'[p] = thread_list[p]
      BY <2>5, <3>1
    <3>4. /\ status[thread_list[p]] = "suspended" =>
               turns[thread_list[p]] = IF HadTurn(p, f) THEN 1 ELSE 0
          /\ status[thread_list[p]] = "running" => turns[thread_list[p]] = 1
      BY <2>2, <3>1, <3>3 DEF Turns
    <3>5. QED
      BY <3>2, <3>3, <3>4
  <2>7. status'[FrameSkip] \in {"suspended", "running"}
    BY <1>1, <2>2, <2>4, <2>5 DEF ThreadsType
  <2>8. QED
    BY <2>1, <2>5, <2>6, <2>7 DEF T!Running, ThreadsInv
<1>12. CASE UNCHANGED T!vars
  BY <1>12
  DEF T!vars, ThreadsInv, ThreadsType, Starting, Listed, Turns, RunsDown, Draining, Positions,
      HadTurn, T!NoneRuns
<1>13. QED
  BY <1>3, <1>4, <1>5, <1>6, <1>7, <1>9, <1>10, <1>11, <1>12 DEF T!Next, T!Loop

\* When frame_skip waits for the next frame, every thread that is not of this very
\* frame has had exactly one turn since the last update, for any number of threads.
THEOREM UpdatesAfterAll == MCSpec => []UpdateAfterAll
<1>1. MCInit => ThreadsInv
  BY ThreadsInit DEF MCInit
<1>2. [ProcessStep \/ FrameStep \/ ThreadStep]_<<part, vars, frame, threads>> => [T!Next]_(T!vars)
  BY DEF ProcessStep, FrameStep, ThreadStep, threads, T!vars
<1>3. ThreadsInv => UpdateAfterAll
  <2> SUFFICES ASSUME ThreadsInv, T!Running(FrameSkip), NEW t \in T!Threads,
                      status[t] = "suspended", t \notin young
               PROVE  turns[t] = 1
    BY DEF UpdateAfterAll, T!UpdateAfterAll
  <2>1. FrameSkip \in T!Threads /\ status[FrameSkip] = "running"
    BY DEF T!Threads, T!Running
  <2>2. ThreadsType /\ Rounds
    BY <2>1 DEF T!Running, ThreadsInv, RunsDown, T!NoneRuns, Rounds
  <2>3. i \in Positions /\ thread_list[i] = FrameSkip
    BY <2>1, <2>2 DEF Rounds, Listed
  <2>4. PICK p \in Positions : thread_list[p] = t
    BY <2>2 DEF Rounds, Listed
  <2>5. p # i
    BY <2>1, <2>3, <2>4
  <2>6. HadTurn(p, i)
    BY <2>2, <2>3, <2>5, PositionFacts DEF HadTurn
  <2>7. QED
    BY <2>2, <2>3, <2>4, <2>6 DEF Rounds, Turns
<1>4. QED
  BY <1>1, <1>2, <1>3, ThreadsNext, PTL DEF MCSpec
=============================================================================
