----------------------------- MODULE ObjectList -----------------------------
(***************************************************************************)
(* How the bot comes by the objects (bullets, dolls) of a character: the   *)
(* game keeps them in a std::list, and Character::Reload (obj_base.cpp:    *)
(* 6-103, character.cpp:265-478) walks that list in the game's memory, one *)
(* ReadProcessMemory at a time, while the game goes on adding and removing *)
(* objects, and may leave the battle altogether.  Scripts then find their  *)
(* number in enemy_obj_n and the objects through get_obj_data and          *)
(* get_opt_xy.                                                             *)
(*                                                                         *)
(* A node of the list and the object it holds live and die together, so    *)
(* one address stands for both.  Of an object's data only what             *)
(* GetOptionObject asks of it is kept: whether it is one of the            *)
(* character's attached things (its half-ghost, dolls, spirits).           *)
(***************************************************************************)
EXTENDS Integers, Sequences, SequencesExt

CONSTANTS
  Objects,   \* the addresses at which the game puts objects
  Attached   \* those that are attached things when they are alive

ASSUME AttachedAssumption == Attached \subseteq Objects

VARIABLES
  battle, list,    \* the game: a battle's data is in memory; the objects in list order
  pc,              \* where get_th105param is, or "script"
  base_addr,       \* TRUE unless Character::base_addr is 0
  next, val,       \* objProjIter
  size, k,         \* objProjList.size and the loop's counter
  object,          \* Character::object
  obj_n, obj_dis2, \* as the script reads them; obj_dis2 is "near" or "far" (10000)
  stable           \* history: the list is as it was when its header was read

vars == <<battle, list, pc, base_addr, next, val, size, k, object, obj_n, obj_dis2, stable>>
game == <<battle, list, stable>>
iter == <<next, val>>
lua == <<obj_n, obj_dis2>>

Sentinel == "head" \* the list's own node, objProjList.head
Null == "null"
Pointers == Objects \cup {Sentinel, Null}
NoObject == [addr |-> "nil", attached |-> FALSE] \* lua_pushnil

ASSUME AddressAssumption ==
  Sentinel \notin Objects /\ Null \notin Objects /\ NoObject.addr \notin Objects

Live == ToSet(list)
Obj == [addr : Objects \cup {Null}, attached : BOOLEAN]

-----------------------------------------------------------------------------
Init ==
  /\ battle \in BOOLEAN /\ list = <<>> /\ stable = FALSE
  /\ pc = "base" /\ base_addr = FALSE
  /\ next = Null /\ val = Null /\ size = 0 /\ k = 0
  /\ object = <<>> /\ obj_n = 0 /\ obj_dis2 = "far"

-----------------------------------------------------------------------------
(***************************************************************************)
(* The game.                                                               *)
(***************************************************************************)
Spawn(o) == battle /\ o \notin Live /\ list' = Append(list, o) /\ UNCHANGED battle
Vanish(i) == battle /\ list' = RemoveAt(list, i) /\ UNCHANGED battle
EnterBattle == ~battle /\ battle' = TRUE /\ list' = <<>>
LeaveBattle == battle /\ battle' = FALSE /\ list' = <<>>

Game ==
  /\ \/ EnterBattle \/ LeaveBattle
     \/ \E o \in Objects : Spawn(o)
     \/ \E i \in DOMAIN list : Vanish(i)
  /\ stable' = FALSE
  /\ UNCHANGED <<pc, base_addr, iter, size, k, object, lua>>

\* The node after o.
Successor(o) == IF o = Last(list) THEN Sentinel ELSE list[CHOOSE i \in 2 .. Len(list) : list[i - 1] = o]

-----------------------------------------------------------------------------
(***************************************************************************)
(* The bot, one step per read that something depends on.                   *)
(***************************************************************************)
\* Without a battle the reads fail, which leaves the old address, or find 0.
ReloadBaseAddr ==
  /\ pc = "base"
  /\ IF battle THEN base_addr' = TRUE ELSE base_addr' \in {base_addr, FALSE}
  /\ pc' = IF base_addr' THEN "fields" ELSE "hit"
  /\ UNCHANGED <<game, iter, size, k, object, lua>>

\* Position, hit and attack areas, cards: of a battle that is gone the counts of
\* the areas are whatever is on the stack, and too large a count ends it here.
Reload ==
  /\ pc = "fields"
  /\ IF battle THEN pc' = "list" ELSE pc' \in {"list", "hit"}
  /\ UNCHANGED <<game, base_addr, iter, size, k, object, lua>>

\* Fault: if the manager cannot be read nothing is done at all.
ReloadObject_Returns ==
  /\ pc = "list"
  /\ IF battle
     THEN pc' = "first" /\ size' = Len(list) /\ k' = 0 /\ stable' = TRUE
     ELSE pc' = "hit" /\ UNCHANGED <<size, k, stable>>
  /\ object' = <<>>
  /\ UNCHANGED <<battle, list, base_addr, iter, lua>>

\* Fault: the objects of the last poll stay.
ReloadObject_KeepsOld ==
  /\ pc = "list"
  /\ IF battle
     THEN pc' = "first" /\ size' = Len(list) /\ k' = 0 /\ stable' = TRUE
     ELSE pc' = "lua" /\ UNCHANGED <<size, k, stable>>
  /\ UNCHANGED <<battle, list, base_addr, iter, object, lua>>

\* object.clear(), then the list's header, which needs the two characters of a
\* battle.
ReloadObject ==
  /\ pc = "list"
  /\ object' = <<>>
  /\ IF battle
     THEN pc' = "first" /\ size' = Len(list) /\ k' = 0 /\ stable' = TRUE
     ELSE pc' = "lua" /\ UNCHANGED <<size, k, stable>>
  /\ UNCHANGED <<battle, list, base_addr, iter, lua>>

\* ReadProcessMemory of the node at p.  Memory the game has freed holds anything ...
Readable(p) == IF p = Sentinel THEN battle ELSE p \in Live

ReadNode(p) ==
  IF Readable(p)
  THEN /\ next' = IF p # Sentinel THEN Successor(p) ELSE IF list = <<>> THEN Sentinel ELSE Head(list)
       /\ val' = IF p # Sentinel THEN p ELSE Null
  ELSE next' \in Pointers /\ val' \in Objects \cup {Null}

\* ReloadObject returns, and its locals are gone.
Return == pc' = "lua" /\ next' = Null /\ val' = Null /\ size' = 0 /\ k' = 0

\* ... or is unreadable, which ends the walk.
ReadFails(p) == ~Readable(p) /\ Return

ReadHead ==
  /\ pc = "first"
  /\ ReadFails(Sentinel) \/ (ReadNode(Sentinel) /\ pc' = "walk" /\ UNCHANGED <<size, k>>)
  /\ UNCHANGED <<game, base_addr, object, lua>>

\* The loop's condition.
More == next \notin {Sentinel, Null} /\ size > k

Walk ==
  /\ pc = "walk"
  /\ IF More
     THEN ReadFails(next) \/ (ReadNode(next) /\ pc' = "object" /\ UNCHANGED <<size, k>>)
     ELSE Return
  /\ UNCHANGED <<game, base_addr, object, lua>>

\* Fault: an entry without an object is left out, and not counted.
ReadObject_Uncounted ==
  /\ pc = "object"
  /\ IF val = Null THEN UNCHANGED <<object, k>>
     ELSE /\ \E a \in BOOLEAN :
               /\ val \in Live => a = (val \in Attached)
               /\ object' = Append(object, [addr |-> val, attached |-> a])
          /\ k' = k + 1
  /\ pc' = "walk"
  /\ UNCHANGED <<game, base_addr, iter, size, lua>>

\* Obj a(ph, val); a.Reload(mode); of an object gone meanwhile, anything.
ReadObject ==
  /\ pc = "object"
  /\ \E a \in BOOLEAN :
       /\ val \in Live => a = (val \in Attached)
       /\ object' = Append(object, [addr |-> val, attached |-> a])
  /\ k' = k + 1
  /\ pc' = "walk"
  /\ UNCHANGED <<game, base_addr, iter, size, lua>>

ReloadLuaValue ==
  /\ pc = "lua" /\ pc' = "hit"
  /\ obj_n' = Len(object)
  /\ UNCHANGED <<game, base_addr, iter, size, k, object, obj_dis2>>

\* is_bullethit, once both characters are read; yield polls several times before
\* it returns to the script.
is_bullethit ==
  /\ pc = "hit" /\ pc' \in {"base", "script"}
  /\ obj_dis2' = IF object = <<>> THEN "far" ELSE "near"
  /\ UNCHANGED <<game, base_addr, iter, size, k, object, obj_n>>

CallYield == pc = "script" /\ pc' = "base" /\ UNCHANGED <<game, base_addr, iter, size, k, object, lua>>

-----------------------------------------------------------------------------
(***************************************************************************)
(* What a script may call meanwhile.                                       *)
(***************************************************************************)
lua_get_obj_data(i) == IF i >= Len(object) THEN NoObject ELSE object[i + 1]

\* GetOptionObject for a character that has attached things: found_count and the
\* object found, after each object looked at; nothing happens once
\* index <= found_count fails.
GetOptionObject(index) ==
  FoldLeft(LAMBDA r, o :
             IF r.result # NoObject \/ ~(index <= r.found) \/ ~o.attached THEN r
             ELSE IF index = r.found THEN [r EXCEPT !.result = o]
             ELSE [r EXCEPT !.found = @ + 1],
           [found |-> 0, result |-> NoObject], object).result

lua_get_opt_xy(index) == IF index >= Len(object) THEN NoObject ELSE GetOptionObject(index)

-----------------------------------------------------------------------------
Poll ==
  \/ ReloadBaseAddr \/ Reload \/ ReloadObject \/ ReadHead \/ Walk \/ ReadObject
  \/ ReloadLuaValue \/ is_bullethit

Next == Game \/ Poll \/ CallYield

\* The bot's process is scheduled; whether the script yields is its own affair.
Spec == Init /\ [][Next]_vars /\ WF_vars(Poll)

-----------------------------------------------------------------------------
\* If the game leaves the list alone from the reading of its header on, the bot
\* has at the end of the walk each object once, in the list's order, none of the
\* sentinel's and none missing (character.cpp:411-425).
WalkIsExact ==
  pc = "lua" /\ stable =>
    object = [i \in 1 .. Len(list) |-> [addr |-> list[i], attached |-> list[i] \in Attached]]

\* A script that counts to obj_n finds an object at every number below it and nil
\* from there on, also when the reload was broken off, before or in the middle of
\* the list (obj_base.cpp:8, 39, 59; character.cpp:377-421), and obj_dis2 is that
\* of an object exactly when it finds one (main.cpp:1007-1023).
ScriptSeesCount ==
  pc = "script" =>
    /\ \A i \in 0 .. obj_n : (lua_get_obj_data(i) = NoObject) = (i = obj_n)
    /\ (obj_dis2 = "near") = (obj_n > 0)

\* Every walk ends, however the game's changes lead it in circles
\* (character.cpp:418).
WalkEnds == pc = "walk" ~> pc = "hit"

\* document.txt:192-203: get_opt_xy(player,num) is 「指定プレイヤーのnum+1個目の付属物」, the
\* (num+1)th of the attached things, and nil after the last.
AttachedInOrder ==
  pc = "script" =>
    LET all == SelectSeq(object, LAMBDA o : o.attached) IN
    \A i \in 0 .. Len(object) :
      lua_get_opt_xy(i) = IF i < Len(all) THEN all[i + 1] ELSE NoObject
=============================================================================
