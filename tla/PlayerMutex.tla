---------------------------- MODULE PlayerMutex ----------------------------
(***************************************************************************)
(* Several bots on one machine share out the two players of the game with  *)
(* two named mutexes, TH105AI_1P and TH105AI_2P.  A bot takes one of them  *)
(* in init() and again in search_key() when the game shows it on the other *)
(* side: change_player (main.cpp:474-509), whose Win32 calls are separate  *)
(* steps here, so that the bots interleave between them.                   *)
(*                                                                         *)
(* The mutexes are Windows's: an object lives while some bot has a handle  *)
(* to it, and if its owner exits, the next wait gets it but returns        *)
(* WAIT_ABANDONED, which change_player takes for a failure.                *)
(***************************************************************************)
EXTENDS IniStore

CONSTANTS
  Bots,      \* the processes
  Settings,  \* the values th123_ai.ini may give Player
  Overrides  \* the values a section of dev.ini may give it; 0: no such section

ASSUME SettingsAssumption == Settings \subseteq Nat /\ Overrides \subseteq Nat

VARIABLES
  pc,        \* of each bot
  ini,       \* its settings
  n,         \* change_player's n
  h,         \* the side whose mutex it has a handle to, or None (NULL)
  searching, \* change_player was called by search_key
  keys,      \* the side whose key map search_key took, or None
  owner,     \* of each side's mutex: a bot, Nobody or Abandoned
  count,     \* how often its owner acquired it
  calm       \* history: since its first Create no other bot changed a mutex, and
             \* it met none whose owner had died or had no handle to it any more

vars == <<pc, ini, n, h, searching, keys, owner, count, calm>>
mutexes == <<owner, count>>

Sides == {1, 2}
None == 0
Nobody == "nobody"
Abandoned == "abandoned"
MaxCount == 3  \* bound: a bot acquires a mutex it owns no more often

ASSUME BotsAssumption == Nobody \notin Bots /\ Abandoned \notin Bots

Side(player) == IF player = 2 THEN 2 ELSE 1
Other(side) == 3 - side
Player(b) == Side(Search(ini[b], "Player"))

-----------------------------------------------------------------------------
Init ==
  /\ pc = [b \in Bots |-> "off"]
  /\ ini = [b \in Bots |-> EmptyStore]
  /\ n = [b \in Bots |-> 1]
  /\ h = [b \in Bots |-> None]
  /\ searching = [b \in Bots |-> FALSE]
  /\ keys = [b \in Bots |-> None]
  /\ owner = [m \in Sides |-> Nobody] /\ count = [m \in Sides |-> 0]
  /\ calm = [b \in Bots |-> TRUE]

Goto(b, step) == pc' = [pc EXCEPT ![b] = step]

\* What the others see of a step of b that changes who owns which mutex.
Disturb(b) == calm' = [c \in Bots |-> calm[c] /\ c = b]

\* init(): the built-in default, then the ini files, then change_player.
Loaded(setting, override) ==
  LET files == Add(Add(EmptyStore, "default", "Player", 1), "Option", "Player", setting)
  IN  IF override = 0 THEN files ELSE Add(files, "dev", "Player", override)

Start(b) ==
  /\ pc[b] = "off" /\ Goto(b, "create1")
  /\ \E setting \in Settings, override \in Overrides :
       /\ ini' = [ini EXCEPT ![b] = Loaded(setting, override)]
       /\ n' = [n EXCEPT ![b] = Side(Search(ini'[b], "Player"))]
  /\ searching' = [searching EXCEPT ![b] = FALSE]
  /\ keys' = [keys EXCEPT ![b] = None]
  /\ UNCHANGED <<h, mutexes, calm>>

\* search_key has found that the bot is to play the given side.
search_key(b, side) ==
  /\ pc[b] = "run"
  /\ IF side = Player(b)
     THEN Goto(b, "keys") /\ UNCHANGED <<ini, n>>
     ELSE /\ Goto(b, "release")
          /\ ini' = [ini EXCEPT ![b] = Add(ini[b], "Option", "Player", side)]
          /\ n' = [n EXCEPT ![b] = Side(Search(ini'[b], "Player"))]
  /\ searching' = [searching EXCEPT ![b] = TRUE]
  /\ UNCHANGED <<h, keys, mutexes, calm>>

\* ... and ends by taking the key map of the side in the settings.
search_key_map(b) ==
  /\ pc[b] = "keys" /\ Goto(b, "run")
  /\ keys' = [keys EXCEPT ![b] = IF searching[b] THEN Player(b) ELSE None]
  /\ UNCHANGED <<ini, n, h, searching, mutexes, calm>>

ReleaseMutex(b) ==
  /\ pc[b] = "release" /\ Goto(b, "close")
  /\ IF owner[h[b]] = b
     THEN /\ count' = [count EXCEPT ![h[b]] = @ - 1]
          /\ owner' = [owner EXCEPT ![h[b]] = IF count[h[b]] = 1 THEN Nobody ELSE b]
     ELSE UNCHANGED mutexes
  /\ Disturb(b)
  /\ UNCHANGED <<ini, n, h, searching, keys>>

\* The object is gone with its last handle.
Drop(b, m) ==
  IF \E c \in Bots \ {b} : h[c] = m
  THEN UNCHANGED mutexes
  ELSE owner' = [owner EXCEPT ![m] = Nobody] /\ count' = [count EXCEPT ![m] = 0]

CloseHandle(b, from, to) ==
  /\ pc[b] = from /\ Goto(b, to)
  /\ Drop(b, h[b])
  /\ calm' = IF owner' = owner THEN calm ELSE [c \in Bots |-> FALSE]
  /\ h' = [h EXCEPT ![b] = None]
  /\ UNCHANGED <<ini, n, searching, keys>>

CreateMutex(b, from, to) ==
  /\ pc[b] = from /\ Goto(b, to)
  /\ h' = [h EXCEPT ![b] = n[b]]
  /\ calm' = IF from = "create1" THEN [calm EXCEPT ![b] = TRUE] ELSE calm
  /\ UNCHANGED <<ini, n, searching, keys, mutexes>>

\* The wait with timeout 0 on b's handle, and whether it is WAIT_OBJECT_0.
Acquires(b) == owner[h[b]] \in {Nobody, Abandoned, b}
Succeeds(b) == owner[h[b]] \in {Nobody, b}

WaitForSingleObject(b) ==
  IF Acquires(b)
  THEN /\ owner[h[b]] = b => count[h[b]] < MaxCount
       /\ owner' = [owner EXCEPT ![h[b]] = b]
       /\ count' = [count EXCEPT ![h[b]] = IF owner[h[b]] = b THEN @ + 1 ELSE 1]
       /\ IF owner[h[b]] = Abandoned THEN calm' = [c \in Bots |-> FALSE] ELSE Disturb(b)
  ELSE UNCHANGED <<mutexes, calm>>

\* Fault: a failed wait is not looked at.
FirstWait_Unchecked(b) ==
  /\ pc[b] = "wait1"
  /\ WaitForSingleObject(b)
  /\ Goto(b, "keys") /\ UNCHANGED <<ini, n>>
  /\ UNCHANGED <<h, searching, keys>>

\* Fault: the setting is left as it was when the other side is tried.
FirstWait_KeepsSetting(b) ==
  /\ pc[b] = "wait1"
  /\ WaitForSingleObject(b)
  /\ IF Succeeds(b)
     THEN Goto(b, "keys") /\ UNCHANGED <<ini, n>>
     ELSE /\ Goto(b, "close1")
          /\ n' = [n EXCEPT ![b] = Other(n[b])] /\ UNCHANGED ini
  /\ UNCHANGED <<h, searching, keys>>

\* Fault: n is not changed with the setting, so the same side is tried again.
FirstWait_SameSide(b) ==
  /\ pc[b] = "wait1"
  /\ WaitForSingleObject(b)
  /\ IF Succeeds(b)
     THEN Goto(b, "keys") /\ UNCHANGED <<ini, n>>
     ELSE /\ Goto(b, "close1") /\ UNCHANGED n
          /\ ini' = [ini EXCEPT ![b] = Add(ini[b], "Option", "Player", Other(n[b]))]
  /\ UNCHANGED <<h, searching, keys>>

FirstWait(b) ==
  /\ pc[b] = "wait1"
  /\ WaitForSingleObject(b)
  /\ IF Succeeds(b)
     THEN Goto(b, "keys") /\ UNCHANGED <<ini, n>>
     ELSE /\ Goto(b, "close1")
          /\ n' = [n EXCEPT ![b] = Other(n[b])]
          /\ ini' = [ini EXCEPT ![b] = Add(ini[b], "Option", "Player", Other(n[b]))]
  /\ UNCHANGED <<h, searching, keys>>

\* The process ends: its handle is closed and what it still owns is abandoned.
EndOf(b) ==
  LET alive(m) == \E c \in Bots \ {b} : h[c] = m
  IN  /\ owner' = [m \in Sides |-> IF h[b] = m /\ ~alive(m) THEN Nobody
                                   ELSE IF owner[m] = b THEN Abandoned ELSE owner[m]]
      /\ count' = [m \in Sides |-> IF owner'[m] \in {Nobody, Abandoned} THEN 0 ELSE count[m]]
      /\ pc' = [pc EXCEPT ![b] = "off"] /\ h' = [h EXCEPT ![b] = None]
      /\ ini' = [ini EXCEPT ![b] = EmptyStore] /\ n' = [n EXCEPT ![b] = 1]
      /\ keys' = [keys EXCEPT ![b] = None] /\ searching' = [searching EXCEPT ![b] = FALSE]
      /\ Disturb(b)

SecondWait(b) ==
  /\ pc[b] = "wait2"
  /\ IF Succeeds(b)
     THEN WaitForSingleObject(b) /\ Goto(b, "keys") /\ UNCHANGED <<ini, n, h, searching, keys>>
     ELSE EndOf(b)

\* The user ends the process, or it dies, at any time.
Exit(b) == pc[b] # "off" /\ EndOf(b)

-----------------------------------------------------------------------------
change_player(b) ==
  \/ ReleaseMutex(b)
  \/ CloseHandle(b, "close", "create1")
  \/ CreateMutex(b, "create1", "wait1")
  \/ FirstWait(b)
  \/ CloseHandle(b, "close1", "create2")
  \/ CreateMutex(b, "create2", "wait2")
  \/ SecondWait(b)

Next ==
  \E b \in Bots :
    \/ Start(b) \/ Exit(b)
    \/ \E side \in Sides : search_key(b, side)
    \/ search_key_map(b)
    \/ change_player(b)

Spec == Init /\ [][Next]_vars

-----------------------------------------------------------------------------
Runs(b) == pc[b] = "run"

\* A bot that plays owns the mutex of the side in its settings, and the keys it
\* presses are that side's.
PlaysItsOwnSide ==
  \A b \in Bots : Runs(b) =>
    h[b] = Player(b) /\ owner[h[b]] = b /\ keys[b] \in {None, Player(b)}

\* Two bots never play the same side: the second one takes the side opposite to
\* the first one's (History.txt:220).
OneBotPerSide ==
  \A b, c \in Bots : b # c /\ Runs(b) /\ Runs(c) => Player(b) # Player(c)

\* A bot gives up (exit(0) in change_player) only when it finds each side taken
\* by another bot, or locked by one that died; unless others took or left a
\* side while it was looking, or it met a mutex that a dead bot had left.
GivesUpOnlyWhenFull ==
  \A b \in Bots : pc[b] = "wait2" /\ ~Succeeds(b) /\ calm[b] =>
    \A m \in Sides : owner[m] \in (Bots \ {b}) \cup {Abandoned}
=============================================================================
