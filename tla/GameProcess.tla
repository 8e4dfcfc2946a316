---------------------------- MODULE GameProcess ----------------------------
(***************************************************************************)
(* How the bot finds the game and finds it again.  The two games it knows, *)
(* "swr" and "soku", may be started and closed at any time, also while the *)
(* other runs.  GetProcessHandle (main.cpp:387-440) looks for a window of  *)
(* either until it finds one; it is called by yield when there is no       *)
(* handle (main.cpp:771) and by check_th105 when a read fails              *)
(* (main.cpp:629).  What the bot reads lies at other addresses in each of  *)
(* them: they come from the settings of the type found, and are kept in    *)
(* addr.list from their first use on (address.h:309-318).                  *)
(*                                                                         *)
(* While it looks the user may load another script, F12 or F11, whose      *)
(* first yield calls GetProcessHandle from within GetProcessHandle.        *)
(***************************************************************************)
EXTENDS Integers

CONSTANTS
  Addresses,  \* the entries of addr.list that are followed
  ACTIVEFLAG, \* the one MyWndActive reads
  MaxOuter    \* bound: searches suspended by an F11 at the same time

ASSUME AddressAssumption == ACTIVEFLAG \in Addresses
ASSUME MaxOuterAssumption == MaxOuter \in Nat

Games == {"swr", "soku"}
None == "none"
Dead == "dead"  \* the handle of a process that has ended

VARIABLES
  running,      \* the games that run
  pc,           \* in GetProcessHandle, or "run" outside of it
  ph, data_ph,  \* the bot's handle, and the one in my_data and enemy_data
  type,         \* g_ini.type
  list,         \* addr.list: the game whose address an entry holds, or none
  is_first_run,
  AppDownExit,
  outer,        \* the searches suspended by an F11
  resumed       \* history: such a search went on after its F11's script had ended

vars == <<running, pc, ph, data_ph, type, list, is_first_run, AppDownExit, outer, resumed>>
handles == <<ph, data_ph, type>>
flags == <<is_first_run, AppDownExit, resumed>>

-----------------------------------------------------------------------------
Init ==
  /\ running \in SUBSET Games
  /\ pc = "run" /\ ph = None /\ data_ph = None /\ type = None
  /\ list = [a \in Addresses |-> None]
  /\ is_first_run = TRUE /\ AppDownExit \in {0, 1}
  /\ outer = 0 /\ resumed = FALSE

-----------------------------------------------------------------------------
(***************************************************************************)
(* The games.                                                              *)
(***************************************************************************)
Start(g) == g \notin running /\ running' = running \cup {g} /\ UNCHANGED <<ph, data_ph>>

Close(g) ==
  /\ g \in running /\ running' = running \ {g}
  /\ ph' = (IF ph = g THEN Dead ELSE ph)
  /\ data_ph' = (IF data_ph = g THEN Dead ELSE data_ph)

Game ==
  /\ \E g \in Games : Start(g) \/ Close(g)
  /\ UNCHANGED <<pc, type, list, outer, flags>>

-----------------------------------------------------------------------------
(***************************************************************************)
(* GetProcessHandle.                                                       *)
(***************************************************************************)
\* Fault: the addresses are kept.
GetProcessHandle_KeepsAddresses ==
  /\ pc' = IF ~is_first_run /\ AppDownExit = 0 THEN "ended" ELSE "soku"
  /\ UNCHANGED list

\* Its beginning: the end of the game may be the end of the bot.
GetProcessHandle ==
  IF ~is_first_run /\ AppDownExit = 0
  THEN pc' = "ended" /\ UNCHANGED list
  ELSE pc' = "soku" /\ list' = [a \in Addresses |-> None]

\* Fault: the characters get the handle only the first time.
Found_FirstOnly(g) ==
  /\ ph' = g /\ type' = g /\ pc' = "run"
  /\ data_ph' = IF data_ph = None THEN g ELSE data_ph
  /\ is_first_run' = FALSE

Found(g) ==
  /\ ph' = g /\ type' = g /\ pc' = "run"
  /\ data_ph' = g
  /\ is_first_run' = FALSE

\* Fault: the loop waits for the game it had before.
Find_SameGame(g, otherwise) ==
  IF g \in running /\ type \in {None, g} THEN Found(g)
  ELSE ph' = None /\ pc' = otherwise /\ UNCHANGED <<data_ph, type, is_first_run>>

\* GetSOKUHandle and GetSWRHandle, and what follows each.
Find(g, otherwise) ==
  IF g \in running THEN Found(g)
  ELSE ph' = None /\ pc' = otherwise /\ UNCHANGED <<data_ph, type, is_first_run>>

Search ==
  /\ \/ pc = "soku" /\ Find("soku", "swr")
     \/ pc = "swr" /\ Find("swr", "keys")
  /\ UNCHANGED <<running, list, AppDownExit, outer, resumed>>

\* After reload_check: the first time, or on F10 or F9, a game is started (it may
\* fail, and takes its time: Start), and round again.
AutoStart ==
  /\ pc = "start" /\ pc' = "soku"
  /\ is_first_run' \in {is_first_run, FALSE} /\ (is_first_run => ~is_first_run')
  /\ UNCHANGED <<running, handles, list, AppDownExit, outer, resumed>>

-----------------------------------------------------------------------------
(***************************************************************************)
(* reload_check.                                                           *)
(***************************************************************************)
NoKey == pc = "keys" /\ pc' = "start" /\ UNCHANGED <<running, handles, list, outer, flags>>

\* An address is looked up at its first use, once a game's type is known.
LookUp(a) == list' = IF list[a] = None THEN [list EXCEPT ![a] = type] ELSE list

\* reload(): MyWndActive(FALSE), then a script that never returns here; if none is
\* named yet (th105_start=1 looks for the game before it loads one), the end.
PressF12 ==
  /\ pc \in {"keys", "run"}
  /\ pc' = "run" \/ (pc = "keys" /\ data_ph = None /\ pc' = "ended")
  /\ LookUp(ACTIVEFLAG)
  /\ outer' = 0
  /\ UNCHANGED <<running, handles, flags>>

\* reload2(): a script that does; if the dialog is cancelled start() finds none and
\* ends the program.  (Outside of a search it changes nothing here, see module
\* ScriptEngine.)
PressF11 ==
  /\ pc = "keys" /\ outer < MaxOuter
  /\ pc' \in {"run", "ended"} /\ outer' = outer + 1
  /\ UNCHANGED <<running, handles, list, flags>>

\* The script ends, after its first yield: reload_check returns to the search that
\* it interrupted, or the program ends.
ScriptEnds ==
  /\ pc = "run" /\ ph # None
  /\ IF outer > 0
     THEN pc' = "start" /\ outer' = outer - 1 /\ resumed' = TRUE
     ELSE pc' = "ended" /\ UNCHANGED <<outer, resumed>>
  /\ UNCHANGED <<running, handles, list, is_first_run, AppDownExit>>

-----------------------------------------------------------------------------
(***************************************************************************)
(* The rest of the bot.                                                    *)
(***************************************************************************)
\* yield(): if(!ph) ph = GetProcessHandle(); with th105_start=1 OpenAI has called it
\* before (script.cpp:25-27).
yield ==
  /\ pc = "run" /\ ph = None
  /\ GetProcessHandle
  /\ UNCHANGED <<running, handles, outer, flags>>

\* Any ReadProcessMemory(ph, ADDR_..., ...); the first of a poll is check_th105's,
\* which calls GetProcessHandle if it fails.
check_th105 ==
  /\ pc = "run" /\ ph # None
  /\ IF ph = Dead THEN GetProcessHandle
     ELSE UNCHANGED pc /\ \E a \in Addresses : LookUp(a)
  /\ UNCHANGED <<running, handles, outer, flags>>

Bot == Search \/ AutoStart \/ NoKey \/ yield \/ check_th105

Next == Game \/ Bot \/ PressF12 \/ PressF11 \/ ScriptEnds

\* The bot goes on: the search loops, and the script yields, which polls.
Spec == Init /\ [][Next]_vars /\ WF_vars(Bot)

-----------------------------------------------------------------------------
TypeOK ==
  /\ running \subseteq Games
  /\ pc \in {"run", "soku", "swr", "keys", "start", "ended"}
  /\ ph \in Games \cup {None, Dead} /\ data_ph \in Games \cup {None, Dead}
  /\ type \in Games \cup {None} /\ list \in [Addresses -> Games \cup {None}]
  /\ is_first_run \in BOOLEAN /\ AppDownExit \in {0, 1} /\ resumed \in BOOLEAN
  /\ outer \in 0 .. MaxOuter
  /\ is_first_run => data_ph = None

\* Whatever games were closed and started, and whatever was loaded meanwhile, no
\* address of one game is used on the other (addr.reset(), main.cpp:396).  (It may
\* be when a search goes on after the script of an F11 that interrupted it has
\* ended: that script has filled the list, and the search finds the other game.
\* The script that the search was for runs in a closed Lua state by then,
\* see module ScriptEngine.)
AddressesOfTheGame ==
  pc = "run" /\ ph \in Games /\ ~resumed => type = ph /\ \A a \in Addresses : list[a] \in {None, ph}

\* The characters are read through the handle the scene is read through
\* (main.cpp:437-438), so they never show a game that has been closed.
OneHandle == pc = "run" /\ ph # None => data_ph = ph

\* If in the end one game runs and stays, the bot is attached to it in the end,
\* unless it has ended (AppDownExit; main.cpp:408-435).
Reattaches ==
  \A g \in Games : <>[](running = {g}) => <>[](ph = g /\ data_ph = g) \/ <>(pc = "ended")
=============================================================================
