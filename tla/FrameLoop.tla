----------------------------- MODULE FrameLoop -----------------------------
(***************************************************************************)
(* yield() (main.cpp:758-913) as a loop between the script and the game:   *)
(* it waits for the next frame, sends the due key events, waits for a      *)
(* battle, and polls the game with get_th105param (main.cpp:645-717),      *)
(* which releases all keys when a battle is over and looks for the side    *)
(* to play, and reloads the script, when one begins.                       *)
(*                                                                         *)
(* The game runs on at any time between two polls; a scene lasts at least  *)
(* until the bot has read it.  battle_time is only ever compared with an   *)
(* earlier value of its own, so what is kept is whether it has moved.      *)
(* Keys and their events are those of module KeyInput, as far as they      *)
(* matter here: as long as the key delay is not shortened, the events      *)
(* leave in the order they were queued, the due ones, some prefix, in      *)
(* ProcessEvent, all of them in Clear.                                     *)
(***************************************************************************)
EXTENDS Integers, Sequences

CONSTANTS
  Keys,       \* the keys the script uses
  MaxPending  \* bound: the script queues no event beyond this many

VARIABLES
  scene,    \* the game: its scene, and whether its clock ticked since it was read
  ticked,
  active,   \* the game's window is in the foreground
  seen,     \* the scene last read
  mode,     \* the scene get_th105param handled last
  moved,    \* battle_time # bt
  t1,       \* FALSE while t1 = 0: no frame was paced yet
  pc,       \* where yield() is, or "script"
  on, pending, held, \* the keys held by the script, the events, the keys pressed
  skips     \* history: no battle was read when the next wait was already over

vars == <<scene, ticked, active, seen, mode, moved, t1, pc, on, pending, held, skips>>
keyboard == <<on, pending, held>>
game == <<scene, ticked, active>>

\* Scene 5 is a battle; 3, 6, 10, 11 and 12 are the ones get_th105param releases
\* the keys in (selection, loading); in the rest it does nothing.
Scenes == {"battle", "menu", "other"}

-----------------------------------------------------------------------------
Init ==
  /\ scene \in Scenes /\ ticked = FALSE /\ active = TRUE
  /\ seen = "other" /\ mode = "other"
  /\ moved \in BOOLEAN /\ t1 = FALSE
  /\ pc = "active"
  /\ on = {} /\ pending = <<>> /\ held = {}
  /\ skips = FALSE

-----------------------------------------------------------------------------
(***************************************************************************)
(* The game.  A battle is entered through menus and a loading scene, which *)
(* outlast the frame, the 320 ms and the polls the bot needs to come to    *)
(* wait for it, unless the user has left the game's window.                *)
(***************************************************************************)
Waiting == pc \in {"scene", "sync"}

Tick == scene = "battle" /\ ticked' = TRUE /\ UNCHANGED <<scene, active>>

ChangeScene ==
  /\ seen = scene
  /\ scene' \in Scenes \ {scene}
  /\ scene' = "battle" => scene = "menu" /\ (Waiting \/ ~active)
  /\ ticked' = (scene' = "battle")
  /\ UNCHANGED active

SwitchWindow == active' = ~active /\ UNCHANGED <<scene, ticked>>

Game ==
  /\ Tick \/ ChangeScene \/ SwitchWindow
  /\ UNCHANGED <<seen, mode, moved, t1, pc, keyboard, skips>>

-----------------------------------------------------------------------------
(***************************************************************************)
(* The script.                                                             *)
(***************************************************************************)
key_on(n) ==
  /\ pc = "script" /\ n \notin on /\ Len(pending) < MaxPending
  /\ on' = on \cup {n}
  /\ pending' = Append(pending, [key |-> n, down |-> TRUE])
  /\ UNCHANGED <<held, game, seen, mode, moved, t1, pc, skips>>

key_off(n) ==
  /\ pc = "script" /\ n \in on /\ Len(pending) < MaxPending
  /\ on' = on \ {n}
  /\ pending' = Append(pending, [key |-> n, down |-> FALSE])
  /\ UNCHANGED <<held, game, seen, mode, moved, t1, pc, skips>>

CallYield ==
  /\ pc = "script" /\ pc' = "active"
  /\ UNCHANGED <<keyboard, game, seen, mode, moved, t1, skips>>

-----------------------------------------------------------------------------
(***************************************************************************)
(* yield()                                                                 *)
(***************************************************************************)
\* The keys pressed after the events es have been sent: those whose last event is
\* down, and those that were pressed and have none.
After(pressed, es) ==
  {n \in Keys :
     \/ n \in pressed /\ \A k \in 1 .. Len(es) : es[k].key # n
     \/ \E k \in 1 .. Len(es) : /\ es[k].key = n /\ es[k].down
                                /\ \A m \in k + 1 .. Len(es) : es[m].key # n}

\* Fault: keyboard.Clear() without key_reset().
ReleaseAll_NoReset == held' = After(held, pending) /\ pending' = <<>> /\ UNCHANGED on

\* key_reset() and keyboard.Clear(): the rest is sent, then the releases.
ReleaseAll ==
  /\ held' = After(held, pending) \ on
  /\ on' = {} /\ pending' = <<>>

\* reload(): a new script, whose loading calls yield.
Reload == pc' = "active"

BattleBegins == scene = "battle" /\ mode # "battle"

\* What get_th105param reads, the scene and the clock of a battle that is on, ...
ReadGame ==
  /\ seen' = scene /\ mode' = scene
  /\ IF scene = "battle" /\ ~BattleBegins
     THEN moved' = (moved \/ ticked) /\ ticked' = FALSE
     ELSE UNCHANGED <<moved, ticked>>
  /\ UNCHANGED <<scene, active>>

\* ... and what it does with the keys.
Poll ==
  /\ ReadGame
  /\ IF scene = "menu" /\ mode # "menu" THEN ReleaseAll ELSE UNCHANGED keyboard

\* get_th105param, and where yield goes on: nowhere if it reloads.
get_th105param(next) == Poll /\ IF BattleBegins THEN Reload ELSE pc' = next

\* The scene just read is no battle, and the loop that would time out and release
\* the keys will be left at once.
NoWait(m) == scene # "battle" /\ m

\* While another window is in the foreground only the scene is read.
WaitActive ==
  /\ pc = "active"
  /\ IF active
     THEN pc' = "wait" /\ UNCHANGED <<seen, skips>>
     ELSE seen' = scene /\ skips' = (skips \/ NoWait(moved)) /\ UNCHANGED pc
  /\ UNCHANGED <<keyboard, game, mode, moved, t1>>

\* while(bt==battle_time): up to 320 ms after the last frame.
WaitFrame ==
  /\ pc = "wait"
  /\ IF moved
     THEN pc' = "send" /\ UNCHANGED <<game, seen, mode, moved, keyboard>>
     ELSE get_th105param("wait")
  /\ UNCHANGED <<t1, skips>>

\* Fault: when no frame comes yield goes on, and releases nothing.
WaitFrameTimeout_KeepsKeys ==
  /\ pc = "wait" /\ ~moved
  /\ Poll /\ (IF BattleBegins THEN Reload ELSE pc' = "send")
  /\ UNCHANGED <<t1, skips>>

WaitFrameTimeout ==
  /\ pc = "wait" /\ ~moved
  /\ ReadGame
  /\ IF BattleBegins
     THEN Reload /\ UNCHANGED keyboard
     ELSE pc' = "send" /\ ReleaseAll
  /\ UNCHANGED <<t1, skips>>

ProcessEvent ==
  /\ pc = "send" /\ pc' = "scene"
  /\ \E sent \in 0 .. Len(pending) :
       /\ held' = After(held, SubSeq(pending, 1, sent))
       /\ pending' = SubSeq(pending, sent + 1, Len(pending))
  /\ moved' = FALSE
  /\ UNCHANGED <<on, game, seen, mode, t1, skips>>

\* while(1): until a battle is on.
WaitBattle ==
  /\ pc = "scene"
  /\ IF seen = "battle"
     THEN pc' = (IF t1 THEN "last" ELSE "sync") /\ UNCHANGED <<game, seen, mode, moved, keyboard>>
     ELSE get_th105param("scene")
  /\ UNCHANGED <<t1, skips>>

\* The first frame: while(t1 == battle_time).  A reload in it leaves t1 at that
\* battle_time, 0 or not.
Sync ==
  /\ pc = "sync"
  /\ get_th105param(IF scene = "battle" /\ ticked THEN "first" ELSE "sync")
  /\ IF pc' = "active" THEN t1' \in BOOLEAN ELSE t1' = (pc' = "first")
  /\ UNCHANGED skips

\* The last poll, and back to the script.
Return ==
  /\ pc \in {"first", "last"}
  /\ get_th105param("script")
  /\ skips' = (pc' = "script" /\ NoWait(moved'))
  /\ UNCHANGED t1

\* reload_check, wherever it is called: F12.
PressF12 ==
  /\ \/ pc = "active" /\ ~active
     \/ pc = "scene" /\ seen # "battle"
     \/ pc \in {"first", "last"}
  /\ Reload
  /\ UNCHANGED <<keyboard, game, seen, mode, moved, t1, skips>>

-----------------------------------------------------------------------------
Script == CallYield \/ \E n \in Keys : key_on(n) \/ key_off(n)
Yield == WaitActive \/ WaitFrame \/ ProcessEvent \/ WaitBattle \/ Sync \/ Return

Next == Game \/ Script \/ Yield \/ WaitFrameTimeout \/ PressF12

\* The bot goes on; the script calls yield again and again; the 320 ms pass if
\* no frame comes; the user returns to the game again and again.
Fairness ==
  /\ WF_vars(Yield) /\ WF_vars(CallYield)
  /\ SF_vars(WaitFrameTimeout)
  /\ SF_vars(WaitActive /\ active)

Spec == Init /\ [][Next]_vars /\ Fairness

-----------------------------------------------------------------------------
NothingPressed == on = {} /\ pending = <<>> /\ held = {}

\* search_key changes the meaning of every key: when the battle the bot has been
\* waiting for begins it must find none pressed or about to be, or the release of
\* the old one would never be sent.  (It is not so when a frame ended between
\* the last wait and the end of the battle: yield then returns to the script, and
\* the next one sends its keys into the menu without waiting.  Nor when the user
\* was in another window from one battle to the next: the loop that waits for the
\* window reads the scene only.)
RemapsReleased ==
  [][ReadGame /\ BattleBegins /\ Waiting /\ ~skips => NothingPressed]_vars

\* After a battle every key is released in the end, whatever scene follows.
ReleasedAfterBattle ==
  []<>active => (scene # "battle" /\ held # {} ~> held = {} \/ scene = "battle" \/ skips)
=============================================================================
