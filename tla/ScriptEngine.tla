---------------------------- MODULE ScriptEngine ----------------------------
(***************************************************************************)
(* The life of the scripts: loading, running, reloading (script.cpp,       *)
(* scriptBase.cpp, and the places in main.cpp that call them).             *)
(*                                                                         *)
(* Loading a script calls yield first (scriptBase.cpp:10-12), yield waits  *)
(* for the game, and while it waits F12, F11 or the start of a battle load *)
(* a script anew - inside that yield.  So the C stack is part of the       *)
(* state: a sequence of frames, the innermost last.  reload() never        *)
(* returns (it ends in exit), reload2() does.                              *)
(*                                                                         *)
(* Every engine->init() makes a new Lua state; states are numbered.  The   *)
(* game's scene is reduced to whether a battle goes on, and lasts at least *)
(* until get_th105param has seen it.                                       *)
(***************************************************************************)
EXTENDS Integers, Sequences, SequencesExt

CONSTANTS
  Files,     \* the script files the user may choose
  MaxStates  \* bound: the Lua states made in one run of the program

ASSUME MaxStatesAssumption == MaxStates \in Nat \ {0}

VARIABLES
  stack,         \* the frames, innermost last
  loadable,      \* engine->loadable: loaded, or about to be
  scriptName,    \* engine->scriptName, NoFile when empty
  protect_flag,  \* Lua errors are caught rather than reported by panic_reload
  state,         \* the engine's current Lua state
  open,          \* the Lua states not closed
  file,          \* the file executed in each of them, or NoFile
  battle,        \* the game shows a battle
  mode,          \* get_th105param has seen that it does
  ended,         \* the program has ended
  chosen,        \* history: the file the user chose last
  plain,         \* history: F11 was pressed only while a script was loaded,
                 \* and no script that F11 loaded has ended
  old            \* history: the Lua states loaded before the last battle began

vars == <<stack, loadable, scriptName, protect_flag, state, open, file,
          battle, mode, ended, chosen, plain, old>>
engine == <<loadable, scriptName, state, open, file>>
game == <<battle, mode>>
user == <<chosen, plain>>

NoFile == "none"
States == 1 .. MaxStates

\* A frame of OpenAI, reload or reload2 loads the file into engine->state; a
\* frame of a script runs in the Lua state L.
Frame(kind, f, L) == [kind |-> kind, file |-> f, L |-> L]
InYield == Frame("yield", NoFile, 0)
Top(kind) == ~ended /\ stack # <<>> /\ Last(stack).kind = kind
Loaders == {"OpenAI", "reload", "reload2"}

-----------------------------------------------------------------------------
\* main2 has called engine->init(); OpenAI sets protect_flag and loads the file
\* of the settings, or the one chosen in the dialog.
Init ==
  \E f \in Files :
    /\ stack = <<Frame("OpenAI", f, 0), InYield>>
    /\ loadable = FALSE /\ scriptName = f
    /\ protect_flag = TRUE
    /\ state = 1 /\ open = {1} /\ file = [s \in States |-> NoFile]
    /\ battle = FALSE /\ mode = FALSE
    /\ ended = FALSE
    /\ chosen = f /\ plain = TRUE /\ old = {}

\* The game.
BattleBegins == ~battle /\ ~mode /\ battle' = TRUE /\ old' = States
BattleEnds == battle /\ mode /\ battle' = FALSE /\ UNCHANGED old

GameStep ==
  /\ ~ended /\ (BattleBegins \/ BattleEnds)
  /\ UNCHANGED <<stack, engine, protect_flag, mode, ended, user>>

\* end(): nothing when no script has been loaded; then the name is kept, too.
EndedOpen == IF loadable THEN open \ {state} ELSE open
EndedName == IF loadable THEN NoFile ELSE scriptName

\* Fault: end() leaves the name of the script it ends.
LoadAnew_KeepsName(kind, f) ==
  /\ state < MaxStates
  /\ state' = state + 1
  /\ open' = EndedOpen \cup {state + 1}
  /\ scriptName' = IF scriptName = NoFile THEN f ELSE scriptName
  /\ loadable' = FALSE
  /\ stack' = stack \o <<Frame(kind, f, 0), InYield>>
  /\ UNCHANGED <<protect_flag, file, ended>>

\* Fault: init() before end(), which then closes the new state.
LoadAnew_ClosesNew(kind, f) ==
  /\ state < MaxStates
  /\ state' = state + 1
  /\ open' = IF loadable THEN open ELSE open \cup {state + 1}
  /\ scriptName' = IF EndedName = NoFile THEN f ELSE EndedName
  /\ loadable' = FALSE
  /\ stack' = stack \o <<Frame(kind, f, 0), InYield>>
  /\ UNCHANGED <<protect_flag, file, ended>>

\* end(), init(), loadFile(f), up to the yield in it.
LoadAnew(kind, f) ==
  /\ state < MaxStates
  /\ state' = state + 1
  /\ open' = EndedOpen \cup {state + 1}
  /\ scriptName' = IF EndedName = NoFile THEN f ELSE EndedName
  /\ loadable' = FALSE
  /\ stack' = stack \o <<Frame(kind, f, 0), InYield>>
  /\ UNCHANGED <<protect_flag, file, ended>>

Exit == ended' = TRUE /\ UNCHANGED <<stack, engine, protect_flag>>

\* reload(): without a name there is nothing to load, and it exits.
Reload == IF scriptName = NoFile THEN Exit ELSE LoadAnew("reload", scriptName)

\* reload_check(), which every loop that waits calls.
PressF12 ==
  /\ Top("yield") /\ Reload
  /\ UNCHANGED <<game, user, old>>

PressF11(f) ==
  /\ Top("yield") /\ LoadAnew("reload2", f)
  /\ chosen' = f /\ plain' = (plain /\ loadable)
  /\ UNCHANGED <<game, old>>

\* The dialog is closed without a choice: start() refuses to run.
CancelF11 == Top("yield") /\ Exit /\ UNCHANGED <<game, user, old>>

\* Fault: a battle that begins reloads only a script that is not loaded yet.
get_th105param_ReloadsOnce ==
  /\ Top("yield") /\ battle # mode
  /\ mode' = battle
  /\ IF battle /\ ~loadable THEN Reload ELSE UNCHANGED <<stack, engine, protect_flag, ended>>
  /\ UNCHANGED <<battle, user, old>>

\* get_th105param sees that a battle has begun, and reloads; or that it is over.
get_th105param ==
  /\ Top("yield") /\ battle # mode
  /\ mode' = battle
  /\ IF battle THEN Reload ELSE UNCHANGED <<stack, engine, protect_flag, ended>>
  /\ UNCHANGED <<battle, user, old>>

\* yield returns only in a battle, and only after get_th105param.
YieldReturns ==
  /\ Top("yield") /\ battle /\ mode
  /\ stack' = Front(stack)
  /\ loadable' = TRUE
  /\ UNCHANGED <<scriptName, protect_flag, state, open, file, game, ended, user, old>>

\* reload2 closed the Lua state of the script it interrupted: back in that
\* script freed memory is used, which goes on (YieldReturns) or crashes.
UsesClosedState ==
  /\ Top("yield") /\ battle /\ mode
  /\ LET below == Last(Front(stack)) IN below.kind = "script" /\ below.L \notin open
  /\ Exit
  /\ UNCHANGED <<game, user, old>>

\* loadFile executes the file, OpenAI clears protect_flag, and start() calls
\* api_main in the current state.
Execute ==
  /\ \E kind \in Loaders : Top(kind)
  /\ file' = [file EXCEPT ![state] = Last(stack).file]
  /\ old' = old \ {state}
  /\ protect_flag' = (protect_flag /\ Last(stack).kind # "OpenAI")
  /\ stack' = Append(stack, Frame("script", NoFile, state))
  /\ UNCHANGED <<loadable, scriptName, state, open, game, ended, user>>

\* A file that cannot be read or has an error: reload() gives up; reload2() and
\* OpenAI run api_main all the same, which finds no main, and as no protected
\* call is active in the new state, panic_reload reports it and reloads.
ExecuteFails ==
  /\ \E kind \in Loaders : Top(kind)
  /\ IF Last(stack).kind = "reload" THEN Exit ELSE Reload
  /\ UNCHANGED <<game, user, old>>

\* The script calls _yield.
ScriptYields ==
  /\ Top("script")
  /\ stack' = Append(stack, InYield)
  /\ UNCHANGED <<engine, protect_flag, game, ended, user, old>>

\* The script has ended: back to the frame that started it.  OpenAI and reload
\* end the program, reload2 returns to the yield it was called in.
ScriptReturns ==
  /\ Top("script")
  /\ LET loader == Last(Front(stack))
     IN  IF loader.kind = "reload2"
         THEN /\ stack' = Front(Front(stack)) /\ plain' = FALSE
              /\ UNCHANGED <<engine, protect_flag, ended>>
         ELSE Exit /\ UNCHANGED plain
  /\ UNCHANGED <<game, chosen, old>>

\* An error in one of its coroutines: panic_reload, unless protect_flag is set;
\* then the error ends no more than its thread.
ScriptFails ==
  /\ Top("script")
  /\ IF protect_flag THEN UNCHANGED <<stack, engine, protect_flag, ended>> ELSE Reload
  /\ UNCHANGED <<game, user, old>>

-----------------------------------------------------------------------------
Next ==
  \/ GameStep
  \/ PressF12 \/ CancelF11 \/ (\E f \in Files : PressF11(f))
  \/ get_th105param \/ YieldReturns \/ UsesClosedState
  \/ Execute \/ ExecuteFails
  \/ ScriptYields \/ ScriptReturns \/ ScriptFails

Spec == Init /\ [][Next]_vars

-----------------------------------------------------------------------------
\* yield, which writes the script's variables into engine->state, never finds
\* that state closed (History.txt:303).
StateIsOpen == Top("yield") \/ Top("script") => state \in open

\* Every battle is played by a script that was loaded anew for it
\* (History.txt:315).
FreshPerBattle == Top("script") => Last(stack).L \notin old

\* A script chosen with F11 is the one that runs from then on, in the battles
\* that follow, too; as long as F11 finds a script loaded, and until the script
\* it loaded ends.
RunsChosen == Top("script") /\ plain => file[Last(stack).L] = chosen

\* History.txt:362, "on an error reload instead of ending": an error is reported and the
\* script reloaded; so a script never runs with the errors caught.
ErrorsReload == Top("script") => ~protect_flag
=============================================================================
