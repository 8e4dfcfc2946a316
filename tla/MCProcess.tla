------------------------------ MODULE MCProcess ------------------------------
(***************************************************************************)
(* Three loops of the bot for TLC: how it finds the game (GameProcess),    *)
(* how it waits for the game's frames and battles (FrameLoop), and how the *)
(* script's threads take turns until one of them waits for a frame         *)
(* (ScriptThreads).  They do not touch each other's state: a behaviour is  *)
(* one of the part that it chooses at its start; the others rest.          *)
(***************************************************************************)
EXTENDS GameProcess, FiniteSets

CONSTANTS
  Keys, MaxPending,               \* of FrameLoop
  Main, FrameSkip, Others, MaxTop \* of ScriptThreads

ASSUME MaxPendingAssumption == MaxPending \in Nat
ASSUME DistinctAssumption == Main # FrameSkip /\ {Main, FrameSkip} \cap Others = {}
ASSUME FiniteAssumption == IsFiniteSet(Others)
ASSUME MaxTopAssumption == MaxTop \in Nat

VARIABLES
  part,  \* "process", "frame" or "threads"
  scene, ticked, active, seen, mode, moved, t1, yield_pc, on, pending, held, skips,
  thread_list, thread_num, status, thread_pc, i, first, turns, young

frame == <<scene, ticked, active, seen, mode, moved, t1, yield_pc, on, pending, held, skips>>
threads == <<thread_list, thread_num, status, thread_pc, i, first, turns, young>>

F == INSTANCE FrameLoop WITH pc <- yield_pc
T == INSTANCE ScriptThreads WITH pc <- thread_pc

-----------------------------------------------------------------------------
NoGame == Init /\ running = {} /\ AppDownExit = 0
NoBattle == F!Init /\ scene = "other" /\ moved = FALSE

MCInit ==
  /\ T!Init
  /\ \/ part = "process" /\ Init /\ NoBattle
     \/ part = "frame" /\ F!Init /\ NoGame
     \/ part = "threads" /\ NoGame /\ NoBattle

ProcessStep == part = "process" /\ Next /\ UNCHANGED <<part, frame, threads>>
FrameStep == part = "frame" /\ F!Next /\ UNCHANGED <<part, vars, threads>>
ThreadStep == part = "threads" /\ T!Next /\ UNCHANGED <<part, vars, frame>>

\* The fairness of each part, as its module states it.
MCFairness ==
  /\ WF_vars(part = "process" /\ Bot)
  /\ WF_frame(part = "frame" /\ F!Yield) /\ WF_frame(part = "frame" /\ F!CallYield)
  /\ SF_frame(part = "frame" /\ F!WaitFrameTimeout)
  /\ SF_frame(part = "frame" /\ F!WaitActive /\ active)
  /\ WF_threads(part = "threads" /\ T!TopLevel)
  /\ WF_threads(part = "threads" /\ T!api_main)
  /\ WF_threads(part = "threads" /\ T!Loop)
  /\ \A t \in T!Threads : WF_threads(part = "threads" /\ T!Ends(t))

MCSpec ==
  /\ MCInit /\ [][ProcessStep \/ FrameStep \/ ThreadStep]_<<part, vars, frame, threads>>
  /\ MCFairness

-----------------------------------------------------------------------------
\* When a battle that the bot has waited for begins, no key is pressed or about
\* to be: search_key gives every key another meaning then (main.cpp:672).
RemapsReleased == F!RemapsReleased

\* After a battle every key is released in the end (main.cpp:658, 804-811).
ReleasedAfterBattle == F!ReleasedAfterBattle

\* When frame_skip waits for the next frame every live thread has had exactly one
\* turn since the last one, but for those created in this frame (api.ai:41-92).
UpdateAfterAll == T!UpdateAfterAll

\* The thread that was created first ends the program when it returns, whatever
\* the others do (api.ai:41-62).
FirstEndsProgram == T!FirstEndsProgram

\* No thread is forgotten: a suspended one is resumed, or the program ends
\* (api.ai:41-62).
EveryThreadRuns == T!EveryThreadRuns
=============================================================================
