--------------------------- MODULE ScriptThreads ---------------------------
(***************************************************************************)
(* The micro threads of a script (api.ai:26-92): coroutines that           *)
(* thread_main resumes round after round in the order of thread_list.      *)
(* main and frame_skip are two of them; frame_skip is the one that calls   *)
(* _yield, where the bot waits for the next frame and updates the script's *)
(* variables.                                                              *)
(*                                                                         *)
(* thread_list counts from 0, while table.remove counts from 1: for        *)
(* position 0 it removes nothing.  Here thread_list is a function on       *)
(* 0 .. thread_num - 1 and what lies beyond.  What a thread does in its    *)
(* turn is free: it may create threads, and then yields or returns.        *)
(* A thread that raises an error is not modelled here: the interpreter's   *)
(* error handling (module ScriptEngine) stops the whole script.            *)
(***************************************************************************)
EXTENDS Integers

CONSTANTS
  Main, FrameSkip,  \* the coroutines of main and frame_skip
  Others,           \* the coroutines the script may create
  MaxTop            \* bound: how many of them it creates outside any function

Threads == {Main, FrameSkip} \cup Others

VARIABLES
  thread_list,  \* position -> coroutine
  thread_num,
  status,       \* of each coroutine: "none", "suspended", "running" or "dead"
  pc,           \* "top", "start1", "start2" (api_main), "rounds" or "ended"
  i,            \* the position thread_main is at
  first,        \* history: the coroutine created first, or NoThread
  turns,        \* history: each one's turns since the last update
  young         \* history: the ones created since the last update

vars == <<thread_list, thread_num, status, pc, i, first, turns, young>>

NoThread == "none"
TurnsCap == 2  \* bound: turns counts up to here

Running(t) == pc = "rounds" /\ status[t] = "running"
NoneRuns == \A t \in Threads : status[t] # "running"

-----------------------------------------------------------------------------
Init ==
  /\ thread_list = [p \in {} |-> Main] /\ thread_num = 0
  /\ status = [t \in Threads |-> "none"]
  /\ pc = "top" /\ i = 0
  /\ first = NoThread
  /\ turns = [t \in Threads |-> 0] /\ young = {}

\* f with its value at p set, p possibly being new.
Put(f, p, v) == [q \in DOMAIN f \cup {p} |-> IF q = p THEN v ELSE f[q]]

create_thread(t) ==
  /\ status[t] = "none"
  /\ thread_list' = Put(thread_list, thread_num, t)
  /\ thread_num' = thread_num + 1
  /\ status' = [status EXCEPT ![t] = "suspended"]
  /\ first' = IF first = NoThread THEN t ELSE first
  /\ young' = young \cup {t}
  /\ UNCHANGED <<i, turns>>

\* The script's code outside any function.
TopLevel ==
  /\ pc = "top"
  /\ \/ thread_num < MaxTop /\ (\E t \in Others : create_thread(t)) /\ pc' = "top"
     \/ pc' = "start1" /\ UNCHANGED <<thread_list, thread_num, status, i, first, turns, young>>

api_main ==
  \/ pc = "start1" /\ pc' = "start2" /\ create_thread(Main)
  \/ pc = "start2" /\ pc' = "rounds" /\ create_thread(FrameSkip)

\* thread_main's inner loop is over, or its outer one.
NextRound ==
  /\ pc = "rounds" /\ NoneRuns /\ i >= thread_num
  /\ IF thread_num >= 2 THEN i' = 0 /\ pc' = pc ELSE pc' = "ended" /\ i' = i
  /\ UNCHANGED <<thread_list, thread_num, status, first, turns, young>>

Resume ==
  /\ pc = "rounds" /\ NoneRuns /\ i < thread_num
  /\ LET t == thread_list[i]
     IN  /\ status[t] = "suspended"
         /\ status' = [status EXCEPT ![t] = "running"]
         /\ turns' = [turns EXCEPT ![t] = IF @ < TurnsCap THEN @ + 1 ELSE @]
  /\ UNCHANGED <<thread_list, thread_num, pc, i, first, young>>

\* Positions p+1 and up move down by one; for p = 0 nothing happens.
table_remove(p) ==
  thread_list' = [q \in DOMAIN thread_list |->
                    IF q >= p /\ p >= 1 /\ q + 1 < thread_num
                    THEN thread_list[q + 1] ELSE thread_list[q]]

\* Fault: the loop also advances after a removal.
ResumeDead_Advances ==
  /\ pc = "rounds" /\ NoneRuns /\ i < thread_num
  /\ status[thread_list[i]] = "dead"
  /\ table_remove(i)
  /\ thread_num' = thread_num - 1
  /\ i' = i + 1
  /\ UNCHANGED <<status, pc, first, turns, young>>

\* Fault: a removal really happens at position 0, too.
ResumeDead_RemovesFirst ==
  /\ pc = "rounds" /\ NoneRuns /\ i < thread_num
  /\ status[thread_list[i]] = "dead"
  /\ thread_list' = [q \in DOMAIN thread_list |->
                       IF q >= i /\ q + 1 < thread_num THEN thread_list[q + 1] ELSE thread_list[q]]
  /\ thread_num' = thread_num - 1
  /\ UNCHANGED <<status, pc, i, first, turns, young>>

\* resume answers false only for a coroutine that had returned before: it is
\* taken out of the lists one round after its last turn.
ResumeDead ==
  /\ pc = "rounds" /\ NoneRuns /\ i < thread_num
  /\ status[thread_list[i]] = "dead"
  /\ table_remove(i)
  /\ thread_num' = thread_num - 1
  /\ UNCHANGED <<status, pc, i, first, turns, young>>

\* The turn of a thread of the script.
Create(t) ==
  /\ Running(t) /\ t # FrameSkip
  /\ \E u \in Others : create_thread(u)
  /\ UNCHANGED pc

\* Fault: the loop resumes the thread that has just yielded.
Yield_Stays(t) ==
  /\ Running(t) /\ t # FrameSkip
  /\ status' = [status EXCEPT ![t] = "suspended"]
  /\ UNCHANGED <<thread_list, thread_num, pc, i, first, turns, young>>

Yield(t) ==
  /\ Running(t) /\ t # FrameSkip
  /\ status' = [status EXCEPT ![t] = "suspended"]
  /\ i' = i + 1
  /\ UNCHANGED <<thread_list, thread_num, pc, first, turns, young>>

Return(t) ==
  /\ Running(t) /\ t # FrameSkip
  /\ status' = [status EXCEPT ![t] = "dead"]
  /\ i' = i + 1
  /\ UNCHANGED <<thread_list, thread_num, pc, first, turns, young>>

\* frame_skip: _yield waits for the next frame and updates the variables.
frame_skip ==
  /\ Running(FrameSkip)
  /\ status' = [status EXCEPT ![FrameSkip] = "suspended"]
  /\ i' = i + 1
  /\ turns' = [t \in Threads |-> 0] /\ young' = {}
  /\ UNCHANGED <<thread_list, thread_num, pc, first>>

-----------------------------------------------------------------------------
Loop == NextRound \/ Resume \/ ResumeDead \/ frame_skip
Ends(t) == Yield(t) \/ Return(t)

Next ==
  \/ TopLevel \/ api_main \/ Loop
  \/ \E t \in {Main} \cup Others : Create(t) \/ Ends(t)

\* The interpreter goes on, and every thread yields or returns in the end, as
\* document.txt:14 asks of a script.
Fairness ==
  /\ WF_vars(TopLevel) /\ WF_vars(api_main) /\ WF_vars(Loop)
  /\ \A t \in Threads : WF_vars(Ends(t))

Spec == Init /\ [][Next]_vars /\ Fairness

-----------------------------------------------------------------------------
\* The wait for the next frame and the update come after every thread has
\* yielded (document.txt:88): when frame_skip gets its turn, every live thread
\* has had one, except those that were created in this very frame.
UpdateAfterAll ==
  Running(FrameSkip) =>
    \A t \in Threads : status[t] = "suspended" /\ t \notin young => turns[t] = 1

\* The thread registered first is the one that ends the program when it
\* returns; that is main, unless the script's outermost code created a thread.
FirstEndsProgram == \A t \in Threads : first = t /\ status[t] = "dead" ~> pc = "ended"

\* No thread is forgotten: a suspended thread is resumed, or the program ends.
EveryThreadRuns ==
  \A t \in Threads : status[t] = "suspended" ~> (status[t] = "running" \/ pc = "ended")
=============================================================================
