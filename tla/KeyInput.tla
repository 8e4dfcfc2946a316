------------------------------ MODULE KeyInput ------------------------------
(***************************************************************************)
(* The keyboard side of the bot: the key manager (key_manager.cpp), which  *)
(* remembers which logical keys the script holds, and KeybdEvent           *)
(* (keybd_event.cpp), which sends the key events to the game after         *)
(* key_delay frames.                                                       *)
(*                                                                         *)
(* The game samples the keyboard whenever it likes, so every event that    *)
(* ExecEvent sends is a step of its own: the loops of ProcessEvent, Clear  *)
(* and key_reset are modelled one iteration per step.  Script calls that   *)
(* only edit on[] and action_list are atomic, because nothing outside the  *)
(* (single) thread can see those.                                          *)
(*                                                                         *)
(* An event's frame is kept relative to key_frame (wait = frame -          *)
(* key_frame), so key_frame++ lowers every wait by one.  A key's code,     *)
(* key[n], is represented by n itself: search_key changes key[] only       *)
(* between battles.                                                        *)
(***************************************************************************)
EXTENDS Integers, Sequences, SequencesExt

CONSTANTS
  ScriptKeys,  \* the arguments the script passes to key_on and key_off
  Delays,      \* the arguments it passes to set_key_delay
  MaxQueue     \* bound: the script queues no event beyond this many

ACT_UP == 0    ACT_DOWN == 1    ACT_LEFT == 2    ACT_RIGHT == 3
ACT_DLEFT == 10    ACT_DRIGHT == 11    ACT_ULEFT == 12    ACT_URIGHT == 13

Acts == 0 .. 9           \* the ten physical keys, ACT_UP .. ACT_BC
Diagonals == 10 .. 13    \* ACT_DLEFT .. ACT_URIGHT, two keys each

ASSUME ScriptKeysAssumption == ScriptKeys \subseteq Acts \cup Diagonals
ASSUME DelaysAssumption == Delays \subseteq Nat
ASSUME MaxQueueAssumption == MaxQueue \in Nat

VARIABLES
  on,         \* on[n]: the script holds key n
  queue,      \* action_list: the events not yet sent, oldest first
  key_delay,  \* frames by which new events are delayed
  held,       \* the keys the game currently sees pressed
  pc,         \* which loop is running ("script": none, the script has control)
  it          \* that loop's index

vars == <<on, queue, key_delay, held, pc, it>>

Events == [act : Acts, down : BOOLEAN, wait : Nat]

-----------------------------------------------------------------------------
(***************************************************************************)
(* Pure steps of the key manager on kb = [on |-> ..., queue |-> ...].      *)
(***************************************************************************)
KB == [on |-> on, queue |-> queue]

\* The two direction keys that on_check treats as opposite.
HasOpposite(n) == n < 4
Opposite(n) == IF n % 2 = 0 THEN n + 1 ELSE n - 1

AddEvent(kb, n, down) == Append(kb.queue, [act |-> n, down |-> down, wait |-> key_delay])

\* Fault: the key is forgotten without queueing its KEYEVENTF_KEYUP.
Release_NoKeyUp(kb, n) == [kb EXCEPT !.on[n] = FALSE]

Release(kb, n) ==
  IF kb.on[n]
  THEN [on |-> [kb.on EXCEPT ![n] = FALSE], queue |-> AddEvent(kb, n, FALSE)]
  ELSE kb

on_check(kb, n) ==
  IF HasOpposite(n) THEN Release(Release(kb, n), Opposite(n)) ELSE Release(kb, n)

\* Fault: the press is queued before on_check releases the opposite key.
Press_BeforeCheck(kb, n) ==
  IF kb.on[n] THEN kb
  ELSE LET late == on_check([kb EXCEPT !.queue = AddEvent(kb, n, TRUE)], n)
       IN  [late EXCEPT !.on[n] = TRUE]

Press(kb, n) ==
  IF kb.on[n] THEN kb
  ELSE LET clear == on_check(kb, n)
       IN  [on |-> [clear.on EXCEPT ![n] = TRUE], queue |-> AddEvent(clear, n, TRUE)]

\* A diagonal presses its vertical key, then its horizontal key.
Vertical(n) == IF n \in {ACT_DLEFT, ACT_DRIGHT} THEN ACT_DOWN ELSE ACT_UP
Horizontal(n) == IF n \in {ACT_DLEFT, ACT_ULEFT} THEN ACT_LEFT ELSE ACT_RIGHT

PressAny(kb, n) ==
  IF n \in Acts THEN Press(kb, n) ELSE Press(Press(kb, Vertical(n)), Horizontal(n))

\* Every diagonal releases the four directions: off(DOWN) and off(LEFT) do.
ReleaseAny(kb, n) ==
  IF n \in Acts THEN on_check(kb, n) ELSE on_check(on_check(kb, ACT_DOWN), ACT_LEFT)

-----------------------------------------------------------------------------
Init ==
  /\ on = [n \in Acts |-> FALSE]
  /\ queue = <<>>
  /\ key_delay = 0
  /\ held = {}
  /\ pc = "script" /\ it = 0

ApplyKB(kb) == on' = kb.on /\ queue' = kb.queue

key_on(n) ==
  /\ pc = "script" /\ Len(queue) < MaxQueue
  /\ ApplyKB(PressAny(KB, n))
  /\ UNCHANGED <<key_delay, held, pc, it>>

key_off(n) ==
  /\ pc = "script" /\ Len(queue) < MaxQueue
  /\ ApplyKB(ReleaseAny(KB, n))
  /\ UNCHANGED <<key_delay, held, pc, it>>

set_key_delay(d) ==
  /\ pc = "script"
  /\ key_delay' = d
  /\ UNCHANGED <<on, queue, held, pc, it>>

\* key_reset() from the script; yield and get_th105param call Clear() after it.
key_reset_call(loop) ==
  /\ pc = "script"
  /\ pc' = loop /\ it' = 0
  /\ UNCHANGED <<on, queue, key_delay, held>>

key_reset_step ==
  /\ pc \in {"reset", "reset_clear"}
  /\ IF it \in Acts
     THEN ApplyKB(ReleaseAny(KB, it)) /\ it' = it + 1 /\ pc' = pc
     ELSE /\ pc' = IF pc = "reset" THEN "script" ELSE "clear"
          /\ it' = 0
          /\ UNCHANGED <<on, queue>>
  /\ UNCHANGED <<key_delay, held>>

ExecEvent(e) == held' = IF e.down THEN held \cup {e.act} ELSE held \ {e.act}

ProcessEvent_begin ==
  /\ pc = "script"
  /\ pc' = "process" /\ it' = 1
  /\ UNCHANGED <<on, queue, key_delay, held>>

\* Fault: the loop also advances after erase, skipping the event that follows.
ProcessEvent_step_SkipsAfterErase ==
  /\ pc = "process" /\ it \in DOMAIN queue
  /\ it' = it + 1
  /\ IF queue[it].wait <= 0
     THEN ExecEvent(queue[it]) /\ queue' = RemoveAt(queue, it)
     ELSE UNCHANGED <<queue, held>>
  /\ UNCHANGED <<on, key_delay, pc>>

ProcessEvent_step ==
  /\ pc = "process" /\ it \in DOMAIN queue
  /\ IF queue[it].wait <= 0
     THEN ExecEvent(queue[it]) /\ queue' = RemoveAt(queue, it) /\ it' = it
     ELSE it' = it + 1 /\ UNCHANGED <<queue, held>>
  /\ UNCHANGED <<on, key_delay, pc>>

ProcessEvent_end ==
  /\ pc = "process" /\ it \notin DOMAIN queue
  /\ queue' = [i \in DOMAIN queue |-> [queue[i] EXCEPT !.wait = @ - 1]]
  /\ pc' = "script" /\ it' = 0
  /\ UNCHANGED <<on, key_delay, held>>

\* Clear() sends everything in list order, whatever its frame.
Clear_step ==
  /\ pc = "clear"
  /\ IF queue = <<>>
     THEN pc' = "script" /\ UNCHANGED <<queue, held>>
     ELSE ExecEvent(Head(queue)) /\ queue' = Tail(queue) /\ pc' = pc
  /\ UNCHANGED <<on, key_delay, it>>

-----------------------------------------------------------------------------
Script ==
  \/ \E n \in ScriptKeys : key_on(n) \/ key_off(n)
  \/ \E d \in Delays : set_key_delay(d)
  \/ key_reset_call("reset")

\* What yield() does between two turns of the script.
Frame == ProcessEvent_begin \/ key_reset_call("reset_clear")

Loops == key_reset_step \/ ProcessEvent_step \/ ProcessEvent_end \/ Clear_step

Next == Script \/ Frame \/ Loops

\* The bot finishes its own loops, and a script that has the control again and
\* again goes on calling yield, which runs ProcessEvent (main.cpp:810): strong
\* fairness, because each of its other calls disables ProcessEvent for a while.
Fairness == WF_vars(Loops) /\ SF_vars(ProcessEvent_begin)

\* A script that shortens the delay only while nothing is pending.  Otherwise a
\* release may overtake the press before it, which document.txt:158-166 describes.
DelayKept == key_delay' >= key_delay \/ queue = <<>>
SteadySpec == Init /\ [][Next /\ DelayKept]_vars /\ Fairness

-----------------------------------------------------------------------------
TypeOK ==
  /\ on \in [Acts -> BOOLEAN]
  /\ queue \in Seq(Events)
  /\ key_delay \in Nat
  /\ held \subseteq Acts
  /\ pc \in {"script", "reset", "reset_clear", "process", "clear"}
  /\ it \in Nat

\* The keys the script holds never include two opposite directions: on_check
\* switches the other one off (document.txt:99-100).  The game, which sees the
\* events one at a time and key_delay frames late, never sees both either:
\* on_check queues the release of the opposite key before the press.
NoOppositeHeld ==
  \A n \in Acts : HasOpposite(n) /\ n \in held => Opposite(n) \notin held

\* Once every queued event has been sent, the game sees exactly the keys the
\* script holds: no press or release was lost, doubled or sent out of order.
DrainedMatches == queue = <<>> => held = {n \in Acts : on[n]}

\* A key the script switched off is released in the game sooner or later,
\* unless the script presses it again.
OffIsReleased == \A n \in Acts : ~on[n] ~> (on[n] \/ n \notin held)
=============================================================================
