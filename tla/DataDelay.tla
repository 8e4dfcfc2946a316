----------------------------- MODULE DataDelay -----------------------------
(***************************************************************************)
(* The part of yield() that delays what a script sees of the enemy         *)
(* (main.cpp:813-835 and 894-908): three arrays of delay entries, made     *)
(* anew when the delay changes, from whose front the script's variables    *)
(* enemy_act, enemy_act_block and enemy_frame are set each frame.          *)
(*                                                                         *)
(* yield() is two steps: up to the arrays, and from the sample to the      *)
(* script's variables.  Between them it waits for the game, and there a    *)
(* reload (F12, or the start of a battle) may put a new script in the      *)
(* place of the one that called it.  The arrays are static variables of    *)
(* yield() and survive; data_delay is 0 again, and loading the new script  *)
(* calls yield once before the script runs (scriptBase.cpp:10-12).         *)
(***************************************************************************)
EXTENDS Integers, Sequences

CONSTANTS
  Values,    \* what the game may show of the enemy
  Delays,    \* what the script passes to set_data_delay
  MaxFrames  \* bound: frames between two changes of the delay; counters stop here

VARIABLES
  data_delay,               \* the script's variable
  delay,                    \* the length of the arrays
  act, act_block, frame,    \* the arrays, front first
  out,                      \* what the script reads of the enemy
  pc,                       \* "load", "script", or "wait" inside yield
  sampled,                  \* history: the samples since the arrays were made
  age                       \* history: frames since the script was loaded

vars == <<data_delay, delay, act, act_block, frame, out, pc, sampled, age>>
lines == <<act, act_block, frame>>

Samples == [act : Values, act_block : Values, frame : Values]
NoSample == [act |-> 0, act_block |-> 0, frame |-> 0]

Zeros(n) == [i \in 1 .. n |-> 0]

\* memmove of all but the first entry of src onto the front of dst, then the
\* new value at the end.
Shift(dst, src, v) ==
  [i \in DOMAIN dst |-> IF i = Len(dst) THEN v ELSE src[i + 1]]

-----------------------------------------------------------------------------
Init ==
  /\ data_delay = 0 /\ delay = 0
  /\ act = <<>> /\ act_block = <<>> /\ frame = <<>>
  /\ out = NoSample
  /\ pc = "load"
  /\ sampled = <<>> /\ age = 0

\* Also what an assignment to the script's variable does (document.txt:508).
set_data_delay(d) ==
  /\ pc = "script"
  /\ data_delay' = d
  /\ UNCHANGED <<delay, lines, out, pc, sampled, age>>

\* Fault: new arrays keep what the old ones held where both have an entry.
yield_begin_KeepsOld ==
  /\ pc \in {"load", "script"} /\ pc' = "wait"
  /\ delay' = data_delay
  /\ IF data_delay # delay
     THEN LET new(a) == [i \in 1 .. data_delay |-> IF i <= delay THEN a[i] ELSE 0]
          IN  /\ act' = new(act) /\ act_block' = new(act_block) /\ frame' = new(frame)
              /\ sampled' = <<>>
     ELSE UNCHANGED <<lines, sampled>>
  /\ UNCHANGED <<data_delay, out, age>>

yield_begin ==
  /\ pc \in {"load", "script"} /\ pc' = "wait"
  /\ delay' = data_delay
  /\ IF data_delay # delay
     THEN /\ act' = Zeros(data_delay)
          /\ act_block' = Zeros(data_delay)
          /\ frame' = Zeros(data_delay)
          /\ sampled' = <<>>
     ELSE UNCHANGED <<lines, sampled>>
  /\ UNCHANGED <<data_delay, out, age>>

Count(n) == IF n < MaxFrames THEN n + 1 ELSE n

\* The act_block array is moved onto act, and nothing is moved onto act_block.
yield_end(s) ==
  /\ pc = "wait" /\ pc' = "script"
  /\ Len(sampled) < MaxFrames
  /\ IF delay = 0
     THEN out' = s /\ UNCHANGED lines
     ELSE /\ out' = [act |-> act[1], act_block |-> act_block[1], frame |-> frame[1]]
          /\ act' = Shift(act, act_block, s.act)
          /\ act_block' = [act_block EXCEPT ![delay] = s.act_block]
          /\ frame' = Shift(frame, frame, s.frame)
  /\ sampled' = Append(sampled, s)
  /\ age' = Count(age)
  /\ UNCHANGED <<data_delay, delay>>

\* Fault: the engine stays loadable, so that loading the script does not yield.
reload_StaysLoadable ==
  /\ pc = "wait" /\ pc' = "script"
  /\ data_delay' = 0 /\ age' = 0
  /\ out' = NoSample
  /\ UNCHANGED <<delay, lines, sampled>>

\* end(), init() and loadFile() of the new script: its Lua state has no
\* enemy_frame yet, which out shows as NoSample.
reload ==
  /\ pc = "wait" /\ pc' = "load"
  /\ data_delay' = 0 /\ age' = 0
  /\ out' = NoSample
  /\ UNCHANGED <<delay, lines, sampled>>

Next ==
  \/ \E d \in Delays : set_data_delay(d)
  \/ yield_begin
  \/ \E s \in Samples : yield_end(s)
  \/ reload

Spec == Init /\ [][Next]_vars

-----------------------------------------------------------------------------
\* enemy_frame is read exactly delay frames late, and reads 0 while there is no
\* frame that old (document.txt:168-170): the array of yield() implements the
\* abstract line, through every change of the delay and every reload.
FrameLine ==
  INSTANCE DelayLine WITH out <- out.frame,
                          sampled <- [i \in DOMAIN sampled |-> sampled[i].frame],
                          Delays <- Delays \cup {0}
FrameDelayed == FrameLine!LineSpec

\* A script never reads what was sampled for the script before it: what the
\* arrays hold was sampled since the script was loaded.
OwnSamples ==
  pc = "script" /\ delay > 0 => Len(sampled) <= age

\* document.txt:168 and 505-507: enemy_act, like enemy_frame, is the enemy's
\* value of delay frames ago.
ActDelayed ==
  pc = "script" /\ Len(sampled) > delay =>
    out.act = sampled[Len(sampled) - delay].act
=============================================================================
