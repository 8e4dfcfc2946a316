----------------------------- MODULE DelayLine -----------------------------
(***************************************************************************)
(* What set_data_delay promises a script (document.txt:167-170): a value   *)
(* of the enemy is read delay frames after the frame it was sampled in,    *)
(* and until there is such a frame 0 is read.  Nothing is said of how the  *)
(* values in between are kept: the module remembers all of them.           *)
(***************************************************************************)
EXTENDS Integers, Sequences

CONSTANTS
  Values,  \* what the game may show of the enemy (other than the blank 0)
  Delays   \* the delays a script may ask for

VARIABLES
  delay,    \* the delay in force
  sampled,  \* the values sampled since it came into force, oldest first
  out       \* the value the script reads

lineVars == <<delay, sampled, out>>

Blank == 0

LineInit == delay = 0 /\ sampled = <<>> /\ out = Blank

\* A new delay: what was sampled before is never read again.
Change(d) ==
  /\ d # delay
  /\ delay' = d /\ sampled' = <<>>
  /\ UNCHANGED out

\* A frame in which the game shows v.
Tick(v) ==
  /\ sampled' = Append(sampled, v)
  /\ out' = IF Len(sampled') > delay THEN sampled'[Len(sampled') - delay] ELSE Blank
  /\ UNCHANGED delay

\* Another script, which has read nothing yet.
Restart == out' = Blank /\ UNCHANGED <<delay, sampled>>

LineNext ==
  \/ \E d \in Delays : Change(d)
  \/ \E v \in Values : Tick(v)
  \/ Restart

LineSpec == LineInit /\ [][LineNext]_lineVars
=============================================================================
