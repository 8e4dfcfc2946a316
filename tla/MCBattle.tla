------------------------------ MODULE MCBattle ------------------------------
(***************************************************************************)
(* What a script is given of a battle, for TLC: the objects of a character *)
(* (ObjectList) and the delayed values of the enemy (DataDelay).  They do  *)
(* not touch each other's state: a behaviour is one of the part that it    *)
(* chooses at its start; the other rests.                                  *)
(***************************************************************************)
EXTENDS ObjectList

CONSTANTS Values, Delays, MaxFrames  \* of DataDelay

ASSUME ValuesAssumption == Values \subseteq Int
ASSUME DelaysAssumption == Delays \subseteq Nat
ASSUME MaxFramesAssumption == MaxFrames \in Nat

VARIABLES
  part,  \* "objects" or "delay"
  data_delay, delay, act, act_block, frame, out, delay_pc, sampled, age

delays == <<data_delay, delay, act, act_block, frame, out, delay_pc, sampled, age>>

D == INSTANCE DataDelay WITH pc <- delay_pc

-----------------------------------------------------------------------------
MCInit ==
  /\ Init /\ D!Init
  /\ \/ part = "objects"
     \/ part = "delay" /\ ~battle

ObjectsStep == part = "objects" /\ Next /\ UNCHANGED <<part, delays>>
DelayStep == part = "delay" /\ D!Next /\ UNCHANGED <<part, vars>>

MCSpec ==
  /\ MCInit /\ [][ObjectsStep \/ DelayStep]_<<part, vars, delays>>
  /\ WF_vars(part = "objects" /\ Poll)

-----------------------------------------------------------------------------
\* enemy_frame is read exactly delay frames late (document.txt:168-170): the array
\* in yield implements the abstract line of module DelayLine.
FrameDelayed == D!FrameDelayed

\* A script never reads what was sampled for the script before it
\* (main.cpp:813-835).
OwnSamples == D!OwnSamples
=============================================================================
