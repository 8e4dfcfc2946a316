---------------------------- MODULE CommandInput ----------------------------
(***************************************************************************)
(* The script library's command(string) (api.ai:143-348) and dash          *)
(* (118-132): a string in the players' notation for special moves (22B,    *)
(* 236C: digits are directions as on a numeric keypad, seen by a           *)
(* character that faces right) is turned into key presses, a character at  *)
(* a time, with frames in between for the game to see them.                *)
(*                                                                         *)
(* A frame passes in every yield; in each of them the characters may pass  *)
(* each other, which swaps front and back.  The thread that runs command   *)
(* is the only one that presses keys.                                      *)
(***************************************************************************)
EXTENDS Integers, Sequences

CONSTANTS
  Alphabet,   \* the characters commands are made of; "(" stands for "(2)", "?" for
              \* any other character but 0
  MaxLen,     \* bound: the length of a command
  DashTries,  \* how often dash() tries (30 in the code)
  HoldFrames  \* for how long H holds a button (40 in the code)

Digits == {"1", "2", "3", "4", "5", "6", "7", "8", "9"}
Buttons == {"A", "B", "C"}
Characters == Digits \cup Buttons \cup {"D", "E", "F", "H", "J", "(", "?"}

ASSUME AlphabetAssumption == Alphabet \subseteq Characters
ASSUME BoundsAssumption == {MaxLen, DashTries} \subseteq Nat /\ HoldFrames \in Nat \ {0}

VARIABLES
  cmd, i,   \* the string and the position in it
  pc,       \* where command is; "wait": in a yield
  left,     \* the yields left of the wait
  then,     \* where command goes on after the wait
  tries,    \* dash()'s counter
  on,       \* the keys held
  front,    \* the key towards the opponent
  flipped,  \* history: the characters have passed each other
  shown     \* history: the inputs the game was shown, [dir, button]; button may be "none"

vars == <<cmd, i, pc, left, then, tries, on, front, flipped, shown>>

Horizontal == {"left", "right"}
Vertical == {"up", "down"}
Directions == Horizontal \cup Vertical
Opposite(k) ==
  CASE k = "left" -> "right" [] k = "right" -> "left" [] k = "up" -> "down" [] k = "down" -> "up"
back == Opposite(front)

\* The direction keys that a digit stands for.
KeysOf(d) ==
  {k \in Directions : \/ k = "down" /\ d \in {"1", "2", "3"}
                      \/ k = "up"   /\ d \in {"7", "8", "9"}
                      \/ k = back   /\ d \in {"1", "4", "7"}
                      \/ k = front  /\ d \in {"3", "6", "9"}}

-----------------------------------------------------------------------------
(***************************************************************************)
(* key_on and key_off of the key manager, on the set of keys held.         *)
(***************************************************************************)
key_on(held, k) ==
  IF k \in held THEN held
  ELSE (held \cup {k}) \ (IF k \in Directions THEN {Opposite(k)} ELSE {})

key_off(held, k) ==
  held \ (IF k \in Directions THEN {k, Opposite(k)} ELSE {k})

-----------------------------------------------------------------------------
(***************************************************************************)
(* What a digit does to the keys held, and whether it has to be read       *)
(* again: a direction that is held already is released first.              *)
(***************************************************************************)
Result(held, again) == [held |-> held, again |-> again]

\* 1, 3, 7, 9: vertical key v and horizontal key h; if one is held the other is pressed,
\* but "9" presses and looks for "down" there, as "3" does.
Diagonal(d, v, h) ==
  LET w == IF d = "9" THEN "down" ELSE v
  IN Result(IF h \in on THEN key_on(on, w)
            ELSE IF w \in on THEN key_on(on, h)
            ELSE (on \ Directions) \cup {v, h}, FALSE)

\* Fault: a direction held already is not released.
Straight_Once(k, across) ==
  IF k \notin on THEN Result({k}, FALSE)
  ELSE Result(on \ across, FALSE)

\* Fault: a direction held already is released, and that is all.
Straight_Released(k, across) ==
  IF k \notin on THEN Result({k}, FALSE)
  ELSE IF on \cap across # {} THEN Result(on \ across, FALSE)
  ELSE Result(key_off(on, k), FALSE)

\* 2, 4, 6, 8: key k; across: the keys of the other axis.
Straight(k, across) ==
  IF k \notin on THEN Result({k}, FALSE)
  ELSE IF on \cap across # {} THEN Result(on \ across, FALSE)
  ELSE Result(key_off(on, k), TRUE)

Read(d) ==
  CASE d = "5" -> Result({}, FALSE)
    [] d = "1" -> Diagonal(d, "down", back)
    [] d = "3" -> Diagonal(d, "down", front)
    [] d = "7" -> Diagonal(d, "up", back)
    [] d = "9" -> Diagonal(d, "up", front)
    [] d = "2" -> Straight("down", Horizontal)
    [] d = "4" -> Straight(back, Vertical)
    [] d = "6" -> Straight(front, Vertical)
    [] d \in {"8", "J"} -> Straight("up", Horizontal)

-----------------------------------------------------------------------------
Init ==
  /\ cmd \in UNION {[1 .. n -> Alphabet] : n \in 0 .. MaxLen} /\ i = 1
  /\ pc = "step" /\ left = 0 /\ then = "step" /\ tries = 0
  /\ on = {} /\ front \in Horizontal /\ flipped = FALSE /\ shown = <<>>

\* s:sub(j,j); "" beyond the ends.
Char(j) == IF j \in DOMAIN cmd THEN cmd[j] ELSE ""

\* wait(n) in front of next.
Wait(n, next) == pc' = "wait" /\ left' = n /\ then' = next

Show(button) ==
  shown' = Append(shown, [dir |-> CHOOSE d \in Digits : KeysOf(d) = on' \cap Directions,
                          button |-> button])

\* A yield: a frame passes.
Frame ==
  /\ pc = "wait"
  /\ left' = left - 1
  /\ pc' = IF left = 1 THEN then ELSE "wait"
  /\ front' \in Horizontal
  /\ flipped' = (flipped \/ front' # front)
  /\ UNCHANGED <<cmd, i, then, tries, on, shown>>

Ends(how) == pc' = how /\ UNCHANGED <<i, left, then, tries, shown>>

\* The while loop's condition, and what follows the loop.
Finish ==
  /\ pc = "step" /\ i > Len(cmd)
  /\ on' = {} /\ Ends("done")
  /\ UNCHANGED <<cmd, front, flipped>>

HighJump == Char(i + 1) = "H" /\ Char(i + 2) = "J"

ReadHighJump ==
  /\ pc = "step" /\ i <= Len(cmd) /\ HighJump
  /\ IF cmd[i] \in {"7", "8", "9"}
     THEN /\ on' = KeysOf(cmd[i]) \cup {"D"}
          /\ Wait(2, "jumped") /\ Show("D") /\ UNCHANGED <<i, tries>>
     ELSE on' = {} /\ Ends("cut")
  /\ UNCHANGED <<cmd, front, flipped>>

Reads == pc = "step" /\ i <= Len(cmd) /\ ~HighJump

\* An 8 or J in the air (y # 0) ends the command.
ReadDirection ==
  /\ Reads /\ cmd[i] \in Digits \cup {"J"}
  /\ LET c == cmd[i]
         r == Read(c)
         skipped == IF c \in {"7", "8", "9", "J"} /\ Char(i + 1) = "J" THEN 1 ELSE 0
     IN  \/ c \in {"8", "J"} /\ on' = {} /\ Ends("cut")
         \/ /\ on' = r.held
            /\ i' = i + skipped + (IF r.again THEN 0 ELSE 1)
            /\ Wait(2, "step") /\ Show("none") /\ UNCHANGED tries
  /\ UNCHANGED <<cmd, front, flipped>>

Push(button, frames) ==
  /\ on' = key_on(on, button) /\ Wait(frames, "reset") /\ Show(button) /\ UNCHANGED tries

ReadButton ==
  /\ Reads /\ cmd[i] \in Buttons
  /\ Push(cmd[i], 2) /\ UNCHANGED <<i, cmd, front, flipped>>

\* ACT_E and ACT_F do not exist.
ReadMissing ==
  /\ Reads /\ cmd[i] \in {"E", "F"}
  /\ Ends("error") /\ UNCHANGED <<on, cmd, front, flipped>>

\* D after a digit is the button; at the beginning it is dash(); else tonumber
\* has given nil, and the comparison fails.
ReadD ==
  /\ Reads /\ cmd[i] = "D"
  /\ \/ Char(i - 1) \in Digits /\ Push("D", 2) /\ UNCHANGED i
     \/ i = 1 /\ pc' = "dash" /\ tries' = 0 /\ UNCHANGED <<i, left, then, on, shown>>
     \/ i > 1 /\ Char(i - 1) \notin Digits /\ Ends("error") /\ UNCHANGED on
  /\ UNCHANGED <<cmd, front, flipped>>

\* HJ calls key_event with two arguments, an error; H before another character
\* is ignored.
ReadH ==
  /\ Reads /\ cmd[i] = "H"
  /\ \/ Char(i + 1) \in Buttons /\ Push(Char(i + 1), HoldFrames) /\ i' = i + 1
     \/ Char(i + 1) = "J" /\ Ends("error") /\ UNCHANGED on
     \/ /\ Char(i + 1) \notin Buttons \cup {"J"}
        /\ i' = i + 1 /\ Wait(2, "step") /\ UNCHANGED <<on, tries, shown>>
  /\ UNCHANGED <<cmd, front, flipped>>

ReadOther ==
  /\ Reads /\ cmd[i] \in {"(", "?"}
  /\ i' = i + 1 /\ Wait(IF cmd[i] = "(" THEN 4 ELSE 2, "step")
  /\ UNCHANGED <<on, tries, shown, cmd, front, flipped>>

\* After the wait of a button, or of a high jump.
Release ==
  /\ pc \in {"reset", "jumped"}
  /\ on' = {} /\ i' = i + (IF pc = "reset" THEN 1 ELSE 3)
  /\ Wait(2, "step")
  /\ UNCHANGED <<cmd, tries, front, flipped, shown>>

\* dash(): until the character dashes (my_act = 200), and not for ever.
dash ==
  /\ pc = "dash"
  /\ \/ tries < DashTries /\ on' = key_off(on, front) /\ Wait(2, "dash_on") /\ UNCHANGED i
     \/ i' = i + 1 /\ Wait(2, "step") /\ UNCHANGED on
  /\ UNCHANGED <<cmd, tries, front, flipped, shown>>

\* Fault: the tries are not counted.
dash_on_NoCount ==
  /\ pc = "dash_on"
  /\ on' = key_on(on, front) /\ UNCHANGED tries /\ Wait(2, "dash")
  /\ UNCHANGED <<cmd, i, front, flipped, shown>>

dash_on ==
  /\ pc = "dash_on"
  /\ on' = key_on(on, front) /\ tries' = tries + 1 /\ Wait(2, "dash")
  /\ UNCHANGED <<cmd, i, front, flipped, shown>>

-----------------------------------------------------------------------------
command ==
  \/ Finish \/ ReadHighJump \/ ReadDirection \/ ReadButton \/ ReadMissing
  \/ ReadD \/ ReadH \/ ReadOther \/ Release \/ dash \/ dash_on

Next == command \/ Frame

\* The battle goes on, so that every yield ends.
Spec == Init /\ [][Next]_vars /\ WF_vars(Next)

-----------------------------------------------------------------------------
\* Whatever was held before and whichever way the character faces now, once a digit
\* has been read the direction keys held are those it stands for, and no other key
\* is (document.txt:204-206).  9 is left out: api.ai:225-226 look for down and press it,
\* lines of the branch of 3: 29, 19 and 69 hold down and front.  8J, a jump, may be read
\* as an 8 let go and a J.
Holds(d) ==
  Reads /\ cmd[i] = d /\ (d = "8" => Char(i + 1) # "J") /\ pc' = "wait" /\ i' > i
    => on' = KeysOf(d)

DigitsHold == \A d \in Digits \ {"9"} : Holds(d)
DirectionHeld == [][DigitsHold]_vars

\* The reference reading of a command: its inputs, a direction that is repeated on
\* one axis being let go in between (History.txt:67), a button being pressed with
\* the direction before it.
Input(d, button) == [dir |-> d, button |-> button]

\* The inputs r so far, and the direction last read, with one more character.
Reading(r, c) ==
  IF c \in Buttons THEN [dir |-> "5", inputs |-> Append(r.inputs, Input(r.dir, c))]
  ELSE IF c \notin Digits THEN r
  ELSE LET twice == c = r.dir /\ c \in {"2", "4", "6", "8"}
           before == IF twice THEN Append(r.inputs, Input("5", "none")) ELSE r.inputs
       IN [dir |-> c, inputs |-> Append(before, Input(c, "none"))]

Inputs(s) ==
  LET read[n \in 0 .. Len(s)] ==
        IF n = 0 THEN [dir |-> "5", inputs |-> <<>>] ELSE Reading(read[n - 1], s[n])
  IN read[Len(s)].inputs

\* A command of directions but 9, buttons and pauses shows the game just these
\* inputs, if the characters do not pass each other and nothing cuts it short.
InputsShown ==
  pc = "done" /\ ~flipped /\ cmd \in Seq((Digits \ {"9"}) \cup Buttons \cup {"(", "?"})
    => shown = Inputs(cmd)

\* A command ends, one way or another, however often front and back are swapped.
CommandEnds == <>(pc \in {"done", "cut", "error"})
=============================================================================
