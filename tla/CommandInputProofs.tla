-------------------------- MODULE CommandInputProofs --------------------------
(***************************************************************************)
(* Proofs about CommandInput, for every alphabet, every length of a        *)
(* command and every number of tries.                                      *)
(*                                                                         *)
(* What a digit leaves held depends on what was held before.  The          *)
(* invariant says what that can be: no two keys of one axis (NoOpposites), *)
(* and, wherever a character is read, no button (ButtonsPass): a button is *)
(* held only until the wait after it is over.                              *)
(*                                                                         *)
(* What has been shown of a plain command is at each place the reading of  *)
(* a part of it (Shows), and the keys held there are those of one digit    *)
(* (ReadPlain).                                                            *)
(***************************************************************************)
EXTENDS CommandInput, NaturalsInduction, WellFoundedInduction, TLAPS

Shape == on \subseteq Directions \cup Buttons \cup {"D"} /\ front \in Horizontal

NoOpposites == \A k \in Directions \cap on : Opposite(k) \notin on

\* In these places, or in a wait for one of them, only directions are held.
WithoutButtons == {"step", "dash", "dash_on"}
ButtonsPass ==
  pc \in WithoutButtons \/ (pc = "wait" /\ then \in WithoutButtons) => on \subseteq Directions

CommandInv == Shape /\ NoOpposites /\ ButtonsPass

-----------------------------------------------------------------------------
(* The keys of the pad.                                                        *)

LEMMA Opposites ==
  \A k \in Directions : /\ Opposite(k) \in Directions /\ Opposite(k) # k
                        /\ Opposite(Opposite(k)) = k
                        /\ k \in Horizontal <=> Opposite(k) \in Horizontal
                        /\ k \in Vertical <=> k \notin Horizontal
BY DEF Directions, Horizontal, Vertical, Opposite

LEMMA Axes ==
  /\ \A k \in Horizontal : Horizontal = {k, Opposite(k)}
  /\ \A k \in Vertical : Vertical = {k, Opposite(k)}
BY DEF Horizontal, Vertical, Opposite

\* The keys of a digit are of different axes.
LEMMA DigitKeys ==
  ASSUME front \in Horizontal
  PROVE  /\ back \in Horizontal
         /\ KeysOf("5") = {} /\ KeysOf("2") = {"down"} /\ KeysOf("8") = {"up"}
         /\ KeysOf("4") = {back} /\ KeysOf("6") = {front}
         /\ KeysOf("1") = {"down", back} /\ KeysOf("3") = {"down", front}
         /\ KeysOf("7") = {"up", back} /\ KeysOf("9") = {"up", front}
         /\ \A d : KeysOf(d) \subseteq Directions
<1>1. CASE front = "left"
  BY <1>1 DEF back, KeysOf, Horizontal, Vertical, Directions, Opposite
<1>2. CASE front = "right"
  BY <1>2 DEF back, KeysOf, Horizontal, Vertical, Directions, Opposite
<1>3. QED
  BY <1>1, <1>2 DEF Horizontal

LEMMA KeysApart ==
  ASSUME front \in Horizontal, NEW d
  PROVE  \A k \in KeysOf(d) : Opposite(k) \notin KeysOf(d)
<1>1. CASE front = "left"
  BY <1>1 DEF back, KeysOf, Horizontal, Vertical, Directions, Opposite
<1>2. CASE front = "right"
  BY <1>2 DEF back, KeysOf, Horizontal, Vertical, Directions, Opposite
<1>3. QED
  BY <1>1, <1>2 DEF Horizontal

\* key_on lets go of the opposite direction, and buttons have none.
LEMMA PressKeeps ==
  ASSUME Shape, NoOpposites, NEW k \in Directions \cup Buttons \cup {"D"}
  PROVE  /\ key_on(on, k) \subseteq on \cup {k}
         /\ \A m \in Directions \cap key_on(on, k) : Opposite(m) \notin key_on(on, k)
<1>1. CASE k \in on
  BY <1>1 DEF key_on, NoOpposites
<1>2. CASE k \notin on /\ k \in Directions
  BY <1>2, Opposites DEF key_on, NoOpposites
<1>3. CASE k \notin on /\ k \notin Directions
  BY <1>3, Opposites DEF key_on, NoOpposites
<1>4. QED
  BY <1>1, <1>2, <1>3

\* A diagonal leaves its two keys held, whatever was held.
LEMMA DiagonalHeld ==
  ASSUME NoOpposites, on \subseteq Directions, NEW d, d # "9", NEW v \in Vertical, NEW h \in Horizontal
  PROVE  Diagonal(d, v, h) = Result({v, h}, FALSE)
<1>1. /\ {v, h} \subseteq Directions /\ v # h
      /\ Opposite(v) \notin {v, h} /\ Opposite(h) \notin {v, h}
      /\ Directions = {v, Opposite(v), h, Opposite(h)}
  BY Opposites, Axes DEF Directions, Horizontal, Vertical
<1>2. CASE h \in on
  <2>1. Opposite(h) \notin on /\ v \in Directions
    BY <1>1, <1>2 DEF NoOpposites
  <2>2. CASE v \in on
    <3>1. Opposite(v) \notin on
      BY <1>1, <2>2 DEF NoOpposites
    <3>2. on = {v, h}
      BY <1>1, <1>2, <2>1, <2>2, <3>1
    <3>3. key_on(on, v) = on
      BY <2>2 DEF key_on
    <3>4. QED
      BY <1>2, <3>2, <3>3 DEF Diagonal
  <2>3. CASE v \notin on
    <3>1. key_on(on, v) = (on \cup {v}) \ {Opposite(v)}
      BY <2>1, <2>3 DEF key_on
    <3>2. key_on(on, v) = {v, h}
      BY <1>1, <1>2, <2>1, <3>1
    <3>3. QED
      BY <1>2, <3>2 DEF Diagonal
  <2>4. QED
    BY <2>2, <2>3
<1>3. CASE h \notin on /\ v \in on
  <2>1. Opposite(v) \notin on /\ h \in Directions
    BY <1>1, <1>3 DEF NoOpposites
  <2>2. key_on(on, h) = (on \cup {h}) \ {Opposite(h)}
    BY <1>3, <2>1 DEF key_on
  <2>3. key_on(on, h) = {v, h}
    BY <1>1, <1>3, <2>1, <2>2
  <2>4. QED
    BY <1>3, <2>3 DEF Diagonal
<1>4. CASE h \notin on /\ v \notin on
  BY <1>4 DEF Diagonal
<1>5. QED
  BY <1>2, <1>3, <1>4

\* A straight direction is held alone, or it was already and has to be read again.
LEMMA StraightHeld ==
  ASSUME NoOpposites, on \subseteq Directions, NEW k \in Directions, NEW across,
         across = (IF k \in Horizontal THEN Vertical ELSE Horizontal)
  PROVE  \/ Straight(k, across) = Result({k}, FALSE)
         \/ Straight(k, across) = Result(key_off(on, k), TRUE)
<1>1. Directions = across \cup {k, Opposite(k)} /\ k \notin across
  BY Opposites, Axes DEF Directions
<1>2. CASE k \in on /\ on \cap across # {}
  <2>1. on \ across = {k}
    BY <1>1, <1>2 DEF NoOpposites
  <2>2. QED
    BY <1>2, <2>1 DEF Straight
<1>3. CASE ~(k \in on /\ on \cap across # {})
  BY <1>3 DEF Straight
<1>4. QED
  BY <1>2, <1>3

\* What a digit but 9 leaves held: its keys, unless it is to be read again.
LEMMA ReadHolds ==
  ASSUME Shape, NoOpposites, on \subseteq Directions, NEW d \in Digits \ {"9"}
  PROVE  \/ Read(d) = Result(KeysOf(d), FALSE)
         \/ /\ d \in {"2", "4", "6", "8"}
            /\ \E k \in Directions : Read(d) = Result(key_off(on, k), TRUE)
<1>1. front \in Horizontal /\ back \in Horizontal
  BY DigitKeys DEF Shape
<1>2. {"up", "down"} \subseteq Vertical /\ Horizontal \cup Vertical = Directions
      /\ "up" \notin Horizontal /\ "down" \notin Horizontal
  BY DEF Vertical, Horizontal, Directions
<1>3. CASE d = "5"
  BY <1>1, <1>3, DigitKeys DEF Read
<1>4. CASE d = "1"
  <2>1. Read(d) = Result({"down", back}, FALSE)
    BY <1>1, <1>2, <1>4, DiagonalHeld DEF Read
  <2>2. QED
    BY <1>1, <1>4, <2>1, DigitKeys
<1>5. CASE d = "3"
  <2>1. Read(d) = Result({"down", front}, FALSE)
    BY <1>1, <1>2, <1>5, DiagonalHeld DEF Read
  <2>2. QED
    BY <1>1, <1>5, <2>1, DigitKeys
<1>6. CASE d = "7"
  <2>1. Read(d) = Result({"up", back}, FALSE)
    BY <1>1, <1>2, <1>6, DiagonalHeld DEF Read
  <2>2. QED
    BY <1>1, <1>6, <2>1, DigitKeys
<1>7. CASE d = "2"
  <2>1. Read(d) = Straight("down", Horizontal) /\ KeysOf(d) = {"down"}
    BY <1>1, <1>7, DigitKeys DEF Read
  <2>2. "down" \in Directions /\ Horizontal = IF "down" \in Horizontal THEN Vertical ELSE Horizontal
    BY <1>1, <1>2
  <2>3. \/ Read(d) = Result({"down"}, FALSE)
        \/ Read(d) = Result(key_off(on, "down"), TRUE)
    BY <2>1, <2>2, StraightHeld
  <2>4. QED
    BY <1>7, <2>1, <2>2, <2>3
<1>8. CASE d = "4"
  <2>1. Read(d) = Straight(back, Vertical) /\ KeysOf(d) = {back}
    BY <1>1, <1>8, DigitKeys DEF Read
  <2>2. back \in Directions /\ Vertical = IF back \in Horizontal THEN Vertical ELSE Horizontal
    BY <1>1, <1>2
  <2>3. \/ Read(d) = Result({back}, FALSE)
        \/ Read(d) = Result(key_off(on, back), TRUE)
    BY <2>1, <2>2, StraightHeld
  <2>4. QED
    BY <1>8, <2>1, <2>2, <2>3
<1>9. CASE d = "6"
  <2>1. Read(d) = Straight(front, Vertical) /\ KeysOf(d) = {front}
    BY <1>1, <1>9, DigitKeys DEF Read
  <2>2. front \in Directions /\ Vertical = IF front \in Horizontal THEN Vertical ELSE Horizontal
    BY <1>1, <1>2
  <2>3. \/ Read(d) = Result({front}, FALSE)
        \/ Read(d) = Result(key_off(on, front), TRUE)
    BY <2>1, <2>2, StraightHeld
  <2>4. QED
    BY <1>9, <2>1, <2>2, <2>3
<1>10. CASE d = "8"
  <2>1. Read(d) = Straight("up", Horizontal) /\ KeysOf(d) = {"up"}
    BY <1>1, <1>10, DigitKeys DEF Read
  <2>2. "up" \in Directions /\ Horizontal = IF "up" \in Horizontal THEN Vertical ELSE Horizontal
    BY <1>1, <1>2
  <2>3. \/ Read(d) = Result({"up"}, FALSE)
        \/ Read(d) = Result(key_off(on, "up"), TRUE)
    BY <2>1, <2>2, StraightHeld
  <2>4. QED
    BY <1>10, <2>1, <2>2, <2>3
<1>11. QED
  BY <1>3, <1>4, <1>5, <1>6, <1>7, <1>8, <1>9, <1>10 DEF Digits

\* 9 and J leave directions held, too, and no two of one axis.
LEMMA ReadKeeps ==
  ASSUME Shape, NoOpposites, on \subseteq Directions, NEW c \in Digits \cup {"J"}
  PROVE  /\ Read(c).held \subseteq Directions
         /\ \A k \in Read(c).held : Opposite(k) \notin Read(c).held
<1>1. front \in Horizontal /\ front \in Directions
  BY DEF Shape, Directions
<1>2. \A k : key_off(on, k) \subseteq on
  BY DEF key_off
<1>3. CASE c \in Digits \ {"9"}
  <2>1. CASE Read(c) = Result(KeysOf(c), FALSE)
    BY <1>1, <2>1, DigitKeys, KeysApart DEF Result
  <2>2. CASE \E k \in Directions : Read(c) = Result(key_off(on, k), TRUE)
    BY <1>2, <2>2 DEF Result, NoOpposites
  <2>3. QED
    BY <1>3, <2>1, <2>2, ReadHolds
<1>4. CASE c = "J"
  <2>1. Read(c) = Straight("up", Horizontal) /\ "up" \in Directions /\ "up" \notin Horizontal
    BY <1>4 DEF Read, Directions, Vertical, Horizontal
  <2>2. \/ Read(c) = Result({"up"}, FALSE)
        \/ Read(c) = Result(key_off(on, "up"), TRUE)
    BY <2>1, StraightHeld
  <2>3. QED
    BY <1>2, <2>1, <2>2, Opposites DEF Result, NoOpposites
<1>5. CASE c = "9"
  <2>1. Read(c) = Diagonal(c, "up", front)
    BY <1>5 DEF Read
  <2>2. {"up", "down"} \subseteq Directions /\ front \notin {"up", "down"}
    BY <1>1 DEF Directions, Vertical, Horizontal
  <2>3. CASE front \in on
    <3>1. Read(c).held = key_on(on, "down")
      BY <1>5, <2>1, <2>3 DEF Diagonal, Result
    <3>2. QED
      BY <2>2, <3>1, PressKeeps
  <2>4. CASE front \notin on /\ "down" \in on
    <3>1. Read(c).held = key_on(on, front)
      BY <1>5, <2>1, <2>4 DEF Diagonal, Result
    <3>2. QED
      BY <1>1, <3>1, PressKeeps
  <2>5. CASE front \notin on /\ "down" \notin on
    <3>1. Read(c).held = {"up", front}
      BY <1>5, <2>1, <2>5 DEF Diagonal, Result
    <3>2. QED
      BY <1>1, <3>1, DigitKeys, KeysApart
  <2>6. QED
    BY <2>3, <2>4, <2>5
<1>6. QED
  BY <1>3, <1>4, <1>5

-----------------------------------------------------------------------------
LEMMA CommandInit == Init => CommandInv
BY DEF Init, CommandInv, Shape, NoOpposites, ButtonsPass

LEMMA CommandNext == CommandInv /\ [Next]_vars => CommandInv'
<1> SUFFICES ASSUME CommandInv, [Next]_vars PROVE CommandInv'
  OBVIOUS
<1> USE DEF CommandInv
<1>1. front' = front => front' \in Horizontal
  BY DEF Shape
<1>2. ASSUME on' = {}, UNCHANGED front PROVE CommandInv'
  BY <1>1, <1>2 DEF Shape, NoOpposites, ButtonsPass
<1>3. ASSUME UNCHANGED <<on, front>>, on \subseteq Directions PROVE CommandInv'
  BY <1>1, <1>3 DEF Shape, NoOpposites, ButtonsPass
<1>4. ASSUME NEW b \in Buttons \cup {"D"}, NEW n, Push(b, n), UNCHANGED front
      PROVE  CommandInv'
  <2>1. on' = key_on(on, b) /\ pc' = "wait" /\ then' = "reset"
    BY <1>4 DEF Push, Wait
  <2>2. Shape' /\ NoOpposites'
    BY <1>1, <1>4, <2>1, PressKeeps DEF Shape, NoOpposites
  <2>3. QED
    BY <2>1, <2>2 DEF ButtonsPass, WithoutButtons
<1>5. Reads => on \subseteq Directions
  BY DEF Reads, ButtonsPass, WithoutButtons
<1>6. CASE Frame
  <2>1. UNCHANGED on /\ front' \in Horizontal /\ then' = then /\ pc = "wait"
        /\ pc' \in {then, "wait"}
    BY <1>6 DEF Frame
  <2>2. QED
    BY <2>1 DEF Shape, NoOpposites, ButtonsPass
<1>7. CASE Finish
  BY <1>2, <1>7 DEF Finish
<1>8. CASE ReadHighJump
  <2>1. CASE on' = {}
    BY <1>2, <1>8, <2>1 DEF ReadHighJump
  <2>2. CASE on' = KeysOf(cmd[i]) \cup {"D"} /\ pc' = "wait" /\ then' = "jumped"
    <3>1. KeysOf(cmd[i]) \subseteq Directions
      BY DigitKeys DEF Shape
    <3>2. Shape'
      BY <1>1, <1>8, <2>2, <3>1 DEF Shape, ReadHighJump
    <3>3. "D" \notin Directions
      BY DEF Directions, Horizontal, Vertical
    <3>4. NoOpposites'
      BY <2>2, <3>1, <3>3, KeysApart, Opposites DEF Shape, NoOpposites
    <3>5. QED
      BY <2>2, <3>2, <3>4 DEF ButtonsPass, WithoutButtons
  <2>3. QED
    BY <1>8, <2>1, <2>2 DEF ReadHighJump, Wait
<1>9. CASE ReadDirection
  <2>1. PICK c \in Digits \cup {"J"} : c = cmd[i] /\ (on' = {} \/ on' = Read(c).held)
    BY <1>9 DEF ReadDirection
  <2>2. CASE on' = {}
    BY <1>2, <1>9, <2>2 DEF ReadDirection
  <2>3. CASE on' = Read(c).held
    <3>1. on' \subseteq Directions /\ \A k \in on' : Opposite(k) \notin on'
      BY <1>5, <1>9, <2>3, ReadKeeps DEF ReadDirection
    <3>2. QED
      BY <1>1, <1>9, <3>1 DEF ReadDirection, Shape, NoOpposites, ButtonsPass
  <2>4. QED
    BY <2>1, <2>2, <2>3
<1>10. CASE ReadButton
  BY <1>4, <1>10 DEF ReadButton
<1>11. CASE ReadMissing
  BY <1>3, <1>5, <1>11 DEF ReadMissing
<1>12. CASE ReadD
  BY <1>3, <1>4, <1>5, <1>12 DEF ReadD
<1>13. CASE ReadH
  <2>1. CASE Char(i + 1) \in Buttons /\ Push(Char(i + 1), HoldFrames)
    BY <1>4, <1>13, <2>1 DEF ReadH
  <2>2. CASE UNCHANGED on
    BY <1>3, <1>5, <1>13, <2>2 DEF ReadH
  <2>3. QED
    BY <1>13, <2>1, <2>2 DEF ReadH
<1>14. CASE ReadOther
  BY <1>3, <1>5, <1>14 DEF ReadOther
<1>15. CASE Release
  BY <1>2, <1>15 DEF Release
<1>16. CASE dash
  <2>1. on \subseteq Directions /\ on' \subseteq on /\ UNCHANGED front
    BY <1>16 DEF dash, ButtonsPass, WithoutButtons, key_off
  <2>2. QED
    BY <1>1, <2>1 DEF Shape, NoOpposites, ButtonsPass
<1>17. CASE dash_on
  <2>1. /\ on \subseteq Directions /\ on' = key_on(on, front) /\ UNCHANGED front
        /\ front \in Directions
    BY <1>17 DEF dash_on, ButtonsPass, WithoutButtons, Shape, Directions
  <2>2. /\ on' \subseteq Directions
        /\ \A k \in Directions \cap on' : Opposite(k) \notin on'
    BY <2>1, PressKeeps
  <2>3. QED
    BY <1>1, <2>1, <2>2 DEF Shape, NoOpposites, ButtonsPass
<1>18. CASE UNCHANGED vars
  BY <1>18 DEF vars, Shape, NoOpposites, ButtonsPass
<1>19. QED
  BY <1>6, <1>7, <1>8, <1>9, <1>10, <1>11, <1>12, <1>13, <1>14, <1>15, <1>16, <1>17, <1>18
  DEF Next, command

Position == i \in Nat

LEMMA PositionInit == Init => Position
BY DEF Init, Position

LEMMA PositionNext == Position /\ [Next]_vars => Position'
<1> SUFFICES ASSUME i \in Nat, [Next]_vars PROVE i' \in Nat
  BY DEF Position
<1>1. CASE ReadDirection
  <2> DEFINE skipped == IF cmd[i] \in {"7", "8", "9", "J"} /\ Char(i + 1) = "J" THEN 1 ELSE 0
             again == IF Read(cmd[i]).again THEN 0 ELSE 1
  <2>1. UNCHANGED i \/ i' = i + skipped + again
    BY <1>1 DEF ReadDirection, Ends
  <2>2. skipped \in Nat /\ again \in Nat
    OBVIOUS
  <2> HIDE DEF skipped, again
  <2>3. QED
    BY <2>1, <2>2
<1>2. CASE ~ReadDirection
  BY <1>2
  DEF Next, command, Frame, Finish, ReadHighJump, ReadButton, ReadMissing, ReadD, ReadH,
      ReadOther, Release, dash, dash_on, vars, Ends, Push, Wait
<1>3. QED
  BY <1>1, <1>2

\* A digit that is read leaves just its directions held (DirectionHeld), whatever was
\* held before and wherever the characters stand: 9 does not (api.ai:225).
THEOREM DigitsAreHeld == Spec => DirectionHeld
<1>1. CommandInv /\ Position /\ [Next]_vars => [DigitsHold]_vars
  <2> SUFFICES ASSUME CommandInv, i \in Nat, [Next]_vars, NEW d \in Digits \ {"9"}, Reads, cmd[i] = d,
                      d = "8" => Char(i + 1) # "J", pc' = "wait", i' > i
               PROVE  on' = KeysOf(d)
    BY DEF DigitsHold, Holds, Position
  <2>1. d \notin Buttons \cup {"D", "E", "F", "H", "J", "(", "?"}
    BY DEF Digits, Buttons
  <2>2. pc = "step" /\ ~HighJump
    BY DEF Reads
  <2>3. ReadDirection
    BY <2>1, <2>2
    DEF Next, command, Frame, Finish, ReadHighJump, ReadButton, ReadMissing, ReadD, ReadH,
        ReadOther, Release, dash, dash_on, vars, Ends
  <2> DEFINE skipped == IF d \in {"7", "8", "9", "J"} /\ Char(i + 1) = "J" THEN 1 ELSE 0
  <2>4. on' = Read(d).held /\ i' = i + skipped + (IF Read(d).again THEN 0 ELSE 1)
    BY <2>3 DEF ReadDirection, Ends
  <2>5. ~(d \in {"2", "4", "6", "8"} /\ Read(d).again)
    BY <2>4
  <2>6. on \subseteq Directions
    BY <2>2 DEF CommandInv, ButtonsPass, WithoutButtons
  <2>7. Read(d) = Result(KeysOf(d), FALSE)
    BY <2>5, <2>6, ReadHolds DEF CommandInv, Result
  <2>8. QED
    BY <2>4, <2>7 DEF Result
<1>2. QED
  BY <1>1, CommandInit, CommandNext, PositionInit, PositionNext, PTL DEF Spec, DirectionHeld

-----------------------------------------------------------------------------
(* What the game is shown.  The reference reading is a recursive function; it  *)
(* exists, since a shortest command without one would have one after all.      *)

Straights == {"2", "4", "6", "8"}
PlainDigits == Digits \ {"9"}
PlainCharacters == PlainDigits \cup Buttons \cup {"(", "?"}
Plain == cmd \in Seq(PlainCharacters)

Start == [dir |-> "5", inputs |-> <<>>]
ReadFrom(f, s) == f = [n \in 0 .. Len(s) |-> IF n = 0 THEN Start ELSE Reading(f[n - 1], s[n])]
ReadTo(s) == CHOOSE f : ReadFrom(f, s)

LEMMA InputsAre == \A s : Inputs(s) = ReadTo(s)[Len(s)].inputs
BY Zenon DEF Inputs, ReadTo, ReadFrom, Start

LEMMA Least ==
  ASSUME NEW S, S \subseteq Nat, S # {}
  PROVE  \E m \in S : \A n \in S : m <= n
<1>1. PICK m \in S : \A n \in S : ~(<<n, m>> \in OpToRel(<, Nat))
  BY WFMin, NatLessThanWellFounded
<1>2. ASSUME NEW n \in S PROVE m <= n
  <2>1. n \in Nat /\ m \in Nat
    OBVIOUS
  <2>2. SUFFICES ASSUME n < m PROVE FALSE
    BY <2>1
  <2>3. <<n, m>> \in OpToRel(<, Nat)
    BY <2>1, <2>2 DEF OpToRel
  <2>4. QED
    BY <1>1, <2>3
<1>3. QED
  BY <1>2

LEMMA ReadingExists ==
  ASSUME NEW s, Len(s) \in Nat
  PROVE  \E f : ReadFrom(f, s)
<1> DEFINE len == Len(s)
           Upto(j) == \E f : /\ DOMAIN f = 0 .. len /\ f = [n \in 0 .. len |-> f[n]] /\ f[0] = Start
                             /\ \A n \in 1 .. j : f[n] = Reading(f[n - 1], s[n])
           S == {j \in 0 .. len : ~Upto(j)}
<1>0. len \in Nat
  OBVIOUS
<1> HIDE DEF len
<1>1. Upto(0)
  <2> DEFINE f == [n \in 0 .. len |-> Start]
  <2>1. DOMAIN f = 0 .. len /\ f = [n \in 0 .. len |-> f[n]] /\ f[0] = Start
    BY <1>0
  <2>2. 1 .. 0 = {}
    OBVIOUS
  <2> HIDE DEF f
  <2>3. QED
    BY <2>1, <2>2
<1>2. S = {}
  <2>1. SUFFICES ASSUME S # {} PROVE FALSE
    OBVIOUS
  <2>2. S \subseteq Nat
    OBVIOUS
  <2>3. PICK j \in S : \A m \in S : j <= m
    <3> HIDE DEF S
    <3>1. QED
      BY <2>1, <2>2, Least
  <2>4. j # 0 /\ j \in 0 .. len
    BY <1>1, <2>3
  <2>5. j - 1 \in 0 .. len /\ j - 1 \notin S
    BY <1>0, <2>3, <2>4
  <2>6. Upto(j - 1)
    BY <2>5
  <2>7. PICK f : /\ DOMAIN f = 0 .. len /\ f = [n \in 0 .. len |-> f[n]] /\ f[0] = Start
                 /\ \A n \in 1 .. j - 1 : f[n] = Reading(f[n - 1], s[n])
    BY <2>6
  <2> DEFINE step == Reading(f[j - 1], s[j])
  <2> HIDE DEF step
  <2> DEFINE g == [f EXCEPT ![j] = step]
  <2>8. DOMAIN g = 0 .. len /\ g = [n \in 0 .. len |-> g[n]] /\ g[0] = Start
    <3>1. DOMAIN g = 0 .. len
      BY <2>7
    <3>2. g = [n \in 0 .. len |-> g[n]]
      BY <2>7
    <3>3. g[0] = Start
      BY <1>0, <2>4, <2>7
    <3>4. QED
      BY <3>1, <3>2, <3>3
  <2>9. \A n \in 0 .. len : g[n] = IF n = j THEN step ELSE f[n]
    BY <2>4, <2>7
  <2> HIDE DEF g
  <2>10. ASSUME NEW n \in 1 .. j PROVE g[n] = Reading(g[n - 1], s[n])
    <3>1. n \in 0 .. len /\ n - 1 \in 0 .. len /\ n - 1 # j
      BY <1>0, <2>4
    <3>2. g[n - 1] = f[n - 1]
      BY <3>1, <2>9
    <3>3. CASE n = j
      BY <3>1, <3>2, <3>3, <2>9 DEF step
    <3>4. CASE n # j
      <4>1. n \in 1 .. j - 1
        BY <3>4, <2>4
      <4>2. QED
        BY <4>1, <3>1, <3>2, <3>4, <2>7, <2>9
    <3>5. QED
      BY <3>3, <3>4
  <2>11. Upto(j)
    BY <2>8, <2>10
  <2>12. QED
    BY <2>3, <2>11
<1>3. len \in 0 .. len
  BY <1>0
<1>4. Upto(len)
  BY <1>2, <1>3
<1>5. PICK f : /\ DOMAIN f = 0 .. len /\ f = [n \in 0 .. len |-> f[n]] /\ f[0] = Start
               /\ \A n \in 1 .. len : f[n] = Reading(f[n - 1], s[n])
  BY <1>4
<1>6. \A n \in 0 .. len : f[n] = IF n = 0 THEN Start ELSE Reading(f[n - 1], s[n])
  <2>1. \A n \in 0 .. len : n # 0 => n \in 1 .. len
    BY <1>0
  <2>2. QED
    BY <1>5, <2>1
<1>7. f = [n \in 0 .. len |-> IF n = 0 THEN Start ELSE Reading(f[n - 1], s[n])]
  BY <1>5, <1>6
<1>8. QED
  BY <1>7 DEF ReadFrom, len

\* The reading of a command of plain characters, a character at a time.
LEMMA ReadToFact ==
  ASSUME NEW s \in Seq(PlainCharacters)
  PROVE  /\ ReadTo(s)[0] = Start
         /\ \A n \in 1 .. Len(s) : ReadTo(s)[n] = Reading(ReadTo(s)[n - 1], s[n])
         /\ \A n \in 0 .. Len(s) : ReadTo(s)[n].dir \in PlainDigits
<1> DEFINE r == ReadTo(s)
           S == {n \in 0 .. Len(s) : r[n].dir \notin PlainDigits}
<1>1. Len(s) \in Nat /\ \A n \in 1 .. Len(s) : s[n] \in PlainCharacters
  OBVIOUS
<1>2. ReadFrom(r, s)
  BY <1>1, ReadingExists, Zenon DEF ReadTo
<1> HIDE DEF r
<1>3. \A n \in 0 .. Len(s) : r[n] = IF n = 0 THEN Start ELSE Reading(r[n - 1], s[n])
  BY <1>2 DEF ReadFrom
<1>4. r[0] = Start
  BY <1>1, <1>3
<1>5. \A n \in 1 .. Len(s) : r[n] = Reading(r[n - 1], s[n])
  BY <1>1, <1>3
<1>6. S = {}
  <2>1. SUFFICES ASSUME S # {} PROVE FALSE
    OBVIOUS
  <2>2. S \subseteq Nat
    BY <1>1
  <2>3. PICK n \in S : \A m \in S : n <= m
    <3> HIDE DEF S
    <3>1. QED
      BY <2>1, <2>2, Least
  <2>4. n # 0
    BY <1>4, <2>3 DEF Start, PlainDigits, Digits
  <2>5. n \in 1 .. Len(s) /\ n - 1 \in 0 .. Len(s) /\ n - 1 \notin S
    BY <1>1, <2>3, <2>4
  <2>6. r[n - 1].dir \in PlainDigits /\ r[n] = Reading(r[n - 1], s[n])
        /\ s[n] \in PlainCharacters
    BY <1>1, <1>5, <2>5
  <2>7. r[n].dir \in PlainDigits
    <3>1. CASE s[n] \in Buttons
      BY <2>6, <3>1 DEF Reading, PlainDigits, Digits
    <3>2. CASE s[n] \in PlainDigits
      <4>1. s[n] \notin Buttons /\ s[n] \in Digits
        BY <3>2 DEF PlainDigits, Digits, Buttons
      <4> DEFINE seen == Append(IF s[n] = r[n - 1].dir /\ s[n] \in Straights
                              THEN Append(r[n - 1].inputs, Input("5", "none"))
                              ELSE r[n - 1].inputs, Input(s[n], "none"))
      <4>2. Reading(r[n - 1], s[n]) = [dir |-> s[n], inputs |-> seen]
        BY <4>1, Zenon DEF Reading, Straights
      <4> HIDE DEF seen
      <4>3. r[n].dir = s[n]
        BY <2>6, <4>2
      <4>4. QED
        BY <3>2, <4>3
    <3>3. CASE s[n] \notin Buttons \cup Digits
      BY <2>6, <3>3 DEF Reading
    <3>4. QED
      BY <2>6, <3>1, <3>2, <3>3 DEF PlainCharacters, PlainDigits
  <2>8. QED
    BY <2>3, <2>7
<1>7. QED
  BY <1>4, <1>5, <1>6 DEF r


-----------------------------------------------------------------------------
(* What a digit leaves held, and what is shown then.                           *)

\* The keys of a digit for a character whose front key is f.
KeysFor(f, d) ==
  {k \in Directions : \/ k = "down" /\ d \in {"1", "2", "3"}
                      \/ k = "up"   /\ d \in {"7", "8", "9"}
                      \/ k = Opposite(f) /\ d \in {"1", "4", "7"}
                      \/ k = f      /\ d \in {"3", "6", "9"}}

LEMMA KeysForFront == \A d : KeysOf(d) = KeysFor(front, d)
BY DEF KeysOf, KeysFor, back

\* No two digits have the same keys.
LEMMA KeysDiffer ==
  ASSUME front \in Horizontal, NEW d \in Digits, NEW e \in Digits, KeysOf(d) = KeysOf(e)
  PROVE  d = e
<1>1. /\ {"up", "down", front, back} \subseteq Directions
      /\ "up" # "down" /\ front # back /\ {front, back} \cap {"up", "down"} = {}
  BY DEF Directions, Horizontal, Vertical, back, Opposite
<1>2. d \in {"1", "2", "3"} <=> e \in {"1", "2", "3"}
  <2>1. \A x : "down" \in KeysOf(x) <=> x \in {"1", "2", "3"}
    BY <1>1 DEF KeysOf
  <2>2. QED
    BY <2>1
<1>3. d \in {"7", "8", "9"} <=> e \in {"7", "8", "9"}
  <2>1. \A x : "up" \in KeysOf(x) <=> x \in {"7", "8", "9"}
    BY <1>1 DEF KeysOf
  <2>2. QED
    BY <2>1
<1>4. d \in {"1", "4", "7"} <=> e \in {"1", "4", "7"}
  <2>1. \A x : back \in KeysOf(x) <=> x \in {"1", "4", "7"}
    BY <1>1 DEF KeysOf
  <2>2. QED
    BY <2>1
<1>5. d \in {"3", "6", "9"} <=> e \in {"3", "6", "9"}
  <2>1. \A x : front \in KeysOf(x) <=> x \in {"3", "6", "9"}
    BY <1>1 DEF KeysOf
  <2>2. QED
    BY <2>1
<1>6. QED
  BY <1>2, <1>3, <1>4, <1>5 DEF Digits

\* The game sees the digit whose keys are held.
LEMMA ShowFact ==
  ASSUME front \in Horizontal, NEW e \in Digits, NEW held, held = KeysOf(e)
  PROVE  (CHOOSE d \in Digits : KeysOf(d) = held) = e
BY KeysDiffer

\* With the keys of a digit held, a digit leaves its own held, but a straight
\* direction that is held alone already is let go and read again.
LEMMA ReadPlain ==
  ASSUME Shape, NEW e \in PlainDigits, NEW d \in PlainDigits, on = KeysOf(e)
  PROVE  Read(d) = IF d = e /\ d \in Straights THEN Result({}, TRUE)
                   ELSE Result(KeysOf(d), FALSE)
<1>1. front \in Horizontal /\ back \in Horizontal /\ on \subseteq Directions /\ NoOpposites
  BY DigitKeys, KeysApart DEF Shape, NoOpposites
<1>2. {"up", "down"} \subseteq Vertical /\ Horizontal \cup Vertical = Directions
      /\ Horizontal \cap Vertical = {}
  BY DEF Vertical, Horizontal, Directions
<1>3. PlainDigits = {"1", "2", "3", "4", "5", "6", "7", "8"} /\ PlainDigits \subseteq Digits
  BY DEF PlainDigits, Digits
\* The straight digits, each with its key and the keys of the other axis.
<1>4. ASSUME NEW k \in Directions, NEW across, KeysOf(d) = {k}, Read(d) = Straight(k, across),
             across = (IF k \in Horizontal THEN Vertical ELSE Horizontal)
      PROVE  Read(d) = IF d = e THEN Result({}, TRUE) ELSE Result(KeysOf(d), FALSE)
  <2>1. Directions = across \cup {k, Opposite(k)} /\ k \notin across
    BY <1>4, Opposites, Axes DEF Directions
  <2>2. CASE d = e
    <3>1. on = {k} /\ on \cap across = {}
      BY <1>4, <2>1, <2>2
    <3>2. key_off(on, k) = {}
      BY <3>1 DEF key_off
    <3>3. QED
      BY <1>4, <2>2, <3>1, <3>2 DEF Straight
  <2>3. CASE d # e
    <3>1. CASE k \notin on
      BY <1>4, <2>3, <3>1 DEF Straight
    <3>2. CASE k \in on
      <4>1. on # {k}
        BY <1>1, <1>3, <1>4, <2>3, KeysDiffer
      <4>2. Opposite(k) \notin on
        BY <1>1, <1>4, <3>2 DEF NoOpposites
      <4>3. on \ across = {k} /\ on \cap across # {}
        BY <1>1, <2>1, <3>2, <4>1, <4>2
      <4>4. QED
        BY <1>4, <2>3, <3>2, <4>3 DEF Straight
    <3>3. QED
      BY <3>1, <3>2
  <2>4. QED
    BY <2>2, <2>3
<1>5. CASE d = "2"
  <2>1. Read(d) = Straight("down", Horizontal) /\ KeysOf(d) = {"down"}
    BY <1>1, <1>5, DigitKeys DEF Read
  <2>2. "down" \in Directions /\ Horizontal = IF "down" \in Horizontal THEN Vertical ELSE Horizontal
    BY <1>2
  <2>3. QED
    BY <1>4, <1>5, <2>1, <2>2 DEF Straights
<1>6. CASE d = "8"
  <2>1. Read(d) = Straight("up", Horizontal) /\ KeysOf(d) = {"up"}
    BY <1>1, <1>6, DigitKeys DEF Read
  <2>2. "up" \in Directions /\ Horizontal = IF "up" \in Horizontal THEN Vertical ELSE Horizontal
    BY <1>2
  <2>3. QED
    BY <1>4, <1>6, <2>1, <2>2 DEF Straights
<1>7. CASE d = "4"
  <2>1. Read(d) = Straight(back, Vertical) /\ KeysOf(d) = {back}
    BY <1>1, <1>7, DigitKeys DEF Read
  <2>2. back \in Directions /\ Vertical = IF back \in Horizontal THEN Vertical ELSE Horizontal
    BY <1>1, <1>2
  <2>3. QED
    BY <1>4, <1>7, <2>1, <2>2 DEF Straights
<1>8. CASE d = "6"
  <2>1. Read(d) = Straight(front, Vertical) /\ KeysOf(d) = {front}
    BY <1>1, <1>8, DigitKeys DEF Read
  <2>2. front \in Directions /\ Vertical = IF front \in Horizontal THEN Vertical ELSE Horizontal
    BY <1>1, <1>2
  <2>3. QED
    BY <1>4, <1>8, <2>1, <2>2 DEF Straights
<1>9. CASE d \notin Straights
  BY <1>1, <1>9, ReadHolds DEF PlainDigits, Straights
<1>10. QED
  BY <1>5, <1>6, <1>7, <1>8, <1>9 DEF Straights


-----------------------------------------------------------------------------
(***************************************************************************)
(* What has been shown of a plain command: where a character is to be      *)
(* read, the reading of those before it, and the direction last read is    *)
(* held (Upto); or also a 5, the straight direction that is repeated       *)
(* having been let go (LetGo); where a button is to be released, the       *)
(* reading of the button, too (Pushed).                                    *)
(***************************************************************************)
Upto ==
  /\ on = KeysFor(front, ReadTo(cmd)[i - 1].dir)
  /\ shown = ReadTo(cmd)[i - 1].inputs

LetGo ==
  /\ i <= Len(cmd) /\ cmd[i] \in Straights /\ cmd[i] = ReadTo(cmd)[i - 1].dir
  /\ on = {} /\ shown = Append(ReadTo(cmd)[i - 1].inputs, Input("5", "none"))

Pushed == i <= Len(cmd) /\ cmd[i] \in Buttons /\ shown = ReadTo(cmd)[i].inputs

At(place) == pc = place \/ (pc = "wait" /\ then = place)

ShowsPlain ==
  /\ i \in 1 .. Len(cmd) + 1
  /\ pc \in {"step", "wait", "reset", "done", "cut"}
  /\ pc = "wait" => then \in {"step", "reset"}
  /\ At("step") => Upto \/ LetGo
  /\ At("reset") => Pushed
  /\ pc = "done" => shown = Inputs(cmd)

Shows == Plain /\ ~flipped => ShowsPlain

LEMMA ShowsInit == Init => Shows
<1> SUFFICES ASSUME Init, Plain PROVE ShowsPlain
  BY DEF Shows
<1>1. Len(cmd) \in Nat /\ i = 1 /\ pc = "step" /\ on = {} /\ shown = <<>> /\ front \in Horizontal
  BY DEF Init, Plain
<1>2. ReadTo(cmd)[i - 1] = Start
  BY <1>1, ReadToFact DEF Plain
<1>3. KeysFor(front, "5") = {}
  BY <1>1, DigitKeys, KeysForFront
<1>4. Upto
  BY <1>1, <1>2, <1>3 DEF Upto, Start
<1>5. QED
  BY <1>1, <1>4 DEF ShowsPlain, At

\* A character that is read and leaves its direction held.
LEMMA StepTo ==
  ASSUME i \in Nat \ {0}, i' = i + 1, UNCHANGED <<cmd, front>>, Len(cmd) \in Nat, i <= Len(cmd),
         on' = KeysFor(front, ReadTo(cmd)[i].dir), shown' = ReadTo(cmd)[i].inputs,
         pc' = "wait", then' = "step"
  PROVE  ShowsPlain'
<1>1. i' - 1 = i /\ i' \in 1 .. Len(cmd) + 1
  OBVIOUS
<1>2. Upto'
  BY <1>1 DEF Upto
<1>3. QED
  BY <1>1, <1>2 DEF ShowsPlain, At

LEMMA ShowsNext == CommandInv /\ Shows /\ [Next]_vars => Shows'
<1> SUFFICES ASSUME CommandInv, Shows, [Next]_vars, Plain', ~flipped' PROVE ShowsPlain'
  BY DEF Shows
<1>1. UNCHANGED cmd /\ UNCHANGED front /\ (flipped' = flipped \/ (Frame /\ ~flipped))
  <2>1. CASE Frame
    <3>1. cmd' = cmd
      BY <2>1 DEF Frame
    <3>2. flipped' = (flipped \/ front' # front)
      BY <2>1, Zenon DEF Frame
    <3>3. ~flipped /\ front' = front
      BY <3>2, Zenon
    <3>4. QED
      BY <2>1, <3>1, <3>3
  <2>2. CASE ~Frame
    BY <2>2
    DEF Next, command, Finish, ReadHighJump, ReadDirection, ReadButton, ReadMissing, ReadD, ReadH,
        ReadOther, Release, dash, dash_on, vars, Ends
  <2>3. QED
    BY <2>1, <2>2
<1>2. Plain /\ ~flipped
  <2>1. ~flipped
    BY <1>1, Zenon
  <2>2. Plain
    BY <1>1 DEF Plain
  <2>3. QED
    BY <2>1, <2>2
<1>3. ShowsPlain
  BY <1>2 DEF Shows
<1> DEFINE r == ReadTo(cmd)
<1>4. /\ Len(cmd) \in Nat /\ DOMAIN cmd = 1 .. Len(cmd) /\ i \in 1 .. Len(cmd) + 1
      /\ \A n \in 1 .. Len(cmd) : cmd[n] \in PlainCharacters
  BY <1>2, <1>3 DEF Plain, ShowsPlain
<1>5. /\ \A n \in 1 .. Len(cmd) : r[n] = Reading(r[n - 1], cmd[n])
      /\ \A n \in 0 .. Len(cmd) : r[n].dir \in PlainDigits
  BY <1>2, ReadToFact DEF Plain
<1>6. /\ "" \notin PlainCharacters
      /\ PlainCharacters \cap {"D", "E", "F", "H", "J"} = {}
  BY DEF PlainCharacters, PlainDigits, Digits, Buttons
<1>7. \A j : Char(j) \notin {"D", "E", "F", "H", "J"}
  BY <1>4, <1>6 DEF Char
<1>8. ~HighJump
  BY <1>7 DEF HighJump
<1>9. Shape /\ front \in Horizontal
  BY DEF CommandInv, Shape
<1> HIDE DEF r
<1>10. CASE Frame
  <2>1. pc = "wait" /\ UNCHANGED <<i, then, on, shown>> /\ pc' \in {then, "wait"}
    BY <1>10 DEF Frame
  <2>2. then \in {"step", "reset"}
    BY <1>3, <2>1 DEF ShowsPlain
  <2>3. /\ At("step")' => At("step")
        /\ At("reset")' => At("reset")
        /\ pc' \in {"step", "wait", "reset", "done", "cut"} /\ pc' # "done"
    BY <2>1, <2>2 DEF At
  <2>4. (Upto \/ LetGo) => (Upto \/ LetGo)'
    BY <1>1, <2>1 DEF Upto, LetGo
  <2>5. Pushed => Pushed'
    BY <1>1, <2>1 DEF Pushed
  <2>6. QED
    BY <1>1, <1>3, <2>1, <2>2, <2>3, <2>4, <2>5 DEF ShowsPlain
<1>11. CASE Finish
  <2>1. pc = "step" /\ i > Len(cmd) /\ pc' = "done" /\ UNCHANGED <<i, then, shown>>
    BY <1>11 DEF Finish, Ends
  <2>2. i - 1 = Len(cmd) /\ ~(i <= Len(cmd))
    BY <1>4, <2>1
  <2>3. Upto
    BY <1>3, <2>1, <2>2 DEF ShowsPlain, At, LetGo
  <2>4. shown = Inputs(cmd)
    BY <2>2, <2>3, InputsAre DEF Upto
  <2>5. QED
    BY <1>1, <1>4, <2>1, <2>4 DEF ShowsPlain, At
<1>12. CASE ReadDirection
  <2>1. /\ pc = "step" /\ i \in 1 .. Len(cmd) /\ cmd[i] \in Digits
        /\ cmd[i] \in PlainDigits
    <3>1. pc = "step" /\ i <= Len(cmd) /\ cmd[i] \in Digits \cup {"J"}
      BY <1>12 DEF ReadDirection, Reads
    <3>2. i \in 1 .. Len(cmd)
      BY <1>4, <3>1
    <3>3. cmd[i] \in PlainCharacters /\ cmd[i] # "J"
      BY <1>4, <1>6, <3>2
    <3>4. cmd[i] \in Digits
      BY <3>1, <3>3
    <3>5. cmd[i] \in PlainDigits
      BY <3>3, <3>4 DEF PlainCharacters, PlainDigits, Digits, Buttons
    <3>6. QED
      BY <3>1, <3>2, <3>4, <3>5
  <2> DEFINE c == cmd[i]
             e == r[i - 1].dir
             seen == r[i - 1].inputs
  <2>2. e \in PlainDigits /\ c \in PlainDigits /\ r[i] = Reading(r[i - 1], c)
        /\ PlainDigits \subseteq Digits /\ "5" \in Digits
    BY <1>4, <1>5, <2>1 DEF PlainDigits, Digits
  <2>3. Upto \/ LetGo
    BY <1>3, <2>1 DEF ShowsPlain, At
  <2>4. r[i] = [dir |-> c,
                inputs |-> Append(IF c = e /\ c \in Straights THEN Append(seen, Input("5", "none")) ELSE seen,
                                  Input(c, "none"))]
    <3>1. c \in Digits /\ c \notin Buttons
      BY <2>1 DEF Digits, Buttons
    <3>2. QED
      BY <2>2, <3>1, Zenon DEF Reading, Straights
  <2> HIDE DEF c, e, seen
  <2>5. CASE pc' = "cut" /\ UNCHANGED i
    BY <1>1, <1>4, <2>5 DEF ShowsPlain, At
  <2>6. CASE /\ on' = Read(c).held /\ i' = i + (IF Read(c).again THEN 0 ELSE 1)
             /\ pc' = "wait" /\ then' = "step" /\ Show("none")
    <3>1. ASSUME NEW d \in PlainDigits, on' = KeysOf(d)
          PROVE  shown' = Append(shown, Input(d, "none")) /\ on' = KeysFor(front, d)
      <4>1. on' \cap Directions = KeysOf(d) /\ d \in Digits
        BY <1>9, <2>2, <3>1, DigitKeys
      <4>2. (CHOOSE x \in Digits : KeysOf(x) = on' \cap Directions) = d
        BY <1>9, <4>1, ShowFact
      <4>3. QED
        BY <2>6, <3>1, <4>2, KeysForFront DEF Show, Input
    <3>2. KeysOf("5") = {} /\ "5" \in PlainDigits
      BY <1>9, DigitKeys DEF PlainDigits, Digits
    <3>3. CASE Upto
      <4>1. on = KeysOf(e) /\ shown = seen
        BY <3>3, KeysForFront DEF Upto, e, seen, r
      <4>2. Read(c) = IF c = e /\ c \in Straights THEN Result({}, TRUE) ELSE Result(KeysOf(c), FALSE)
        BY <1>9, <2>2, <4>1, ReadPlain
      <4>3. CASE c = e /\ c \in Straights
        <5> Read(c) = Result({}, TRUE)
          BY <4>2, <4>3
        <5>1. on' = {} /\ i' = i
          BY <1>4, <2>6 DEF Result
        <5>2. shown' = Append(seen, Input("5", "none"))
          BY <3>1, <3>2, <4>1, <5>1
        <5>3. LetGo'
          BY <1>1, <2>1, <4>3, <5>1, <5>2 DEF LetGo, c, e, seen, r
        <5>4. QED
          BY <1>1, <1>4, <2>6, <5>1, <5>3 DEF ShowsPlain, At
      <4>4. CASE ~(c = e /\ c \in Straights)
        <5> Read(c) = Result(KeysOf(c), FALSE)
          BY <4>2, <4>4, Zenon
        <5>1. on' = KeysOf(c) /\ i' = i + 1
          BY <1>4, <2>6 DEF Result
        <5>2. shown' = Append(seen, Input(c, "none")) /\ on' = KeysFor(front, c)
          BY <2>2, <3>1, <4>1, <5>1
        <5>3. r[i].dir = c /\ r[i].inputs = Append(seen, Input(c, "none"))
          <6>1. r[i] = [dir |-> c, inputs |-> Append(seen, Input(c, "none"))]
            BY <2>4, <4>4, Zenon
          <6>2. QED
            BY <6>1
        <5>4. QED
          <6>1. ReadTo(cmd)[i].dir = c /\ ReadTo(cmd)[i].inputs = shown'
            BY <5>2, <5>3 DEF r
          <6>2. on' = KeysFor(front, ReadTo(cmd)[i].dir) /\ i' = i + 1 /\ pc' = "wait" /\ then' = "step"
            BY <2>6, <5>1, <5>2, <6>1
          <6>3. QED
            BY <1>1, <1>4, <2>1, <6>1, <6>2, StepTo
      <4>5. QED
        BY <4>3, <4>4
    <3>4. CASE LetGo
      <4>1. on = KeysOf("5") /\ c = e /\ c \in Straights /\ shown = Append(seen, Input("5", "none"))
        BY <3>2, <3>4 DEF LetGo, c, e, seen, r
      <4>2. c # "5"
        BY <4>1 DEF Straights
      <4>3. Read(c) = Result(KeysOf(c), FALSE)
        BY <1>9, <2>2, <3>2, <4>1, <4>2, ReadPlain
      <4>4. on' = KeysOf(c) /\ i' = i + 1
        BY <1>4, <2>6, <4>3 DEF Result
      <4>5. shown' = Append(Append(seen, Input("5", "none")), Input(c, "none")) /\ on' = KeysFor(front, c)
        BY <2>2, <3>1, <4>1, <4>4
      <4>6. r[i].dir = c /\ r[i].inputs = Append(Append(seen, Input("5", "none")), Input(c, "none"))
        <5>1. r[i] = [dir |-> c,
                      inputs |-> Append(Append(seen, Input("5", "none")), Input(c, "none"))]
          BY <2>4, <4>1, Zenon
        <5>2. QED
          BY <5>1
      <4>7. QED
        BY <1>1, <1>4, <2>1, <2>6, <4>4, <4>5, <4>6, StepTo DEF r
    <3>5. QED
      BY <2>3, <3>3, <3>4
  <2>7. QED
    <3>1. ~(c \in {"7", "8", "9", "J"} /\ Char(i + 1) = "J")
      BY <1>7
    <3>2. \/ pc' = "cut" /\ UNCHANGED i
          \/ /\ on' = Read(c).held /\ i' = i + 0 + (IF Read(c).again THEN 0 ELSE 1)
             /\ pc' = "wait" /\ then' = "step" /\ Show("none")
      BY <1>12, <3>1 DEF ReadDirection, Ends, Wait, c
    <3>3. QED
      BY <1>4, <2>5, <2>6, <3>2
<1>13. CASE ReadButton
  <2>1. /\ pc = "step" /\ i \in 1 .. Len(cmd) /\ cmd[i] \in Buttons
        /\ on' = key_on(on, cmd[i]) /\ pc' = "wait" /\ then' = "reset" /\ Show(cmd[i])
        /\ UNCHANGED i
    BY <1>4, <1>13 DEF ReadButton, Reads, Push, Wait
  <2>2. cmd[i] \notin Straights /\ cmd[i] \notin Directions
    BY <2>1 DEF Straights, Buttons, Directions, Horizontal, Vertical
  <2>3. Upto
    BY <1>3, <2>1, <2>2 DEF ShowsPlain, At, LetGo
  <2> DEFINE e == r[i - 1].dir
  <2>4. e \in PlainDigits /\ e \in Digits /\ r[i] = Reading(r[i - 1], cmd[i])
    BY <1>4, <1>5, <2>1 DEF PlainDigits
  <2>5. on = KeysOf(e) /\ shown = r[i - 1].inputs
    BY <2>3, KeysForFront DEF Upto, r
  <2>6. r[i].inputs = Append(r[i - 1].inputs, Input(e, cmd[i]))
    BY <2>1, <2>4 DEF Reading
  <2> HIDE DEF e
  <2>7. on' \cap Directions = KeysOf(e)
    BY <1>9, <2>1, <2>2, <2>5, DigitKeys DEF key_on
  <2>8. (CHOOSE x \in Digits : KeysOf(x) = on' \cap Directions) = e
    BY <1>9, <2>4, <2>7, ShowFact
  <2>9. shown' = r[i].inputs
    BY <2>1, <2>5, <2>6, <2>8 DEF Show, Input
  <2>10. Pushed'
    BY <1>1, <2>1, <2>9 DEF Pushed, r
  <2>11. QED
    BY <1>1, <1>4, <2>1, <2>10 DEF ShowsPlain, At
<1>14. CASE ReadOther
  <2>1. /\ pc = "step" /\ i \in 1 .. Len(cmd) /\ cmd[i] \in {"(", "?"}
        /\ i' = i + 1 /\ pc' = "wait" /\ then' = "step" /\ UNCHANGED <<on, shown>>
    BY <1>4, <1>14 DEF ReadOther, Reads, Wait
  <2>2. cmd[i] \notin Digits \cup Buttons \cup Straights
    BY <2>1 DEF Straights, Buttons, Digits
  <2>3. Upto
    BY <1>3, <2>1, <2>2 DEF ShowsPlain, At, LetGo
  <2>4. r[i] = r[i - 1]
    BY <1>4, <1>5, <2>1, <2>2 DEF Reading
  <2>5. QED
    BY <1>1, <1>4, <2>1, <2>3, <2>4, StepTo DEF r, Upto
<1>15. CASE Release
  <2>1. /\ pc = "reset" /\ on' = {} /\ i' = i + 1 /\ pc' = "wait" /\ then' = "step"
        /\ UNCHANGED shown
    BY <1>3, <1>15 DEF Release, Wait, ShowsPlain
  <2>2. i \in 1 .. Len(cmd) /\ cmd[i] \in Buttons /\ shown = r[i].inputs
    BY <1>3, <1>4, <2>1 DEF ShowsPlain, At, Pushed, r
  <2>3. r[i].dir = "5"
    <3>1. r[i] = [dir |-> "5", inputs |-> Append(r[i - 1].inputs, Input(r[i - 1].dir, cmd[i]))]
      BY <1>5, <2>2, Zenon DEF Reading
    <3>2. QED
      BY <3>1
  <2>4. on' = KeysFor(front, "5")
    BY <1>9, <2>1, DigitKeys, KeysForFront
  <2>5. QED
    BY <1>1, <1>4, <2>1, <2>2, <2>3, <2>4, StepTo DEF r
<1>16. ~ReadHighJump /\ ~ReadMissing /\ ~ReadD /\ ~ReadH /\ ~dash /\ ~dash_on
  <2>1. pc \notin {"dash", "dash_on"}
    BY <1>3 DEF ShowsPlain
  <2>2. i <= Len(cmd) => cmd[i] \notin {"D", "E", "F", "H", "J"}
    <3>1. i <= Len(cmd) => i \in 1 .. Len(cmd)
      BY <1>4
    <3>2. QED
      BY <1>4, <1>6, <3>1
  <2>3. QED
    BY <1>8, <2>1, <2>2 DEF ReadHighJump, ReadMissing, ReadD, ReadH, Reads, dash, dash_on
<1>17. CASE UNCHANGED vars
  BY <1>1, <1>3, <1>17 DEF vars, ShowsPlain, At, Upto, LetGo, Pushed
<1>18. QED
  BY <1>10, <1>11, <1>12, <1>13, <1>14, <1>15, <1>16, <1>17 DEF Next, command

\* A command of directions but 9, buttons and pauses, run to its end while the characters
\* do not pass each other, has shown the game the inputs of its notation and no others
\* (InputsShown): api.ai:143-348 loses none and repeats none.
THEOREM InputsAreShown == Spec => []InputsShown
<1>1. Shows => InputsShown
  BY DEF Shows, ShowsPlain, InputsShown, Plain, PlainCharacters, PlainDigits
<1>2. QED
  BY <1>1, CommandInit, CommandNext, ShowsInit, ShowsNext, PTL DEF Spec
=============================================================================
