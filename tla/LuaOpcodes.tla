----------------------------- MODULE LuaOpcodes -----------------------------
(***************************************************************************)
(* Lua's virtual machine instructions (lopcodes.h, lopcodes.c): their      *)
(* arguments, the modes the code checker reads, and the one-byte sizes of  *)
(* NEWTABLE (lobject.c).  An instruction is a record; sBx and Bx are B.    *)
(***************************************************************************)
EXTENDS Integers, Sequences, TLC

CONSTANTS
  MAXSTACK,          \* registers of a function, 250 in llimits.h
  MAXINDEXRK,        \* the last constant an RK operand reaches, 255
  LFIELDS_PER_FLUSH, \* list items per SETLIST, 50
  MAXARG_C           \* the last batch a SETLIST names itself, 511

ASSUME LimitsAssumption ==
  /\ MAXSTACK \in 2 .. 250 /\ MAXINDEXRK \in 0 .. 255
  /\ LFIELDS_PER_FLUSH \in 1 .. 50 /\ MAXARG_C \in 1 .. 511

BITRK == 256
NO_REG == 255
NO_JUMP == -1
LUA_MULTRET == -1

ISK(x) == x >= BITRK
INDEXK(x) == x - BITRK
RKASK(x) == x + BITRK

Instr(op, a, b, c) == [op |-> op, A |-> a, B |-> b, C |-> c]

Arithmetic == {"ADD", "SUB", "MUL", "DIV", "MOD", "POW"}
Comparisons == {"EQ", "LT", "LE"}
Tests == Comparisons \cup {"TEST", "TESTSET", "TFORLOOP"}
Loads == {"MOVE", "LOADK", "LOADBOOL", "LOADNIL", "GETUPVAL", "GETGLOBAL",
          "GETTABLE", "NEWTABLE", "SELF", "UNM", "NOT", "LEN", "CONCAT",
          "CLOSURE", "VARARG"}
Stores == {"SETGLOBAL", "SETUPVAL", "SETTABLE", "SETLIST"}
Controls == {"JMP", "CALL", "TAILCALL", "RETURN", "FORLOOP", "FORPREP", "CLOSE"}
OpCodes == Arithmetic \cup Tests \cup Loads \cup Stores \cup Controls

\* The instructions in the order of their numbers, from 0.
Order == <<"MOVE", "LOADK", "LOADBOOL", "LOADNIL", "GETUPVAL", "GETGLOBAL", "GETTABLE",
           "SETGLOBAL", "SETUPVAL", "SETTABLE", "NEWTABLE", "SELF", "ADD", "SUB", "MUL",
           "DIV", "MOD", "POW", "UNM", "NOT", "LEN", "CONCAT", "JMP", "EQ", "LT", "LE",
           "TEST", "TESTSET", "CALL", "TAILCALL", "RETURN", "FORLOOP", "FORPREP",
           "TFORLOOP", "SETLIST", "CLOSE", "CLOSURE", "VARARG">>
OpNumbered(n) == IF n < Len(Order) THEN Order[n + 1] ELSE ToString(n)

\* A number in the place of an instruction, which reads as one: six bits of
\* number, eight of A, nine of C and the rest of B.
Word(c) == Instr(OpNumbered(c % 64), (c \div 64) % 256, c \div 2 ^ 23, (c \div 2 ^ 14) % 512)
Number(i) == (CHOOSE n \in 0 .. 63 : OpNumbered(n) = i.op) + 64 * i.A + 2 ^ 14 * i.C + 2 ^ 23 * i.B

\* A SETLIST that leaves the number of its batch to the next word.
CountFollows(i) == i.op = "SETLIST" /\ i.C = 0

getOpMode(op) ==
  CASE op \in {"LOADK", "GETGLOBAL", "SETGLOBAL", "CLOSURE"} -> "iABx"
    [] op \in {"JMP", "FORLOOP", "FORPREP"} -> "iAsBx"
    [] OTHER -> "iABC"

testTMode(op) == op \in Tests

testAMode(op) ==
  \/ op \in Arithmetic \cup Loads \cup {"TEST", "TESTSET"}
  \/ op \in {"CALL", "TAILCALL", "FORLOOP", "FORPREP"}

\* Modes of B and C: N not used, U used, R a register, K a register or constant.
getBMode(op) ==
  CASE op \in {"TFORLOOP", "CLOSE"} -> "N"
    [] op \in Arithmetic \cup Comparisons \cup
              {"LOADK", "GETGLOBAL", "SETGLOBAL", "SETTABLE"} -> "K"
    [] op \in {"LOADBOOL", "GETUPVAL", "SETUPVAL", "NEWTABLE", "CALL",
               "TAILCALL", "RETURN", "SETLIST", "CLOSURE", "VARARG"} -> "U"
    [] OTHER -> "R"

getCMode(op) ==
  CASE op \in Arithmetic \cup Comparisons \cup {"GETTABLE", "SETTABLE", "SELF"} -> "K"
    [] op \in {"LOADBOOL", "NEWTABLE", "TEST", "TESTSET", "CALL", "TAILCALL",
               "TFORLOOP", "SETLIST"} -> "U"
    [] op = "CONCAT" -> "R"
    [] OTHER -> "N"

\* A table size as a byte eeeeexxx, rounded up.
int2fb(size) ==
  LET halved[x \in 0 .. size, e \in 0 .. 31] ==
        IF x >= 16 THEN halved[(x + 1) \div 2, e + 1] ELSE <<x, e>>
      x == halved[size, 0][1]
      e == halved[size, 0][2]
  IN IF x < 8 THEN x ELSE (e + 1) * 8 + (x - 8)

fb2int(b) ==
  LET e == (b \div 8) % 32 IN IF e = 0 THEN b ELSE ((b % 8) + 8) * 2 ^ (e - 1)
=============================================================================
