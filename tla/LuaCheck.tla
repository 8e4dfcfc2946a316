------------------------------ MODULE LuaCheck ------------------------------
(***************************************************************************)
(* The code checker (ldebug.c): a symbolic execution of a function that    *)
(* either finds an instruction no valid function has, or the instruction   *)
(* that last changed a register.  pt is a function as LuaParser makes it.  *)
(***************************************************************************)
EXTENDS LuaOpcodes, FiniteSets

InCode(pt, pc) == 0 <= pc /\ pc < Len(pt.code)
InFrame(pt, reg) == reg < pt.max
InstrAt(pt, pc) == pt.code[pc + 1]

\* The word before dest is a count when an odd number of SETLISTs without one
\* ends there: a count may itself look like such a SETLIST.
IsCount(pt, dest) ==
  LET run == {n \in 0 .. dest - 1 : \A m \in n .. dest - 1 : CountFollows(InstrAt(pt, m))}
  IN Cardinality(run) % 2 = 1

precheck(pt) ==
  /\ pt.max <= MAXSTACK
  /\ pt.nparams + (IF "HASARG" \in pt.vararg THEN 1 ELSE 0) <= pt.max
  /\ "NEEDSARG" \in pt.vararg => "HASARG" \in pt.vararg
  /\ pt.code # <<>> /\ InstrAt(pt, Len(pt.code) - 1).op = "RETURN"

luaG_checkopenop(i) == i.op \in {"CALL", "TAILCALL", "RETURN", "SETLIST"} /\ i.B = 0

checkArgMode(pt, r, mode) ==
  CASE mode = "N" -> r = 0
    [] mode = "U" -> TRUE
    [] mode = "R" -> InFrame(pt, r)
    [] mode = "K" -> IF ISK(r) THEN INDEXK(r) < Len(pt.k) ELSE InFrame(pt, r)

CheckArgs(pt, pc, i) ==
  CASE getOpMode(i.op) = "iABC" ->
         checkArgMode(pt, i.B, getBMode(i.op)) /\ checkArgMode(pt, i.C, getCMode(i.op))
    [] getOpMode(i.op) = "iABx" -> getBMode(i.op) = "K" => i.B < Len(pt.k)
    [] OTHER -> InCode(pt, pc + 1 + i.B) /\ ~IsCount(pt, pc + 1 + i.B)

\* What each instruction needs beyond its modes.
CheckOp(pt, pc, i) ==
  CASE i.op = "LOADBOOL" -> i.C = 1 => InCode(pt, pc + 2) /\ ~CountFollows(InstrAt(pt, pc + 1))
    [] i.op \in {"GETUPVAL", "SETUPVAL"} -> i.B < Len(pt.ups)
    [] i.op \in {"GETGLOBAL", "SETGLOBAL"} -> pt.k[i.B + 1][1] = "string"
    [] i.op = "SELF" -> InFrame(pt, i.A + 1)
    [] i.op = "CONCAT" -> i.B < i.C
    [] i.op = "TFORLOOP" -> i.C >= 1 /\ InFrame(pt, i.A + 2 + i.C)
    [] i.op \in {"FORLOOP", "FORPREP"} -> InFrame(pt, i.A + 3)
    [] i.op \in {"CALL", "TAILCALL"} ->
         /\ i.B # 0 => InFrame(pt, i.A + i.B - 1)
         /\ IF i.C - 1 = LUA_MULTRET THEN luaG_checkopenop(InstrAt(pt, pc + 1))
            ELSE i.C - 1 # 0 => InFrame(pt, i.A + i.C - 2)
    [] i.op = "RETURN" -> i.B > 1 => InFrame(pt, i.A + i.B - 2)
    [] i.op = "SETLIST" ->
         /\ i.B > 0 => InFrame(pt, i.A + i.B)
         /\ i.C = 0 => InCode(pt, pc + 2)
    [] i.op = "CLOSURE" ->
         /\ i.B < Len(pt.p)
         /\ InCode(pt, pc + Len(pt.p[i.B + 1].ups))
         /\ \A j \in 1 .. Len(pt.p[i.B + 1].ups) :
              InstrAt(pt, pc + j).op \in {"GETUPVAL", "MOVE"}
    [] i.op = "VARARG" ->
         /\ "ISVARARG" \in pt.vararg /\ "NEEDSARG" \notin pt.vararg
         /\ i.B - 1 = LUA_MULTRET => luaG_checkopenop(InstrAt(pt, pc + 1))
         /\ InFrame(pt, i.A + i.B - 2)
    [] OTHER -> TRUE

CheckInstr(pt, pc) ==
  LET i == InstrAt(pt, pc) IN
  /\ i.op \in OpCodes /\ InFrame(pt, i.A)
  /\ CheckArgs(pt, pc, i)
  /\ testTMode(i.op) => InCode(pt, pc + 2) /\ InstrAt(pt, pc + 1).op = "JMP"
  /\ CheckOp(pt, pc, i)

Changes(i, reg) ==
  \/ testAMode(i.op) /\ i.A = reg
  \/ i.op = "LOADNIL" /\ i.A <= reg /\ reg <= i.B
  \/ i.op = "SELF" /\ reg = i.A + 1
  \/ i.op = "TFORLOOP" /\ reg >= i.A + 2
  \/ i.op \in {"CALL", "TAILCALL"} /\ reg >= i.A

\* Where the symbolic execution goes on: it follows forward jumps when tracing.
Follow(pt, pc, lastpc, reg) ==
  LET i == InstrAt(pt, pc)
      dest == pc + 1 + i.B
  IN CASE /\ i.op \in {"FORLOOP", "FORPREP", "JMP"} /\ reg # NO_REG
          /\ pc < dest /\ dest <= lastpc -> dest
       [] CountFollows(i) -> pc + 2
       [] i.op = "CLOSURE" /\ reg # NO_REG -> pc + 1 + Len(pt.p[i.B + 1].ups)
       [] OTHER -> pc + 1

Invalid == -1

RECURSIVE trace(_, _, _, _, _)
trace(pt, pc, lastpc, reg, last) ==
  CASE pc >= lastpc -> last
    [] pc < lastpc /\ ~CheckInstr(pt, pc) -> Invalid
    [] OTHER -> trace(pt, Follow(pt, pc, lastpc, reg), lastpc, reg,
                      IF Changes(InstrAt(pt, pc), reg) THEN pc ELSE last)

symbexec(pt, lastpc, reg) ==
  IF precheck(pt) THEN trace(pt, 0, lastpc, reg, Len(pt.code) - 1) ELSE Invalid

luaG_checkcode(pt) == symbexec(pt, Len(pt.code), NO_REG) # Invalid
=============================================================================
