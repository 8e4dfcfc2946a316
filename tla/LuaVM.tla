-------------------------------- MODULE LuaVM --------------------------------
(***************************************************************************)
(* A script from its tokens to its results: compiled by LuaParser, then    *)
(* run by the virtual machine (lvm.c) with the calls of ldo.c and the      *)
(* upvalues of lfunc.c.  Numbers are integers, a string is the sequence of *)
(* its pieces, a number's text being one piece.  No value has a metatable, *)
(* so that an operator without a primitive meaning is an error.            *)
(***************************************************************************)
EXTENDS LuaParser, LuaCheck, TLC

CONSTANTS
  Programs,   \* the scripts: [toks |-> tokens, means |-> results, or an error]
  StackSize,  \* bound: slots of the Lua stack; more is a stack overflow
  Collation   \* the pieces of strings, in the order of strcoll

ASSUME StackSizeAssumption == StackSize \in Nat

VARIABLES
  prog,    \* the script
  status,  \* source, run, forcall (back in a generic for), done, error
  stack,   \* L->stack
  top,     \* L->top
  ci,      \* L->base_ci .. L->ci: the active calls
  tables,  \* the contents of each table; 1 is that of the globals
  cls,     \* the closures: p and ups
  upvals   \* the upvalues: open at a slot, or closed with a value

vars == <<prog, status, stack, top, ci, tables, cls, upvals>>
heap == <<tables, cls, upvals>>

SyntaxErr == <<"syntax error">>
RunErr == <<"error">>
Slots == 0 .. StackSize - 1

NewState ==
  /\ status = "source"
  /\ stack = [s \in Slots |-> Nil] /\ top = 0 /\ ci = <<>>
  /\ tables = << <<>> >> /\ cls = <<>> /\ upvals = <<>>

Init == prog \in Programs /\ NewState

-----------------------------------------------------------------------------
\* The running function and its instruction.
Call == Last(ci)
Closure == cls[stack[Call.func][2]]
P == Closure.p
i == P.code[Call.pc + 1]
R(x) == stack[Call.base + x]
K(x) == P.k[x + 1]
RK(x) == IF ISK(x) THEN K(INDEXK(x)) ELSE R(x)
ra == Call.base + i.A

Op(op) == status = "run" /\ i.op = op
Frame(n) == ci' = [ci EXCEPT ![Len(ci)].pc = @ + n]
SetSlot(s, v) == stack' = [stack EXCEPT ![s] = v]

\* R(A) := v, and on with the next instruction.
Load(v) ==
  SetSlot(ra, v) /\ Frame(1) /\ UNCHANGED <<prog, status, top, heap>>

Jump(n) ==
  Frame(n) /\ UNCHANGED <<prog, status, stack, top, heap>>

Error == status' = "error" /\ UNCHANGED <<prog, stack, top, ci, heap>>

l_isfalse(v) == v \in {Nil, Bool(FALSE)}
Numeral(s) == {n \in -99 .. 99 : s = <<ToString(n)>>}
IsNumber(v) == v[1] = "number" \/ (v[1] = "string" /\ Numeral(v[2]) # {})
tonumber(v) == IF v[1] = "number" THEN v[2] ELSE CHOOSE n \in Numeral(v[2]) : TRUE
IsText(v) == v[1] \in {"string", "number"}
Text(v) == IF v[1] = "number" THEN <<ToString(v[2])>> ELSE v[2]

TableGet(t, key) ==
  IF key \in DOMAIN tables[t[2]] THEN tables[t[2]][key] ELSE Nil
TablePut(content, key, v) == (key :> v) @@ content

-----------------------------------------------------------------------------
\* Upvalues (lfunc.c).
UpValue(u) == IF upvals[u].open THEN stack[upvals[u].at] ELSE upvals[u].value

\* Fault: closes only above the level.
MutClosed(level) ==
  [u \in DOMAIN upvals |->
     IF upvals[u].open /\ upvals[u].at > level
     THEN [open |-> FALSE, at |-> 0, value |-> stack[upvals[u].at]] ELSE upvals[u]]

\* luaF_close.
Closed(level) ==
  [u \in DOMAIN upvals |->
     IF upvals[u].open /\ upvals[u].at >= level
     THEN [open |-> FALSE, at |-> 0, value |-> stack[upvals[u].at]] ELSE upvals[u]]

OpenAt(uvs, level) == {u \in DOMAIN uvs : uvs[u].open /\ uvs[u].at = level}

\* acc: the upvalues, and those the new closure has so far.
findupval(acc, level) ==
  LET known == OpenAt(acc.uvs, level)
  IN IF known # {} THEN [acc EXCEPT !.ups = Append(@, CHOOSE u \in known : TRUE)]
     ELSE [uvs |-> Append(acc.uvs, [open |-> TRUE, at |-> level, value |-> Nil]),
           ups |-> Append(acc.ups, Len(acc.uvs) + 1)]

-----------------------------------------------------------------------------
\* Calls (ldo.c).  args: the values after the function.
\* What precall makes of the stack st with its top tp: a frame and a stack.
precall(st, tp, func, nresults, fresh) ==
  LET p == cls[st[func][2]].p
      nargs == tp - func - 1
      actual == IF nargs < p.nparams THEN p.nparams ELSE nargs
      base == IF p.vararg = {} THEN func + 1 ELSE func + 1 + actual
      Arg(n) == IF n < nargs THEN st[func + 1 + n] ELSE Nil
      arg == <<"table", Len(tables) + 1>>
      limit == base + p.max
  IN [ci |-> [func |-> func, base |-> base, top |-> limit, pc |-> 0,
              nresults |-> nresults, tailcalls |-> 0, fresh |-> fresh],
      stack |-> [s \in Slots |->
        CASE base <= s /\ s < limit ->
               IF s < base + p.nparams THEN Arg(s - base)
               ELSE IF s = base + p.nparams /\ "NEEDSARG" \in p.vararg THEN arg ELSE Nil
          [] p.vararg # {} /\ func < s /\ s < base ->
               IF s <= func + p.nparams THEN Nil ELSE Arg(s - func - 1)
          [] OTHER -> st[s]],
      tables |-> IF "NEEDSARG" \notin p.vararg THEN tables
                 ELSE LET n == actual - p.nparams
                      IN Append(tables,
                           [k \in {Num(j) : j \in 1 .. n} |-> Arg(p.nparams + k[2] - 1)]
                             @@ (Str(<<"n">>) :> Num(n))),
      overflow |-> limit > StackSize]

Enter(n) ==
  /\ ci' = Append([ci EXCEPT ![Len(ci)].pc = @ + 1], n.ci)
  /\ stack' = n.stack /\ top' = n.ci.top /\ tables' = n.tables
  /\ UNCHANGED <<prog, status, cls, upvals>>

\* luaD_poscall: the results from `first' go where the function was.
Results(frame, first, tp) ==
  LET got == tp - first
      n == IF frame.nresults = LUA_MULTRET THEN got ELSE frame.nresults
  IN [stack |-> [s \in Slots |->
        IF frame.func <= s /\ s < frame.func + n
        THEN IF s - frame.func < got THEN stack[first + s - frame.func] ELSE Nil
        ELSE stack[s]],
      top |-> frame.func + n]

-----------------------------------------------------------------------------
\* luaY_parser, and lua_pcall's call of the main function.
Compiled == [toks \in {p.toks : p \in Programs} |-> luaY_parser(toks)]
Compile ==
  /\ status = "source"
  /\ \E main \in {Compiled[prog.toks]} :
        IF main.err # "" THEN status' = "error" /\ ci' = <<>> /\ UNCHANGED <<cls, top, stack>>
        ELSE /\ status' = "run" /\ top' = 1 + main.max
             /\ cls' = << [p |-> Proto(main), ups |-> <<>>] >>
             /\ stack' = [stack EXCEPT ![0] = <<"function", 1>>]
             /\ ci' = << [func |-> 0, base |-> 1, top |-> 1 + main.max, pc |-> 0,
                          nresults |-> LUA_MULTRET, tailcalls |-> 0, fresh |-> TRUE] >>
  /\ UNCHANGED <<prog, tables, upvals>>

-----------------------------------------------------------------------------
\* One action per group of instructions of luaV_execute.
OpMove ==
  \/ Op("MOVE") /\ Load(R(i.B))
  \/ Op("LOADK") /\ Load(K(i.B))
  \/ Op("NOT") /\ Load(Bool(l_isfalse(R(i.B))))
  \/ Op("GETUPVAL") /\ Load(UpValue(Closure.ups[i.B + 1]))

OpLoadBool ==
  /\ Op("LOADBOOL")
  /\ SetSlot(ra, Bool(i.B = 1)) /\ Frame(IF i.C # 0 THEN 2 ELSE 1)
  /\ UNCHANGED <<prog, status, top, heap>>

OpLoadNil ==
  /\ Op("LOADNIL")
  /\ stack' = [s \in Slots |-> IF ra <= s /\ s <= Call.base + i.B THEN Nil ELSE stack[s]]
  /\ Frame(1) /\ UNCHANGED <<prog, status, top, heap>>

\* luaV_gettable without metatables.
OpGet ==
  LET Get(t, key) == IF t[1] = "table" THEN Load(TableGet(t, key)) ELSE Error
  IN \/ Op("GETGLOBAL") /\ Get(<<"table", 1>>, K(i.B))
     \/ Op("GETTABLE") /\ Get(R(i.B), RK(i.C))

OpSelf ==
  /\ Op("SELF")
  /\ IF R(i.B)[1] # "table" THEN Error
     ELSE /\ stack' = [stack EXCEPT ![ra + 1] = R(i.B), ![ra] = TableGet(R(i.B), RK(i.C))]
          /\ Frame(1) /\ UNCHANGED <<prog, status, top, heap>>

\* luaV_settable without metatables; luaH_set refuses nil for a key.
OpSet ==
  LET Set(t, key, v) ==
        IF t[1] # "table" \/ key = Nil THEN Error
        ELSE /\ tables' = [tables EXCEPT ![t[2]] = TablePut(@, key, v)]
             /\ Frame(1) /\ UNCHANGED <<prog, status, stack, top, cls, upvals>>
  IN \/ Op("SETGLOBAL") /\ Set(<<"table", 1>>, K(i.B), stack[ra])
     \/ Op("SETTABLE") /\ Set(stack[ra], RK(i.B), RK(i.C))

OpSetUpval ==
  /\ Op("SETUPVAL")
  /\ LET u == Closure.ups[i.B + 1]
     IN IF upvals[u].open THEN SetSlot(upvals[u].at, stack[ra]) /\ UNCHANGED upvals
        ELSE upvals' = [upvals EXCEPT ![u].value = stack[ra]] /\ UNCHANGED stack
  /\ Frame(1) /\ UNCHANGED <<prog, status, top, tables, cls>>

OpNewTable ==
  /\ Op("NEWTABLE")
  /\ SetSlot(ra, <<"table", Len(tables) + 1>>)
  /\ tables' = Append(tables, <<>>)
  /\ Frame(1) /\ UNCHANGED <<prog, status, top, cls, upvals>>

\* Arith.
OpArith ==
  \/ \E op \in Arithmetic :
       /\ Op(op)
       /\ IF IsNumber(RK(i.B)) /\ IsNumber(RK(i.C))
          THEN Load(Num(numop(op, tonumber(RK(i.B)), tonumber(RK(i.C))))) ELSE Error
  \/ Op("UNM") /\ IF IsNumber(R(i.B)) THEN Load(Num(-tonumber(R(i.B)))) ELSE Error

\* luaH_getn of a table without holes.
OpLen ==
  /\ Op("LEN")
  /\ LET v == R(i.B)
         Border(n) == TableGet(v, Num(n + 1)) = Nil /\ (n = 0 \/ TableGet(v, Num(n)) # Nil)
     IN CASE v[1] = "table" -> Load(Num(CHOOSE n \in 0 .. Cardinality(DOMAIN tables[v[2]]) : Border(n)))
          [] v[1] = "string" -> Load(Num(Len(v[2])))
          [] OTHER -> Error

\* luaV_concat.
OpConcat ==
  /\ Op("CONCAT")
  /\ LET all == [j \in 1 .. i.C - i.B + 1 |-> R(i.B + j - 1)]
         text == Str(FlattenSeq([j \in DOMAIN all |-> Text(all[j])]))
     IN IF \E j \in DOMAIN all : ~IsText(all[j]) THEN Error
        ELSE /\ stack' = [stack EXCEPT ![Call.base + i.B] = text, ![ra] = text]
             /\ Frame(1) /\ UNCHANGED <<prog, status, top, heap>>

\* dojump to where the JMP that follows leads, or past it.
Test(taken) == IF taken THEN Jump(2 + At(P, Call.pc + 1).B) ELSE Jump(2)

\* luaV_lessthan and lessequal; strings compare piece by piece.
Rank(piece) == CHOOSE n \in 1 .. Len(Collation) + 1 :
                 n > Len(Collation) \/ Collation[n] = piece
StrLess(s, t) ==
  \E n \in 1 .. Len(t) : /\ \A m \in 1 .. n - 1 : m <= Len(s) /\ s[m] = t[m]
                         /\ n > Len(s) \/ Rank(s[n]) < Rank(t[n])
Comparable(v, w) == v[1] = w[1] /\ IsText(v)
Less(v, w) == IF v[1] = "number" THEN v[2] < w[2] ELSE StrLess(v[2], w[2])

OpCompare ==
  LET v == RK(i.B)
      w == RK(i.C)
      Accepts(b) == Test(b = (i.A = 1))
  IN \/ Op("EQ") /\ Accepts(v = w)
     \/ Op("LT") /\ IF Comparable(v, w) THEN Accepts(Less(v, w)) ELSE Error
     \/ Op("LE") /\ IF Comparable(v, w) THEN Accepts(~Less(w, v)) ELSE Error

OpTest ==
  \/ Op("JMP") /\ Jump(1 + i.B)
  \/ Op("TEST") /\ Test(l_isfalse(stack[ra]) # (i.C = 1))

OpTestSet ==
  /\ Op("TESTSET")
  /\ IF l_isfalse(R(i.B)) # (i.C = 1)
     THEN SetSlot(ra, R(i.B)) /\ Frame(2 + At(P, Call.pc + 1).B)
          /\ UNCHANGED <<prog, status, top, heap>>
     ELSE Jump(2)

ArgTop == IF i.B # 0 THEN ra + i.B ELSE top

OpCall ==
  /\ Op("CALL")
  /\ LET n == precall(stack, ArgTop, ra, i.C - 1, FALSE)
     IN IF stack[ra][1] # "function" \/ n.overflow THEN Error ELSE Enter(n)

\* The new frame takes the place of the one that calls.
OpTailCall ==
  /\ Op("TAILCALL")
  /\ LET n == precall(stack, ArgTop, ra, LUA_MULTRET, FALSE)
         down == ra - Call.func
         base == n.ci.base - down
     IN IF stack[ra][1] # "function" \/ n.overflow THEN Error
        ELSE /\ upvals' = Closed(Call.base)
             /\ stack' = [s \in Slots |-> IF Call.func <= s /\ s < n.ci.top - down
                                          THEN n.stack[s + down] ELSE n.stack[s]]
             /\ top' = n.ci.top - down
             /\ ci' = [ci EXCEPT ![Len(ci)] = [@ EXCEPT !.base = base, !.top = n.ci.top - down,
                                                        !.pc = 0, !.tailcalls = @ + 1]]
             /\ tables' = n.tables
             /\ UNCHANGED <<prog, status, cls>>

OpReturn ==
  /\ Op("RETURN")
  /\ LET res == Results(Call, ra, IF i.B # 0 THEN ra + i.B - 1 ELSE top)
         caller == ci[Len(ci) - 1]
     IN /\ upvals' = Closed(Call.base)
        /\ stack' = res.stack
        /\ ci' = Front(ci)
        /\ top' = IF ~Call.fresh /\ Call.nresults # LUA_MULTRET THEN caller.top ELSE res.top
  /\ status' = CASE Len(ci) = 1 -> "done"
                 [] Len(ci) > 1 /\ Call.fresh -> "forcall"
                 [] OTHER -> "run"
  /\ UNCHANGED <<prog, tables, cls>>

\* A loop runs while its index has not passed the limit.
ForNumbers == \A n \in 0 .. 2 : IsNumber(stack[ra + n])

OpForPrep ==
  /\ Op("FORPREP")
  /\ IF ~ForNumbers THEN Error
     ELSE /\ stack' = [stack EXCEPT ![ra] = Num(tonumber(@) - tonumber(stack[ra + 2])),
                                    ![ra + 1] = Num(tonumber(@)),
                                    ![ra + 2] = Num(tonumber(@))]
          /\ Frame(1 + i.B) /\ UNCHANGED <<prog, status, top, heap>>

OpForLoop ==
  /\ Op("FORLOOP")
  /\ LET step == stack[ra + 2][2]
         limit == stack[ra + 1][2]
         idx == stack[ra][2] + step
     IN IF (step > 0 /\ idx <= limit) \/ (step <= 0 /\ limit <= idx)
        THEN /\ stack' = [stack EXCEPT ![ra] = Num(idx), ![ra + 3] = Num(idx)]
             /\ Frame(1 + i.B) /\ UNCHANGED <<prog, status, top, heap>>
        ELSE Jump(1)

\* luaD_call of the generator, in a luaV_execute of its own.
OpTForLoop ==
  /\ Op("TFORLOOP")
  /\ LET st == [stack EXCEPT ![ra + 3] = stack[ra], ![ra + 4] = stack[ra + 1],
                             ![ra + 5] = stack[ra + 2]]
         n == precall(st, ra + 6, ra + 3, i.C, TRUE)
     IN IF stack[ra][1] # "function" \/ n.overflow THEN Error ELSE Enter(n)

\* Its return: pc is already past the TFORLOOP.
ForCallReturns ==
  /\ status = "forcall"
  /\ LET a == Call.base + At(P, Call.pc - 1).A
     IN IF stack[a + 3] = Nil THEN Frame(1) /\ UNCHANGED stack
        ELSE SetSlot(a + 2, stack[a + 3]) /\ Frame(1 + At(P, Call.pc).B)
  /\ status' = "run" /\ top' = Call.top
  /\ UNCHANGED <<prog, heap>>

OpSetList ==
  /\ Op("SETLIST")
  /\ LET n == IF i.B = 0 THEN top - ra - 1 ELSE i.B
         c == IF i.C = 0 THEN Number(At(P, Call.pc + 1)) ELSE i.C
         first == (c - 1) * LFIELDS_PER_FLUSH
         items == [k \in {Num(first + j) : j \in 1 .. n} |-> stack[ra + k[2] - first]]
     IN tables' = [tables EXCEPT ![stack[ra][2]] = items @@ @]
  /\ top' = IF i.B = 0 THEN Call.top ELSE top
  /\ Frame(IF i.C = 0 THEN 2 ELSE 1) /\ UNCHANGED <<prog, status, stack, cls, upvals>>

OpClose ==
  /\ Op("CLOSE")
  /\ upvals' = Closed(ra)
  /\ Frame(1) /\ UNCHANGED <<prog, status, stack, top, tables, cls>>

\* The instructions that follow say where each upvalue is.
OpClosure ==
  /\ Op("CLOSURE")
  /\ LET p == P.p[i.B + 1]
         Capture(acc, j) ==
           LET c == At(P, Call.pc + j)
           IN IF c.op = "MOVE" THEN findupval(acc, Call.base + c.B)
              ELSE [acc EXCEPT !.ups = Append(@, Closure.ups[c.B + 1])]
         made == FoldLeft(Capture, [uvs |-> upvals, ups |-> <<>>],
                          [j \in 1 .. Len(p.ups) |-> j])
     IN /\ cls' = Append(cls, [p |-> p, ups |-> made.ups])
        /\ upvals' = made.uvs
        /\ SetSlot(ra, <<"function", Len(cls) + 1>>)
        /\ Frame(1 + Len(p.ups))
  /\ UNCHANGED <<prog, status, top, tables>>

OpVarArg ==
  /\ Op("VARARG")
  /\ LET n == Call.base - Call.func - P.nparams - 1
         wanted == IF i.B = 0 THEN n ELSE i.B - 1
     IN /\ stack' = [s \in Slots |->
                       IF ra <= s /\ s < ra + wanted
                       THEN IF s - ra < n THEN stack[Call.base - n + s - ra] ELSE Nil
                       ELSE stack[s]]
        /\ top' = IF i.B = 0 THEN ra + n ELSE top
  /\ Frame(1) /\ UNCHANGED <<prog, status, heap>>

Next ==
  \/ Compile
  \/ OpMove \/ OpLoadBool \/ OpLoadNil \/ OpGet \/ OpSelf \/ OpSet \/ OpSetUpval
  \/ OpNewTable \/ OpArith \/ OpLen \/ OpConcat \/ OpCompare \/ OpTest \/ OpTestSet
  \/ OpCall \/ OpTailCall \/ OpReturn \/ OpForPrep \/ OpForLoop \/ OpTForLoop
  \/ ForCallReturns \/ OpSetList \/ OpClose \/ OpClosure \/ OpVarArg

Spec == Init /\ [][Next]_vars

-----------------------------------------------------------------------------
\* What the script returned, or its error.
Outcome ==
  IF status = "error" THEN IF cls = <<>> THEN SyntaxErr ELSE RunErr
  ELSE <<"returns", [n \in 1 .. top |-> stack[n - 1]]>>

\* The registers of a compiled script hold what the language says: a script
\* that ends has the results its text means, whatever jumps, registers and
\* constants the code generator chose (lcode.c:390-411, lparser.c:828-853).
MeansWhatItSays == status \in {"done", "error"} => Outcome = prog.means

\* The code generator's own assertion (lparser.c:375): the checker accepts every
\* function it compiles, so that no instruction leaves its frame or its constants.
CodeIsValid == \A c \in DOMAIN cls : luaG_checkcode(cls[c].p)

\* An open upvalue is a register of an active call and no slot has two of them:
\* a block or call that ends has closed its own (lparser.c:301, lvm.c:629).
UpvaluesInFrames ==
  \A u \in DOMAIN upvals : upvals[u].open =>
    /\ OpenAt(upvals, upvals[u].at) = {u}
    /\ \E c \in DOMAIN ci : ci[c].base <= upvals[u].at /\ upvals[u].at < ci[c].top
=============================================================================
