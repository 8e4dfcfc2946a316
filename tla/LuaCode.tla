------------------------------- MODULE LuaCode -------------------------------
(***************************************************************************)
(* The code generator (lcode.c).  An operator takes the state fs of the    *)
(* function being compiled and returns it as the C function leaves it; the *)
(* expression the C function changes is returned in fs.v, the number it    *)
(* returns in fs.r.                                                        *)
(*                                                                         *)
(* fs: code, k (constants), p (inner functions), freereg, nactvar, jpc,    *)
(* lasttarget, max (maxstacksize), err, and what LuaParser adds.           *)
(* An expression is [k, info, aux, t, f], info also being nval.            *)
(***************************************************************************)
EXTENDS LuaOpcodes, SequencesExt

Nil == <<"nil">>
Bool(b) == <<"boolean", b>>
Num(n) == <<"number", n>>
Str(s) == <<"string", s>>

Exp(kind, info) == [k |-> kind, info |-> info, aux |-> 0, t |-> NO_JUMP, f |-> NO_JUMP]
Void == Exp("VVOID", 0)
hasjumps(e) == e.t # e.f
isnumeral(e) == e.k = "VKNUM" /\ e.t = NO_JUMP /\ e.f = NO_JUMP
hasmultret(e) == e.k \in {"VCALL", "VVARARG"}

With(fs, e) == [fs EXCEPT !.v = e]
Pc(fs) == Len(fs.code)
At(fs, pc) == fs.code[pc + 1]
SyntaxError(fs, msg) == [fs EXCEPT !.err = IF @ = "" THEN msg ELSE @, !.toks = <<>>]

\* C's sequence: what follows, from the state that the step before leaves.
Then(fs, F(_)) == F(fs)

-----------------------------------------------------------------------------
\* Jump lists: chained through the jumps' offsets.
getjump(fs, pc) ==
  IF At(fs, pc).B = NO_JUMP THEN NO_JUMP ELSE pc + 1 + At(fs, pc).B

Jumps(fs, list) ==
  LET from[pc \in NO_JUMP .. Pc(fs)] ==
        IF pc = NO_JUMP THEN {} ELSE {pc} \cup from[getjump(fs, pc)]
  IN from[list]

luaK_getlabel(fs) == [fs EXCEPT !.lasttarget = Pc(fs), !.r = Pc(fs)]

getjumpcontrol(fs, pc) ==
  IF pc >= 1 /\ testTMode(At(fs, pc - 1).op) THEN pc - 1 ELSE pc

IsTestSet(fs, pc) == At(fs, getjumpcontrol(fs, pc)).op = "TESTSET"

need_value(fs, list) == \E pc \in Jumps(fs, list) : ~IsTestSet(fs, pc)

patchtestreg(i, reg) ==
  IF reg # NO_REG /\ reg # i.B THEN [i EXCEPT !.A = reg] ELSE Instr("TEST", i.B, 0, i.C)

\* The instruction before the jump at pc, which is code[pc], tests for it.
removevalues(fs, list) ==
  LET Untest(pc, code) == [code EXCEPT ![pc] = patchtestreg(@, NO_REG)]
      sets == {pc \in Jumps(fs, list) : IsTestSet(fs, pc)}
  IN [fs EXCEPT !.code = FoldSet(Untest, @, sets)]

\* The jumps of a list get their targets, their TESTSETs the register.
patchlistaux(fs, list, vtarget, reg, dtarget) ==
  LET jumps == Jumps(fs, list)
  IN [fs EXCEPT !.code = [n \in DOMAIN @ |->
        CASE n - 1 \in jumps ->
               [@[n] EXCEPT !.B = (IF IsTestSet(fs, n - 1) THEN vtarget ELSE dtarget) - n]
          [] n \in jumps /\ IsTestSet(fs, n) -> patchtestreg(@[n], reg)
          [] OTHER -> @[n]]]

\* Returns in r the list l1 with l2 appended.
luaK_concat(fs, l1, l2) ==
  LET last == CHOOSE pc \in Jumps(fs, l1) : getjump(fs, pc) = NO_JUMP
  IN CASE l2 = NO_JUMP -> [fs EXCEPT !.r = l1]
       [] l2 # NO_JUMP /\ l1 = NO_JUMP -> [fs EXCEPT !.r = l2]
       [] OTHER -> [fs EXCEPT !.code[last + 1].B = l2 - (last + 1), !.r = l1]

luaK_patchtohere(fs, list) ==
  Then(luaK_getlabel(fs), LAMBDA g :
  Then(luaK_concat(g, g.jpc, list), LAMBDA h :
  [h EXCEPT !.jpc = h.r]))

luaK_patchlist(fs, list, target) ==
  IF target = Pc(fs) THEN luaK_patchtohere(fs, list)
  ELSE patchlistaux(fs, list, target, NO_REG, target)

-----------------------------------------------------------------------------
\* Instructions, registers and constants.
dischargejpc(fs) ==
  [patchlistaux(fs, fs.jpc, Pc(fs), NO_REG, Pc(fs)) EXCEPT !.jpc = NO_JUMP]

luaK_code(fs, i) == [dischargejpc(fs) EXCEPT !.code = Append(@, i), !.r = Pc(fs)]

luaK_codeABC(fs, op, a, b, c) == luaK_code(fs, Instr(op, a, b, c))
luaK_codeABx(fs, op, a, bx) == luaK_code(fs, Instr(op, a, bx, 0))

luaK_jump(fs) ==
  Then(luaK_codeABx([fs EXCEPT !.jpc = NO_JUMP], "JMP", 0, NO_JUMP), LAMBDA j :
  luaK_concat(j, j.r, fs.jpc))

condjump(fs, op, a, b, c) == luaK_jump(luaK_codeABC(fs, op, a, b, c))

luaK_ret(fs, first, nret) == luaK_codeABC(fs, "RETURN", first, nret + 1, 0)

\* Fault: extends it though a jump may lead here.
MutNil(fs, from, n) ==
  LET pc == Pc(fs)
      prev == At(fs, pc - 1)
      connects == pc > 0 /\ prev.op = "LOADNIL" /\ prev.A <= from /\ from <= prev.B + 1
  IN IF connects THEN [fs EXCEPT !.code[pc].B = IF from + n - 1 > @ THEN from + n - 1 ELSE @]
     ELSE luaK_codeABC(fs, "LOADNIL", from, from + n - 1, 0)

\* Extends a LOADNIL just before, unless this is a jump target.
luaK_nil(fs, from, n) ==
  LET pc == Pc(fs)
      prev == At(fs, pc - 1)
      connects == /\ pc > fs.lasttarget /\ pc > 0
                  /\ prev.op = "LOADNIL" /\ prev.A <= from /\ from <= prev.B + 1
  IN CASE pc > fs.lasttarget /\ pc = 0 /\ from >= fs.nactvar -> fs
       [] connects -> [fs EXCEPT !.code[pc].B = IF from + n - 1 > @ THEN from + n - 1 ELSE @]
       [] OTHER -> luaK_codeABC(fs, "LOADNIL", from, from + n - 1, 0)

\* Fault: the size is set before the registers are counted.
MutCheckstack(fs, n) ==
  IF fs.freereg + n >= MAXSTACK THEN SyntaxError(fs, "function or expression too complex")
  ELSE [fs EXCEPT !.max = IF fs.freereg > @ THEN fs.freereg ELSE @]

luaK_checkstack(fs, n) ==
  LET newstack == fs.freereg + n
  IN CASE newstack <= fs.max -> fs
       [] newstack >= MAXSTACK -> SyntaxError(fs, "function or expression too complex")
       [] OTHER -> [fs EXCEPT !.max = newstack]

luaK_reserveregs(fs, n) == [luaK_checkstack(fs, n) EXCEPT !.freereg = @ + n]

freereg(fs, reg) ==
  IF ~ISK(reg) /\ reg >= fs.nactvar THEN [fs EXCEPT !.freereg = @ - 1] ELSE fs

freeexp(fs, e) == IF e.k = "VNONRELOC" THEN freereg(fs, e.info) ELSE fs

\* luaK_stringK, luaK_numberK, boolK and nilK: the constant's index.
addk(fs, value) ==
  LET known == {n \in DOMAIN fs.k : fs.k[n] = value}
  IN IF known # {} THEN [fs EXCEPT !.r = (CHOOSE n \in known : TRUE) - 1]
     ELSE [fs EXCEPT !.k = Append(@, value), !.r = Len(fs.k)]

luaK_setlist(fs, base, nelems, tostore) ==
  LET c == (nelems - 1) \div LFIELDS_PER_FLUSH + 1
      b == IF tostore = LUA_MULTRET THEN 0 ELSE tostore
      coded == IF c <= MAXARG_C THEN luaK_codeABC(fs, "SETLIST", base, b, c)
               ELSE luaK_code(luaK_codeABC(fs, "SETLIST", base, b, 0), Word(c))
  IN [coded EXCEPT !.freereg = base + 1]

-----------------------------------------------------------------------------
\* Expressions: from a description to a value in a register.
luaK_setreturns(fs, e, nresults) ==
  CASE e.k = "VCALL" -> [fs EXCEPT !.code[e.info + 1].C = nresults + 1, !.v = e]
    [] e.k = "VVARARG" ->
         luaK_reserveregs([fs EXCEPT !.code[e.info + 1].B = nresults + 1,
                                     !.code[e.info + 1].A = fs.freereg, !.v = e], 1)
    [] OTHER -> With(fs, e)

luaK_setoneret(fs, e) ==
  CASE e.k = "VCALL" ->
         With(fs, [e EXCEPT !.k = "VNONRELOC", !.info = At(fs, e.info).A])
    [] e.k = "VVARARG" ->
         [fs EXCEPT !.code[e.info + 1].B = 2, !.v = [e EXCEPT !.k = "VRELOCABLE"]]
    [] OTHER -> With(fs, e)

\* The instruction just coded produces e, in a register still to be chosen.
Relocable(fs, e) == With(fs, [e EXCEPT !.k = "VRELOCABLE", !.info = fs.r])

luaK_dischargevars(fs, e) ==
  LET g == IF e.k = "VINDEXED" THEN freereg(freereg(fs, e.aux), e.info) ELSE fs
      get == CASE e.k = "VUPVAL" -> Instr("GETUPVAL", 0, e.info, 0)
               [] e.k = "VGLOBAL" -> Instr("GETGLOBAL", 0, e.info, 0)
               [] e.k = "VINDEXED" -> Instr("GETTABLE", 0, e.info, e.aux)
  IN CASE e.k = "VLOCAL" -> With(fs, [e EXCEPT !.k = "VNONRELOC"])
       [] e.k \in {"VUPVAL", "VGLOBAL", "VINDEXED"} -> Relocable(luaK_code(g, get), e)
       [] OTHER -> luaK_setoneret(fs, e)

code_label(fs, a, b, jump) == luaK_codeABC(luaK_getlabel(fs), "LOADBOOL", a, b, jump)

discharge2reg(fs, e0, reg) ==
  Then(luaK_dischargevars(fs, e0), LAMBDA g :
  LET e == g.v IN
  Then(IF e.k = "VKNUM" THEN addk(g, Num(e.info)) ELSE g, LAMBDA n :
  LET load == CASE e.k \in {"VFALSE", "VTRUE"} ->
                     Instr("LOADBOOL", reg, IF e.k = "VTRUE" THEN 1 ELSE 0, 0)
                [] e.k = "VK" -> Instr("LOADK", reg, e.info, 0)
                [] e.k = "VKNUM" -> Instr("LOADK", reg, n.r, 0)
                [] e.k = "VNONRELOC" -> Instr("MOVE", reg, e.info, 0)
      h == CASE e.k = "VNIL" -> luaK_nil(g, reg, 1)
             [] e.k = "VRELOCABLE" -> [g EXCEPT !.code[e.info + 1].A = reg]
             [] e.k = "VNONRELOC" /\ reg = e.info -> g
             [] OTHER -> luaK_code(n, load)
  IN IF e.k \in {"VVOID", "VJMP"} THEN g
     ELSE With(h, [e EXCEPT !.k = "VNONRELOC", !.info = reg])))

discharge2anyreg(fs, e) ==
  IF e.k = "VNONRELOC" THEN With(fs, e)
  ELSE Then(luaK_reserveregs(fs, 1), LAMBDA g : discharge2reg(g, e, g.freereg - 1))

\* The two loads that the jumps of a condition without a value lead to.
exp2reg(fs, e0, reg) ==
  Then(discharge2reg(fs, e0, reg), LAMBDA d :
  Then(IF d.v.k = "VJMP" THEN luaK_concat(d, d.v.t, d.v.info) ELSE [d EXCEPT !.r = d.v.t], LAMBDA g :
  LET e == [d.v EXCEPT !.t = g.r] IN
  Then(need_value(g, e.t) \/ need_value(g, e.f), LAMBDA needs :
  Then(IF e.k = "VJMP" THEN [g EXCEPT !.r = NO_JUMP] ELSE luaK_jump(g), LAMBDA j :
  Then(code_label(j, reg, 0, 1), LAMBDA pf :
  Then(code_label(pf, reg, 1, 0), LAMBDA pt :
  Then(luaK_getlabel(IF needs THEN luaK_patchtohere(pt, j.r) ELSE g), LAMBDA final :
  LET falses == patchlistaux(final, e.f, Pc(final), reg, IF needs THEN pf.r ELSE NO_JUMP)
      trues == patchlistaux(falses, e.t, Pc(final), reg, IF needs THEN pt.r ELSE NO_JUMP)
  IN With(IF hasjumps(e) THEN trues ELSE g, Exp("VNONRELOC", reg)))))))))

luaK_exp2nextreg(fs, e) ==
  Then(luaK_dischargevars(fs, e), LAMBDA g :
  Then(luaK_reserveregs(freeexp(g, g.v), 1), LAMBDA h :
  exp2reg(h, g.v, h.freereg - 1)))

\* The register is v.info: a temporary's own, or else the next one.
luaK_exp2anyreg(fs, e0) ==
  Then(luaK_dischargevars(fs, e0), LAMBDA g :
  LET e == g.v
      own == e.k = "VNONRELOC" /\ e.info >= g.nactvar
  IN IF e.k = "VNONRELOC" /\ ~hasjumps(e) THEN g
     ELSE Then(IF own THEN g ELSE luaK_reserveregs(freeexp(g, e), 1), LAMBDA h :
          exp2reg(h, e, IF own THEN e.info ELSE h.freereg - 1)))

luaK_exp2val(fs, e) == IF hasjumps(e) THEN luaK_exp2anyreg(fs, e) ELSE luaK_dischargevars(fs, e)

\* The constant is encoded in r, or the register that holds it.
luaK_exp2RK(fs, e0) ==
  Then(luaK_exp2val(fs, e0), LAMBDA g :
  LET e == g.v
      value == CASE e.k = "VNIL" -> Nil
                 [] e.k = "VKNUM" -> Num(e.info)
                 [] OTHER -> Bool(e.k = "VTRUE") IN
  CASE e.k \in {"VKNUM", "VTRUE", "VFALSE", "VNIL"} /\ Len(g.k) <= MAXINDEXRK ->
         Then(addk(g, value), LAMBDA h :
         [h EXCEPT !.v = [e EXCEPT !.k = "VK", !.info = h.r], !.r = RKASK(h.r)])
    [] e.k = "VK" /\ e.info <= MAXINDEXRK -> [g EXCEPT !.r = RKASK(e.info)]
    [] OTHER -> Then(luaK_exp2anyreg(g, e), LAMBDA h : [h EXCEPT !.r = h.v.info]))

luaK_storevar(fs, var, ex) ==
  CASE var.k = "VLOCAL" -> exp2reg(freeexp(fs, ex), ex, var.info)
    [] var.k \in {"VUPVAL", "VGLOBAL"} ->
         Then(luaK_exp2anyreg(fs, ex), LAMBDA g :
         freeexp(luaK_code(g, Instr(IF var.k = "VUPVAL" THEN "SETUPVAL" ELSE "SETGLOBAL",
                                    g.v.info, var.info, 0)), g.v))
    [] var.k = "VINDEXED" ->
         Then(luaK_exp2RK(fs, ex), LAMBDA g :
         freeexp(luaK_codeABC(g, "SETTABLE", var.info, var.aux, g.r), g.v))
    [] OTHER -> fs

luaK_self(fs, e, key) ==
  Then(luaK_exp2anyreg(fs, e), LAMBDA g :
  Then(freeexp(g, g.v), LAMBDA f :
  Then(luaK_exp2RK(luaK_reserveregs(f, 2), key), LAMBDA h :
  Then(luaK_codeABC(h, "SELF", f.freereg, g.v.info, h.r), LAMBDA s :
  With(freeexp(s, h.v), [g.v EXCEPT !.k = "VNONRELOC", !.info = f.freereg])))))

luaK_indexed(fs, t, key) ==
  Then(luaK_exp2RK(fs, key), LAMBDA g : With(g, [t EXCEPT !.aux = g.r, !.k = "VINDEXED"]))

-----------------------------------------------------------------------------
\* Conditions.
invertjump(fs, e) == [fs EXCEPT !.code[getjumpcontrol(fs, e.info) + 1].A = 1 - @]

jumponcond(fs, e, cond) ==
  LET i == At(fs, e.info)
  IN IF e.k = "VRELOCABLE" /\ i.op = "NOT"
     THEN condjump([fs EXCEPT !.code = Front(@)], "TEST", i.B, 0, 1 - cond)
     ELSE Then(discharge2anyreg(fs, e), LAMBDA g :
          condjump(freeexp(g, g.v), "TESTSET", NO_REG, g.v.info, cond))

\* Each leaves the jump it codes in r.
NoJump(fs) == [fs EXCEPT !.r = NO_JUMP]
JumpOf(fs, e) == [fs EXCEPT !.r = e.info]

luaK_goiftrue(fs, e0) ==
  Then(luaK_dischargevars(fs, e0), LAMBDA g :
  LET e == g.v IN
  Then(CASE e.k \in {"VK", "VKNUM", "VTRUE"} -> NoJump(g)
         [] e.k = "VFALSE" -> luaK_jump(g)
         [] e.k = "VJMP" -> JumpOf(invertjump(g, e), e)
         [] OTHER -> jumponcond(g, e, 0), LAMBDA h :
  Then(luaK_concat(h, e.f, h.r), LAMBDA c :
  With(luaK_patchtohere(c, e.t), [e EXCEPT !.f = c.r, !.t = NO_JUMP]))))

luaK_goiffalse(fs, e0) ==
  Then(luaK_dischargevars(fs, e0), LAMBDA g :
  LET e == g.v IN
  Then(CASE e.k \in {"VNIL", "VFALSE"} -> NoJump(g)
         [] e.k = "VTRUE" -> luaK_jump(g)
         [] e.k = "VJMP" -> JumpOf(g, e)
         [] OTHER -> jumponcond(g, e, 1), LAMBDA h :
  Then(luaK_concat(h, e.t, h.r), LAMBDA c :
  With(luaK_patchtohere(c, e.f), [e EXCEPT !.t = c.r, !.f = NO_JUMP]))))

codenot(fs, e0) ==
  Then(luaK_dischargevars(fs, e0), LAMBDA g :
  LET e == g.v IN
  Then(CASE e.k \in {"VNIL", "VFALSE"} -> [g EXCEPT !.v.k = "VTRUE"]
         [] e.k \in {"VK", "VKNUM", "VTRUE"} -> [g EXCEPT !.v.k = "VFALSE"]
         [] e.k = "VJMP" -> invertjump(g, e)
         [] OTHER -> Then(discharge2anyreg(g, e), LAMBDA d :
                     Relocable(luaK_codeABC(freeexp(d, d.v), "NOT", 0, d.v.info, 0), d.v)), LAMBDA h :
  With(removevalues(removevalues(h, e.t), e.f), [h.v EXCEPT !.f = e.t, !.t = e.f])))

-----------------------------------------------------------------------------
\* Operators.  A quotient is kept to the integers the inputs divide exactly.
FloorMod(a, b) == IF b > 0 THEN a % b ELSE -((-a) % (-b))
numop(op, a, b) ==
  CASE op = "ADD" -> a + b
    [] op = "SUB" -> a - b
    [] op = "MUL" -> a * b
    [] op = "DIV" -> a \div b
    [] op = "MOD" -> FloorMod(a, b)
    [] op = "POW" -> a ^ b
    [] op = "UNM" -> -a

constfolding(op, e1, e2) ==
  /\ isnumeral(e1) /\ isnumeral(e2)
  /\ op \in Arithmetic \cup {"UNM"}
  /\ op \in {"DIV", "MOD"} => e2.info # 0

codearith(fs, op, e1, e2) ==
  IF constfolding(op, e1, e2) THEN With(fs, [e1 EXCEPT !.info = numop(op, e1.info, e2.info)])
  ELSE Then(IF op \in {"UNM", "LEN"} THEN [fs EXCEPT !.v = e2, !.r = 0]
            ELSE luaK_exp2RK(fs, e2), LAMBDA g2 :
       Then(luaK_exp2RK(g2, e1), LAMBDA g1 :
       Then(IF g1.r > g2.r THEN freeexp(freeexp(g1, g1.v), g2.v)
                           ELSE freeexp(freeexp(g1, g2.v), g1.v), LAMBDA freed :
       Relocable(luaK_codeABC(freed, op, 0, g1.r, g2.r), g1.v))))

codecomp(fs, op, cond, e1, e2) ==
  Then(luaK_exp2RK(fs, e1), LAMBDA g1 :
  Then(luaK_exp2RK(g1, e2), LAMBDA g2 :
  LET swap == cond = 0 /\ op # "EQ" IN
  Then(condjump(freeexp(freeexp(g2, g2.v), g1.v), op, IF swap THEN 1 ELSE cond,
                IF swap THEN g2.r ELSE g1.r, IF swap THEN g1.r ELSE g2.r), LAMBDA j :
  With(j, [g1.v EXCEPT !.k = "VJMP", !.info = j.r]))))

\* A numeral keeps its value for the folding.
luaK_prefix(fs, op, e) ==
  IF op = "not" THEN codenot(fs, e)
  ELSE Then(IF op = "-" /\ isnumeral(e) THEN With(fs, e) ELSE luaK_exp2anyreg(fs, e), LAMBDA g :
       codearith(g, IF op = "-" THEN "UNM" ELSE "LEN", g.v, Exp("VKNUM", 0)))

ArithOf == [o \in {"+", "-", "*", "/", "%", "^"} |->
              CASE o = "+" -> "ADD" [] o = "-" -> "SUB" [] o = "*" -> "MUL"
                [] o = "/" -> "DIV" [] o = "%" -> "MOD" [] o = "^" -> "POW"]

\* The instruction of a comparison, and the outcome that jumps.
CompOf == [o \in {"==", "~=", "<", "<=", ">", ">="} |->
             CASE o = "==" -> <<"EQ", 1>> [] o = "~=" -> <<"EQ", 0>>
               [] o = "<" -> <<"LT", 1>> [] o = "<=" -> <<"LE", 1>>
               [] o = ">" -> <<"LT", 0>> [] o = ">=" -> <<"LE", 0>>]

luaK_infix(fs, op, e) ==
  CASE op = "and" -> luaK_goiftrue(fs, e)
    [] op = "or" -> luaK_goiffalse(fs, e)
    [] op = ".." -> luaK_exp2nextreg(fs, e)
    [] op \in DOMAIN ArithOf /\ isnumeral(e) -> With(fs, e)
    [] OTHER -> luaK_exp2RK(fs, e)

\* a .. (b .. c) is one instruction over the registers of a, b and c.
luaK_posfix(fs, op, e1, e2) ==
  Then(IF op \in {"and", "or"} THEN luaK_dischargevars(fs, e2)
       ELSE IF op = ".." THEN luaK_exp2val(fs, e2) ELSE With(fs, e2), LAMBDA g :
  LET e == g.v
  IN CASE op = "and" -> Then(luaK_concat(g, e.f, e1.f), LAMBDA c : [c EXCEPT !.v.f = c.r])
       [] op = "or" -> Then(luaK_concat(g, e.t, e1.t), LAMBDA c : [c EXCEPT !.v.t = c.r])
       [] op = ".." /\ e.k = "VRELOCABLE" /\ At(g, e.info).op = "CONCAT" ->
            With([freeexp(g, e1) EXCEPT !.code[e.info + 1].B = e1.info],
                 [e1 EXCEPT !.k = "VRELOCABLE", !.info = e.info])
       [] op \in DOMAIN CompOf -> codecomp(g, CompOf[op][1], CompOf[op][2], e1, e)
       [] OTHER -> Then(IF op = ".." THEN luaK_exp2nextreg(g, e) ELSE g, LAMBDA h :
                   codearith(h, IF op = ".." THEN "CONCAT" ELSE ArithOf[op], e1, h.v)))
=============================================================================
