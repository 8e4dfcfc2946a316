------------------------------ MODULE LuaParser ------------------------------
(***************************************************************************)
(* The parser (lparser.c), which generates code as it reads.  The source   *)
(* is the sequence of its tokens; a keyword or sign is <<its text>>, the   *)
(* others <<"name", n>>, <<"number", n>> and <<"string", s>>.  Every       *)
(* operator takes fs, the tokens still to read among it, and returns it;   *)
(* after an error no token is left, so that the rest does nothing more.    *)
(*                                                                         *)
(* fs, beyond LuaCode's: toks, ups (upvalues), act (the names of its       *)
(* variables), bl (blocks, innermost last), vararg, nparams, level         *)
(* (nCcalls) and prev, the enclosing function in a sequence.               *)
(*                                                                         *)
(* The rules of the grammar call each other in a circle.  What would have  *)
(* to be called before it is defined - chunk, primaryexp and subexpr - is  *)
(* taken from P, the function Parse at the end of this module, which the   *)
(* rules hand on.                                                          *)
(***************************************************************************)
EXTENDS LuaCode

CONSTANTS
  LUAI_MAXVARS, LUAI_MAXUPVALUES, LUAI_MAXCCALLS  \* luaconf.h: 200, 60, 200

ASSUME ParserLimitsAssumption ==
  {LUAI_MAXVARS, LUAI_MAXUPVALUES, LUAI_MAXCCALLS} \subseteq 1 .. 200

EOS == <<"<eof>">>
Token(fs) == IF fs.toks = <<>> THEN EOS[1] ELSE Head(fs.toks)[1]
Seminfo(fs) == IF fs.toks # <<>> /\ Len(Head(fs.toks)) = 2 THEN Head(fs.toks)[2] ELSE EOS[1]
lookahead(fs) == IF Len(fs.toks) > 1 THEN fs.toks[2][1] ELSE EOS[1]
luaX_next(fs) == [fs EXCEPT !.toks = IF @ = <<>> THEN @ ELSE Tail(@)]

check(fs, tok) == IF Token(fs) = tok THEN fs ELSE SyntaxError(fs, "expected")
checknext(fs, tok) == luaX_next(check(fs, tok))
testnext(fs, tok) == IF Token(fs) = tok THEN luaX_next(fs) ELSE fs
checklimit(fs, v, l) == IF v > l THEN SyntaxError(fs, "limit") ELSE fs

enterlevel(fs) ==
  checklimit([fs EXCEPT !.level = @ + 1], fs.level + 1, LUAI_MAXCCALLS)
leavelevel(fs) == [fs EXCEPT !.level = @ - 1]

codestring(fs, s) == Then(addk(fs, Str(<<s>>)), LAMBDA g :
                     With(g, Exp("VK", g.r)))
checkname(fs) == Then(check(fs, "name"), LAMBDA g :
                 codestring(luaX_next(g), Seminfo(g)))

-----------------------------------------------------------------------------
\* Variables and blocks.
new_localvar(fs, name, n) ==
  [checklimit(fs, fs.nactvar + n + 1, LUAI_MAXVARS)
     EXCEPT !.act = Append(SubSeq(@, 1, fs.nactvar + n), name)]

checklocal(fs, n) ==  \* new_localvar(ls, str_checkname(ls), n)
  Then(check(fs, "name"), LAMBDA g :
  new_localvar(luaX_next(g), Seminfo(g), n))

adjustlocalvars(fs, nvars) == [fs EXCEPT !.nactvar = @ + nvars]
removevars(fs, tolevel) == [fs EXCEPT !.nactvar = tolevel]

indexupvalue(fs, var) ==
  LET up == [k |-> var.k, info |-> var.info]
      known == {i \in DOMAIN fs.ups : fs.ups[i] = up}
  IN IF known # {} THEN [fs EXCEPT !.r = (CHOOSE i \in known : TRUE) - 1]
     ELSE [checklimit(fs, Len(fs.ups) + 1, LUAI_MAXUPVALUES)
             EXCEPT !.ups = Append(@, up), !.r = Len(fs.ups)]

searchvar(fs, name) ==
  LET known == {i \in 1 .. fs.nactvar : fs.act[i] = name}
  IN IF known = {} THEN -1 ELSE (CHOOSE i \in known : \A j \in known : j <= i) - 1

\* The block that declares the variable of this register has an upvalue.
markupval(fs, level) ==
  LET outer == {i \in DOMAIN fs.bl : fs.bl[i].nactvar <= level}
      last == CHOOSE i \in outer : \A j \in outer : j <= i
  IN IF outer = {} THEN fs ELSE [fs EXCEPT !.bl[last].upval = TRUE]

RECURSIVE singlevaraux(_, _, _)
singlevaraux(fs, name, base) ==
  Then(searchvar(fs, name), LAMBDA v :
  Then(singlevaraux(fs.prev[1], name, FALSE), LAMBDA outer :
  Then(indexupvalue([fs EXCEPT !.prev[1] = outer], outer.v), LAMBDA g :
  CASE v >= 0 -> With(IF base THEN fs ELSE markupval(fs, v), Exp("VLOCAL", v))
    [] v < 0 /\ fs.prev = <<>> -> With(fs, Exp("VGLOBAL", NO_REG))
    [] v < 0 /\ fs.prev # <<>> /\ outer.v.k = "VGLOBAL" -> With(fs, outer.v)
    [] OTHER -> [g EXCEPT !.v = Exp("VUPVAL", g.r),
                          !.err = IF @ = "" THEN outer.err ELSE @])))

singlevar(fs) ==
  Then(check(fs, "name"), LAMBDA n :
  Then(singlevaraux(luaX_next(n), Seminfo(n), TRUE), LAMBDA g :
  Then(addk(g, Str(<<Seminfo(n)>>)), LAMBDA h :
  IF g.v.k = "VGLOBAL" THEN [h EXCEPT !.v.info = h.r] ELSE g)))

adjust_assign(fs, nvars, nexps, e) ==
  LET extra == nvars - nexps IN
  Then(IF extra + 1 < 0 THEN 0 ELSE extra + 1, LAMBDA wanted :
  Then(luaK_setreturns(fs, e, wanted), LAMBDA g :
  Then(IF e.k = "VVOID" THEN fs ELSE luaK_exp2nextreg(fs, e), LAMBDA h :
  CASE hasmultret(e) -> IF wanted > 1 THEN luaK_reserveregs(g, wanted - 1) ELSE g
    [] ~hasmultret(e) /\ extra > 0 -> luaK_nil(luaK_reserveregs(h, extra), h.freereg, extra)
    [] OTHER -> h)))

enterblock(fs, isbreakable) ==
  [fs EXCEPT !.bl = Append(@, [breaklist |-> NO_JUMP, nactvar |-> fs.nactvar,
                               upval |-> FALSE, isbreakable |-> isbreakable])]

leaveblock(fs) ==
  LET bl == Last(fs.bl) IN
  Then(removevars([fs EXCEPT !.bl = Front(@)], bl.nactvar), LAMBDA g :
  Then(IF bl.upval THEN luaK_codeABC(g, "CLOSE", bl.nactvar, 0, 0) ELSE g, LAMBDA h :
  luaK_patchtohere([h EXCEPT !.freereg = h.nactvar], bl.breaklist)))

-----------------------------------------------------------------------------
\* Functions.
open_func(toks, level, err, prev) ==
  [code |-> <<>>, k |-> <<>>, p |-> <<>>, ups |-> <<>>, act |-> <<>>, bl |-> <<>>,
   freereg |-> 0, nactvar |-> 0, jpc |-> NO_JUMP, lasttarget |-> -1, max |-> 2,
   vararg |-> {}, nparams |-> 0, v |-> Void, r |-> 0,
   toks |-> toks, level |-> level, err |-> err, prev |-> prev]

Proto(fs) == [code |-> fs.code, k |-> fs.k, p |-> fs.p, ups |-> fs.ups,
              nparams |-> fs.nparams, vararg |-> fs.vararg, max |-> fs.max]

\* The function is coded; its code is last in p of the enclosing one.
pushclosure(fs, proto) ==
  Then(luaK_codeABx([fs EXCEPT !.p = Append(@, proto)], "CLOSURE", 0, Len(fs.p)), LAMBDA g :
  LET Capture(h, up) ==
        luaK_codeABC(h, IF up.k = "VLOCAL" THEN "MOVE" ELSE "GETUPVAL", 0, up.info, 0)
  IN With(FoldLeft(Capture, g, proto.ups), Exp("VRELOCABLE", g.r)))

close_func(fs) ==
  Then(luaK_ret(removevars(fs, 0), 0, 0), LAMBDA g :
  IF g.prev = <<>> THEN g
  ELSE pushclosure([g.prev[1] EXCEPT !.toks = g.toks, !.level = g.level, !.err = g.err],
                   Proto(g)))

\* parlist -> [ param { `,' param } ]
RECURSIVE params(_, _)
params(fs, n) ==
  CASE Token(fs) = "name" ->
         Then(checklocal(fs, n), LAMBDA g :
         IF Token(g) = "," THEN params(luaX_next(g), n + 1) ELSE adjustlocalvars(g, n + 1))
    [] Token(fs) = "..." ->  \* LUA_COMPAT_VARARG
         LET g == new_localvar(luaX_next(fs), "arg", n)
         IN adjustlocalvars([g EXCEPT !.vararg = {"HASARG", "NEEDSARG", "ISVARARG"}], n + 1)
    [] OTHER -> SyntaxError(fs, "<name> expected")

parlist(fs) ==
  Then(IF Token(fs) = ")" THEN fs ELSE params(fs, 0), LAMBDA g :
  LET hidden == IF "HASARG" \in g.vararg THEN 1 ELSE 0
  IN luaK_reserveregs([g EXCEPT !.nparams = g.nactvar - hidden], g.nactvar))

-----------------------------------------------------------------------------
\* Expressions.
RECURSIVE listfields(_, _, _, _), operators(_, _, _), explist1(_, _, _)
RECURSIVE suffixes(_, _), assignment(_, _, _, _)

expr(P, fs) == P[<<"subexpr", fs, 0>>]

body(P, fs, needself) ==
  Then(checknext(open_func(fs.toks, fs.level, fs.err, <<fs>>), "("), LAMBDA g :
  LET h == IF needself THEN adjustlocalvars(new_localvar(g, "self", 0), 1) ELSE g
      c == P[<<"chunk", checknext(parlist(h), ")")>>]
  IN close_func(checknext(c, "end")))

yindex(P, fs) ==
  Then(expr(P, luaX_next(fs)), LAMBDA g :
  checknext(luaK_exp2val(g, g.v), "]"))

field(fs) ==
  Then(luaK_exp2anyreg(fs, fs.v), LAMBDA g :
  Then(checkname(luaX_next(g)), LAMBDA n :
  luaK_indexed(n, g.v, n.v)))

\* t is the table's register; cc counts the items: na, nh and tostore.
recfield(P, fs, t) ==
  Then(IF Token(fs) = "name" THEN checkname(fs) ELSE yindex(P, fs), LAMBDA g :
  Then(luaK_exp2RK(checknext(g, "="), g.v), LAMBDA key :
  Then(expr(P, key), LAMBDA e :
  Then(luaK_exp2RK(e, e.v), LAMBDA val :
  [luaK_codeABC(val, "SETTABLE", t, key.r, val.r) EXCEPT !.freereg = fs.freereg, !.v = Void]))))

closelistfield(fs, t, cc) ==
  Then(luaK_exp2nextreg(fs, fs.v), LAMBDA g :
  LET full == cc.tostore = LFIELDS_PER_FLUSH
      flushed == IF full THEN luaK_setlist(g, t, cc.na, cc.tostore) ELSE g
  IN IF fs.v.k = "VVOID" THEN [fs |-> fs, cc |-> cc]
     ELSE [fs |-> With(flushed, Void), cc |-> IF full THEN [cc EXCEPT !.tostore = 0] ELSE cc])

\* Sets the sizes in the instruction NEWTABLE at pc too.
lastlistfield(fs, t, cc, pc) ==
  LET open == luaK_setreturns(fs, fs.v, LUA_MULTRET)
      g == IF fs.v.k = "VVOID" THEN fs ELSE luaK_exp2nextreg(fs, fs.v)
  IN
  Then(cc.tostore # 0 /\ hasmultret(fs.v), LAMBDA multret :
  LET h == CASE cc.tostore = 0 -> fs
             [] multret -> luaK_setlist(open, t, cc.na, LUA_MULTRET)
             [] OTHER -> luaK_setlist(g, t, cc.na, cc.tostore)
      na == IF multret THEN cc.na - 1 ELSE cc.na
  IN [h EXCEPT !.code[pc + 1].B = int2fb(na), !.code[pc + 1].C = int2fb(cc.nh)])

listfields(P, fs, t, cc0) ==
  Then(closelistfield(fs, t, cc0), LAMBDA c :
  LET g == c.fs
      cc == c.cc
  IN
  Then(Token(g) = "[" \/ (Token(g) = "name" /\ lookahead(g) = "="), LAMBDA isrec :
  Then(IF isrec THEN recfield(P, g, t) ELSE expr(P, g), LAMBDA h :
  Then(IF isrec THEN [cc EXCEPT !.nh = @ + 1]
       ELSE [cc EXCEPT !.na = @ + 1, !.tostore = @ + 1], LAMBDA counted :
  CASE Token(fs) = "}" -> [fs |-> fs, cc |-> cc0]
    [] Token(fs) # "}" /\ Token(h) \in {",", ";"} -> listfields(P, luaX_next(h), t, counted)
    [] OTHER -> [fs |-> h, cc |-> counted]))))

constructor(P, fs) ==
  Then(luaK_codeABC(fs, "NEWTABLE", 0, 0, 0), LAMBDA new :
  Then(luaK_exp2nextreg(new, Exp("VRELOCABLE", new.r)), LAMBDA g :
  LET t == g.v IN
  Then(listfields(P, With(checknext(g, "{"), Void), t.info,
                  [na |-> 0, nh |-> 0, tostore |-> 0]), LAMBDA l :
  With(lastlistfield(checknext(l.fs, "}"), t.info, l.cc, new.r), t))))

\* Returns the number of expressions in r and the last one in v.
explist1(P, fs, n) ==
  Then(expr(P, fs), LAMBDA g :
  IF Token(g) # "," THEN [g EXCEPT !.r = n]
  ELSE explist1(P, luaK_exp2nextreg(luaX_next(g), g.v), n + 1))

setmultret(fs) == luaK_setreturns(fs, fs.v, LUA_MULTRET)

funcargs(P, fs, f) ==
  Then(luaX_next(fs), LAMBDA open :
  Then(CASE Token(fs) = "(" /\ Token(open) = ")" -> With(luaX_next(open), Void)
         [] Token(fs) = "(" /\ Token(open) # ")" ->
              checknext(setmultret(explist1(P, open, 1)), ")")
         [] Token(fs) = "{" -> constructor(P, fs)
         [] Token(fs) = "string" -> codestring(luaX_next(fs), Seminfo(fs))
         [] OTHER -> SyntaxError(fs, "function arguments expected"), LAMBDA args :
  Then(IF hasmultret(args.v) \/ args.v.k = "VVOID" THEN args
       ELSE luaK_exp2nextreg(args, args.v), LAMBDA g :
  LET nparams == IF hasmultret(args.v) THEN LUA_MULTRET ELSE g.freereg - (f.info + 1) IN
  Then(luaK_codeABC(g, "CALL", f.info, nparams + 1, 2), LAMBDA call :
  [call EXCEPT !.v = Exp("VCALL", call.r), !.freereg = f.info + 1]))))

prefixexp(P, fs) ==
  Then(checknext(expr(P, luaX_next(fs)), ")"), LAMBDA e :
  CASE Token(fs) = "(" -> luaK_dischargevars(e, e.v)
    [] Token(fs) = "name" -> singlevar(fs)
    [] OTHER -> SyntaxError(With(fs, Void), "unexpected symbol"))

suffixes(P, fs) ==
  Then(luaK_exp2anyreg(fs, fs.v), LAMBDA t :
  Then(yindex(P, t), LAMBDA key :
  Then(checkname(luaX_next(fs)), LAMBDA name :
  Then(luaK_self(name, fs.v, name.v), LAMBDA self :
  Then(luaK_exp2nextreg(fs, fs.v), LAMBDA f :
  CASE Token(fs) = "." -> suffixes(P, field(fs))
    [] Token(fs) = "[" -> suffixes(P, luaK_indexed(key, t.v, key.v))
    [] Token(fs) = ":" -> suffixes(P, funcargs(P, self, self.v))
    [] Token(fs) \in {"(", "string", "{"} -> suffixes(P, funcargs(P, f, f.v))
    [] OTHER -> fs)))))

primaryexp(P, fs) == suffixes(P, prefixexp(P, fs))

simpleexp(P, fs) ==
  Then(luaK_codeABC([fs EXCEPT !.vararg = @ \ {"NEEDSARG"}], "VARARG", 0, 1, 0), LAMBDA dots :
  CASE Token(fs) = "number" -> luaX_next(With(fs, Exp("VKNUM", Seminfo(fs))))
    [] Token(fs) = "string" -> luaX_next(codestring(fs, Seminfo(fs)))
    [] Token(fs) = "nil" -> luaX_next(With(fs, Exp("VNIL", 0)))
    [] Token(fs) = "true" -> luaX_next(With(fs, Exp("VTRUE", 0)))
    [] Token(fs) = "false" -> luaX_next(With(fs, Exp("VFALSE", 0)))
    [] Token(fs) = "..." ->
         IF fs.vararg = {} THEN SyntaxError(With(fs, Void), "cannot use ... here")
         ELSE luaX_next(With(dots, Exp("VVARARG", dots.r)))
    [] Token(fs) = "{" -> constructor(P, fs)
    [] Token(fs) = "function" -> body(P, luaX_next(fs), FALSE)
    [] OTHER -> P[<<"primaryexp", fs>>])

\* The left and right priorities of the binary operators.
priority ==
  [op \in {"+", "-", "*", "/", "%", "^", "..", "~=", "==", "<", "<=", ">", ">=", "and", "or"} |->
     CASE op \in {"+", "-"} -> <<6, 6>>
       [] op \in {"*", "/", "%"} -> <<7, 7>>
       [] op = "^" -> <<10, 9>>
       [] op = ".." -> <<5, 4>>
       [] op \in {"~=", "==", "<", "<=", ">", ">="} -> <<3, 3>>
       [] op = "and" -> <<2, 2>>
       [] op = "or" -> <<1, 1>>]
UNARY_PRIORITY == 8

operators(P, fs, limit) ==
  LET op == Token(fs) IN
  Then(luaK_infix(luaX_next(fs), op, fs.v), LAMBDA g :
  Then(P[<<"subexpr", g, priority[op][2]>>], LAMBDA h :
  IF op \in DOMAIN priority /\ priority[op][1] > limit
  THEN operators(P, luaK_posfix(h, op, g.v, h.v), limit)
  ELSE fs))

subexpr(P, fs, limit) ==
  Then(enterlevel(fs), LAMBDA g :
  LET uop == Token(g) IN
  Then(P[<<"subexpr", luaX_next(g), UNARY_PRIORITY>>], LAMBDA u :
  LET e == IF uop \in {"not", "-", "#"} THEN luaK_prefix(u, uop, u.v) ELSE simpleexp(P, g)
  IN leavelevel(operators(P, e, limit))))

-----------------------------------------------------------------------------
\* Statements.
block_follow(tok) == tok \in {"else", "elseif", "end", "until", EOS[1]}

block(P, fs) == leaveblock(P[<<"chunk", enterblock(fs, FALSE)>>])

\* lh: the variables assigned so far, the last one last.
check_conflict(fs, lh, v) ==
  LET Indexes(var) == var.k = "VINDEXED" /\ v.info \in {var.info, var.aux}
      Safe(x) == IF x = v.info THEN fs.freereg ELSE x
  IN IF ~\E i \in DOMAIN lh : Indexes(lh[i]) THEN [fs |-> fs, lh |-> lh]
     ELSE [fs |-> luaK_reserveregs(luaK_codeABC(fs, "MOVE", fs.freereg, v.info, 0), 1),
           lh |-> [i \in DOMAIN lh |->
                     IF Indexes(lh[i])
                     THEN [lh[i] EXCEPT !.info = Safe(@), !.aux = Safe(@)]
                     ELSE lh[i]]]

StoreTop(fs, var) == luaK_storevar(fs, var, Exp("VNONRELOC", fs.freereg - 1))

\* Leaves in lh what check_conflict made of the variables before the last one.
assignment(P, fs, lh, nvars) ==
  LET var == Last(lh) IN
  Then(P[<<"primaryexp", luaX_next(fs)>>], LAMBDA more :
  Then(IF more.v.k = "VLOCAL" THEN check_conflict(more, lh, more.v)
       ELSE [fs |-> more, lh |-> lh], LAMBDA c :
  Then(assignment(P, checklimit(c.fs, nvars, LUAI_MAXCCALLS - fs.level),
                  Append(c.lh, more.v), nvars + 1), LAMBDA rest :
  Then(explist1(P, checknext(fs, "="), 1), LAMBDA es :
  Then(luaK_setoneret(es, es.v), LAMBDA one :
  Then(adjust_assign(es, nvars, es.r, es.v), LAMBDA adj :
  LET cut == IF es.r > nvars THEN [adj EXCEPT !.freereg = @ - (es.r - nvars)] ELSE adj
  IN CASE var.k \notin {"VLOCAL", "VUPVAL", "VGLOBAL", "VINDEXED"} ->
            [fs |-> SyntaxError(fs, "syntax error"), lh |-> Front(lh)]
       [] Token(fs) = "," -> [fs |-> StoreTop(rest.fs, Last(rest.lh)), lh |-> Front(rest.lh)]
       [] es.r = nvars -> [fs |-> luaK_storevar(one, var, one.v), lh |-> Front(lh)]
       [] OTHER -> [fs |-> StoreTop(cut, var), lh |-> Front(lh)]))))))

cond(P, fs) ==
  Then(expr(P, fs), LAMBDA e :
  LET v == IF e.v.k = "VNIL" THEN [e.v EXCEPT !.k = "VFALSE"] ELSE e.v IN
  Then(luaK_goiftrue(e, v), LAMBDA g :
  [g EXCEPT !.r = g.v.f]))

breakstat(fs) ==
  LET loops == {i \in DOMAIN fs.bl : fs.bl[i].isbreakable}
      l == CHOOSE i \in loops : \A j \in loops : j <= i
      upval == \E i \in l + 1 .. Len(fs.bl) : fs.bl[i].upval
  IN
  Then(luaK_jump(IF upval THEN luaK_codeABC(fs, "CLOSE", fs.bl[l].nactvar, 0, 0) ELSE fs), LAMBDA j :
  Then(luaK_concat(j, j.bl[l].breaklist, j.r), LAMBDA c :
  IF loops = {} THEN SyntaxError(fs, "no loop to break")
  ELSE [c EXCEPT !.bl[l].breaklist = c.r]))

JumpBack(fs, target) == Then(luaK_jump(fs), LAMBDA j :
                        luaK_patchlist(j, j.r, target))

whilestat(P, fs) ==
  Then(luaK_getlabel(luaX_next(fs)), LAMBDA init :
  Then(cond(P, init), LAMBDA c :
  LET b == JumpBack(block(P, checknext(enterblock(c, TRUE), "do")), init.r)
  IN luaK_patchtohere(leaveblock(checknext(b, "end")), c.r)))

repeatstat(P, fs) ==
  Then(luaK_getlabel(fs), LAMBDA init :
  LET b == P[<<"chunk", luaX_next(enterblock(enterblock(init, TRUE), FALSE))>>] IN
  Then(cond(P, checknext(b, "until")), LAMBDA c :
  LET looped == luaK_patchlist(leaveblock(c), c.r, init.r)
      closed == leaveblock(luaK_patchtohere(breakstat(c), c.r))
  IN leaveblock(IF Last(c.bl).upval THEN JumpBack(closed, init.r) ELSE looped)))

exp1(P, fs) == Then(expr(P, fs), LAMBDA e :
            luaK_exp2nextreg(e, e.v))

forbody(P, fs, base, nvars, isnum) ==
  Then(checknext(adjustlocalvars(fs, 3), "do"), LAMBDA g :
  Then(IF isnum THEN luaK_codeABx(g, "FORPREP", base, NO_JUMP) ELSE luaK_jump(g), LAMBDA prep :
  LET scope == luaK_reserveregs(adjustlocalvars(enterblock(prep, FALSE), nvars), nvars) IN
  Then(luaK_patchtohere(leaveblock(block(P, scope)), prep.r), LAMBDA b :
  Then(IF isnum THEN luaK_codeABx(b, "FORLOOP", base, NO_JUMP)
       ELSE luaK_jump(luaK_codeABC(b, "TFORLOOP", base, 0, nvars)), LAMBDA loop :
  luaK_patchlist(loop, loop.r, prep.r + 1)))))

fornum(P, fs, var) ==
  LET names == <<"(for index)", "(for limit)", "(for step)", var>>
      g == FoldLeft(LAMBDA h, i : new_localvar(h, names[i], i - 1), fs, <<1, 2, 3, 4>>)
  IN
  Then(exp1(P, checknext(exp1(P, checknext(g, "=")), ",")), LAMBDA limit :
  Then(addk(limit, Num(1)), LAMBDA k :
  LET one == luaK_reserveregs(luaK_codeABx(k, "LOADK", k.freereg, k.r), 1)
  IN forbody(P, IF Token(limit) = "," THEN exp1(P, luaX_next(limit)) ELSE one, fs.freereg, 1, TRUE)))

\* NAME {`,' NAME}, from variable n on; r counts them.
RECURSIVE namelist(_, _)
namelist(fs, n) ==
  Then(checklocal(fs, n), LAMBDA g :
  IF Token(g) = "," THEN namelist(luaX_next(g), n + 1) ELSE [g EXCEPT !.r = n + 1])

forlist(P, fs, var) ==
  LET names == <<"(for generator)", "(for state)", "(for control)", var>> IN
  Then(FoldLeft(LAMBDA h, i : new_localvar(h, names[i], i - 1), fs, <<1, 2, 3, 4>>), LAMBDA g :
  Then(IF Token(g) = "," THEN namelist(luaX_next(g), 4) ELSE [g EXCEPT !.r = 4], LAMBDA n :
  Then(explist1(P, checknext(n, "in"), 1), LAMBDA es :
  LET adj == adjust_assign(es, 3, es.r, es.v)
  IN forbody(P, luaK_checkstack(adj, 3), fs.freereg, n.r - 3, FALSE))))

forstat(P, fs) ==
  Then(luaX_next(enterblock(fs, TRUE)), LAMBDA g :
  Then(luaX_next(check(g, "name")), LAMBDA n :
  LET b == CASE Token(n) = "=" -> fornum(P, n, Seminfo(g))
             [] Token(n) \in {",", "in"} -> forlist(P, n, Seminfo(g))
             [] OTHER -> SyntaxError(n, "= or in expected")
  IN leaveblock(checknext(b, "end"))))

test_then_block(P, fs) ==
  Then(cond(P, luaX_next(fs)), LAMBDA c :
  [block(P, checknext(c, "then")) EXCEPT !.r = c.r])

\* flist: jumps of a false condition, escape: jumps to the end.
RECURSIVE elses(_, _, _, _)
elses(P, fs, flist, escape) ==
  Then(luaK_jump(fs), LAMBDA j :
  Then(luaK_concat(j, escape, j.r), LAMBDA e :
  Then(luaK_patchtohere(e, flist), LAMBDA p :
  Then(test_then_block(P, p), LAMBDA t :
  Then(luaK_concat(fs, escape, flist), LAMBDA l :
  CASE Token(fs) = "elseif" -> elses(P, t, t.r, e.r)
    [] Token(fs) = "else" -> luaK_patchtohere(block(P, luaX_next(p)), e.r)
    [] OTHER -> luaK_patchtohere(l, l.r))))))

ifstat(P, fs) ==
  Then(test_then_block(P, fs), LAMBDA t :
  checknext(elses(P, t, t.r, NO_JUMP), "end"))

localfunc(P, fs) ==
  Then(luaK_reserveregs(checklocal(fs, 0), 1), LAMBDA g :
  Then(body(P, adjustlocalvars(g, 1), FALSE), LAMBDA b :
  luaK_storevar(b, Exp("VLOCAL", g.freereg - 1), b.v)))

localstat(P, fs) ==
  Then(namelist(fs, 0), LAMBDA n :
  Then(explist1(P, checknext(n, "="), 1), LAMBDA es :
  adjustlocalvars(IF Token(n) = "=" THEN adjust_assign(es, n.r, es.r, es.v)
                  ELSE adjust_assign(n, n.r, 0, Void), n.r)))

RECURSIVE fields(_)
fields(fs) == IF Token(fs) = "." THEN fields(field(fs)) ELSE fs

funcstat(P, fs) ==
  Then(fields(singlevar(luaX_next(fs))), LAMBDA n :
  LET needself == Token(n) = ":" IN
  Then(IF needself THEN field(n) ELSE n, LAMBDA var :
  Then(body(P, var, needself), LAMBDA b :
  luaK_storevar(b, var.v, b.v))))

exprstat(P, fs) ==
  Then(P[<<"primaryexp", fs>>], LAMBDA e :
  IF e.v.k = "VCALL" THEN [e EXCEPT !.code[e.v.info + 1].C = 1]
  ELSE assignment(P, e, <<e.v>>, 1).fs)

retstat(P, fs) ==
  Then(luaX_next(fs), LAMBDA g :
  Then(explist1(P, g, 1), LAMBDA es :
  LET e == es.v IN
  Then(luaK_setreturns(es, e, LUA_MULTRET), LAMBDA open :
  Then(IF e.k = "VCALL" /\ es.r = 1
       THEN [open EXCEPT !.code[e.info + 1].op = "TAILCALL"] ELSE open, LAMBDA tail :
  Then(luaK_exp2anyreg(es, e), LAMBDA single :
  CASE block_follow(Token(g)) \/ Token(g) = ";" -> luaK_ret(g, 0, 0)
    [] es.r >= 1 /\ hasmultret(e) -> luaK_ret(tail, tail.nactvar, LUA_MULTRET)
    [] es.r = 1 -> luaK_ret(single, single.v.info, 1)
    [] OTHER -> luaK_ret(luaK_exp2nextreg(es, e), es.nactvar, es.r))))))

statement(P, fs) ==
  LET tok == Token(fs) IN
  Then(luaX_next(fs), LAMBDA g :
  CASE tok = "if" -> ifstat(P, fs)
    [] tok = "while" -> whilestat(P, fs)
    [] tok = "do" -> checknext(block(P, g), "end")
    [] tok = "for" -> forstat(P, fs)
    [] tok = "repeat" -> repeatstat(P, fs)
    [] tok = "function" -> funcstat(P, fs)
    [] tok = "local" -> IF Token(g) = "function" THEN localfunc(P, luaX_next(g)) ELSE localstat(P, g)
    [] tok = "return" -> retstat(P, fs)
    [] tok = "break" -> breakstat(g)
    [] OTHER -> exprstat(P, fs))

RECURSIVE statements(_, _)
statements(P, fs) ==
  Then(testnext(statement(P, fs), ";"), LAMBDA g :
  Then([g EXCEPT !.freereg = g.nactvar], LAMBDA freed :
  CASE block_follow(Token(fs)) -> fs
    [] Token(fs) \in {"return", "break"} -> freed
    [] OTHER -> statements(P, freed)))

chunk(P, fs) == leavelevel(statements(P, enterlevel(fs)))

Parse[job \in Any] == CASE job[1] = "chunk" -> chunk(Parse, job[2])
                       [] job[1] = "primaryexp" -> primaryexp(Parse, job[2])
                       [] job[1] = "subexpr" -> subexpr(Parse, job[2], job[3])

\* The main function, or its err.
luaY_parser(toks) ==
  LET main == [open_func(toks, 0, "", <<>>) EXCEPT !.vararg = {"ISVARARG"}]
  IN close_func(check(Parse[<<"chunk", main>>], EOS[1]))
=============================================================================
