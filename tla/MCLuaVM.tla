------------------------------- MODULE MCLuaVM -------------------------------
(***************************************************************************)
(* LuaVM for TLC: every small expression in every place of a script, with  *)
(* its meaning by the rules of the language's manual, and a script for     *)
(* each statement, with what it returns.                                   *)
(*                                                                         *)
(* LuaVM takes a table for a function; that ltable.c makes it one is shown *)
(* beside it, with LuaTable.  A behaviour is one of the part, "script" or  *)
(* "table", that it chooses at its start; the other rests.                 *)
(***************************************************************************)
EXTENDS LuaVM, LuaTable

CONSTANTS s1, s2  \* the keys that are strings

VARIABLE part

Keywords ==
  {"and", "break", "do", "else", "elseif", "end", "false", "for", "function", "if", "in",
   "local", "nil", "not", "or", "repeat", "return", "then", "true", "until", "while",
   "+", "-", "*", "/", "%", "^", "#", "==", "~=", "<=", ">=", "<", ">", "=", "(", ")",
   "{", "}", "[", "]", ";", ":", ",", ".", "..", "..."}
Literals == [w \in {ToString(n) : n \in 0 .. 20} |-> CHOOSE n \in 0 .. 20 : ToString(n) = w]
Quoted == ("'p'" :> "p") @@ ("'q'" :> "q") @@ ("'1'" :> "1")

Tok(w) ==
  CASE w \in Keywords -> <<w>>
    [] w \in DOMAIN Literals -> <<"number", Literals[w]>>
    [] w \in DOMAIN Quoted -> <<"string", Quoted[w]>>
    [] OTHER -> <<"name", w>>
Src(words) == [n \in DOMAIN words |-> Tok(words[n])]

-----------------------------------------------------------------------------
\* Expressions: <<atom>>, <<"not", e>> or <<op, e1, e2>>, over a local a = 2, a
\* local b = nil and a global g = 3.
AtomValue == [w \in {"nil", "false", "1", "a", "b", "g", "'p'"} |->
  CASE w \in {"nil", "b"} -> Nil [] w = "false" -> Bool(FALSE) [] w = "1" -> Num(1)
    [] w = "a" -> Num(2) [] w = "g" -> Num(3) [] w = "'p'" -> Str(<<"p">>)]
Atoms == {<<w>> : w \in DOMAIN AtomValue}

RECURSIVE Meaning(_)
Meaning(e) ==
  LET v == Meaning(e[2])
      w == Meaning(e[3])
      Lift(x) == IF RunErr \in {v, w} THEN RunErr ELSE x
  IN CASE Len(e) = 1 -> AtomValue[e[1]]
       [] e[1] = "not" -> IF v = RunErr THEN v ELSE Bool(l_isfalse(v))
       [] e[1] = "and" -> IF v = RunErr \/ l_isfalse(v) THEN v ELSE w
       [] e[1] = "or" -> IF v # RunErr /\ l_isfalse(v) THEN w ELSE v
       [] e[1] = "==" -> Lift(Bool(v = w))
       [] e[1] = "~=" -> Lift(Bool(v # w))
       [] e[1] = "<" -> Lift(IF v[1] = w[1] /\ IsText(v) THEN Bool(Less(v, w)) ELSE RunErr)
       [] e[1] = ">=" -> Lift(IF v[1] = w[1] /\ IsText(v) THEN Bool(~Less(v, w)) ELSE RunErr)
       [] e[1] = "-" -> Lift(IF v[1] = "number" /\ w[1] = "number" THEN Num(v[2] - w[2]) ELSE RunErr)
       [] e[1] = ".." -> Lift(IF IsText(v) /\ IsText(w) THEN Str(Text(v) \o Text(w)) ELSE RunErr)

\* The manual's precedence, from low to high; .. is right associative.
Level(e) == CASE Len(e) = 1 -> 8 [] e[1] = "not" -> 7 [] e[1] = "-" -> 5 [] e[1] = ".." -> 4
              [] e[1] = "and" -> 2 [] e[1] = "or" -> 1 [] OTHER -> 3
RECURSIVE Words(_, _)
Words(e, least) ==
  LET l == Level(e)
      right == e[1] = ".."
      text == CASE Len(e) = 1 -> <<e[1]>>
                [] Len(e) = 2 -> <<"not">> \o Words(e[2], l)
                [] OTHER -> Words(e[2], IF right THEN l + 1 ELSE l) \o <<e[1]>>
                              \o Words(e[3], IF right THEN l ELSE l + 1)
  IN IF l < least THEN <<"(">> \o text \o <<")">> ELSE text

Logic == {"and", "or"}
Small == {<<"not", e>> : e \in Atoms} \cup
         {<<op, d, e>> : op \in {"and", "or", "==", "<", ">=", "-", ".."}, d \in Atoms, e \in Atoms}
Conditions ==
  {<<"not", <<"b">>>>, <<"==", <<"a">>, <<"1">>>>, <<"<", <<"1">>, <<"g">>>>, <<"or", <<"b">>, <<"a">>>>,
   <<"and", <<"g">>, <<"nil">>>>, <<"not", <<"and", <<"a">>, <<"b">>>>>>, <<"..", <<"a">>, <<"'p'">>>>,
   <<"b">>, <<"1">>}
Chains == {<<op, d, e>> : op \in Logic, d \in Conditions, e \in Conditions}
Pairs == Chains \cup {<<op, d, e>> : op \in {"==", ".."}, d \in Conditions, e \in Conditions}
Large ==
  {<<"not", e>> : e \in Chains} \cup
  {<<op, d, e>> : op \in Logic, d \in Chains, e \in {<<"a">>, <<"b">>}}
Expressions == Small \cup Pairs \cup Large

Before == <<"local", "a", ",", "b", "=", "2", "g", "=", "3">>
Choice(v) == IF v = RunErr THEN v ELSE <<"returns", <<Num(IF l_isfalse(v) THEN 2 ELSE 1)>>>>
Given(v) == IF v = RunErr THEN v ELSE <<"returns", <<v>>>>

\* The places: returned, stored in a local, a condition; an upvalue, a field, an
\* operand of the condition that ends a loop.
InPlace(e, place) ==
  LET w == Words(e, 0)
      v == Meaning(e)
      Script(words, means) == [toks |-> Src(Before \o words), means |-> means]
  IN CASE place = "return" -> Script(<<"return">> \o w, Given(v))
       [] place = "local" -> Script(<<"b", "=">> \o w \o <<"return", "b">>, Given(v))
       [] place = "if" ->
            Script(<<"if">> \o w \o <<"then", "return", "1", "else", "return", "2", "end">>, Choice(v))
       [] place = "while" ->
            Script(<<"while">> \o w \o <<"do", "return", "1", "end", "return", "2">>, Choice(v))
       [] place = "upvalue" ->
            Script(<<"local", "function", "f", "(", ")", "b", "=">> \o w \o
                   <<"end", "f", "(", ")", "return", "b">>, Given(v))
       [] place = "field" ->
            Script(<<"local", "t", "=", "{", "x", "=">> \o w \o <<"}", "return", "t", ".", "x">>, Given(v))
       [] place = "until" ->
            Script(<<"repeat", "local", "x", "=", "1", "until">> \o w \o <<"or", "x", "return", "1">>,
                   IF v = RunErr THEN v ELSE <<"returns", <<Num(1)>>>>)

ExpressionPrograms ==
  {InPlace(e, place) : e \in Expressions, place \in {"return", "if"}} \cup
  {InPlace(e, place) : e \in Small, place \in {"local", "while", "upvalue", "field", "until"}}

-----------------------------------------------------------------------------
\* A script for each statement, call, upvalue, table and limit.
S(words, means) == [toks |-> Src(words), means |-> means]
StatementPrograms == {
    S(<<"local", "a", ",", "b", ",", "c", "=", "1", ",", "2", "return", "a", ",", "b", ",", "c">>,
     <<"returns", <<Num(1), Num(2), Nil>>>>),
    S(<<"local", "a", ",", "b", "=", "1", ",", "2", "a", ",", "b", "=", "b", ",", "a", "return",
     "a", ",", "b">>, <<"returns", <<Num(2), Num(1)>>>>),
    S(<<"local", "t", ",", "i", "=", "{", "}", ",", "1", "i", ",", "t", "[", "i", "]", "=", "2",
     ",", "7", "return", "i", ",", "t", "[", "1", "]", ",", "t", "[", "2", "]">>, <<"returns",
     <<Num(2), Num(7), Nil>>>>),
    S(<<"local", "function", "f", "(", ")", "return", "4", ",", "5", "end", "local", "x", ",", "y",
     ",", "z", "=", "f", "(", ")", "return", "x", ",", "y", ",", "z">>, <<"returns", <<Num(4),
     Num(5), Nil>>>>),
    S(<<"local", "function", "f", "(", ")", "return", "4", ",", "5", "end", "return", "f", "(", ")",
     ",", "f", "(", ")">>, <<"returns", <<Num(4), Num(4), Num(5)>>>>),
    S(<<"local", "function", "f", "(", ")", "return", "4", ",", "5", "end", "return", "(", "f", "(",
     ")", ")">>, <<"returns", <<Num(4)>>>>),
    S(<<"local", "function", "f", "(", ")", "return", "4", ",", "5", "end", "local", "t", "=", "{",
     "n", "=", "3", ",", "f", "(", ")", ",", "f", "(", ")", "}", "return", "#", "t", ",", "t", "[",
     "3", "]", ",", "t", ".", "n", ",", "#", "{", "f", "(", ")", ",", "n", "=", "3", "}">>,
     <<"returns", <<Num(3), Num(5), Num(3), Num(1)>>>>),
    S(<<"local", "t", "=", "{", "6", ",", "7", ",", "8", ";", "9", ",", "[", "20", "]", "=", "1",
     "}", "return", "#", "t", ",", "t", "[", "2", "]", ",", "t", "[", "4", "]", ",", "t", "[", "20",
     "]">>, <<"returns", <<Num(4), Num(7), Num(9), Num(1)>>>>),
    S(<<"local", "function", "f", "(", "...", ")", "return", "...", ",", "1", "end", "return", "f",
     "(", "8", ",", "9", ")">>, <<"returns", <<Num(8), Num(1)>>>>),
    S(<<"local", "function", "f", "(", "a", ",", "...", ")", "local", "b", ",", "c", "=", "...",
     "return", "c", ",", "a", "end", "return", "f", "(", "7", ",", "8", ",", "9", ")">>,
     <<"returns", <<Num(9), Num(7)>>>>),
    S(<<"local", "function", "f", "(", "a", ",", "...", ")", "return", "arg", ".", "n", ",", "arg",
     "[", "1", "]", "end", "return", "f", "(", "7", ",", "8", ")">>, <<"returns", <<Num(1),
     Num(8)>>>>),
    S(<<"local", "function", "f", "(", "...", ")", "return", "...", "end", "return", "f", "(", "f",
     "(", "7", ",", "8", ")", ")">>, <<"returns", <<Num(7), Num(8)>>>>),
    S(<<"local", "s", "=", "0", "for", "i", "=", "1", ",", "3", "do", "s", "=", "s", "+", "i",
     "end", "return", "s">>, <<"returns", <<Num(6)>>>>),
    S(<<"local", "s", "=", "0", "for", "i", "=", "3", ",", "1", ",", "-", "2", "do", "s", "=", "s",
     "*", "10", "+", "i", "end", "return", "s">>, <<"returns", <<Num(31)>>>>),
    S(<<"for", "i", "=", "1", ",", "'p'", "do", "end">>, RunErr),
    S(<<"local", "s", "=", "0", "for", "i", "=", "1", ",", "9", "do", "if", "i", "==", "3", "then",
     "break", "end", "s", "=", "s", "+", "i", "end", "return", "s">>, <<"returns", <<Num(3)>>>>),
    S(<<"local", "function", "f", "(", "n", ",", "i", ")", "if", "i", "<", "n", "then", "return",
     "i", "+", "1", "end", "end", "local", "s", "=", "0", "for", "i", "in", "f", ",", "3", ",", "0",
     "do", "s", "=", "s", "+", "i", "end", "return", "s">>, <<"returns", <<Num(6)>>>>),
    S(<<"local", "t", "=", "{", "}", "for", "i", "=", "1", ",", "2", "do", "t", "[", "i", "]", "=",
     "function", "(", ")", "i", "=", "i", "+", "10", "return", "i", "end", "end", "return", "t",
     "[", "1", "]", "(", ")", ",", "t", "[", "1", "]", "(", ")", ",", "t", "[", "2", "]", "(",
     ")">>, <<"returns", <<Num(11), Num(21), Num(12)>>>>),
    S(<<"local", "f", ",", "n", "=", "nil", ",", "0", "while", "true", "do", "local", "x", "=", "n",
     "f", "=", "function", "(", ")", "x", "=", "x", "+", "5", "return", "x", "end", "n", "=", "n",
     "+", "1", "if", "n", "==", "2", "then", "break", "end", "end", "return", "f", "(", ")", ",",
     "n">>, <<"returns", <<Num(6), Num(2)>>>>),
    S(<<"local", "f", "repeat", "local", "x", "=", "4", "f", "=", "function", "(", ")", "return",
     "x", "end", "until", "x", "==", "4", "return", "f", "(", ")">>, <<"returns", <<Num(4)>>>>),
    S(<<"local", "n", ",", "f", "=", "0", "repeat", "local", "x", "=", "n", "f", "=", "f", "or",
     "function", "(", ")", "return", "x", "end", "n", "=", "n", "+", "1", "until", "x", "==", "2",
     "return", "f", "(", ")", ",", "n">>, <<"returns", <<Num(0), Num(3)>>>>),
    S(<<"local", "function", "f", "(", "n", ")", "if", "n", "==", "0", "then", "return", "'q'",
     "end", "return", "f", "(", "n", "-", "1", ")", "end", "return", "f", "(", "3", ")">>,
     <<"returns", <<Str(<<"q">>)>>>>),
    S(<<"local", "function", "f", "(", ")", "local", "x", "=", "1", "local", "function", "g", "(",
     ")", "x", "=", "x", "+", "1", "return", "x", "end", "return", "g", ",", "function", "(", ")",
     "return", "x", "end", "end", "local", "g", ",", "h", "=", "f", "(", ")", "g", "(", ")", "g",
     "(", ")", "return", "h", "(", ")">>, <<"returns", <<Num(3)>>>>),
    S(<<"local", "o", "=", "{", "v", "=", "3", "}", "function", "o", ":", "add", "(", "n", ")",
     "self", ".", "v", "=", "self", ".", "v", "+", "n", "return", "self", ".", "v", "end", "return",
     "o", ":", "add", "(", "4", ")", ",", "o", ".", "v">>, <<"returns", <<Num(7), Num(7)>>>>),
    S(<<"local", "t", "=", "{", "u", "=", "{", "}", "}", "function", "t", ".", "u", ".", "f", "(",
     "x", ")", "return", "-", "x", "end", "return", "t", ".", "u", ".", "f", "(", "2", ")", ",",
     "t", ".", "u", ".", "f", "'1'">>, <<"returns", <<Num(-2), Num(-1)>>>>),
    S(<<"function", "f", "(", "t", ")", "return", "t", "[", "1", "]", "end", "return", "f", "{",
     "5", "}", ",", "f", "(", "{", "f", "}", ")", "==", "f">>, <<"returns", <<Num(5),
     Bool(TRUE)>>>>),
    S(<<"local", "a", ",", "b", ",", "c", ",", "d", "=", "1", ",", "2", ",", "3", ",", "4",
     "return", "a", "..", "b", "..", "c", ",", "d", "%", "3", ",", "2", "^", "3", "^", "1", ",",
     "-", "2", "^", "2", ",", "7", "-", "4", "-", "1", ",", "6", "/", "3", "*", "2">>, <<"returns",
     <<Str(<<"1", "2", "3">>), Num(1), Num(8), Num(-4), Num(2), Num(4)>>>>),
    S(<<"local", "a", "=", "1", "do", "local", "a", "=", "2", "g", "=", "a", "end", "return", "a",
     ",", "g">>, <<"returns", <<Num(1), Num(2)>>>>),
    S(<<"if", "nil", "then", "g", "=", "1", "elseif", "g", "then", "g", "=", "2", "elseif", "not",
     "g", "then", "g", "=", "3", "else", "g", "=", "4", "end", "return", "g">>, <<"returns",
     <<Num(3)>>>>),
    S(<<"local", "x", "=", "{", "'p'", "<", "'q'", ",", "'q'", "<=", "'p'", ",", "1", ">", "2", ",",
     "2", ">=", "2", "}", "return", "x", "[", "1", "]", ",", "x", "[", "2", "]", ",", "x", "[", "3",
     "]", ",", "x", "[", "4", "]">>, <<"returns", <<Bool(TRUE), Bool(FALSE), Bool(FALSE),
     Bool(TRUE)>>>>),
    S(<<"local", "t", "=", "{", "}", "t", "[", "nil", "]", "=", "1">>, RunErr),
    S(<<"local", "n", "=", "1", "n", ".", "x", "=", "2">>, RunErr),
    S(<<"return", "1", "<", "'p'">>, RunErr),
    S(<<"return", "f", "(", ")">>, RunErr),
    S(<<"break">>, SyntaxErr),
    S(<<"local", "x", "=", "...", "return", "function", "(", ")", "return", "...", "end">>,
     SyntaxErr),
    S(<<"return", "=", "1">>, SyntaxErr),
    S(<<"f", "(", ")", "=", "1">>, SyntaxErr),
    S(<<"for", "i", "do", "end">>, SyntaxErr),
    S(<<"local", "a", ",", "b", ",", "c", ",", "d", ",", "e", ",", "f", ",", "g", ",", "h", ",",
     "i">>, SyntaxErr),
    S(<<"local", "function", "f", "(", "x", ")", "return", "x", "+", "f", "(", "x", ")", "end",
     "return", "f", "(", "1", ")">>, RunErr),
    S(<<"local", "a", ",", "b", "=", "1", ",", "2", "local", "function", "f", "(", ")", "local",
     "function", "g", "(", ")", "a", ",", "b", "=", "b", ",", "a", "return", "a", "end", "return",
     "g", "(", ")", "end", "return", "f", "(", ")", ",", "a", ",", "b">>, <<"returns", <<Num(2),
     Num(2), Num(1)>>>>),
    S(<<"return", "(", "(", "(", "(", "(", "(", "1", ")", ")", ")", ")", ")", ")">>, <<"returns",
     <<Num(1)>>>>),
    S(<<"return", "(", "(", "(", "(", "(", "(", "(", "(", "1", ")", ")", ")", ")", ")", ")", ")",
     ")">>, SyntaxErr),
    S(<<"return", "#", "{", "4", ",", "5", "}", "..", "1", ",", "#", "'p'">>, <<"returns",
     <<Str(<<"2", "1">>), Num(1)>>>>),
    S(<<"local", "a", "do", "local", "x", "=", "7", "end", "if", "a", "then", "local", "b", "end",
     "local", "c", "return", "c">>, <<"returns", <<Nil>>>>)}

\* Lists of one batch more than a SETLIST names: 7 and 8 items of 2 in a batch,
\* with MAXARG_C = 3.
LongLists == {
    S(<<"local", "t", "=", "{", "1", ",", "2", ",", "3", ",", "4", ",", "5", ",", "6", ",", "9",
     "}", "return", "#", "t", ",", "t", "[", "1", "]", ",", "t", "[", "6", "]", ",", "t", "[",
     "7", "]">>, <<"returns", <<Num(7), Num(1), Num(6), Num(9)>>>>),
    S(<<"local", "function", "f", "(", ")", "return", "4", ",", "5", "end", "local", "t", "while",
     "true", "do", "t", "=", "{", "1", ",", "2", ",", "3", ",", "4", ",", "5", ",", "6", ",",
     "f", "(", ")", "}", "break", "end", "return", "#", "t", ",", "t", "[", "8", "]">>,
     <<"returns", <<Num(8), Num(5)>>>>)}

Pieces == <<"p", "q">>
Scripts == ExpressionPrograms \cup StatementPrograms \cup LongLists

-----------------------------------------------------------------------------
\* The hash of a number is the sum of the two words of its double, the lower of
\* which is 0 for 1 to 9; of a string, its characters' mix.
HighWord == <<1072693248, 1073741824, 1074266112, 1074790400,
              1075052544, 1075314688, 1075576832, 1075838976, 1075970048>>
TableHash == [k \in 1 .. MAX_INT \cup Strings |->
                CASE k = s1 -> 97 [] k = s2 -> 99 [] OTHER -> HighWord[k]]

EmptyScript == S(<<>>, <<"returns", <<>>>>)

MCInit ==
  \/ part = "script" /\ tbl = luaH_new(0, 0) /\ TableInit /\ Init
  \/ part = "table" /\ prog = EmptyScript /\ NewState /\ TableInit

ScriptStep == part = "script" /\ Next /\ UNCHANGED <<part, tableVars>>
TableStep == part = "table" /\ TableNext /\ UNCHANGED <<part, vars>>

MCSpec == MCInit /\ [][ScriptStep \/ TableStep]_<<part, vars, tableVars>>
=============================================================================
