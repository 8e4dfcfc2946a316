---------------------------- MODULE ScriptsProofs ----------------------------
(***************************************************************************)
(* Proofs about the four parts of MCScripts.                               *)
(*                                                                         *)
(* The life of the scripts (ScriptEngine), for every set of files and      *)
(* every number of Lua states.  All three properties are about the frame   *)
(* on top of the C stack, but frames below come to the top again.          *)
(* reload() never returns, so those that matter to FreshPerBattle are the  *)
(* ones that no frame of reload() covers (Fresh); as long as nothing that  *)
(* F11 loaded has ended, those that matter to RunsChosen are the ones      *)
(* above the last load (Follows).                                          *)
(*                                                                         *)
(* Then, for every set of files, directories, addresses and streams, the   *)
(* reports of a script's errors (HttpClient), the files that it reads and  *)
(* writes (LuaIO), and the files it is in (LoadFile).                      *)
(***************************************************************************)
EXTENDS MCScripts, SequenceTheorems, TLAPS

Frames ==
  [kind : Loaders \cup {"yield", "script"}, file : Files \cup {NoFile}, L : 0 .. MaxStates]

TypeOK ==
  /\ stack \in Seq(Frames)
  /\ state \in States /\ DOMAIN file = States
  /\ scriptName \in Files \cup {NoFile} /\ chosen \in Files

\* Control is outside of yield only in a battle that get_th105param has seen.
OutsideInBattle == ~ended /\ ~Top("yield") => mode

\* While the bot believes to be in a battle, no script that can still come back to the top
\* of the stack is one from before it.
Fresh ==
  mode /\ ~ended => \A i \in 1 .. Len(stack) :
    (\A j \in i .. Len(stack) : stack[j].kind # "reload") =>
      (stack[i].kind = "script" => stack[i].L \notin old)

\* The last load is of the chosen file, and what it started runs that file.
Follows ==
  plain =>
    /\ scriptName = chosen
    /\ \A i \in 1 .. Len(stack) :
         (\A j \in i + 1 .. Len(stack) : stack[j].kind \notin Loaders) =>
           /\ stack[i].kind \in Loaders => stack[i].file = chosen
           /\ stack[i].kind = "script" => stack[i].L = state /\ file[state] = chosen

EngineInv == TypeOK /\ state \in open /\ OutsideInBattle /\ Fresh /\ Follows

-----------------------------------------------------------------------------
LEMMA PushTwo ==
  ASSUME NEW S, NEW s \in Seq(S), NEW a \in S, NEW b \in S
  PROVE  /\ s \o <<a, b>> \in Seq(S) /\ Len(s \o <<a, b>>) = Len(s) + 2
         /\ \A i \in 1 .. Len(s) : (s \o <<a, b>>)[i] = s[i]
         /\ (s \o <<a, b>>)[Len(s) + 1] = a /\ (s \o <<a, b>>)[Len(s) + 2] = b
<1>1. /\ <<a, b>> \in Seq(S) /\ Len(<<a, b>>) = 2 /\ <<a, b>>[1] = a /\ <<a, b>>[2] = b
      /\ Len(s) \in Nat
  BY LenProperties
<1>2. /\ s \o <<a, b>> \in Seq(S) /\ Len(s \o <<a, b>>) = Len(s) + Len(<<a, b>>)
      /\ \A i \in 1 .. Len(s) + Len(<<a, b>>) :
           (s \o <<a, b>>)[i] = IF i <= Len(s) THEN s[i] ELSE <<a, b>>[i - Len(s)]
  BY <1>1, ConcatProperties
<1>3. \A i \in 1 .. Len(s) + 2 :
        (s \o <<a, b>>)[i] = IF i <= Len(s) THEN s[i] ELSE <<a, b>>[i - Len(s)]
  BY <1>1, <1>2
<1>4. /\ (s \o <<a, b>>)[Len(s) + 1] = <<a, b>>[Len(s) + 1 - Len(s)]
      /\ (s \o <<a, b>>)[Len(s) + 2] = <<a, b>>[Len(s) + 2 - Len(s)]
  BY <1>1, <1>3
<1>5. Len(s) + 1 - Len(s) = 1 /\ Len(s) + 2 - Len(s) = 2
  BY <1>1
<1>6. QED
  BY <1>1, <1>2, <1>3, <1>4, <1>5

LEMMA FrontFacts ==
  ASSUME NEW S, NEW s \in Seq(S)
  PROVE  /\ Front(s) \in Seq(S)
         /\ Len(Front(s)) = IF Len(s) = 0 THEN 0 ELSE Len(s) - 1
         /\ \A i \in 1 .. Len(Front(s)) : Front(s)[i] = s[i]
<1>1. Len(s) \in Nat /\ Len(s) - 1 \in Int /\ 1 \in Int
  BY LenProperties
<1>2. \A i \in 1 .. Len(s) - 1 : s[i] \in S
  BY <1>1, ElementOfSeq
<1>3. /\ Front(s) \in Seq(S)
      /\ Len(Front(s)) = IF 1 <= Len(s) - 1 THEN (Len(s) - 1) - 1 + 1 ELSE 0
      /\ \A i \in 1 .. (Len(s) - 1) - 1 + 1 : Front(s)[i] = s[1 + i - 1]
  BY <1>1, <1>2, SubSeqProperties DEF Front
<1>4. QED
  BY <1>1, <1>3

LEMMA EngineInit == Init => EngineInv
<1> SUFFICES ASSUME NEW f \in Files,
                    /\ stack = <<Frame("OpenAI", f, 0), InYield>>
                    /\ loadable = FALSE /\ scriptName = f
                    /\ protect_flag = TRUE
                    /\ state = 1 /\ open = {1} /\ file = [s \in States |-> NoFile]
                    /\ battle = FALSE /\ mode = FALSE
                    /\ ended = FALSE
                    /\ chosen = f /\ plain = TRUE /\ old = {}
             PROVE  EngineInv
  BY DEF Init
<1>1. Len(stack) = 2 /\ stack[1] = Frame("OpenAI", f, 0) /\ stack[2] = InYield
  OBVIOUS
<1>2. stack \in Seq(Frames)
  <2>1. Frame("OpenAI", f, 0) \in Frames /\ InYield \in Frames
    BY MaxStatesAssumption DEF Frame, InYield, Frames, Loaders, NoFile
  <2>2. QED
    BY <2>1
<1>3. TypeOK
  BY <1>2, MaxStatesAssumption DEF TypeOK, States
<1>4. Top("yield")
  BY <1>1 DEF Top, Last, InYield, Frame
<1>5. OutsideInBattle /\ Fresh /\ state \in open
  BY <1>4 DEF OutsideInBattle, Fresh
<1>6. Follows
  BY <1>1 DEF Follows, Frame, InYield, Loaders
<1>7. QED
  BY <1>3, <1>5, <1>6 DEF EngineInv

-----------------------------------------------------------------------------
(* Loading anew: F12, F11, a battle that begins, an error.                     *)

LEMMA LoadAnewFacts ==
  ASSUME TypeOK, NEW kind \in Loaders, NEW f \in Files \cup {NoFile}, LoadAnew(kind, f)
  PROVE  /\ stack' \in Seq(Frames) /\ Len(stack') = Len(stack) + 2 /\ Len(stack) \in Nat
         /\ \A i \in 1 .. Len(stack) : stack'[i] = stack[i]
         /\ stack'[Len(stack) + 1] = Frame(kind, f, 0) /\ stack'[Len(stack) + 2] = InYield
         /\ state' \in States /\ state' \in open'
         /\ file' = file /\ ended' = ended
         /\ ~ended => Top("yield")'
<1>1. Frame(kind, f, 0) \in Frames /\ InYield \in Frames
  BY MaxStatesAssumption DEF Frame, InYield, Frames, Loaders, NoFile
<1>2. /\ stack' \in Seq(Frames) /\ Len(stack') = Len(stack) + 2 /\ Len(stack) \in Nat
      /\ \A i \in 1 .. Len(stack) : stack'[i] = stack[i]
      /\ stack'[Len(stack) + 1] = Frame(kind, f, 0) /\ stack'[Len(stack) + 2] = InYield
  BY <1>1, PushTwo, LenProperties DEF LoadAnew, TypeOK
<1>3. state' \in States /\ state' \in open' /\ file' = file /\ ended' = ended
  BY MaxStatesAssumption DEF LoadAnew, TypeOK, States
<1>4. ~ended => Top("yield")'
  <2>1. stack' # <<>> /\ Last(stack') = InYield
    BY <1>2 DEF Last
  <2>2. QED
    BY <1>3, <2>1 DEF Top, InYield, Frame
<1>5. QED
  BY <1>2, <1>3, <1>4

\* Whatever is loaded anew by name: the file of the name is the one that runs.
LEMMA LoadAnewFollows ==
  ASSUME TypeOK, NEW kind \in Loaders, NEW f \in Files \cup {NoFile}, LoadAnew(kind, f),
         plain' => scriptName' = chosen' /\ f = chosen'
  PROVE  Follows'
<1> SUFFICES ASSUME plain', NEW i \in 1 .. Len(stack'),
                    \A j \in i + 1 .. Len(stack') : stack'[j].kind \notin Loaders
             PROVE  /\ stack'[i].kind \in Loaders => stack'[i].file = chosen'
                    /\ stack'[i].kind = "script" => stack'[i].L = state' /\ file'[state'] = chosen'
  BY DEF Follows
<1>1. /\ Len(stack') = Len(stack) + 2 /\ Len(stack) \in Nat
      /\ stack'[Len(stack) + 1] = Frame(kind, f, 0) /\ stack'[Len(stack) + 2] = InYield
  BY LoadAnewFacts
<1>2. stack'[Len(stack) + 1].kind \in Loaders
  BY <1>1 DEF Frame
<1>3. i = Len(stack) + 1 \/ i = Len(stack) + 2
  <2>1. SUFFICES ASSUME i <= Len(stack) PROVE FALSE
    BY <1>1
  <2>2. Len(stack) + 1 \in i + 1 .. Len(stack')
    BY <1>1, <2>1
  <2>3. QED
    BY <1>2, <2>2
<1>4. QED
  BY <1>1, <1>3 DEF Frame, InYield, Loaders

\* reload(), which the game, the user and an error come to: nothing below it comes back.
LEMMA ReloadKeeps ==
  ASSUME EngineInv, ~ended, Reload, UNCHANGED <<chosen, plain>>
  PROVE  EngineInv'
<1> USE DEF EngineInv
<1>1. CASE Exit
  <2>1. ended' /\ UNCHANGED <<stack, loadable, scriptName, state, open, file>>
    BY <1>1 DEF Exit, engine
  <2>2. TypeOK' /\ (state \in open)' /\ OutsideInBattle' /\ Fresh' /\ Follows'
    BY <2>1 DEF TypeOK, OutsideInBattle, Fresh, Follows
  <2>3. QED
    BY <2>2
<1>2. CASE LoadAnew("reload", scriptName) /\ scriptName # NoFile
  <2>1. "reload" \in Loaders /\ scriptName \in Files \cup {NoFile}
    BY DEF Loaders, TypeOK
  <2>2. /\ stack' \in Seq(Frames) /\ Len(stack') = Len(stack) + 2 /\ Len(stack) \in Nat
        /\ stack'[Len(stack) + 1] = Frame("reload", scriptName, 0)
        /\ stack'[Len(stack) + 2] = InYield
        /\ state' \in States /\ state' \in open' /\ file' = file
        /\ Top("yield")'
    BY <1>2, <2>1, LoadAnewFacts
  <2>3. scriptName' = scriptName
    BY <1>2 DEF LoadAnew, EndedName
  <2>4. TypeOK'
    BY <2>2, <2>3 DEF TypeOK
  <2>5. OutsideInBattle'
    BY <2>2 DEF OutsideInBattle
  <2>6. Fresh'
    <3> SUFFICES ASSUME NEW i \in 1 .. Len(stack'),
                        \A j \in i .. Len(stack') : stack'[j].kind # "reload"
                 PROVE  stack'[i].kind # "script"
      BY DEF Fresh
    <3>1. stack'[Len(stack) + 1].kind = "reload"
      BY <2>2 DEF Frame
    <3>2. i = Len(stack) + 2
      <4>1. SUFFICES ASSUME i <= Len(stack) + 1 PROVE FALSE
        BY <2>2
      <4>2. Len(stack) + 1 \in i .. Len(stack')
        BY <2>2, <4>1
      <4>3. QED
        BY <3>1, <4>2
    <3>3. QED
      BY <2>2, <3>2 DEF InYield, Frame
  <2>7. Follows'
    <3>1. plain' => scriptName' = chosen' /\ scriptName = chosen'
      BY <2>3 DEF Follows
    <3>2. QED
      BY <1>2, <2>1, <3>1, LoadAnewFollows
  <2>8. QED
    BY <2>2, <2>4, <2>5, <2>6, <2>7
<1>3. QED
  BY <1>1, <1>2 DEF Reload

LEMMA F11Keeps ==
  ASSUME EngineInv, NEW f \in Files, PressF11(f)
  PROVE  EngineInv'
<1> USE DEF EngineInv
<1>1. /\ LoadAnew("reload2", f) /\ chosen' = f /\ plain' = (plain /\ loadable)
      /\ UNCHANGED <<battle, mode, old>> /\ ~ended
  BY DEF PressF11, game, Top
<1>2. "reload2" \in Loaders /\ f \in Files \cup {NoFile}
  BY DEF Loaders
<1>3. /\ stack' \in Seq(Frames) /\ Len(stack') = Len(stack) + 2 /\ Len(stack) \in Nat
      /\ \A i \in 1 .. Len(stack) : stack'[i] = stack[i]
      /\ stack'[Len(stack) + 1] = Frame("reload2", f, 0)
      /\ stack'[Len(stack) + 2] = InYield
      /\ state' \in States /\ state' \in open' /\ file' = file /\ ended' = ended
      /\ Top("yield")'
  BY <1>1, <1>2, LoadAnewFacts
<1>4. scriptName' \in Files \cup {NoFile} /\ (loadable => scriptName' = f)
  BY <1>1 DEF LoadAnew, EndedName, TypeOK
<1>5. TypeOK'
  BY <1>1, <1>3, <1>4 DEF TypeOK
<1>6. OutsideInBattle'
  BY <1>3 DEF OutsideInBattle
<1>7. Fresh'
  <2> SUFFICES ASSUME mode, NEW i \in 1 .. Len(stack'),
                      \A j \in i .. Len(stack') : stack'[j].kind # "reload",
                      stack'[i].kind = "script"
               PROVE  stack'[i].L \notin old
    BY <1>1 DEF Fresh
  <2>1. i \in 1 .. Len(stack)
    BY <1>3 DEF Frame, InYield
  <2>2. \A j \in i .. Len(stack) : j \in i .. Len(stack') /\ stack'[j] = stack[j]
    BY <1>3, <2>1
  <2>3. \A j \in i .. Len(stack) : stack[j].kind # "reload"
    BY <2>2
  <2>4. QED
    BY <1>1, <1>3, <2>1, <2>3 DEF Fresh
<1>8. Follows'
  BY <1>1, <1>2, <1>4, LoadAnewFollows
<1>9. QED
  BY <1>3, <1>5, <1>6, <1>7, <1>8

LEMMA ExitKeeps ==
  ASSUME EngineInv, Exit, UNCHANGED <<chosen, plain>>
  PROVE  EngineInv'
<1>1. ended' /\ UNCHANGED <<stack, scriptName, state, open, file>>
  BY DEF Exit, engine
<1>2. TypeOK' /\ (state \in open)' /\ OutsideInBattle' /\ Fresh' /\ Follows'
  BY <1>1 DEF EngineInv, TypeOK, OutsideInBattle, Fresh, Follows
<1>3. QED
  BY <1>2 DEF EngineInv

\* A battle begins only after get_th105param has seen the one before it end: until it has
\* seen this one no script runs.
LEMMA GameKeeps ==
  ASSUME EngineInv, GameStep
  PROVE  EngineInv'
<1>1. /\ UNCHANGED <<stack, scriptName, state, open, file, mode, ended, chosen, plain>>
      /\ mode => UNCHANGED old
  BY DEF GameStep, BattleBegins, BattleEnds, engine, user
<1>2. TypeOK' /\ (state \in open)'
  BY <1>1 DEF EngineInv, TypeOK
<1>3. OutsideInBattle' /\ Fresh' /\ Follows'
  BY <1>1 DEF EngineInv, OutsideInBattle, Fresh, Follows, Top
<1>4. QED
  BY <1>2, <1>3 DEF EngineInv

LEMMA SeesKeeps ==
  ASSUME EngineInv, get_th105param
  PROVE  EngineInv'
<1>1. /\ Top("yield") /\ ~ended /\ UNCHANGED <<chosen, plain, old>> /\ mode' = battle
      /\ IF battle THEN Reload ELSE UNCHANGED <<stack, engine, protect_flag, ended>>
  BY DEF get_th105param, Top, user
<1>2. CASE battle
  BY <1>1, <1>2, ReloadKeeps
<1>3. CASE ~battle
  <2>1. UNCHANGED <<stack, scriptName, state, open, file, ended>>
    BY <1>1, <1>3 DEF engine
  <2>2. OutsideInBattle' /\ (state \in open)'
    BY <1>1, <2>1 DEF EngineInv, OutsideInBattle, Top
  <2>3. Fresh'
    <3>1. mode' = battle
      BY <1>1
    <3>2. QED
      BY <1>1, <1>3, <2>1 DEF EngineInv, Fresh, get_th105param
  <2>4. TypeOK' /\ Follows'
    BY <1>1, <2>1 DEF EngineInv, TypeOK, Follows
  <2>5. QED
    BY <2>2, <2>3, <2>4 DEF EngineInv
<1>4. QED
  BY <1>2, <1>3

-----------------------------------------------------------------------------
(* Frames that come back to the top, and those that are put on it.             *)

LEMMA TopFacts ==
  ASSUME NEW S, NEW s \in Seq(S), s # <<>>
  PROVE  /\ Len(s) \in Nat /\ Len(s) >= 1 /\ Len(Front(s)) = Len(s) - 1
         /\ Last(s) = s[Len(s)] /\ Last(s) \in S
<1>1. Len(s) \in Nat /\ Len(s) # 0
  BY LenProperties, EmptySeq
<1>2. Len(Front(s)) = Len(s) - 1
  BY <1>1, FrontFacts
<1>3. Last(s) \in S
  BY <1>1, ElementOfSeq DEF Last
<1>4. QED
  BY <1>1, <1>2, <1>3 DEF Last

LEMMA YieldKeeps ==
  ASSUME EngineInv, YieldReturns
  PROVE  EngineInv'
<1>1. /\ stack' = Front(stack) /\ mode /\ Top("yield")
      /\ UNCHANGED <<scriptName, state, open, file, mode, ended, chosen, plain, old>>
  BY DEF YieldReturns, game, user
<1>2. stack \in Seq(Frames) /\ stack # <<>> /\ Last(stack).kind = "yield"
  BY <1>1 DEF EngineInv, TypeOK, Top
<1>3. /\ Len(stack) \in Nat /\ Len(stack) >= 1 /\ Len(stack') = Len(stack) - 1
      /\ stack[Len(stack)].kind = "yield"
  BY <1>1, <1>2, TopFacts
<1>4. stack' \in Seq(Frames) /\ \A i \in 1 .. Len(stack') : stack'[i] = stack[i]
  BY <1>1, <1>2, FrontFacts
<1>5. TypeOK' /\ (state \in open)' /\ OutsideInBattle'
  BY <1>1, <1>4 DEF EngineInv, TypeOK, OutsideInBattle
<1>6. Fresh'
  <2> SUFFICES ASSUME ~ended, NEW i \in 1 .. Len(stack'),
                      \A j \in i .. Len(stack') : stack'[j].kind # "reload",
                      stack'[i].kind = "script"
               PROVE  stack'[i].L \notin old
    BY <1>1 DEF Fresh
  <2>1. i \in 1 .. Len(stack) /\ stack'[i] = stack[i]
    BY <1>3, <1>4
  <2>2. ASSUME NEW j \in i .. Len(stack) PROVE stack[j].kind # "reload"
    <3>1. j \in 1 .. Len(stack') \/ j = Len(stack)
      BY <1>3, <2>1
    <3>2. QED
      BY <1>3, <1>4, <3>1
  <2>3. QED
    BY <1>1, <2>1, <2>2 DEF EngineInv, Fresh
<1>7. Follows'
  <2> SUFFICES ASSUME plain, NEW i \in 1 .. Len(stack'),
                      \A j \in i + 1 .. Len(stack') : stack'[j].kind \notin Loaders
               PROVE  /\ stack'[i].kind \in Loaders => stack'[i].file = chosen
                      /\ stack'[i].kind = "script" =>
                           stack'[i].L = state /\ file[state] = chosen
    BY <1>1 DEF EngineInv, Follows
  <2>1. i \in 1 .. Len(stack) /\ stack'[i] = stack[i]
    BY <1>3, <1>4
  <2>2. ASSUME NEW j \in i + 1 .. Len(stack) PROVE stack[j].kind \notin Loaders
    <3>1. j \in 1 .. Len(stack') \/ j = Len(stack)
      BY <1>3, <2>1
    <3>2. QED
      BY <1>3, <1>4, <3>1 DEF Loaders
  <2>3. QED
    BY <1>1, <2>1, <2>2 DEF EngineInv, Follows
<1>8. QED
  BY <1>5, <1>6, <1>7 DEF EngineInv

LEMMA PushOne ==
  ASSUME NEW S, NEW s \in Seq(S), NEW a \in S
  PROVE  /\ Append(s, a) \in Seq(S) /\ Len(Append(s, a)) = Len(s) + 1
         /\ Append(s, a)[Len(s) + 1] = a /\ \A i \in 1 .. Len(s) : Append(s, a)[i] = s[i]
BY AppendProperties

LEMMA ScriptYieldsKeeps ==
  ASSUME EngineInv, ScriptYields
  PROVE  EngineInv'
<1>1. /\ stack' = Append(stack, InYield) /\ Top("script")
      /\ UNCHANGED <<scriptName, state, open, file, mode, ended, chosen, plain, old>>
  BY DEF ScriptYields, engine, game, user
<1>2. stack \in Seq(Frames) /\ InYield \in Frames /\ Len(stack) \in Nat
  BY <1>1, MaxStatesAssumption, LenProperties
     DEF EngineInv, TypeOK, InYield, Frame, Frames, NoFile
<1>3. /\ stack' \in Seq(Frames) /\ Len(stack') = Len(stack) + 1
      /\ stack'[Len(stack) + 1] = InYield /\ \A i \in 1 .. Len(stack) : stack'[i] = stack[i]
  BY <1>1, <1>2, PushOne
<1>4. TypeOK' /\ (state \in open)'
  BY <1>1, <1>3 DEF EngineInv, TypeOK
<1>5. OutsideInBattle'
  BY <1>1 DEF EngineInv, OutsideInBattle, Top
<1>6. Fresh'
  <2> SUFFICES ASSUME mode, ~ended, NEW i \in 1 .. Len(stack'),
                      \A j \in i .. Len(stack') : stack'[j].kind # "reload",
                      stack'[i].kind = "script"
               PROVE  stack'[i].L \notin old
    BY <1>1 DEF Fresh
  <2>1. i \in 1 .. Len(stack)
    BY <1>2, <1>3 DEF InYield, Frame
  <2>2. \A j \in i .. Len(stack) : j \in i .. Len(stack') /\ stack'[j] = stack[j]
    BY <1>2, <1>3, <2>1
  <2>3. QED
    BY <1>3, <2>1, <2>2 DEF EngineInv, Fresh
<1>7. Follows'
  <2> SUFFICES ASSUME plain, NEW i \in 1 .. Len(stack'),
                      \A j \in i + 1 .. Len(stack') : stack'[j].kind \notin Loaders
               PROVE  /\ stack'[i].kind \in Loaders => stack'[i].file = chosen
                      /\ stack'[i].kind = "script" =>
                           stack'[i].L = state /\ file[state] = chosen
    BY <1>1 DEF EngineInv, Follows
  <2>1. CASE i = Len(stack) + 1
    BY <1>3, <2>1 DEF InYield, Frame, Loaders
  <2>2. CASE i \in 1 .. Len(stack)
    <3>1. \A j \in i + 1 .. Len(stack) : j \in i + 1 .. Len(stack') /\ stack'[j] = stack[j]
      BY <1>2, <1>3, <2>2
    <3>2. QED
      BY <1>1, <1>3, <2>2, <3>1 DEF EngineInv, Follows
  <2>3. QED
    BY <1>2, <1>3, <2>1, <2>2
<1>8. QED
  BY <1>4, <1>5, <1>6, <1>7 DEF EngineInv

\* The state that a file is executed in is the current one, which no battle has seen yet.
LEMMA ExecuteKeeps ==
  ASSUME EngineInv, Execute
  PROVE  EngineInv'
<1>1. /\ stack' = Append(stack, Frame("script", NoFile, state))
      /\ file' = [file EXCEPT ![state] = Last(stack).file] /\ old' = old \ {state}
      /\ UNCHANGED <<scriptName, state, open, mode, ended, chosen, plain>>
      /\ ~ended /\ stack # <<>> /\ Last(stack).kind \in Loaders
  BY DEF Execute, game, user, Top
<1>2. /\ stack \in Seq(Frames) /\ state \in States /\ Frame("script", NoFile, state) \in Frames
  BY <1>1, MaxStatesAssumption DEF EngineInv, TypeOK, Frame, Frames, NoFile, States
<1>3. /\ stack' \in Seq(Frames) /\ Len(stack') = Len(stack) + 1
      /\ stack'[Len(stack) + 1] = Frame("script", NoFile, state)
      /\ \A i \in 1 .. Len(stack) : stack'[i] = stack[i]
  BY <1>1, <1>2, PushOne
<1>4. /\ Len(stack) \in Nat /\ Len(stack) >= 1 /\ Last(stack) = stack[Len(stack)]
  BY <1>1, <1>2, TopFacts
<1>5. TypeOK' /\ (state \in open)'
  BY <1>1, <1>3 DEF EngineInv, TypeOK
<1>6. mode /\ OutsideInBattle'
  <2>1. ~Top("yield")
    BY <1>1 DEF Top, Loaders
  <2>2. QED
    BY <1>1, <2>1 DEF EngineInv, OutsideInBattle
<1>7. Fresh'
  <2> SUFFICES ASSUME NEW i \in 1 .. Len(stack'),
                      \A j \in i .. Len(stack') : stack'[j].kind # "reload",
                      stack'[i].kind = "script"
               PROVE  stack'[i].L \notin old'
    BY DEF Fresh
  <2>1. CASE i = Len(stack) + 1
    BY <1>1, <1>3, <2>1 DEF Frame
  <2>2. CASE i \in 1 .. Len(stack)
    <3>1. \A j \in i .. Len(stack) : j \in i .. Len(stack') /\ stack'[j] = stack[j]
      BY <1>3, <1>4, <2>2
    <3>2. stack[i].L \notin old
      BY <1>1, <1>3, <1>6, <2>2, <3>1 DEF EngineInv, Fresh
    <3>3. QED
      BY <1>1, <1>3, <2>2, <3>2
  <2>3. QED
    BY <1>3, <1>4, <2>1, <2>2
<1>8. Follows'
  <2> SUFFICES ASSUME plain, NEW i \in 1 .. Len(stack'),
                      \A j \in i + 1 .. Len(stack') : stack'[j].kind \notin Loaders
               PROVE  /\ stack'[i].kind \in Loaders => stack'[i].file = chosen
                      /\ stack'[i].kind = "script" =>
                           stack'[i].L = state /\ file'[state] = chosen
    BY <1>1 DEF EngineInv, Follows
  <2>1. stack[Len(stack)].file = chosen /\ stack[Len(stack)].kind \in Loaders
    <3>1. \A j \in Len(stack) + 1 .. Len(stack) : stack[j].kind \notin Loaders
      BY <1>4
    <3>2. Len(stack) \in 1 .. Len(stack)
      BY <1>4
    <3>3. QED
      BY <1>1, <1>4, <3>1, <3>2 DEF EngineInv, Follows
  <2>2. file'[state] = chosen
    BY <1>1, <1>2, <1>4, <2>1 DEF EngineInv, TypeOK
  <2>3. CASE i = Len(stack) + 1
    BY <1>3, <2>2, <2>3 DEF Frame, Loaders
  <2>4. CASE i = Len(stack)
    BY <1>3, <1>4, <2>1, <2>4 DEF Loaders
  <2>5. ASSUME i < Len(stack) PROVE FALSE
    <3>1. Len(stack) \in i + 1 .. Len(stack') /\ Len(stack) \in 1 .. Len(stack)
      BY <1>3, <1>4, <2>5
    <3>2. QED
      BY <1>3, <2>1, <3>1
  <2>6. QED
    BY <1>3, <1>4, <2>3, <2>4, <2>5
<1>9. QED
  BY <1>5, <1>6, <1>7, <1>8 DEF EngineInv

\* A script that F11 loaded ends: the yield that was interrupted goes on.  No frame of
\* reload() lies between the two, so what Fresh says of the frames below still holds.
LEMMA ScriptReturnsKeeps ==
  ASSUME EngineInv, ScriptReturns
  PROVE  EngineInv'
<1> DEFINE waiting == Last(Front(stack))
<1>1. Top("script") /\ ~ended /\ UNCHANGED <<mode, chosen, old>>
  BY DEF ScriptReturns, game, Top
<1>2. CASE waiting.kind # "reload2"
  BY <1>2, ExitKeeps DEF ScriptReturns
<1>3. CASE waiting.kind = "reload2"
  <2>1. /\ stack' = Front(Front(stack)) /\ plain' = FALSE
        /\ UNCHANGED <<scriptName, state, open, file, ended>>
    BY <1>3 DEF ScriptReturns, engine
  <2>2. stack \in Seq(Frames) /\ stack # <<>> /\ Last(stack).kind = "script"
    BY <1>1 DEF EngineInv, TypeOK, Top
  <2>3. /\ Len(stack) \in Nat /\ Len(stack) >= 1 /\ Len(Front(stack)) = Len(stack) - 1
        /\ stack[Len(stack)].kind = "script"
    BY <2>2, TopFacts
  <2>4. Front(stack) \in Seq(Frames) /\ \A i \in 1 .. Len(Front(stack)) : Front(stack)[i] = stack[i]
    BY <2>2, FrontFacts
  <2>5. /\ stack' \in Seq(Frames)
        /\ Len(stack') = IF Len(Front(stack)) = 0 THEN 0 ELSE Len(Front(stack)) - 1
        /\ \A i \in 1 .. Len(stack') : stack'[i] = Front(stack)[i]
    BY <2>1, <2>4, FrontFacts
  <2>6. TypeOK' /\ (state \in open)' /\ Follows'
    BY <1>1, <2>1, <2>5 DEF EngineInv, TypeOK, Follows
  <2>7. OutsideInBattle'
    BY <1>1, <2>1 DEF EngineInv, OutsideInBattle, Top
  <2>8. Fresh'
    <3> SUFFICES ASSUME mode, NEW i \in 1 .. Len(stack'),
                        \A j \in i .. Len(stack') : stack'[j].kind # "reload",
                        stack'[i].kind = "script"
                 PROVE  stack'[i].L \notin old
      BY <1>1 DEF Fresh
    <3>1. Len(stack') = Len(stack) - 2 /\ Len(stack) >= 2
      BY <2>3, <2>5
    <3>2. \A j \in 1 .. Len(stack') : stack'[j] = stack[j]
      BY <2>3, <2>4, <2>5, <3>1
    <3>3. stack[Len(stack) - 1].kind = "reload2"
      <4>1. waiting = Front(stack)[Len(Front(stack))]
        BY DEF Last
      <4>2. Len(Front(stack)) \in 1 .. Len(Front(stack))
        BY <2>3, <3>1
      <4>3. QED
        BY <1>3, <2>3, <2>4, <4>1, <4>2
    <3>4. ASSUME NEW j \in i .. Len(stack) PROVE stack[j].kind # "reload"
      <4>1. CASE j = Len(stack)
        BY <2>3, <4>1
      <4>2. CASE j = Len(stack) - 1
        BY <3>3, <4>2
      <4>3. CASE j < Len(stack) - 1
        <5>1. j \in i .. Len(stack')
          BY <2>3, <3>1, <4>3
        <5>2. j \in 1 .. Len(stack')
          BY <5>1
        <5>3. QED
          BY <3>2, <5>1, <5>2
      <4>4. Len(stack) \in Nat /\ j \in Int /\ j <= Len(stack)
        BY <2>3
      <4>5. j = Len(stack) \/ j = Len(stack) - 1 \/ j < Len(stack) - 1
        BY <4>4
      <4>6. QED
        BY <4>1, <4>2, <4>3, <4>5
    <3>5. i \in 1 .. Len(stack)
      BY <2>3, <3>1
    <3>6. QED
      BY <1>1, <3>2, <3>4, <3>5 DEF EngineInv, Fresh
  <2>9. QED
    BY <2>6, <2>7, <2>8 DEF EngineInv
<1>4. QED
  BY <1>2, <1>3

-----------------------------------------------------------------------------
LEMMA EngineNext == EngineInv /\ [Next]_vars => EngineInv'
<1> SUFFICES ASSUME EngineInv, [Next]_vars PROVE EngineInv'
  OBVIOUS
<1>1. CASE GameStep
  BY <1>1, GameKeeps
<1>2. CASE PressF12
  <2>1. ~ended /\ Reload /\ UNCHANGED <<chosen, plain>>
    BY <1>2 DEF PressF12, Top, user
  <2>2. QED
    BY <2>1, ReloadKeeps
<1>3. CASE CancelF11 \/ UsesClosedState
  <2>1. Exit /\ UNCHANGED <<chosen, plain>>
    BY <1>3 DEF CancelF11, UsesClosedState, user
  <2>2. QED
    BY <2>1, ExitKeeps
<1>4. ASSUME NEW f \in Files, PressF11(f) PROVE EngineInv'
  BY <1>4, F11Keeps
<1>5. CASE get_th105param
  BY <1>5, SeesKeeps
<1>6. CASE YieldReturns
  BY <1>6, YieldKeeps
<1>7. CASE Execute
  BY <1>7, ExecuteKeeps
<1>8. CASE ExecuteFails
  <2>1. ~ended /\ (Exit \/ Reload) /\ UNCHANGED <<chosen, plain>>
    BY <1>8 DEF ExecuteFails, Top, user
  <2>2. QED
    BY <2>1, ExitKeeps, ReloadKeeps
<1>9. CASE ScriptYields
  BY <1>9, ScriptYieldsKeeps
<1>10. CASE ScriptReturns
  BY <1>10, ScriptReturnsKeeps
<1>11. CASE ScriptFails
  <2>1. ~ended /\ UNCHANGED <<mode, chosen, plain, old>>
    BY <1>11 DEF ScriptFails, Top, user, game
  <2>2. CASE protect_flag
    <3>1. UNCHANGED <<stack, scriptName, state, open, file, ended>>
      BY <1>11, <2>2 DEF ScriptFails, engine
    <3>2. QED
      BY <2>1, <3>1 DEF EngineInv, TypeOK, OutsideInBattle, Fresh, Follows, Top
  <2>3. CASE ~protect_flag
    <3>1. Reload
      BY <1>11, <2>3 DEF ScriptFails
    <3>2. QED
      BY <2>1, <3>1, ReloadKeeps
  <2>4. QED
    BY <2>2, <2>3
<1>12. CASE UNCHANGED vars
  BY <1>12 DEF vars, EngineInv, TypeOK, OutsideInBattle, Fresh, Follows, Top
<1>13. QED
  BY <1>1, <1>2, <1>3, <1>4, <1>5, <1>6, <1>7, <1>8, <1>9, <1>10, <1>11, <1>12 DEF Next

LEMMA EngineInvariance == Spec => []EngineInv
BY EngineInit, EngineNext, PTL DEF Spec

\* On top of the stack nothing covers a frame.
LEMMA EngineInvImplies == EngineInv => StateIsOpen /\ FreshPerBattle /\ RunsChosen
<1> SUFFICES ASSUME EngineInv PROVE StateIsOpen /\ FreshPerBattle /\ RunsChosen
  OBVIOUS
<1>1. StateIsOpen
  BY DEF EngineInv, StateIsOpen
<1>2. SUFFICES ASSUME Top("script") PROVE FreshPerBattle /\ RunsChosen
  BY <1>1 DEF FreshPerBattle, RunsChosen
<1>3. ~ended /\ stack \in Seq(Frames) /\ stack # <<>> /\ Last(stack).kind = "script"
  BY <1>2 DEF Top, EngineInv, TypeOK
<1>4. mode
  BY <1>2 DEF EngineInv, OutsideInBattle, Top
<1>5. Len(stack) \in 1 .. Len(stack) /\ Last(stack) = stack[Len(stack)] /\ Len(stack) \in Nat
  BY <1>3, TopFacts
<1>6. FreshPerBattle
  <2>1. \A j \in Len(stack) .. Len(stack) : stack[j].kind # "reload"
    BY <1>3, <1>5
  <2>2. QED
    BY <1>3, <1>4, <1>5, <2>1 DEF EngineInv, Fresh, FreshPerBattle
<1>7. RunsChosen
  <2>1. \A j \in Len(stack) + 1 .. Len(stack) : stack[j].kind \notin Loaders
    BY <1>5
  <2>2. QED
    BY <1>3, <1>5, <2>1 DEF EngineInv, Follows, RunsChosen
<1>8. QED
  BY <1>6, <1>7

\* yield, which writes the script's variables into the current Lua state, never finds that
\* state closed, however F12, F11, battles and errors load scripts inside each other.
THEOREM YieldsIntoOpenState == Spec => []StateIsOpen
BY EngineInvariance, EngineInvImplies, PTL

\* Every battle is played by a script that was loaded anew for it.
THEOREM BattleRunsFresh == Spec => []FreshPerBattle
BY EngineInvariance, EngineInvImplies, PTL

\* A script chosen with F11 while one is loaded is the one that runs from then on, until a
\* script that F11 loaded ends.
THEOREM ChosenRuns == Spec => []RunsChosen
BY EngineInvariance, EngineInvImplies, PTL

-----------------------------------------------------------------------------
(* The reports of errors.                                                      *)

\* Where a request goes on pc says so; the strings of the proxy are freed in the step that
\* gets them.
ReportInv == strings = {} /\ (pc \in {"run", "wait"} => H!NoRequest)

LEMMA ReportInit == H!Init => ReportInv
BY DEF H!Init, ReportInv

LEMMA ReportNext == ReportInv /\ [H!Next]_(H!vars) => ReportInv'
<1> SUFFICES ASSUME ReportInv, [H!Next]_(H!vars) PROVE ReportInv'
  OBVIOUS
<1> USE DEF ReportInv, H!At
<1>1. CASE H!Returns
  BY <1>1 DEF H!Returns, H!NoRequest, H!NoCaller
<1>2. CASE \E step \in {"OpenSession", "OpenConnect", "OpenRequest"} :
             \E next \in {"OpenConnect", "OpenRequest", "Send"}, handle \in {"session", "connection", "request"} :
               H!Opens(step, handle, next)
  BY <1>1, <1>2 DEF H!Opens
<1>3. CASE H!GetProxy \/ H!Send \/ H!QueryHeaders \/ H!CheckCode \/ H!ReadData
  BY <1>1, <1>3 DEF H!GetProxy, H!Send, H!QueryHeaders, H!CheckCode, H!ReadData, H!Freed
<1>4. CASE H!panic_reload \/ H!Enter \/ H!Correct \/ H!Raise \/ H!Ask \/ H!Abort
  BY <1>4 DEF H!panic_reload, H!Enter, H!Correct, H!Raise, H!Ask, H!Abort, H!post,
     H!request, H!answer, H!exep, H!NoRequest
<1>5. CASE UNCHANGED H!vars
  BY <1>5 DEF H!vars, H!NoRequest
<1>6. QED
  BY <1>2, <1>3, <1>4, <1>5 DEF H!Next

-----------------------------------------------------------------------------
(* The files that a script reads and writes.                                   *)

Userdata == [f : {IO!NULL} \cup IO!Standard \cup Streams, noclose : BOOLEAN]

\* The standard files never close, the others name streams that are open.
Named ==
  /\ DOMAIN streams \subseteq Streams
  /\ \A u \in DOMAIN udata :
       /\ udata[u] \in Userdata
       /\ IF udata[u].noclose THEN udata[u].f \in IO!Standard
          ELSE udata[u].f \in {IO!NULL} \cup DOMAIN streams

Apart == \A u, v \in DOMAIN udata : u # v /\ IO!IsOpen(u) => udata[u].f # udata[v].f

\* No stream is lost: this is why the last userdata to go takes the last stream with it.
Held == \A s \in DOMAIN streams : \E u \in DOMAIN udata : udata[u].f = s

\* The iterator keeps its userdata from the collector.
IteratorHeld ==
  iterator # IO!NoIterator => lua_open /\ iterator.u \in DOMAIN udata \ {IO!NULL}

IOInv == Named /\ Apart /\ Held /\ IteratorHeld

LEMMA IOInit == IO!Init => IOInv
<1> SUFFICES ASSUME IO!Init PROVE IOInv
  OBVIOUS
<1>1. udata = [u \in IO!Standard |-> [f |-> u, noclose |-> TRUE]] /\ iterator = IO!NoIterator
  BY DEF IO!Init, IO!StandardFiles
<1>2. DOMAIN streams = {}
  BY DEF IO!Init
<1>3. ASSUME NEW u \in DOMAIN udata
      PROVE  udata[u] \in Userdata /\ udata[u].f = u /\ udata[u].noclose /\ u \in IO!Standard
  BY <1>1 DEF Userdata
<1>4. Named
  BY <1>2, <1>3 DEF Named
<1>5. Apart /\ Held /\ IteratorHeld
  BY <1>1, <1>2, <1>3 DEF Apart, Held, IteratorHeld
<1>6. QED
  BY <1>4, <1>5 DEF IOInv

\* newfile takes a free stream, or leaves a userdata without one.
LEMMA NewfileKeeps ==
  ASSUME Named, Apart, Held, NEW n, NEW m, NEW u \in UserdataMemory, IO!newfile(n, m, u)
  PROVE  /\ Named' /\ Apart' /\ Held'
         /\ DOMAIN udata' = DOMAIN udata \cup {u}
<1>1. u \notin DOMAIN udata
  BY DEF IO!newfile
<1>2. CASE IO!CanOpen(n, m)
  <2>1. PICK s \in Streams \ DOMAIN streams :
          /\ streams' = IO!Put(streams, s, [file |-> n, mode |-> m, pos |-> 0, buffered |-> 0])
          /\ udata' = IO!Put(udata, u, [f |-> s, noclose |-> FALSE])
    BY <1>2 DEF IO!newfile
  <2>2. /\ DOMAIN streams' = DOMAIN streams \cup {s} /\ DOMAIN udata' = DOMAIN udata \cup {u}
        /\ udata'[u] \in Userdata /\ udata'[u].f = s /\ ~udata'[u].noclose
        /\ \A v \in DOMAIN udata : udata'[v] = udata[v]
    BY <1>1, <2>1 DEF IO!Put, Userdata
  <2>3. Named'
    BY <2>1, <2>2 DEF Named
  <2>4. \A v \in DOMAIN udata : udata[v].f # s
    BY <2>1, StreamsAssumption DEF Named
  <2>5. Apart'
    BY <1>1, <2>2, <2>4 DEF Apart, IO!IsOpen
  <2>6. Held'
    BY <2>2 DEF Held
  <2>7. QED
    BY <2>2, <2>3, <2>5, <2>6
<1>3. CASE ~IO!CanOpen(n, m)
  <2>1. udata' = IO!Put(udata, u, [f |-> IO!NULL, noclose |-> FALSE]) /\ streams' = streams
    BY <1>3 DEF IO!newfile
  <2>2. /\ DOMAIN udata' = DOMAIN udata \cup {u}
        /\ udata'[u] \in Userdata /\ udata'[u].f = IO!NULL /\ ~udata'[u].noclose
        /\ \A v \in DOMAIN udata : udata'[v] = udata[v]
    BY <1>1, <2>1 DEF IO!Put, Userdata
  <2>3. Named'
    BY <2>1, <2>2 DEF Named
  <2>4. Apart'
    BY <1>1, <2>2 DEF Apart, IO!IsOpen
  <2>5. Held'
    <3>1. ASSUME NEW s \in DOMAIN streams, NEW v \in DOMAIN udata, udata[v].f = s
          PROVE  v \in DOMAIN udata' /\ udata'[v].f = s
      BY <2>2, <3>1
    <3>2. QED
      BY <2>1, <3>1 DEF Held
  <2>6. QED
    BY <2>2, <2>3, <2>4, <2>5
<1>4. QED
  BY <1>2, <1>3

\* Only one userdata has the stream that is closed.
LEMMA CloseKeeps ==
  ASSUME Named, Apart, Held, NEW u \in DOMAIN udata, IO!IsOpen(u), IO!aux_close(u)
  PROVE  Named' /\ Apart' /\ Held' /\ DOMAIN udata' = DOMAIN udata
<1>1. CASE udata[u].noclose
  BY <1>1 DEF IO!aux_close, Named, Apart, Held, IO!IsOpen
<1>2. CASE ~udata[u].noclose
  <2>1. /\ streams' = IO!Without(streams, udata[u].f)
        /\ udata' = [udata EXCEPT ![u].f = IO!NULL]
    BY <1>2 DEF IO!aux_close, IO!io_fclose
  <2>2. udata[u] \in Userdata /\ udata[u].f \in DOMAIN streams
    BY <1>2 DEF Named, IO!IsOpen
  <2>3. /\ DOMAIN streams' = DOMAIN streams \ {udata[u].f} /\ DOMAIN udata' = DOMAIN udata
        /\ udata'[u].f = IO!NULL /\ udata'[u].noclose = udata[u].noclose /\ udata'[u] \in Userdata
        /\ \A v \in DOMAIN udata \ {u} : udata'[v] = udata[v]
    BY <2>1, <2>2 DEF IO!Without, Userdata
  <2>4. \A v \in DOMAIN udata \ {u} : udata[v].f # udata[u].f
    BY DEF Apart
  <2>5. Named'
    BY <1>2, <2>3, <2>4 DEF Named
  <2>6. Apart'
    BY <2>3 DEF Apart, IO!IsOpen
  <2>7. Held'
    BY <2>3 DEF Held
  <2>8. QED
    BY <2>3, <2>5, <2>6, <2>7
<1>3. QED
  BY <1>1, <1>2

LEMMA CollectKeeps ==
  ASSUME Named, Apart, Held, NEW u \in DOMAIN udata, IO!io_gc(u)
  PROVE  Named' /\ Apart' /\ Held' /\ DOMAIN udata' = DOMAIN udata \ {u}
<1> DEFINE closes == IO!IsOpen(u) /\ ~udata[u].noclose
<1>1. /\ streams' = IF closes THEN IO!Without(streams, udata[u].f) ELSE streams
      /\ udata' = IO!Without(udata, u)
  BY DEF IO!io_gc
<1>2. /\ DOMAIN udata' = DOMAIN udata \ {u} /\ \A v \in DOMAIN udata' : udata'[v] = udata[v]
      /\ DOMAIN streams' = IF closes THEN DOMAIN streams \ {udata[u].f} ELSE DOMAIN streams
  BY <1>1 DEF IO!Without
<1>3. \A v \in DOMAIN udata \ {u} : closes => udata[v].f # udata[u].f
  BY DEF Apart
<1>4. Named'
  BY <1>2, <1>3 DEF Named
<1>5. Apart'
  BY <1>2 DEF Apart, IO!IsOpen
<1>6. Held'
  <2> SUFFICES ASSUME NEW s \in DOMAIN streams' PROVE \E v \in DOMAIN udata' : udata'[v].f = s
    BY DEF Held
  <2>1. PICK v \in DOMAIN udata : udata[v].f = s
    BY <1>2 DEF Held
  <2>2. v # u
    BY <1>2, <2>1, StreamsAssumption DEF Named, IO!IsOpen
  <2>3. QED
    BY <1>2, <2>1, <2>2
<1>7. QED
  BY <1>2, <1>4, <1>5, <1>6

LEMMA OtherCallsKeep ==
  ASSUME IOInv, UNCHANGED udata, DOMAIN streams' = DOMAIN streams, IteratorHeld'
  PROVE  IOInv'
BY DEF IOInv, Named, Apart, Held, IO!IsOpen

LEMMA CallKeeps ==
  ASSUME IOInv, lua_open, IO!Call
  PROVE  IOInv'
<1> USE DEF IOInv
<1>1. ASSUME NEW n, NEW m \in {"r", "w"}, NEW u \in UserdataMemory,
             IO!newfile(n, m, u), lua_open' = lua_open,
             iterator' \in {iterator, [u |-> u, toclose |-> TRUE]}
      PROVE  IOInv'
  <2>1. Named' /\ Apart' /\ Held' /\ DOMAIN udata' = DOMAIN udata \cup {u}
    BY <1>1, NewfileKeeps
  <2>2. IteratorHeld'
    BY <1>1, <2>1, StreamsAssumption DEF IteratorHeld
  <2>3. QED
    BY <2>1, <2>2
<1>2. ASSUME NEW n, NEW u \in UserdataMemory, NEW m \in {"r", "w"}, IO!io_open(n, m, u)
      PROVE  IOInv'
  BY <1>1, <1>2 DEF IO!io_open
<1>3. ASSUME NEW n, NEW u \in UserdataMemory, NEW which \in {"input", "output"},
             IO!g_iofile_number(which, n, u)
      PROVE  IOInv'
  <2>1. PICK m \in {"r", "w"} : IO!newfile(n, m, u)
    BY <1>3 DEF IO!g_iofile_number
  <2>2. QED
    BY <1>1, <1>3, <2>1 DEF IO!g_iofile_number
<1>4. ASSUME NEW u \in UserdataMemory, IO!io_lines(u) PROVE IOInv'
  BY <1>1, <1>4 DEF IO!io_lines
<1>5. ASSUME NEW u \in DOMAIN udata, IO!IsOpen(u), IO!aux_close(u), UNCHANGED <<iterator, lua_open>>
      PROVE  IOInv'
  <2>1. Named' /\ Apart' /\ Held' /\ DOMAIN udata' = DOMAIN udata
    BY <1>5, CloseKeeps
  <2>2. QED
    BY <1>5, <2>1 DEF IteratorHeld
<1>6. ASSUME NEW u \in DOMAIN udata, IO!io_close(u) PROVE IOInv'
  BY <1>5, <1>6 DEF IO!io_close
<1>7. ASSUME NEW u \in DOMAIN udata, IO!f_lines(u) PROVE IOInv'
  BY <1>7, OtherCallsKeep DEF IO!f_lines, IteratorHeld, IO!NoIterator
<1>8. ASSUME NEW u \in DOMAIN udata, NEW which, IO!g_iofile(which, u) PROVE IOInv'
  BY <1>8, OtherCallsKeep DEF IO!g_iofile, IteratorHeld
<1>9. ASSUME NEW u \in DOMAIN udata, IO!g_read(u) \/ IO!g_write(u) \/ IO!f_flush(u)
      PROVE  IOInv'
  BY <1>9, OtherCallsKeep DEF IO!g_read, IO!g_write, IO!f_flush, IteratorHeld
<1>10. CASE IO!io_readline
  <2>1. iterator.u \in DOMAIN udata /\ IO!IsOpen(iterator.u) /\ UNCHANGED <<iterator, lua_open>>
    BY <1>10 DEF IO!io_readline, IteratorHeld
  <2>2. \/ UNCHANGED udata /\ DOMAIN streams' = DOMAIN streams
        \/ IO!aux_close(iterator.u)
    BY <1>10 DEF IO!io_readline
  <2>3. QED
    BY <1>5, <2>1, <2>2, OtherCallsKeep DEF IteratorHeld
<1>11. CASE IO!Forget
  BY <1>11, OtherCallsKeep DEF IO!Forget, IteratorHeld
<1>12. QED
  BY <1>2, <1>3, <1>4, <1>6, <1>7, <1>8, <1>9, <1>10, <1>11 DEF IO!Call

LEMMA IONext == IOInv /\ [IO!Next]_(IO!vars) => IOInv'
<1> SUFFICES ASSUME IOInv, [IO!Next]_(IO!vars) PROVE IOInv'
  OBVIOUS
<1>1. CASE lua_open /\ IO!Call
  BY <1>1, CallKeeps
<1>2. ASSUME NEW u \in DOMAIN udata, IO!io_gc(u) PROVE IOInv'
  <2>1. Named' /\ Apart' /\ Held' /\ DOMAIN udata' = DOMAIN udata \ {u}
    BY <1>2, CollectKeeps DEF IOInv
  <2>2. lua_open => u \notin {iterator.u} \ {IO!NULL}
    BY <1>2 DEF IO!io_gc, IO!Reachable
  <2>3. IteratorHeld'
    BY <1>2, <2>1, <2>2 DEF IO!io_gc, IOInv, IteratorHeld
  <2>4. QED
    BY <2>1, <2>3 DEF IOInv
<1>3. CASE IO!lua_close
  BY <1>3, OtherCallsKeep DEF IO!lua_close, IteratorHeld
<1>4. CASE IO!luaopen_io
  <2>1. udata' = [u \in IO!Standard |-> [f |-> u, noclose |-> TRUE]] /\ iterator' = IO!NoIterator
    BY <1>4 DEF IO!luaopen_io, IO!StandardFiles
  <2>2. streams' = streams /\ DOMAIN streams = {}
    BY <1>4 DEF IO!luaopen_io, IOInv, Held
  <2>3. ASSUME NEW u \in DOMAIN udata'
        PROVE  udata'[u] \in Userdata /\ udata'[u].f = u /\ udata'[u].noclose /\ u \in IO!Standard
    BY <2>1 DEF Userdata
  <2>4. Named'
    BY <2>2, <2>3 DEF Named
  <2>5. Apart' /\ Held' /\ IteratorHeld'
    BY <2>1, <2>2, <2>3 DEF Apart, Held, IteratorHeld
  <2>6. QED
    BY <2>4, <2>5 DEF IOInv
<1>5. CASE UNCHANGED IO!vars
  BY <1>5, OtherCallsKeep DEF IO!vars, IOInv, IteratorHeld
<1>6. QED
  BY <1>1, <1>2, <1>3, <1>4, <1>5 DEF IO!Next

-----------------------------------------------------------------------------
(* The files that a script is in.                                              *)

Kinds == {"wait", "api_main", "chunk", "parse"}
Paths == Chosen \cup Picked \cup Required \cup {L!NoName}
Directories == Tree \cup {L!App} \cup {p.dir : p \in Chosen \cup Picked}
Loads == [kind : Kinds, path : Paths, prevDir : Directories, fp : FILEs \cup {L!NULL}]

\* A load waits or parses on top of all others; below the first there is nothing to return to.
Shape ==
  /\ cwd \in Directories /\ load_name \in Paths /\ load_chosen \in Chosen \cup Picked
  /\ loads \in Seq(Loads) /\ Len(loads) >= 1
  /\ \A k \in 1 .. Len(loads) :
       /\ loads[k].kind \in {"wait", "api_main"} => k = 1
       /\ loads[k].kind = "parse" => k > 1
       /\ loads[k].kind \in {"api_main", "chunk"} \/ k = Len(loads)

\* The name that every reload loads is still the one that was chosen.
KeepsName ==
  load_chosen.absolute =>
    /\ load_name = load_chosen
    /\ \A k \in 1 .. Len(loads) :
         loads[k].kind = "wait" => loads[k].path \in Picked \cup {load_chosen}
    /\ load_ended # "not_found"

\* The script's own directory is kept by the first load that it has begun, if there is one;
\* OpenAI goes back to it in any case.
KeepsDirectory ==
  ~moved /\ load_ended = L!No =>
    /\ loads[1].kind = "wait" /\ loader # "OpenAI" => cwd = L!App
    /\ loads[1].kind = "chunk" /\ loader # "OpenAI" => loads[1].prevDir = L!App
    /\ loads[1].kind = "api_main" =>
         IF Len(loads) >= 2 /\ loads[2].kind = "chunk"
         THEN loads[2].prevDir = L!App ELSE cwd = L!App

LoadInv == Shape /\ KeepsName /\ KeepsDirectory

LEMMA OneLoad ==
  ASSUME NEW S, NEW a \in S
  PROVE  <<a>> \in Seq(S) /\ Len(<<a>>) = 1 /\ <<a>>[1] = a
OBVIOUS

LEMMA OneOrMore == \A n \in Nat : n >= 1 => n = 1 \/ n >= 2
OBVIOUS

LEMMA OneBelow == \A n \in Nat : n - 1 = 1 => n = 2 /\ n >= 2
OBVIOUS

LEMMA LoadInit == L!Init => LoadInv
<1> SUFFICES ASSUME L!Init PROVE LoadInv
  OBVIOUS
<1>1. /\ load_chosen \in Chosen /\ cwd \in {L!App, load_chosen.dir}
      /\ loads = <<L!Waiting(load_chosen)>> /\ loader = "OpenAI"
      /\ load_name = load_chosen /\ load_ended = L!No
  BY DEF L!Init
<1>2. L!Waiting(load_chosen) \in Loads
  BY <1>1 DEF L!Waiting, L!Frame, Loads, Kinds, Paths, Directories
<1>3. loads \in Seq(Loads) /\ Len(loads) = 1 /\ loads[1] = L!Waiting(load_chosen)
  BY <1>1, <1>2, OneLoad
<1>4. loads[1].kind = "wait" /\ loads[1].path = load_chosen
  BY <1>3 DEF L!Waiting, L!Frame
<1>5. Shape
  BY <1>1, <1>3, <1>4 DEF Shape, Paths, Directories
<1>6. KeepsName /\ KeepsDirectory
  BY <1>1, <1>3, <1>4 DEF KeepsName, KeepsDirectory, L!No
<1>7. QED
  BY <1>5, <1>6 DEF LoadInv

\* end(), init() and the load of a file that the user chose, now or before.
LEMMA LoadAnewKeeps ==
  ASSUME LoadInv, load_ended = L!No, NEW p \in Paths, NEW by, L!LoadAnew(p, by),
         load_chosen' \in Chosen \cup Picked, cwd' \in Directories,
         load_chosen'.absolute => load_name' = load_chosen' /\ p \in Picked \cup {load_chosen'},
         ~moved' => cwd' = L!App
  PROVE  LoadInv'
<1>1. loads' = <<L!Waiting(p)>> /\ load_ended' = load_ended /\ load_name' \in {p, load_name}
  BY DEF L!LoadAnew
<1>2. L!Waiting(p) \in Loads
  BY DEF L!Waiting, L!Frame, Loads, Kinds, Directories
<1>3. loads' \in Seq(Loads) /\ Len(loads') = 1 /\ loads'[1] = L!Waiting(p)
  BY <1>1, <1>2, OneLoad
<1>4. loads'[1].kind = "wait" /\ loads'[1].path = p
  BY <1>3 DEF L!Waiting, L!Frame
<1>5. load_name' \in Paths
  BY <1>1 DEF LoadInv, Shape
<1>6. Shape'
  BY <1>3, <1>4, <1>5 DEF Shape
<1>7. KeepsName' /\ KeepsDirectory'
  BY <1>1, <1>3, <1>4 DEF KeepsName, KeepsDirectory, L!No
<1>8. QED
  BY <1>6, <1>7 DEF LoadInv

LEMMA LoadExitKeeps ==
  ASSUME LoadInv, NEW why, L!Exit(why), why # "not_found", why # L!No,
         load_chosen' = load_chosen
  PROVE  LoadInv'
<1>1. UNCHANGED <<cwd, loads, load_name, load_chosen>> /\ load_ended' = why
  BY DEF L!Exit, L!engine
<1>2. Shape'
  BY <1>1 DEF LoadInv, Shape
<1>3. KeepsName' /\ KeepsDirectory'
  BY <1>1 DEF LoadInv, KeepsName, KeepsDirectory
<1>4. QED
  BY <1>2, <1>3 DEF LoadInv

LEMMA LoadReloadKeeps ==
  ASSUME LoadInv, load_ended = L!No, L!reload
  PROVE  LoadInv'
<1>1. load_chosen' = load_chosen /\ moved' = (moved \/ cwd # L!App)
  BY DEF L!reload
<1>2. CASE load_name = L!NoName
  BY <1>1, <1>2, LoadExitKeeps DEF L!reload, L!No
<1>3. CASE load_name # L!NoName
  <2>1. L!LoadAnew(load_name, "reload") /\ cwd' = cwd
    BY <1>3 DEF L!reload
  <2>2. load_name' = load_name
    BY <2>1 DEF L!LoadAnew
  <2>3. load_name \in Paths /\ load_chosen' \in Chosen \cup Picked /\ cwd' \in Directories
    BY <1>1, <2>1 DEF LoadInv, Shape
  <2>4. load_chosen'.absolute => load_name' = load_chosen' /\ load_name \in Picked \cup {load_chosen'}
    BY <1>1, <2>2 DEF LoadInv, KeepsName
  <2>5. ~moved' => cwd' = L!App
    BY <1>1, <2>1
  <2>6. QED
    BY <2>1, <2>3, <2>4, <2>5, LoadAnewKeeps
<1>4. QED
  BY <1>2, <1>3

LEMMA LoadsAnewKeeps ==
  ASSUME LoadInv, load_ended = L!No, L!LoadsAnew
  PROVE  LoadInv'
<1>1. load_ended = L!No
  OBVIOUS
<1>2. CASE L!reload
  BY <1>1, <1>2, LoadReloadKeeps
<1>3. CASE L!cancelled
  BY <1>3, LoadExitKeeps DEF L!cancelled, L!No
<1>4. ASSUME NEW p \in Picked, L!reload2(p) PROVE LoadInv'
  <2>1. /\ L!LoadAnew(p, "reload2") /\ cwd' = p.dir /\ moved' = TRUE
        /\ load_chosen' = IF load_loadable THEN p ELSE load_chosen
    BY <1>4 DEF L!reload2
  <2>2. p \in Paths /\ cwd' \in Directories /\ load_chosen' \in Chosen \cup Picked
    BY <2>1 DEF LoadInv, Shape, Paths, Directories
  <2>3. load_chosen'.absolute => load_name' = load_chosen'
    <3>1. CASE load_loadable
      BY <2>1, <3>1 DEF L!LoadAnew
    <3>2. CASE ~load_loadable
      <4>1. L!NoName.absolute = FALSE
        BY DEF L!NoName
      <4>2. load_name # L!NoName => load_name' = load_name
        BY <2>1, <3>2 DEF L!LoadAnew
      <4>3. load_chosen.absolute => load_name = load_chosen
        BY DEF LoadInv, KeepsName
      <4>4. QED
        BY <2>1, <3>2, <4>1, <4>2, <4>3
    <3>3. QED
      BY <3>1, <3>2
  <2>4. QED
    BY <1>1, <2>1, <2>2, <2>3, LoadAnewKeeps
<1>5. QED
  BY <1>2, <1>3, <1>4 DEF L!LoadsAnew

\* The first load returns: to reload(), which exits, or to one who calls start().  A file of
\* the user's choice is not unfound.
LEMMA FirstReturns ==
  ASSUME LoadInv, load_ended = L!No, NEW dir \in Directories, NEW why, why # L!No,
         L!Return(<< >>, dir, why), UNCHANGED <<loader, load_chosen, moved>>,
         load_name' \in Paths, load_chosen.absolute => load_name' = load_chosen,
         load_chosen.absolute => why # "not_found",
         ~moved /\ loader # "OpenAI" => dir = L!App
  PROVE  LoadInv'
<1>1. CASE loader = "reload" /\ why # "ok"
  <2>1. load_ended' = why /\ cwd' = dir /\ loads' = loads
    BY <1>1 DEF L!Return
  <2>2. Shape' /\ KeepsName' /\ KeepsDirectory'
    BY <2>1 DEF LoadInv, Shape, KeepsName, KeepsDirectory
  <2>3. QED
    BY <2>2 DEF LoadInv
<1>2. CASE loader = "reload" => why = "ok"
  <2>1. /\ loads' = <<L!Main>> /\ load_ended' = load_ended
        /\ cwd' = IF loader = "OpenAI" THEN L!App ELSE dir
    BY <1>2 DEF L!Return
  <2>2. L!Main.kind = "api_main" /\ L!Main \in Loads
    BY DEF L!Main, L!Frame, Loads, Kinds, Paths, Directories
  <2>3. /\ loads' \in Seq(Loads) /\ Len(loads') = 1 /\ loads'[1] = L!Main
        /\ loads'[1].kind = "api_main"
    BY <2>1, <2>2, OneLoad
  <2>4. Shape'
    BY <2>1, <2>3 DEF LoadInv, Shape, Directories
  <2>5. KeepsName'
    BY <2>1, <2>3 DEF KeepsName, L!No
  <2>6. KeepsDirectory'
    BY <2>1, <2>3 DEF KeepsDirectory
  <2>7. QED
    BY <2>4, <2>5, <2>6 DEF LoadInv
<1>3. QED
  BY <1>1, <1>2

\* It returns to the load below, or a load that has only parsed its file is over: the
\* directory is the one that the load on top had kept.
LEMMA ReturnToLoad ==
  ASSUME LoadInv, loads' \in Seq(Loads), Len(loads') >= 1,
         Len(loads') <= Len(loads), \A k \in 1 .. Len(loads') : loads'[k] = loads[k],
         Len(loads') = Len(loads) \/ loads[Len(loads')].kind # "wait",
         cwd' \in Directories, UNCHANGED <<loader, load_chosen, moved, load_ended>>,
         load_name' \in Paths, load_chosen.absolute => load_name' = load_chosen,
         ~moved /\ load_ended = L!No /\ Len(loads') = 1 /\ loads[1].kind = "api_main" => cwd' = L!App,
         Len(loads') = Len(loads) => cwd' = cwd
  PROVE  LoadInv'
<1>1. Len(loads) \in Nat /\ Len(loads') \in Nat /\ loads \in Seq(Loads)
  BY LenProperties DEF LoadInv, Shape
<1>2. \A k \in 1 .. Len(loads') : k \in 1 .. Len(loads) /\ loads'[k] = loads[k]
  BY <1>1
<1>3. Shape'
  BY <1>1, <1>2 DEF LoadInv, Shape
<1>4. KeepsName'
  BY <1>1, <1>2 DEF LoadInv, KeepsName
<1>5. loads'[1] = loads[1] /\ (Len(loads') >= 2 => loads'[2] = loads[2] /\ Len(loads) >= 2)
  BY <1>1
<1>6. KeepsDirectory'
  <2> SUFFICES ASSUME ~moved, load_ended = L!No
               PROVE  /\ loads[1].kind = "wait" /\ loader # "OpenAI" => cwd' = L!App
                      /\ loads[1].kind = "chunk" /\ loader # "OpenAI" => loads[1].prevDir = L!App
                      /\ loads[1].kind = "api_main" =>
                           IF Len(loads') >= 2 /\ loads'[2].kind = "chunk"
                           THEN loads'[2].prevDir = L!App ELSE cwd' = L!App
    BY <1>5 DEF KeepsDirectory
  <2>1. CASE Len(loads') = Len(loads)
    BY <1>1, <1>5, <2>1 DEF LoadInv, KeepsDirectory
  <2>2. CASE Len(loads') < Len(loads)
    <3>1. loads[1].kind # "wait"
      BY <1>1, <2>2 DEF LoadInv, Shape
    <3>2. ASSUME Len(loads') >= 2 PROVE loads[2].kind = "chunk"
      <4>1. 2 \in 1 .. Len(loads) /\ 2 # Len(loads)
        BY <1>1, <2>2, <3>2
      <4>2. /\ loads[2].kind \in {"wait", "api_main"} => 2 = 1
            /\ loads[2].kind \in {"api_main", "chunk"} \/ 2 = Len(loads)
        BY <4>1 DEF LoadInv, Shape
      <4>3. QED
        BY <4>1, <4>2
    <3>3. CASE Len(loads') >= 2
      BY <1>1, <1>5, <3>1, <3>2, <3>3 DEF LoadInv, KeepsDirectory
    <3>4. CASE Len(loads') = 1
      BY <3>1, <3>4 DEF LoadInv, KeepsDirectory
    <3>5. Len(loads') >= 2 \/ Len(loads') = 1
      BY <1>1, OneOrMore
    <3>6. QED
      BY <3>3, <3>4, <3>5
  <2>3. QED
    BY <1>1, <2>1, <2>2
<1>7. QED
  BY <1>3, <1>4, <1>6 DEF LoadInv

\* A load is put on top, of a file that is executed or parsed.
LEMMA PushLoadKeeps ==
  ASSUME LoadInv, NEW f \in Loads, f.kind \in {"chunk", "parse"},
         NEW below \in {loads, << >>}, loads' = Append(below, f),
         IF below = << >> THEN loads[1].kind = "wait" /\ f.kind = "chunk"
         ELSE loads[Len(loads)].kind \in {"api_main", "chunk"},
         f.prevDir = cwd, cwd' \in Directories, f.kind = "parse" => cwd' = cwd,
         UNCHANGED <<loader, load_chosen, moved, load_ended>>,
         load_name' \in Paths, load_chosen.absolute => load_name' = load_chosen
  PROVE  LoadInv'
<1>1. loads \in Seq(Loads) /\ Len(loads) \in Nat /\ Len(loads) >= 1
  BY LenProperties DEF LoadInv, Shape
<1>2. CASE below = << >>
  <2>1. loads' \in Seq(Loads) /\ Len(loads') = 1 /\ loads'[1] = f
    BY <1>2, PushOne
  <2>2. f.kind = "chunk" /\ loads[1].kind = "wait"
    BY <1>2
  <2>3. Shape'
    BY <2>1, <2>2 DEF LoadInv, Shape
  <2>4. KeepsName' /\ KeepsDirectory'
    BY <2>1, <2>2 DEF LoadInv, KeepsName, KeepsDirectory
  <2>5. QED
    BY <2>3, <2>4 DEF LoadInv
<1>3. CASE below = loads
  <2>1. /\ loads' \in Seq(Loads) /\ Len(loads') = Len(loads) + 1
        /\ loads'[Len(loads) + 1] = f /\ \A k \in 1 .. Len(loads) : loads'[k] = loads[k]
    BY <1>1, <1>3, PushOne
  <2>2. loads[Len(loads)].kind \in {"api_main", "chunk"}
    BY <1>1, <1>3
  <2>3. \A k \in 1 .. Len(loads') :
          (k \in 1 .. Len(loads) /\ loads'[k] = loads[k]) \/ (k = Len(loads') /\ k > 1 /\ loads'[k] = f)
    BY <1>1, <2>1
  <2>4. Shape'
    BY <1>1, <2>1, <2>2, <2>3 DEF LoadInv, Shape
  <2>5. KeepsName'
    BY <2>3 DEF LoadInv, KeepsName
  <2>6. loads'[1] = loads[1] /\ loads[1].kind # "wait"
    BY <1>1, <2>1, <2>2 DEF LoadInv, Shape
  <2>7. CASE Len(loads) = 1
    <3>1. Len(loads') = 2 /\ loads'[2] = f
      BY <2>1, <2>7
    <3>2. KeepsDirectory'
      BY <2>6, <2>7, <3>1 DEF LoadInv, KeepsDirectory
    <3>3. QED
      BY <2>4, <2>5, <3>2 DEF LoadInv
  <2>8. CASE Len(loads) >= 2
    <3>1. Len(loads') >= 2 /\ loads'[2] = loads[2] /\ loads[2].kind = "chunk"
      BY <1>1, <2>1, <2>2, <2>8 DEF LoadInv, Shape
    <3>2. KeepsDirectory'
      BY <2>6, <2>8, <3>1 DEF LoadInv, KeepsDirectory
    <3>3. QED
      BY <2>4, <2>5, <3>2 DEF LoadInv
  <2>9. QED
    BY <1>1, <2>7, <2>8, OneOrMore
<1>4. QED
  BY <1>2, <1>3

LEMMA LoadFileKeeps ==
  ASSUME LoadInv, load_ended = L!No, NEW p \in Paths, NEW below \in {loads, << >>},
         L!loadFile(p, below),
         IF below = << >>
         THEN loads[1].kind = "wait" /\ (load_chosen.absolute => p \in Picked \cup {load_chosen})
         ELSE loads[Len(loads)].kind \in {"api_main", "chunk"}
  PROVE  LoadInv'
<1> DEFINE free == FILEs \ DOMAIN load_streams
           dir == L!Entered(p)
<1>1. /\ cwd \in Directories /\ load_name \in Paths /\ load_chosen \in Chosen \cup Picked
      /\ loads \in Seq(Loads) /\ Len(loads) >= 1
  BY DEF LoadInv, Shape
<1>2. dir \in Directories
  BY <1>1 DEF L!Entered, Directories
<1>3. load_chosen.absolute => load_name # L!NoName
  <2>1. L!NoName.absolute = FALSE
    BY DEF L!NoName
  <2>2. load_chosen.absolute => load_name = load_chosen
    BY DEF LoadInv, KeepsName
  <2>3. QED
    BY <2>1, <2>2
<1>4. /\ load_name' \in Paths /\ (load_chosen.absolute => load_name' = load_chosen)
      /\ UNCHANGED <<loader, load_chosen, moved>>
  <2>1. load_name' = IF load_name = L!NoName THEN p ELSE load_name
    BY DEF L!loadFile, L!Named
  <2>2. UNCHANGED <<loader, load_chosen, moved>>
    BY DEF L!loadFile
  <2>3. QED
    BY <1>1, <1>3, <2>1, <2>2 DEF LoadInv, KeepsName
<1>5. CASE L!Exists(dir, p) /\ free # {}
  <2>1. PICK fp \in free : /\ loads' = Append(below, L!Frame("chunk", p, cwd, fp))
                           /\ cwd' = dir /\ load_ended' = load_ended
    BY <1>5 DEF L!loadFile
  <2>2. /\ L!Frame("chunk", p, cwd, fp) \in Loads
        /\ L!Frame("chunk", p, cwd, fp).kind = "chunk"
        /\ L!Frame("chunk", p, cwd, fp).prevDir = cwd
    BY <1>1 DEF L!Frame, Loads, Kinds
  <2>3. QED
    BY <1>2, <1>4, <2>1, <2>2, PushLoadKeeps
<1>6. CASE ~(L!Exists(dir, p) /\ free # {})
  <2> DEFINE why == IF free = {} THEN "no_FILE" ELSE "not_found"
  <2>1. L!Return(below, cwd, why)
    BY <1>6 DEF L!loadFile, L!Restored
  <2>2. CASE below = << >>
    <3>2. load_chosen.absolute => why # "not_found"
      <4> SUFFICES ASSUME load_chosen.absolute PROVE free = {}
        OBVIOUS
      <4>1. p \in Chosen \cup Picked /\ p.absolute
        BY <1>1, <2>2, PathsAssumption
      <4>2. p.dir \in Tree /\ <<p.dir, p.name>> \in DiskFiles
        BY <4>1, PathsAssumption
      <4>3. dir = p.dir
        BY <4>1, <4>2 DEF L!Entered, L!Dir
      <4>4. L!Exists(dir, p)
        BY <4>2, <4>3 DEF L!Exists
      <4>5. QED
        BY <1>6, <4>4
    <3>3. ~moved /\ loader # "OpenAI" => cwd = L!App
      BY <2>2 DEF LoadInv, KeepsDirectory
    <3>4. why # L!No
      BY DEF L!No
    <3>5. QED
      BY <1>1, <1>4, <2>1, <2>2, <3>2, <3>3, <3>4, FirstReturns
  <2>3. CASE below # << >>
    <3>1. UNCHANGED <<loads, cwd, load_ended>>
      BY <2>1, <2>3 DEF L!Return
    <3>2. Shape'
      BY <1>4, <3>1 DEF LoadInv, Shape
    <3>3. KeepsName' /\ KeepsDirectory'
      BY <1>4, <3>1 DEF LoadInv, KeepsName, KeepsDirectory
    <3>4. QED
      BY <3>2, <3>3 DEF LoadInv
  <2>4. QED
    BY <2>2, <2>3
<1>7. QED
  BY <1>5, <1>6

\* What the load on top is.
LEMMA TopLoad ==
  ASSUME LoadInv, NEW kind, L!Top(kind)
  PROVE  /\ load_ended = L!No /\ loads \in Seq(Loads) /\ Len(loads) \in Nat /\ Len(loads) >= 1
         /\ loads[Len(loads)].kind = kind /\ L!Last(loads) = loads[Len(loads)]
         /\ loads[Len(loads)] \in Loads
<1>1. loads \in Seq(Loads) /\ Len(loads) >= 1
  BY DEF LoadInv, Shape
<1>2. loads # << >>
  BY <1>1, EmptySeq
<1>3. Last(loads) = loads[Len(loads)] /\ Last(loads) \in Loads /\ Len(loads) \in Nat
  BY <1>1, <1>2, TopFacts
<1>4. QED
  BY <1>1, <1>3 DEF L!Top, L!Last

LEMMA FrontOfLoads ==
  ASSUME LoadInv
  PROVE  /\ L!Front(loads) \in Seq(Loads) /\ Len(L!Front(loads)) = Len(loads) - 1
         /\ \A k \in 1 .. Len(L!Front(loads)) : L!Front(loads)[k] = loads[k]
<1>1. loads \in Seq(Loads) /\ Len(loads) >= 1 /\ L!Front(loads) = Front(loads)
  BY DEF LoadInv, Shape, L!Front, Front
<1>2. loads # << >>
  BY <1>1, EmptySeq
<1>3. QED
  BY <1>1, <1>2, TopFacts, FrontFacts

LEMMA ChunkEndsKeeps ==
  ASSUME LoadInv, NEW why \in {"ok", "error"}, L!ChunkEnds(why)
  PROVE  LoadInv'
<1> DEFINE below == L!Front(loads)
           dir == loads[Len(loads)].prevDir
<1>1. /\ load_ended = L!No /\ Len(loads) \in Nat /\ Len(loads) >= 1
      /\ loads[Len(loads)].kind = "chunk" /\ dir \in Directories
  BY TopLoad DEF L!ChunkEnds, Loads
<1>2. /\ L!Return(below, dir, why) /\ UNCHANGED <<load_name, loader, load_chosen, moved>>
  BY TopLoad DEF L!ChunkEnds
<1>3. load_name' \in Paths /\ (load_chosen.absolute => load_name' = load_chosen)
  BY <1>2 DEF LoadInv, Shape, KeepsName
<1>4. /\ below \in Seq(Loads) /\ Len(below) = Len(loads) - 1
      /\ \A k \in 1 .. Len(below) : below[k] = loads[k]
  BY FrontOfLoads
<1> HIDE DEF below, dir
<1>5. CASE below = << >>
  <2>1. Len(loads) = 1
    BY <1>1, <1>4, <1>5
  <2>2. ~moved /\ loader # "OpenAI" => dir = L!App
    BY <1>1, <2>1 DEF dir, LoadInv, KeepsDirectory
  <2>3. why # L!No /\ why # "not_found"
    BY DEF L!No
  <2>4. QED
    BY <1>1, <1>2, <1>3, <1>5, <2>2, <2>3, FirstReturns
<1>6. CASE below # << >>
  <2>1. loads' = below /\ cwd' = dir /\ load_ended' = load_ended
    BY <1>2, <1>6 DEF L!Return
  <2>2. Len(below) >= 1 /\ Len(below) < Len(loads)
    BY <1>1, <1>4, <1>6, EmptySeq, LenProperties
  <2>3. loads[Len(below)].kind # "wait"
    BY <1>1, <1>4, <2>2 DEF LoadInv, Shape
  <2>4. ~moved /\ Len(below) = 1 /\ loads[1].kind = "api_main" => dir = L!App
    <3>1. Len(below) = 1 => Len(loads) = 2 /\ Len(loads) >= 2
      BY <1>1, <1>4, OneBelow
    <3>2. Len(below) = 1 => loads[2].kind = "chunk" /\ dir = loads[2].prevDir
      BY <1>1, <3>1 DEF dir
    <3>3. QED
      BY <1>1, <3>1, <3>2 DEF LoadInv, KeepsDirectory
  <2>5. QED
    BY <1>1, <1>2, <1>3, <1>4, <2>1, <2>2, <2>3, <2>4, ReturnToLoad
<1>7. QED
  BY <1>5, <1>6

LEMMA ParsedKeeps ==
  ASSUME LoadInv, L!Parsed
  PROVE  LoadInv'
<1>1. /\ load_ended = L!No /\ Len(loads) \in Nat /\ Len(loads) >= 1
      /\ loads[Len(loads)].kind = "parse"
  BY TopLoad DEF L!Parsed
<1>2. loads' = L!Front(loads) /\ UNCHANGED <<cwd, load_name, loader, load_chosen, load_ended, moved>>
  BY DEF L!Parsed, L!engine
<1>3. /\ load_name' \in Paths /\ (load_chosen.absolute => load_name' = load_chosen)
      /\ cwd' \in Directories
  BY <1>2 DEF LoadInv, Shape, KeepsName
<1>4. /\ loads' \in Seq(Loads) /\ Len(loads') = Len(loads) - 1
      /\ \A k \in 1 .. Len(loads') : loads'[k] = loads[k]
  BY <1>2, FrontOfLoads
<1>5. Len(loads) > 1
  BY <1>1 DEF LoadInv, Shape
<1>6. Len(loads') >= 1 /\ Len(loads') < Len(loads)
  BY <1>1, <1>4, <1>5
<1>7. loads[Len(loads')].kind # "wait"
  BY <1>1, <1>4, <1>6 DEF LoadInv, Shape
<1>8. ~moved /\ Len(loads') = 1 /\ loads[1].kind = "api_main" => cwd = L!App
  <2>1. Len(loads') = 1 => Len(loads) = 2
    BY <1>1, <1>4, OneBelow
  <2>2. QED
    BY <1>1, <2>1 DEF LoadInv, KeepsDirectory
<1>9. QED
  BY <1>1, <1>2, <1>3, <1>4, <1>6, <1>7, <1>8, ReturnToLoad

LEMMA LoadNext == LoadInv /\ [L!Next]_(L!vars) => LoadInv'
<1> SUFFICES ASSUME LoadInv, [L!Next]_(L!vars) PROVE LoadInv'
  OBVIOUS
<1>1. CASE L!Interrupted
  BY <1>1, LoadsAnewKeeps DEF L!Interrupted, L!InScript, L!Top
<1>2. CASE L!YieldReturns
  <2>1. /\ load_ended = L!No /\ loads \in Seq(Loads) /\ Len(loads) \in Nat /\ Len(loads) >= 1
        /\ loads[Len(loads)].kind = "wait" /\ loads[Len(loads)] \in Loads
        /\ L!loadFile(loads[Len(loads)].path, << >>)
    BY <1>2, TopLoad DEF L!YieldReturns
  <2>2. Len(loads) = 1
    <3>1. Len(loads) \in 1 .. Len(loads)
      BY <2>1
    <3>2. loads[Len(loads)].kind \in {"wait", "api_main"} => Len(loads) = 1
      BY <3>1 DEF LoadInv, Shape
    <3>3. QED
      BY <2>1, <3>2
  <2>3. loads[1].path \in Paths
    BY <2>1, <2>2 DEF Loads
  <2>4. load_chosen.absolute => loads[1].path \in Picked \cup {load_chosen}
    BY <2>1, <2>2 DEF LoadInv, KeepsName
  <2>5. QED
    BY <2>1, <2>2, <2>3, <2>4, LoadFileKeeps
<1>3. ASSUME NEW p \in Required, L!require(p) PROVE LoadInv'
  <2>1. L!loadFile(p, loads) /\ (L!Top("api_main") \/ L!Top("chunk"))
    BY <1>3 DEF L!require, L!InScript
  <2>2. /\ load_ended = L!No /\ loads[Len(loads)].kind \in {"api_main", "chunk"}
        /\ loads \in Seq(Loads) /\ Len(loads) >= 1
    BY <2>1, TopLoad
  <2>3. loads # << >> /\ p \in Paths
    BY <2>2, EmptySeq DEF Paths
  <2>4. QED
    BY <2>1, <2>2, <2>3, LoadFileKeeps
<1>4. ASSUME NEW p \in Required, L!luaL_loadfile(p) PROVE LoadInv'
  <2>1. L!Top("api_main") \/ L!Top("chunk")
    BY <1>4 DEF L!luaL_loadfile, L!InScript
  <2>2. /\ loads[Len(loads)].kind \in {"api_main", "chunk"}
        /\ loads \in Seq(Loads) /\ Len(loads) >= 1
    BY <2>1, TopLoad
  <2>3. loads # << >>
    BY <2>2, EmptySeq
  <2>4. PICK fp \in FILEs : loads' = Append(loads, L!Frame("parse", p, cwd, fp))
    BY <1>4 DEF L!luaL_loadfile
  <2>5. /\ cwd \in Directories /\ load_name \in Paths
        /\ (load_chosen.absolute => load_name = load_chosen)
        /\ UNCHANGED <<cwd, load_name, loader, load_chosen, load_ended, moved>>
    BY <1>4 DEF L!luaL_loadfile, L!engine, LoadInv, Shape, KeepsName
  <2>6. /\ L!Frame("parse", p, cwd, fp) \in Loads
        /\ L!Frame("parse", p, cwd, fp).kind = "parse"
        /\ L!Frame("parse", p, cwd, fp).prevDir = cwd
    BY <2>5 DEF L!Frame, Loads, Kinds, Paths
  <2>7. QED
    BY <2>2, <2>3, <2>4, <2>5, <2>6, PushLoadKeeps
<1>5. CASE L!ChunkEnds("ok")
  BY <1>5, ChunkEndsKeeps
<1>6. CASE L!Parsed
  BY <1>6, ParsedKeeps
<1>7. CASE L!luaD_throw
  <2>1. CASE L!ChunkEnds("error")
    BY <2>1, ChunkEndsKeeps
  <2>2. CASE (L!InScript \/ L!Top("parse")) /\ L!LoadsAnew
    BY <2>2, LoadsAnewKeeps DEF L!InScript, L!Top
  <2>3. QED
    BY <1>7, <2>1, <2>2 DEF L!luaD_throw
<1>8. CASE L!ScriptEnds
  BY <1>8, LoadExitKeeps DEF L!ScriptEnds, L!No
<1>9. CASE UNCHANGED L!vars
  <2>1. UNCHANGED <<cwd, loads, load_name, loader, load_chosen, load_ended, moved>>
    BY <1>9 DEF L!vars, L!engine
  <2>2. Shape' /\ KeepsName' /\ KeepsDirectory'
    BY <2>1 DEF LoadInv, Shape, KeepsName, KeepsDirectory
  <2>3. QED
    BY <2>2 DEF LoadInv
<1>10. QED
  BY <1>1, <1>2, <1>3, <1>4, <1>5, <1>6, <1>7, <1>8, <1>9 DEF L!Next

-----------------------------------------------------------------------------
(* The list of my_luacode.c has one node while luaL_loadfile reads a file and  *)
(* none at all other times: no load begins in the reader, and a reload from    *)
(* inside of it is one with a state, which ffree precedes.                     *)

Node(fp) == [fp |-> fp, prev |-> L!NULL, next |-> L!NULL]
Opened == {fp \in DOMAIN load_streams : load_streams[fp] = "lua"}
TopKind == loads[Len(loads)].kind

NoNode == head = L!NULL /\ current = L!NULL /\ nodes = [a \in {} |-> L!NULL] /\ Opened = {}
OneNode(a, fp) ==
  head = a /\ current = a /\ nodes = [x \in {a} |-> Node(fp)] /\ Opened = {fp}

ListInv ==
  /\ TopKind # "wait" => load_loadable = TRUE
  /\ TopKind # "parse" => NoNode
  /\ TopKind = "parse" => \E a : OneNode(a, loads[Len(loads)].fp)

LEMMA NoNodeReached ==
  ASSUME NoNode, NEW a, NEW field
  PROVE  L!Reached(a, field) = {} /\ L!Listed(field, a) = {}
BY DEF NoNode, L!Reached, L!Listed

LEMMA OneNodeReached ==
  ASSUME NEW a, NEW fp, OneNode(a, fp), NEW field
  PROVE  L!Reached(a, field) = {a} /\ L!Listed(field, a) = {fp}
<1>1. DOMAIN nodes = {a} /\ nodes[a].fp = fp
  BY DEF OneNode, Node
<1>2. L!Reached(a, field) = {a}
  BY <1>1 DEF L!Reached
<1>3. QED
  BY <1>1, <1>2 DEF L!Listed

LEMMA ListFact == ListInv => L!ListIsOpenFiles
<1> SUFFICES ASSUME ListInv
             PROVE  L!Listed("next", head) = Opened /\ L!Listed("prev", current) = Opened
  BY DEF L!ListIsOpenFiles, Opened
<1>1. CASE NoNode
  BY <1>1, NoNodeReached DEF NoNode
<1>2. ASSUME NEW a, OneNode(a, loads[Len(loads)].fp)
      PROVE  L!Listed("next", head) = Opened /\ L!Listed("prev", current) = Opened
  BY <1>2, OneNodeReached DEF OneNode
<1>3. QED
  BY <1>1, <1>2 DEF ListInv

LEMMA ffreeFact ==
  ASSUME ListInv, L!ffree
  PROVE  NoNode'
<1>1. /\ load_streams' = [fp \in DOMAIN load_streams \ Opened |-> load_streams[fp]]
      /\ head' = L!NULL /\ current' = L!NULL
  BY ListFact DEF L!ffree, L!Closed, L!ListIsOpenFiles, Opened
<1>2. Opened' = {}
  BY <1>1 DEF Opened
<1>3. DOMAIN nodes \ L!Reached(head, "next") = {}
  <2>1. CASE NoNode
    BY <2>1 DEF NoNode
  <2>2. ASSUME NEW a, OneNode(a, loads[Len(loads)].fp)
        PROVE  DOMAIN nodes \ L!Reached(head, "next") = {}
    BY <2>2, OneNodeReached DEF OneNode
  <2>3. QED
    BY <2>1, <2>2 DEF ListInv
<1>4. nodes' = [a \in {} |-> L!NULL]
  <2>1. nodes' = [a \in {} |-> nodes[a]]
    BY <1>3 DEF L!ffree
  <2>2. QED
    BY <2>1
<1>5. QED
  BY <1>1, <1>2, <1>4 DEF NoNode

LEMMA ListInit == L!Init => ListInv
<1> SUFFICES ASSUME L!Init PROVE ListInv
  OBVIOUS
<1>1. loads = <<L!Waiting(load_chosen)>> /\ Len(loads) = 1
  BY DEF L!Init
<1>2. TopKind = "wait"
  BY <1>1 DEF TopKind, L!Waiting, L!Frame
<1>3. NoNode
  BY DEF L!Init, NoNode, Opened
<1>4. QED
  BY <1>2, <1>3 DEF ListInv

LEMMA LoadAnewList ==
  ASSUME LoadInv, ListInv, NEW p, NEW by, L!LoadAnew(p, by)
  PROVE  ListInv'
<1>1. loads' = <<L!Waiting(p)>> /\ Len(loads') = 1
  BY DEF L!LoadAnew
<1>2. TopKind' = "wait"
  BY <1>1 DEF TopKind, L!Waiting, L!Frame
<1>3. CASE L!ffree
  BY <1>2, <1>3, ffreeFact DEF ListInv
<1>4. CASE load_loadable # TRUE /\ UNCHANGED <<load_streams, L!list>>
  <2>1. NoNode
    BY <1>4 DEF ListInv
  <2>2. NoNode'
    BY <1>4, <2>1 DEF NoNode, Opened, L!list
  <2>3. QED
    BY <1>2, <2>2 DEF ListInv
<1>5. QED
  <2>1. L!ffree \/ (~load_loadable /\ UNCHANGED <<load_streams, L!list>>)
    BY DEF L!LoadAnew
  <2>2. ~load_loadable => load_loadable # TRUE
    BY Zenon
  <2>3. QED
    BY <1>3, <1>4, <2>1, <2>2

LEMMA SameList ==
  ASSUME ListInv, UNCHANGED <<loads, load_streams, L!list, load_loadable>>
  PROVE  ListInv'
BY DEF ListInv, TopKind, NoNode, OneNode, Opened, L!list

LEMMA LoadsAnewList ==
  ASSUME LoadInv, ListInv, L!LoadsAnew
  PROVE  ListInv'
<1>1. ASSUME NEW why, L!Exit(why) PROVE ListInv'
  BY <1>1, SameList DEF L!Exit, L!engine
<1>2. L!reload => ListInv'
  BY <1>1, LoadAnewList DEF L!reload
<1>3. L!cancelled => ListInv'
  BY <1>1 DEF L!cancelled
<1>4. \A p : L!reload2(p) => ListInv'
  BY LoadAnewList DEF L!reload2
<1>5. QED
  BY <1>2, <1>3, <1>4 DEF L!LoadsAnew

\* A file that is begun or has ended does not change the list, which is empty then.
LEMMA NoNodeKept ==
  ASSUME NoNode, UNCHANGED L!list, load_loadable' = TRUE, Opened' \subseteq Opened,
         TopKind' \in {"wait", "chunk", "api_main"}
  PROVE  ListInv'
BY DEF ListInv, NoNode, L!list

\* A first load returns: its script is started, or the program has ended.
LEMMA FirstReturnsList ==
  ASSUME NEW dir, NEW why, L!Return(<< >>, dir, why)
  PROVE  TopKind' \in {TopKind, "api_main"}
<1>1. loads' = loads \/ (loads' = <<L!Main>> /\ Len(loads') = 1)
  BY DEF L!Return
<1>2. loads' = loads => TopKind' = TopKind
  BY DEF TopKind
<1>3. loads' = <<L!Main>> /\ Len(loads') = 1 => TopKind' = "api_main"
  BY DEF TopKind, L!Main, L!Frame
<1>4. QED
  BY <1>1, <1>2, <1>3

\* The load on top after the one on top has ended.
LEMMA BelowTop ==
  ASSUME LoadInv, Len(loads) > 1, loads' = L!Front(loads)
  PROVE  TopKind' \in {"chunk", "api_main"}
<1>1. /\ loads' \in Seq(Loads) /\ Len(loads') = Len(loads) - 1
      /\ \A k \in 1 .. Len(loads') : loads'[k] = loads[k]
  BY FrontOfLoads
<1>2. Len(loads) \in Nat /\ Len(loads') \in 1 .. Len(loads) /\ Len(loads') # Len(loads)
      /\ Len(loads') \in 1 .. Len(loads')
  BY <1>1 DEF LoadInv, Shape
<1>3. loads'[Len(loads')] = loads[Len(loads')]
  BY <1>1, <1>2
<1>4. loads[Len(loads')].kind \in {"api_main", "chunk"}
  BY <1>2 DEF LoadInv, Shape
<1>5. QED
  BY <1>3, <1>4 DEF TopKind

LEMMA LoadFileList ==
  ASSUME NoNode, NEW p, NEW below \in Seq(Loads), L!loadFile(p, below), load_loadable' = TRUE,
         TopKind \in {"wait", "chunk", "api_main"}, below \in {<< >>, loads}
  PROVE  ListInv'
<1>1. UNCHANGED L!list
  BY DEF L!loadFile
<1>2. ASSUME NEW fp, fp \notin DOMAIN load_streams, load_streams' = L!Put(load_streams, fp, "loadFile"),
             NEW f, f.kind = "chunk", loads' = Append(below, f)
      PROVE  ListInv'
  <2>1. loads'[Len(loads')] = f
    BY <1>2
  <2>2. Opened' \subseteq Opened
    BY <1>2 DEF Opened, L!Put
  <2>3. QED
    BY <1>1, <1>2, <2>1, <2>2, NoNodeKept DEF TopKind
<1>3. ASSUME NEW dir, NEW why, L!Return(below, dir, why), UNCHANGED load_streams
      PROVE  ListInv'
  <2>1. Opened' = Opened
    BY <1>3 DEF Opened
  <2>2. CASE below = << >>
    BY <1>1, <1>3, <2>1, <2>2, FirstReturnsList, NoNodeKept
  <2>3. CASE below # << >>
    <3>1. loads' = loads
      BY <1>3, <2>3 DEF L!Return
    <3>2. TopKind' = TopKind
      BY <3>1 DEF TopKind
    <3>3. QED
      BY <1>1, <2>1, <3>1, <3>2, NoNodeKept
  <2>4. QED
    BY <2>2, <2>3
<1>4. CASE \E fp \in FILEs \ DOMAIN load_streams :
             /\ load_streams' = L!Put(load_streams, fp, "loadFile")
             /\ loads' = Append(below, L!Frame("chunk", p, cwd, fp))
  <2>1. \A fp : L!Frame("chunk", p, cwd, fp).kind = "chunk"
    BY DEF L!Frame
  <2>2. QED
    BY <1>2, <1>4, <2>1
<1>5. QED
  BY <1>3, <1>4 DEF L!loadFile

LEMMA ChunkEndsList ==
  ASSUME LoadInv, ListInv, NEW why, L!ChunkEnds(why)
  PROVE  ListInv'
<1>1. /\ TopKind = "chunk" /\ Len(loads) \in Nat /\ Len(loads) >= 1
  BY TopLoad DEF L!ChunkEnds, TopKind
<1>2. NoNode /\ load_loadable' = TRUE /\ UNCHANGED L!list
  BY <1>1 DEF ListInv, L!ChunkEnds
<1> DEFINE fp == L!Last(loads).fp
<1>3. load_streams' = L!Without(load_streams, fp)
  BY DEF L!ChunkEnds
<1> HIDE DEF fp
<1>4. Opened' \subseteq Opened
  BY <1>3 DEF Opened, L!Without
<1>5. CASE L!Front(loads) = << >>
  BY <1>1, <1>2, <1>4, <1>5, FirstReturnsList, NoNodeKept DEF L!ChunkEnds
<1>6. CASE L!Front(loads) # << >>
  <2>1. loads' = L!Front(loads)
    BY <1>6 DEF L!ChunkEnds, L!Return
  <2>2. Len(loads) > 1
    <3>1. Len(L!Front(loads)) # 0 /\ Len(L!Front(loads)) = Len(loads) - 1
      BY <1>6, FrontOfLoads, EmptySeq
    <3>2. QED
      BY <1>1, <3>1
  <2>3. QED
    BY <1>2, <1>4, <2>1, <2>2, BelowTop, NoNodeKept
<1>7. QED
  BY <1>5, <1>6

LEMMA fopen2List ==
  ASSUME ListInv, NoNode, load_loadable' = TRUE, NEW fp, fp \notin DOMAIN load_streams, NEW a,
         L!fopen2(fp, a), NEW f, f.kind = "parse", f.fp = fp, loads \in Seq(Loads),
         loads' = Append(loads, f)
  PROVE  ListInv'
<1>1. loads'[Len(loads')] = f
  OBVIOUS
<1>2. /\ nodes' = L!Put(nodes, a, Node(fp)) /\ head' = a /\ current' = a
      /\ load_streams' = L!Put(load_streams, fp, "lua")
  BY DEF L!fopen2, NoNode, Node
<1>3. nodes' = [x \in {a} |-> Node(fp)]
  BY <1>2 DEF NoNode, L!Put
<1>4. Opened' = {fp}
  BY <1>2 DEF NoNode, Opened, L!Put
<1>5. OneNode(a, fp)'
  BY <1>2, <1>3, <1>4 DEF OneNode
<1>6. QED
  BY <1>1, <1>5 DEF ListInv, TopKind

LEMMA ParsedList ==
  ASSUME LoadInv, ListInv, L!Parsed
  PROVE  ListInv'
<1>1. /\ TopKind = "parse" /\ Len(loads) \in Nat /\ Len(loads) >= 1
      /\ L!Last(loads) = loads[Len(loads)]
  BY TopLoad DEF L!Parsed, TopKind
<1> DEFINE fp == loads[Len(loads)].fp
<1>2. PICK a : OneNode(a, fp)
  BY <1>1 DEF ListInv
<1>3. /\ L!fclose2(fp) /\ loads' = L!Front(loads) /\ UNCHANGED load_loadable
  BY <1>1 DEF L!Parsed, L!engine
<1>4. load_loadable' = TRUE
  BY <1>1, <1>3 DEF ListInv
<1> HIDE DEF fp
<1>5. /\ head = a /\ current = a /\ DOMAIN nodes = {a} /\ nodes[a] = Node(fp)
      /\ L!Reached(head, "next") = {a} /\ L!Listed("next", head) = {fp}
  BY <1>2, OneNodeReached DEF OneNode
<1>6. (CHOOSE b \in L!Reached(head, "next") : nodes[b].fp = fp) = a
  BY <1>5 DEF Node
<1>7. /\ load_streams' = L!Without(load_streams, fp)
      /\ DOMAIN nodes' = {} /\ head' = L!NULL /\ current' = L!NULL
  <2>1. load_streams' = L!Without(load_streams, fp) /\ fp \in L!Listed("next", head)
    BY <1>3, <1>5 DEF L!fclose2
  <2> DEFINE b == CHOOSE b \in L!Reached(head, "next") : nodes[b].fp = fp
             link(x) == [nodes[x] EXCEPT !.next = IF x = nodes[b].prev THEN nodes[b].next ELSE @,
                                         !.prev = IF x = nodes[b].next THEN nodes[b].prev ELSE @]
  <2>2. /\ nodes' = [x \in DOMAIN nodes \ {b} |-> link(x)]
        /\ head' = IF b = head THEN nodes[b].next ELSE head
        /\ current' = IF b = current THEN nodes[b].prev ELSE current
    BY <1>3, <2>1, Zenon DEF L!fclose2
  <2>3. b = a
    BY <1>6
  <2> HIDE DEF b, link
  <2>4. QED
    BY <1>5, <2>1, <2>2, <2>3 DEF Node
<1>8. Opened' = {}
  BY <1>2, <1>7 DEF OneNode, Opened, L!Without
<1>9. nodes' = [x \in {} |-> L!NULL]
  BY <1>3, <1>5, <1>6, <1>7 DEF L!fclose2
<1>10. NoNode'
  BY <1>7, <1>8, <1>9 DEF NoNode
<1>11. Len(loads) > 1
  <2>1. Len(loads) \in 1 .. Len(loads)
    BY <1>1
  <2>2. QED
    BY <1>1, <2>1 DEF LoadInv, Shape, TopKind
<1>12. TopKind' \in {"chunk", "api_main"}
  BY <1>3, <1>11, BelowTop
<1>13. QED
  BY <1>4, <1>10, <1>12 DEF ListInv

LEMMA ListNext == LoadInv /\ ListInv /\ [L!Next]_(L!vars) => ListInv'
<1> SUFFICES ASSUME LoadInv, ListInv, [L!Next]_(L!vars) PROVE ListInv'
  OBVIOUS
<1>0. L!InScript => /\ NoNode /\ load_loadable = TRUE /\ loads \in Seq(Loads)
                    /\ TopKind \in {"chunk", "api_main"}
  BY TopLoad DEF L!InScript, ListInv, TopKind
<1>1. CASE L!Interrupted
  BY <1>1, LoadsAnewList DEF L!Interrupted
<1>2. CASE L!YieldReturns
  <2>1. TopKind = "wait" /\ load_loadable' = TRUE /\ L!loadFile(loads[Len(loads)].path, << >>)
    BY <1>2, TopLoad DEF L!YieldReturns, TopKind
  <2>2. NoNode /\ << >> \in Seq(Loads)
    BY <2>1 DEF ListInv
  <2>3. QED
    BY <2>1, <2>2, LoadFileList
<1>3. ASSUME NEW p \in Required, L!require(p) PROVE ListInv'
  BY <1>0, <1>3, LoadFileList DEF L!require
<1>4. ASSUME NEW p \in Required, L!luaL_loadfile(p) PROVE ListInv'
  <2>1. /\ NoNode /\ load_loadable' = TRUE /\ loads \in Seq(Loads)
    BY <1>0, <1>4 DEF L!luaL_loadfile, L!engine
  <2>2. PICK fp \in FILEs \ DOMAIN load_streams, a \in Memory \ DOMAIN nodes :
          L!fopen2(fp, a) /\ loads' = Append(loads, L!Frame("parse", p, cwd, fp))
    BY <1>4 DEF L!luaL_loadfile
  <2>3. /\ L!Frame("parse", p, cwd, fp).kind = "parse"
        /\ L!Frame("parse", p, cwd, fp).fp = fp
    BY DEF L!Frame
  <2>4. QED
    BY <2>1, <2>2, <2>3, fopen2List
<1>5. ASSUME NEW why, L!ChunkEnds(why) PROVE ListInv'
  BY <1>5, ChunkEndsList
<1>6. CASE L!Parsed
  BY <1>6, ParsedList
<1>7. CASE L!luaD_throw
  BY <1>5, <1>7, LoadsAnewList DEF L!luaD_throw
<1>8. CASE L!ScriptEnds
  BY <1>8, SameList DEF L!ScriptEnds, L!Exit, L!engine
<1>9. CASE UNCHANGED L!vars
  BY <1>9, SameList DEF L!vars, L!engine
<1>10. QED
  BY <1>1, <1>2, <1>3, <1>4, <1>5, <1>6, <1>7, <1>8, <1>9 DEF L!Next

-----------------------------------------------------------------------------
(* The parts in MCScripts: each rests where its module starts, or moves as it  *)
(* does.                                                                       *)

LEMMA ReportInvariance == MCSpec => []ReportInv
<1>1. MCInit => H!Init
  BY DEF MCInit
<1>2. [MCNext]_<<part, vars, files, io, report>> => [H!Next]_(H!vars)
  BY DEF MCNext, EngineStep, FilesStep, IOStep, ReportStep, report, H!vars
<1>3. QED
  BY <1>1, <1>2, ReportInit, ReportNext, PTL DEF MCSpec

LEMMA IOInvariance == MCSpec => []IOInv
<1>1. MCInit => IO!Init
  BY DEF MCInit, IORests
<1>2. [MCNext]_<<part, vars, files, io, report>> => [IO!Next]_(IO!vars)
  BY DEF MCNext, EngineStep, FilesStep, IOStep, ReportStep, io, IO!vars
<1>3. QED
  BY <1>1, <1>2, IOInit, IONext, PTL DEF MCSpec

LEMMA LoadInvariance == MCSpec => []LoadInv
<1>1. MCInit => L!Init
  BY DEF MCInit, FilesRest
<1>2. [MCNext]_<<part, vars, files, io, report>> => [L!Next]_(L!vars)
  BY DEF MCNext, EngineStep, FilesStep, IOStep, ReportStep, files, L!vars, L!list, L!engine
<1>3. QED
  BY <1>1, <1>2, LoadInit, LoadNext, PTL DEF MCSpec

\* The list of my_luacode.c holds just the FILEs that luaL_loadfile has opened and nobody has
\* closed, from either end, whichever reload left a load behind (my_luacode.c:10-70).
THEOREM ListedAreOpen == MCSpec => []ListIsOpenFiles
<1>1. MCInit => L!Init
  BY DEF MCInit, FilesRest
<1>2. [MCNext]_<<part, vars, files, io, report>> => [L!Next]_(L!vars)
  BY DEF MCNext, EngineStep, FilesStep, IOStep, ReportStep, files, L!vars, L!list, L!engine
<1>3. ListInv => ListIsOpenFiles
  BY ListFact DEF ListIsOpenFiles
<1>4. QED
  BY <1>1, <1>2, <1>3, ListInit, ListNext, LoadInvariance, PTL DEF MCSpec

\* While no file is loaded a script runs in the program's directory, unless the dialog was
\* used or a load left behind in another one (scriptBase.cpp:54-66).
THEOREM DirectoryComesBack == MCSpec => []DirectoryRestored
<1>1. LoadInv => DirectoryRestored
  <2> SUFFICES ASSUME LoadInv, L!Top("api_main"), ~moved PROVE cwd = L!App
    BY DEF DirectoryRestored, L!DirectoryRestored
  <2>1. /\ load_ended = L!No /\ Len(loads) \in Nat /\ Len(loads) >= 1
        /\ loads[Len(loads)].kind = "api_main"
    BY TopLoad
  <2>2. Len(loads) = 1
    <3>1. Len(loads) \in 1 .. Len(loads)
      BY <2>1
    <3>2. loads[Len(loads)].kind \in {"wait", "api_main"} => Len(loads) = 1
      BY <3>1 DEF LoadInv, Shape
    <3>3. QED
      BY <2>1, <3>2
  <2>3. QED
    BY <2>1, <2>2 DEF LoadInv, KeepsDirectory
<1>2. QED
  BY <1>1, LoadInvariance, PTL

\* A script that the user chose by its absolute path is found again by every reload,
\* whatever files it has loaded since and whatever directory they have left
\* (scriptBase.cpp:40-42).
THEOREM ChosenIsFound == MCSpec => []AbsoluteIsFound
<1>1. LoadInv => AbsoluteIsFound
  BY DEF LoadInv, KeepsName, AbsoluteIsFound, L!AbsoluteIsFound
<1>2. QED
  BY <1>1, LoadInvariance, PTL

\* While the bot plays nothing of an earlier report is left open or allocated, whichever
\* of its calls has failed (network.cpp:13-22, 76-109).
THEOREM ReportLeavesNothing == MCSpec => []NothingLeft
<1>1. ReportInv => NothingLeft
  BY DEF ReportInv, NothingLeft, H!NothingLeft, H!At
<1>2. QED
  BY <1>1, ReportInvariance, PTL

\* No stream is used after it was closed, closed twice, or closed for another userdata that
\* C has given it to (liolib.c:99-149).
THEOREM OwnStreams == MCSpec => []EachItsOwnFile
<1>1. IOInv => EachItsOwnFile
  BY DEF IOInv, Named, Apart, EachItsOwnFile, IO!EachItsOwnFile, IO!IsOpen
<1>2. QED
  BY <1>1, IOInvariance, PTL

\* Whatever the script forgot or left open is closed before it is loaded again
\* (liolib.c:143-149).
THEOREM NoStreamIsLost == MCSpec => []AllClosed
<1>1. IOInv => AllClosed
  BY DEF IOInv, Held, AllClosed, IO!AllClosed
<1>2. QED
  BY <1>1, IOInvariance, PTL
=============================================================================
