-------------------------------- MODULE LuaGC --------------------------------
(***************************************************************************)
(* The garbage collector (lgc.c) with the objects of lfunc.c, lstring.c    *)
(* and lstate.c, between the steps of a script that creates, links, drops  *)
(* and resurrects objects.  A step of the collector (singlestep) runs      *)
(* where the script allocates; a script may allocate between any two of    *)
(* its operations.                                                         *)
(*                                                                         *)
(* The white that is not the current one is the colour "dead".  A table    *)
(* has one entry with an object on at most one side, a closure one         *)
(* upvalue, all strings are the same text.  The lists of the collector are *)
(* sets: their order, by which it picks the next object, is left open, and *)
(* a sweep takes one object at a time (GCSWEEPMAX is 40).  Outside of the  *)
(* mark phase gray, grayagain and weak are empty here: markroot resets     *)
(* them unread.  Metatables are a table's mode and a userdata's gc; the    *)
(* globals and the sizes that pace the collector are left out.             *)
(***************************************************************************)
EXTENDS Integers, Sequences, SequencesExt

CONSTANTS
  Heap,    \* addresses for new objects
  Scripts  \* of a script: the kinds of objects it creates, the addresses malloc
           \* gives it, the slots of its main stack (a coroutine has one), whether it
           \* calls collectgarbage("collect")

ASSUME ScriptsAssumption ==
  \A s \in Scripts : s.memory \subseteq Heap /\ s.slots \in Nat \ {0}

VARIABLES
  heap,          \* address -> object, Free when there is none
  gray, grayagain, weak,  \* the collector's lists
  gcstate,
  unswept,       \* the objects from sweepstrgc or sweepgc on
  tmudata,       \* userdata whose finalizer is to be called
  running,       \* the threads from the main one to the one that runs
  mode,          \* "script", in fullgc "reset" or "collect", "closing" or "closed"
  script         \* the script

collector == <<gray, grayagain, weak, gcstate, unswept, tmudata>>
vars == <<heap, collector, running, mode, script>>

Main == "mainthread"
Nil == "nil"
Plain == "1"  \* a value that is no object
Addresses == Heap \cup {Main}
Free == [tt |-> "free"]

ASSUME ValuesAssumption == Nil \notin Addresses /\ Plain \notin Addresses

Allocated(h) == {a \in Addresses : h[a].tt # "free"}
White(h) == {a \in Addresses : h[a].tt # "free" /\ h[a].col \in {"white", "dead"}}
IsWhite(h, a) == a \in White(h)
IsDead(a) == heap[a].col = "dead"

\* An open upvalue is at its slot of a thread's stack; a closed one at <<>>.
IsOpen(h, a) == h[a].tt = "upval" /\ h[a].at # <<>>
UpValue(h, a) == IF IsOpen(h, a) THEN h[h[a].at[1]].stack[h[a].at[2]] ELSE h[a].val

NewObject(kind) ==
  CASE kind \in {"strong", "k", "v", "kv"} ->
         [tt |-> "table", col |-> "white", val |-> Nil, key |-> Nil,
          mode |-> CASE kind = "strong" -> {} [] kind = "kv" -> {"k", "v"} [] OTHER -> {kind}]
    [] kind \in {"userdata", "gcuserdata"} ->
         [tt |-> "userdata", col |-> "white", gc |-> kind = "gcuserdata",
          finalized |-> FALSE, calls |-> 0]
    [] kind = "thread" ->
         [tt |-> "thread", col |-> "white", stack |-> <<Nil>>, resumed |-> Nil]
    [] OTHER -> [tt |-> "string", col |-> "white"]

Init ==
  /\ script \in Scripts
  /\ heap = [a \in Addresses |->
               IF a = Main THEN [tt |-> "thread", col |-> "white", resumed |-> Nil,
                                 stack |-> [s \in 1 .. script.slots |-> Nil]]
               ELSE Free]
  /\ gray = {} /\ grayagain = {} /\ weak = {} /\ unswept = {} /\ tmudata = {}
  /\ gcstate = "pause"
  /\ running = <<Main>> /\ mode = "script"

-----------------------------------------------------------------------------
\* What an object refers to.  A weak entry keeps neither side that is weak.
StrongRefs(h, a) ==
  LET o == h[a]
      refs == CASE o.tt = "table" ->
                     {x \in {o.key} : o.val # Nil /\ "k" \notin o.mode}
                       \cup {x \in {o.val} : "v" \notin o.mode}
                [] o.tt = "function" -> {o.up}
                [] o.tt = "upval" -> {UpValue(h, a)}
                [] o.tt = "thread" -> Range(o.stack) \cup {o.resumed}
                [] OTHER -> {}
  IN refs \cap Addresses

\* What is reached from the addresses "from" among "all" by these references: the least
\* set that holds them and all that its members refer to.
Reached(from, all, refs) ==
  LET closed == {S \in {from \cup T : T \in SUBSET (all \ from)} :
                   \A r \in refs : r[1] \in S /\ r[2] \in all => r[2] \in S}
  IN {a \in all : \A S \in closed : a \in S}

References(h, as) == UNION {{a} \X StrongRefs(h, a) : a \in as}
Reach(h, roots) == Reached(roots, Addresses, References(h, Addresses))

Roots == {Main, Last(running)}
Live(h) == Reach(h, Roots)

\* A weak table in reach keeps its strings, which count as values.
Held(h) ==
  LET live == Live(h)
      tables == {a \in live \cap Allocated(h) : h[a].tt = "table"}
      entries == UNION {{h[a].key, h[a].val} : a \in {t \in tables : h[t].val # Nil}}
  IN live \cup {x \in entries \cap Allocated(h) : h[x].tt = "string"}

\* traversetable and an empty entry: its key is forgotten, but not that of a table weak
\* in both sides, which is not looked into.
Forgets(o) == o.tt = "table" /\ o.val = Nil /\ o.mode # {"k", "v"}

Color(h, as, c) == [a \in Addresses |-> IF a \in as THEN [h[a] EXCEPT !.col = c] ELSE h[a]]

-----------------------------------------------------------------------------
\* Marking.  g: the fields heap, gray, again and weak.
\* reallymarkobject goes on at once with what a userdata or an upvalue holds.
mark(g, values) ==
  LET h == g.heap
      white == White(h)
      inner == {a \in white : h[a].tt \in {"userdata", "upval"}}
      marked == Reached(values \cap white, white, References(h, inner))
      black == {a \in marked : \/ h[a].tt = "userdata"
                               \/ h[a].tt = "upval" /\ ~IsOpen(h, a)}
  IN [g EXCEPT !.heap = Color(Color(h, marked \ black, "gray"), black, "black"),
               !.gray = @ \cup {a \in marked : h[a].tt \in {"table", "function", "thread"}}]

\* One gray object is traversed.  Threads and weak tables stay gray.
propagatemark(g, a) ==
  LET o == g.heap[a]
      isweak == o.tt = "table" /\ o.mode # {}
      cleaned == IF Forgets(o) THEN [o EXCEPT !.key = Nil] ELSE o
      col == IF isweak \/ o.tt = "thread" THEN "gray" ELSE "black"
  IN mark([heap |-> [g.heap EXCEPT ![a] = [cleaned EXCEPT !.col = col]],
           gray |-> g.gray \ {a},
           again |-> IF o.tt = "thread" THEN g.again \cup {a} ELSE g.again,
           weak |-> IF isweak THEN g.weak \cup {a} ELSE g.weak],
          StrongRefs(g.heap, a))

\* Fault: a userdata whose finalizer was called for already is taken again.
MutSeparated(h, us) == {a \in us : h[a].tt = "userdata" /\ h[a].gc}

\* luaC_separateudata: of these userdata (the white ones, or all) those that have a
\* finalizer that was not yet called for.
Separated(h, us) == {a \in us : h[a].tt = "userdata" /\ ~h[a].finalized /\ h[a].gc}
Finalized(h, us) ==
  [a \in Addresses |-> IF h[a].tt = "userdata" /\ a \in us THEN [h[a] EXCEPT !.finalized = TRUE]
                      ELSE h[a]]

\* Fault: strings are cleared like any object.
Mutiscleared(h, white, x, iskey) ==
  x \in Addresses /\ (x \in white \/ (h[x].tt = "userdata" /\ ~iskey /\ h[x].finalized))

iscleared(h, white, x, iskey) ==
  /\ x \in Addresses /\ h[x].tt # "string"
  /\ x \in white \/ (h[x].tt = "userdata" /\ ~iskey /\ h[x].finalized)

\* An entry goes with its key or its value; what stays holds its strings, which are
\* marked.
cleartable(h, white, ws) ==
  LET full == {a \in ws : h[a].val # Nil}
      locked == {a \in full : ~iscleared(h, white, h[a].key, TRUE)}
      kept == {a \in locked : ~iscleared(h, white, h[a].val, FALSE)}
      seen == {h[a].key : a \in full} \cup {h[a].val : a \in locked}
  IN [gone |-> full \ kept, strings |-> {x \in seen \cap Addresses : h[x].tt = "string"}]

-----------------------------------------------------------------------------
\* The steps of the collector.
Collects == mode \in {"script", "reset", "collect"}
Rooted == mark([heap |-> heap, gray |-> {}, again |-> {}, weak |-> {}], {Main})

TakeLists(g) ==
  heap' = g.heap /\ gray' = g.gray /\ grayagain' = g.again /\ weak' = g.weak

StartCycle ==  \* markroot; in fullgc once the reset is over
  /\ \/ mode # "reset" /\ Collects /\ gcstate = "pause" /\ mode' = mode
     \/ mode = "reset" /\ gcstate = "finalize" /\ mode' = "collect"
  /\ gcstate' = "propagate"
  /\ TakeLists(Rooted)
  /\ UNCHANGED <<unswept, tmudata, running, script>>

Lists == [heap |-> heap, gray |-> gray, again |-> grayagain, weak |-> weak]

Propagate ==
  /\ Collects /\ gcstate = "propagate"
  /\ \E a \in gray : TakeLists(propagatemark(Lists, a))
  /\ UNCHANGED <<gcstate, unswept, tmudata, running, mode, script>>

Strings(h) == {a \in Allocated(h) : h[a].tt = "string"}

\* What propagateall marks of the white ones from these values on.
MarkedAll(white, values) ==
  Reached(values \cap white, white, References(heap, white))

StaysGray(h, a) ==
  \/ h[a].tt \in {"thread", "string"} \/ IsOpen(h, a)
  \/ h[a].tt = "table" /\ h[a].mode # {}

\* The end of the marking, all at once: from the upvalues of threads that may be
\* dead, the weak tables, what the barriers and the stacks left in grayagain and
\* the running thread; then from the userdata to finalize (marktmu), which may be
\* marked already.  Weak tables are cleared and the white flips.
atomic ==
  /\ Collects /\ gcstate = "propagate" /\ gray = {}
  /\ gcstate' = "sweepstring" /\ unswept' = Strings(heap)
  /\ gray' = {} /\ grayagain' = {} /\ weak' = {}
  /\ LET held == {a \in Addresses : IsOpen(heap, a) /\ heap[a].col = "gray"}
         again == grayagain \cup weak
         seeds == {Last(running)} \cup UNION {StrongRefs(heap, a) : a \in held \cup again}
         white1 == White(heap) \ MarkedAll(White(heap), seeds)
         us == tmudata \cup Separated(heap, white1)
         white2 == white1 \cup us
         white3 == white2 \ MarkedAll(white2, us)
         kept == Allocated(heap) \ white3
         tables == {a \in kept : heap[a].tt = "table"}
         traversed == tables \cap (White(heap) \cup again)
         emptied == {a \in traversed : Forgets(heap[a])}
         h == Finalized(heap, white1)
         cleared == cleartable(h, white3, {a \in tables : heap[a].mode # {}})
         dead == white3 \ cleared.strings
         blacks == {a \in kept : ~StaysGray(heap, a)}
         grays == (kept \cup cleared.strings) \ blacks
         colored == Color(Color(Color(h, grays, "gray"), blacks, "black"), dead, "dead")
     IN /\ heap' = [a \in Addresses |->
                      IF a \in cleared.gone THEN [colored[a] EXCEPT !.val = Nil, !.key = Nil]
                      ELSE IF a \in emptied THEN [colored[a] EXCEPT !.key = Nil]
                      ELSE colored[a]]
        /\ tmudata' = us
  /\ UNCHANGED <<running, mode, script>>

\* A dead object is freed, any other turns white.
Swept(h, as) ==
  LET dead == {a \in as : h[a].col = "dead"}
  IN [a \in Addresses |-> IF a \in dead THEN Free ELSE Color(h, as, "white")[a]]

OpenUpvals(h, t) == {a \in Addresses : IsOpen(h, a) /\ h[a].at[1] = t}

\* luaF_close: a dead upvalue is freed, any other takes its value along and is
\* linked to the objects (luaC_linkupval).  A list of open ones is never black.
luaF_close(g, us) ==
  LET h == g.heap
      kept == {a \in us : h[a].col # "dead"}
      closed == [a \in Addresses |->
                   IF a \notin us THEN h[a]
                   ELSE IF a \in kept THEN [h[a] EXCEPT !.val = UpValue(h, a), !.at = <<>>]
                   ELSE Free]
      grays == {a \in kept : h[a].col = "gray"}
  IN IF gcstate = "propagate"
     THEN mark([g EXCEPT !.heap = Color(closed, grays, "black")],
               {UpValue(h, a) : a \in grays})
     ELSE [g EXCEPT !.heap = Color(closed, grays, "white")]

\* Fault: a userdata that was separated once is never linked back.
Mutrootgc(h) ==
  {a \in Allocated(h) \ Strings(h) : /\ ~IsOpen(h, a)
                                     /\ h[a].tt = "userdata" => h[a].calls = 0}

\* The objects of the list rootgc; GCTM links userdata back to it.
rootgc(h) == {a \in Allocated(h) \ (Strings(h) \cup tmudata) : ~IsOpen(h, a)}

SweepString ==
  /\ Collects /\ gcstate = "sweepstring"
  /\ IF unswept = {} THEN /\ gcstate' = "sweep"
                          /\ unswept' = rootgc(heap)
                          /\ UNCHANGED heap
     ELSE /\ \E a \in unswept : heap' = Swept(heap, {a}) /\ unswept' = unswept \ {a}
          /\ UNCHANGED gcstate
  /\ UNCHANGED <<gray, grayagain, weak, tmudata, running, mode, script>>

\* With a thread its open upvalues; a thread that is freed closes those left.
Sweep ==
  /\ Collects /\ gcstate = "sweep"
  /\ IF unswept = {} THEN gcstate' = "finalize" /\ UNCHANGED <<heap, unswept>>
     ELSE /\ \E a \in unswept :
               LET h == Swept(heap, OpenUpvals(heap, a))
                   left == IF IsDead(a) THEN OpenUpvals(h, a) ELSE {}
               IN /\ heap' = Swept(luaF_close([Lists EXCEPT !.heap = h], left).heap, {a})
                  /\ unswept' = unswept \ {a}
          /\ UNCHANGED gcstate
  /\ UNCHANGED <<gray, grayagain, weak, tmudata, running, mode, script>>

\* The stack of the thread that runs.
L == Last(running)
Slots == DOMAIN heap[L].stack
SetSlot(h, s, v) == [h EXCEPT ![L].stack[s] = v]

\* The finalizer of one userdata, which may put it back where the script sees it.
GCTM ==
  /\ \/ Collects /\ mode # "reset" /\ gcstate = "finalize"
     \/ mode = "closing"
  /\ \E u \in tmudata :
       LET o == [heap[u] EXCEPT !.col = "white", !.calls = @ + 1]
           h == [heap EXCEPT ![u] = o]
       IN /\ heap' \in {h} \cup {SetSlot(h, s, u) : s \in Slots}
          /\ tmudata' = tmudata \ {u}
  /\ UNCHANGED <<gray, grayagain, weak, gcstate, unswept, running, mode, script>>

EndCycle ==
  /\ Collects /\ mode # "reset" /\ gcstate = "finalize" /\ tmudata = {}
  /\ gcstate' = "pause" /\ mode' = "script"
  /\ UNCHANGED <<heap, gray, grayagain, weak, unswept, tmudata, running, script>>

singlestep == StartCycle \/ Propagate \/ atomic \/ SweepString \/ Sweep \/ GCTM \/ EndCycle

\* luaC_fullgc: a mark phase is given up; what is marked is swept white again.
FullGC ==
  /\ mode = "script" /\ script.collects
  /\ mode' = "reset"
  /\ IF gcstate \in {"pause", "propagate"}
     THEN /\ gray' = {} /\ grayagain' = {} /\ weak' = {}
          /\ gcstate' = "sweepstring" /\ unswept' = Strings(heap)
     ELSE UNCHANGED <<gray, grayagain, weak, gcstate, unswept>>
  /\ UNCHANGED <<heap, tmudata, running, script>>

\* lua_close: every finalizer is called, then everything is freed.
Close ==
  /\ mode = "script" /\ running = <<Main>>
  /\ mode' = "closing"
  /\ LET h == luaF_close(Lists, OpenUpvals(heap, Main)).heap
     IN tmudata' = tmudata \cup Separated(h, Addresses) /\ heap' = Finalized(h, Addresses)
  /\ UNCHANGED <<gray, grayagain, weak, gcstate, unswept, running, script>>

FreeAll ==
  /\ mode = "closing" /\ tmudata = {}
  /\ mode' = "closed" /\ heap' = [a \in Addresses |-> Free]
  /\ UNCHANGED <<collector, running, script>>

-----------------------------------------------------------------------------
\* The steps of the script.
FreeAddresses == script.memory \ Allocated(heap)
malloc(h) == CHOOSE a \in script.memory \ Allocated(h) : TRUE
Scripted == mode = "script" /\ UNCHANGED <<gcstate, unswept, tmudata, mode, script>>
HeapOnly == Scripted /\ UNCHANGED <<gray, grayagain, weak, running>>

Create(kind, s) ==
  /\ HeapOnly /\ kind \notin {"function", "string"} /\ FreeAddresses # {}
  /\ LET a == malloc(heap)
     IN heap' = SetSlot([heap EXCEPT ![a] = NewObject(kind)], s, a)

\* luaS_newlstr: the string that is there already, dead or not, or a new one.
NewString(s) ==
  /\ HeapOnly /\ "string" \in script.kinds
  /\ LET known == Strings(heap)
         a == IF known = {} THEN malloc(heap) ELSE CHOOSE x \in known : TRUE
         o == IF known # {} /\ ~IsDead(a) THEN heap[a] ELSE NewObject("string")
     IN (known # {} \/ FreeAddresses # {}) /\ heap' = SetSlot([heap EXCEPT ![a] = o], s, a)

Upval(at) == [tt |-> "upval", col |-> "white", at |-> at, val |-> Nil]

\* Fault: a dead upvalue that is found again stays dead.
Mutfindupval(h, c) ==
  LET found == {u \in OpenUpvals(h, L) : h[u].at[2] = c}
      u == IF found # {} THEN CHOOSE x \in found : TRUE ELSE malloc(h)
  IN [heap |-> IF found # {} THEN h ELSE [h EXCEPT ![u] = Upval(<<L, c>>)], up |-> u]

\* The open upvalue of a slot, dead or not, or a new one.
luaF_findupval(h, c) ==
  LET found == {u \in OpenUpvals(h, L) : h[u].at[2] = c}
      u == IF found # {} THEN CHOOSE x \in found : TRUE ELSE malloc(h)
      o == IF found # {} /\ ~IsDead(u) THEN h[u] ELSE Upval(<<L, c>>)
  IN [heap |-> [h EXCEPT ![u] = o], up |-> u]

NewClosure(s, c) ==
  /\ HeapOnly /\ "function" \in script.kinds
  /\ \E a \in {x \in FreeAddresses : x = malloc(heap)} :
       LET h == [heap EXCEPT ![a] = [tt |-> "function", col |-> "white", up |-> Nil]]
           found == luaF_findupval(h, c)
       IN /\ FreeAddresses # {a} \/ \E u \in OpenUpvals(heap, L) : heap[u].at[2] = c
          /\ heap' = SetSlot([found.heap EXCEPT ![a].up = found.up], s, a)

InSlots(kinds) == {a \in Range(heap[L].stack) \cap Addresses : heap[a].tt \in kinds}

\* A move, or what a table or an upvalue in reach holds.
Load(s) ==
  /\ HeapOnly
  /\ LET tables == {t \in InSlots({"table"}) : heap[t].val # Nil}
         gotten == {UpValue(heap, heap[f].up) : f \in InSlots({"function"})} \cup
                   UNION {{heap[t].val, heap[t].key} : t \in tables}
     IN \E v \in {Nil} \cup Range(heap[L].stack) \cup gotten :
          v # heap[L].stack[s] /\ heap' = SetSlot(heap, s, v)

\* luaV_settable: the barriers of a new key and of the value.
SetTable(t, k, v) ==
  /\ Scripted
  /\ heap[t].val = Nil \/ heap[t].key = k
  /\ v # Nil \/ heap[t].key = k
  /\ LET h == [heap EXCEPT ![t] = [@ EXCEPT !.key = k, !.val = v]]
         back == /\ heap[t].col = "black"
                 /\ IsWhite(heap, v) \/ (heap[t].key # k /\ IsWhite(heap, k))
     IN /\ heap' = IF back THEN Color(h, {t}, "gray") ELSE h
        /\ grayagain' = IF back /\ gcstate = "propagate" THEN grayagain \cup {t} ELSE grayagain
  /\ UNCHANGED <<gray, weak, running>>

\* While marking the value is marked; later the object is taken for swept.
luaC_barrierf(g, o, v) ==
  IF gcstate = "propagate" THEN mark(g, {v})
  ELSE [g EXCEPT !.heap = Color(@, {o}, "white")]

\* OP_SETUPVAL.
SetUpval(f, v) ==
  /\ Scripted
  /\ LET u == heap[f].up
         h == IF IsOpen(heap, u) THEN [heap EXCEPT ![heap[u].at[1]].stack[heap[u].at[2]] = v]
              ELSE [heap EXCEPT ![u].val = v]
         g == [Lists EXCEPT !.heap = h]
     IN TakeLists(IF h[u].col = "black" /\ IsWhite(h, v) THEN luaC_barrierf(g, u, v) ELSE g)
  /\ UNCHANGED running

CloseUpvals(level) ==
  /\ Scripted
  /\ LET us == {u \in OpenUpvals(heap, L) : heap[u].at[2] >= level}
     IN us # {} /\ TakeLists(luaF_close(Lists, us))
  /\ UNCHANGED running

\* A value is passed to the coroutine in slot s, and back when it yields.
Resume(s, v) ==
  /\ Scripted
  /\ LET co == heap[L].stack[s]
     IN /\ co \in InSlots({"thread"}) /\ co \notin Range(running)
        /\ running' = Append(running, co)
        /\ heap' = [heap EXCEPT ![L].resumed = co, ![co].stack[1] = v]
  /\ UNCHANGED <<gray, grayagain, weak>>

Yield(s) ==
  /\ Scripted /\ Len(running) > 1
  /\ LET from == Last(Front(running))
     IN /\ s \in DOMAIN heap[from].stack
        /\ heap' = [heap EXCEPT ![from].resumed = Nil, ![from].stack[s] = heap[L].stack[1]]
  /\ running' = Front(running)
  /\ UNCHANGED <<gray, grayagain, weak>>

ScriptStep ==
  /\ mode = "script"
  /\ \/ \E kind \in script.kinds, s \in Slots : Create(kind, s)
     \/ \E s \in Slots : NewString(s) \/ Load(s) \/ CloseUpvals(s)
     \/ \E s \in 1 .. script.slots : Yield(s)
     \/ \E s \in Slots, c \in Slots : NewClosure(s, c) \/ Resume(s, heap[L].stack[c])
     \/ \E t \in InSlots({"table"}), v \in {Plain} \cup Range(heap[L].stack),
           k \in {Plain} \cup (Range(heap[L].stack) \ {Nil}) :
             (k = Plain \/ v \in {Plain, Nil}) /\ SetTable(t, k, v)
     \/ \E f \in InSlots({"function"}), v \in Range(heap[L].stack) : SetUpval(f, v)

Next == singlestep \/ FullGC \/ Close \/ FreeAll \/ ScriptStep

\* A script that allocates again and again, which is what runs the collector, and
\* lua_close, which runs to its end.  The first is WF_collector(singlestep),
\* with Collects for its ENABLED: a collector that may run has a step.
Collected == []<>~Collects \/ []<><<singlestep>>_collector
Closes == FreeAll \/ (mode = "closing" /\ GCTM)
Spec == Init /\ [][Next]_vars /\ Collected /\ WF_vars(Closes)

-----------------------------------------------------------------------------
\* Nothing that the script can still get at is freed, or will be by this sweep:
\* the barriers and the revived strings and upvalues see to it.  No entry of a table in
\* reach holds a freed object, a weak one neither, and no empty entry has a freed key,
\* unless the table is weak in both sides: the key that was there is only compared
\* (lgc.c:177-188, 337-375, lfunc.c:61, lstring.c:88).
LiveIsKept ==
  mode # "closed" =>
    \A a \in Live(heap) \cup tmudata :
      /\ heap[a].tt # "free" /\ ~IsDead(a)
      /\ heap[a].tt = "table" /\ (heap[a].val # Nil \/ heap[a].mode # {"k", "v"}) =>
           {heap[a].key, heap[a].val} \cap Addresses \subseteq Allocated(heap)

\* A finalizer is called exactly once before its userdata is freed, whatever it
\* revives and when the state is closed too (lgc.c:128-155, 445-471).
Finalizes ==
  \A a \in Heap : heap[a].tt = "userdata" /\ heap[a].gc =>
    IF heap'[a].tt = "free" THEN heap[a].calls = 1 ELSE heap'[a].calls <= 1
FinalizedOnce == [][Finalizes]_vars

\* The collector takes an entry out of a table only when a side that is weak is
\* nowhere else, or its value is a userdata that is finalized, even one in use
\* again (lgc.c:337-375).
EntriesKept ==
  [][gcstate # gcstate' /\ mode' # "closed" =>
       \A a \in Live(heap) : heap[a].tt = "table" /\ heap[a].val # Nil =>
         \/ heap'[a].val = heap[a].val
         \/ "k" \in heap[a].mode /\ heap[a].key \in Addresses \ Held(heap)
         \/ "v" \in heap[a].mode /\ heap[a].val \in Addresses \ Held(heap)
         \/ \E u \in Heap : /\ heap[a].val = u /\ heap'[u].tt = "userdata"
                           /\ heap'[u].finalized]_vars

\* What the script has lost for good is freed in the end.
GarbageIsFreed ==
  \A a \in Heap : ~<>[](heap[a].tt # "free" /\ a \notin Held(heap))
=============================================================================
