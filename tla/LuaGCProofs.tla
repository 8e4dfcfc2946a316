----------------------------- MODULE LuaGCProofs -----------------------------
(***************************************************************************)
(* Proofs about the collector for every set of addresses and every script. *)
(*                                                                         *)
(* That a finalizer is called once is about the way of a userdata from the *)
(* mark "finalized" over tmudata to the call, and about which ones can be  *)
(* dead: a userdata with a finalizer is separated, and with that marked,   *)
(* before the white flips for the first time (Final).                      *)
(*                                                                         *)
(* That what the script can reach is kept, and that only weak entries go,  *)
(* is the tricolour invariant: while the collector marks, a black object   *)
(* refers to a white one only if it is listed to be visited again          *)
(* (Tricolor); when it sweeps, nothing that stays refers to what goes      *)
(* (Closed).  Each store of a script keeps it by a barrier or because it   *)
(* is into a thread, which is never black (LiveInv, from here LiveNext).   *)
(***************************************************************************)
EXTENDS LuaGC, SequenceTheorems, TLAPS

\* The fields that the proofs speak of.
Shaped(o) ==
  /\ "tt" \in DOMAIN o
  /\ o.tt = "userdata" => {"col", "gc", "finalized", "calls"} \subseteq DOMAIN o
Heaplike(h) == DOMAIN h = Addresses /\ \A a \in Addresses : Shaped(h[a])

WithFinalizer(h, a) == h[a].tt = "userdata" /\ h[a].gc

\* A userdata waits in tmudata from being marked as finalized to the call, and is dead only
\* after that.
Final(h, waiting) ==
  /\ waiting \subseteq Addresses
  /\ \A u \in waiting : WithFinalizer(h, u) /\ h[u].finalized /\ h[u].calls = 0
  /\ \A a \in Addresses : WithFinalizer(h, a) =>
       /\ a \notin waiting => h[a].calls = IF h[a].finalized THEN 1 ELSE 0
       /\ h[a].col = "dead" => h[a].finalized /\ a \notin waiting

AllFinal(h) == \A a \in Addresses : WithFinalizer(h, a) => h[a].finalized

FinalInv ==
  /\ script \in Scripts
  /\ Heaplike(heap) /\ Final(heap, tmudata)
  /\ mode = "closing" => AllFinal(heap)

\* From h to k only dead userdata go, and those that stay are the same but for their
\* colour, which does not become dead.
Keeps(h, k) ==
  /\ Heaplike(k)
  /\ \A a \in Addresses :
       /\ h[a].tt = "free" => k[a].tt = "free"
       /\ k[a].tt = "userdata" => h[a].tt = "userdata"
       /\ h[a].tt = "userdata" =>
            \/ k[a].tt = "free" /\ h[a].col = "dead"
            \/ /\ k[a].tt = "userdata" /\ k[a].gc = h[a].gc
               /\ k[a].finalized = h[a].finalized /\ k[a].calls = h[a].calls
               /\ k[a].col = "dead" => h[a].col = "dead"

-----------------------------------------------------------------------------
LEMMA KeepsTrans ==
  ASSUME NEW h, NEW k, NEW m, Keeps(h, k), Keeps(k, m)
  PROVE  Keeps(h, m)
BY DEF Keeps

LEMMA KeepsHeaplike == ASSUME NEW h, NEW k, Keeps(h, k) PROVE Heaplike(k)
BY DEF Keeps

LEMMA KeepsSelf == ASSUME NEW h, Heaplike(h) PROVE Keeps(h, h)
BY DEF Keeps, Heaplike

LEMMA KeepsColor ==
  ASSUME NEW h, NEW as, NEW c, c # "dead", Heaplike(h)
  PROVE  Keeps(h, Color(h, as, c))
<1> DEFINE k == Color(h, as, c)
<1>1. DOMAIN k = Addresses
  BY DEF Color
<1>2. \A a \in Addresses :
        /\ DOMAIN k[a] = DOMAIN h[a]
        /\ k[a].tt = h[a].tt
        /\ h[a].tt = "userdata" =>
             /\ k[a].gc = h[a].gc /\ k[a].finalized = h[a].finalized
             /\ k[a].calls = h[a].calls /\ k[a].col \in {h[a].col, c}
  BY DEF Color, Heaplike, Shaped
<1>3. QED
  BY <1>1, <1>2 DEF Keeps, Heaplike, Shaped

\* An object that is no userdata is changed or freed.
LEMMA KeepsOther ==
  ASSUME NEW h, NEW a, NEW o, Heaplike(h), a \in Addresses => h[a].tt # "userdata",
         "tt" \in DOMAIN o, o.tt # "userdata",
         a \in Addresses /\ h[a].tt = "free" => o.tt = "free"
  PROVE  Keeps(h, [h EXCEPT ![a] = o])
BY DEF Keeps, Heaplike, Shaped

\* The collector's lists with a heap.
Grouped(g) == {"heap", "gray"} \subseteq DOMAIN g

LEMMA MarkKeeps ==
  ASSUME NEW g, NEW values, Grouped(g), Heaplike(g.heap)
  PROVE  Keeps(g.heap, mark(g, values).heap)
<1> DEFINE h == g.heap
           white == White(h)
           inner == {a \in white : h[a].tt \in {"userdata", "upval"}}
           marked == Reached(values \cap white, white, References(h, inner))
           black == {a \in marked : \/ h[a].tt = "userdata"
                                    \/ h[a].tt = "upval" /\ ~IsOpen(h, a)}
           k == Color(Color(h, marked \ black, "gray"), black, "black")
           grays == g.gray \cup {a \in marked : h[a].tt \in {"table", "function", "thread"}}
<1>1. mark(g, values) = [g EXCEPT !.heap = k, !.gray = grays]
  BY DEF mark
<1> HIDE DEF white, inner, marked, black, grays
<1>2. Keeps(h, Color(h, marked \ black, "gray"))
  BY KeepsColor
<1>3. Keeps(h, k)
  BY <1>2, KeepsHeaplike, KeepsColor, KeepsTrans
<1> HIDE DEF k
<1>4. mark(g, values).heap = k
  BY <1>1 DEF Grouped
<1>5. QED
  BY <1>3, <1>4

LEMMA PropagateKeeps ==
  ASSUME NEW g, NEW a, Grouped(g), Heaplike(g.heap)
  PROVE  Keeps(g.heap, propagatemark(g, a).heap)
<1> DEFINE o == g.heap[a]
           isweak == o.tt = "table" /\ o.mode # {}
           cleaned == IF Forgets(o) THEN [o EXCEPT !.key = Nil] ELSE o
           col == IF isweak \/ o.tt = "thread" THEN "gray" ELSE "black"
           k == [g.heap EXCEPT ![a] = [cleaned EXCEPT !.col = col]]
           g2 == [heap |-> k, gray |-> g.gray \ {a},
                  again |-> IF o.tt = "thread" THEN g.again \cup {a} ELSE g.again,
                  weak |-> IF isweak THEN g.weak \cup {a} ELSE g.weak]
<1>1. propagatemark(g, a) = mark(g2, StrongRefs(g.heap, a))
  BY DEF propagatemark
<1>2. Keeps(g.heap, k)
  <2> HIDE DEF isweak
  <2>1. col # "dead"
    OBVIOUS
  <2>2. a \in Addresses =>
          /\ DOMAIN cleaned = DOMAIN o /\ "tt" \in DOMAIN o /\ cleaned.tt = o.tt
          /\ o.tt = "userdata" => cleaned = o
    BY DEF Heaplike, Shaped, Forgets
  <2> HIDE DEF cleaned, col
  <2>3. DOMAIN k = Addresses /\ \A b \in Addresses \ {a} : k[b] = g.heap[b]
    BY DEF Heaplike
  <2>4. a \in Addresses =>
          /\ DOMAIN k[a] = DOMAIN o /\ k[a].tt = o.tt
          /\ o.tt = "userdata" =>
               /\ k[a].gc = o.gc /\ k[a].finalized = o.finalized /\ k[a].calls = o.calls
               /\ k[a].col # "dead"
    BY <2>1, <2>2 DEF Heaplike, Shaped
  <2> HIDE DEF k
  <2>5. QED
    BY <2>3, <2>4 DEF Keeps, Heaplike, Shaped
<1> HIDE DEF k
<1>3. Grouped(g2) /\ g2.heap = k
  BY DEF Grouped
<1> HIDE DEF g2
<1>4. Keeps(k, mark(g2, StrongRefs(g.heap, a)).heap)
  BY <1>2, <1>3, KeepsHeaplike, MarkKeeps
<1>5. QED
  BY <1>1, <1>2, <1>4, KeepsTrans

\* Upvalues are no userdata.
LEMMA CloseKeeps ==
  ASSUME NEW g, NEW us, Grouped(g), Heaplike(g.heap),
         \A a \in us : a \in Addresses /\ g.heap[a].tt = "upval"
  PROVE  Keeps(g.heap, luaF_close(g, us).heap)
<1> DEFINE h == g.heap
           kept == {a \in us : h[a].col # "dead"}
           closed == [a \in Addresses |->
                        IF a \notin us THEN h[a]
                        ELSE IF a \in kept
                             THEN [h[a] EXCEPT !.val = UpValue(h, a), !.at = <<>>]
                        ELSE Free]
           grays == {a \in kept : h[a].col = "gray"}
           g2 == [g EXCEPT !.heap = Color(closed, grays, "black")]
           g3 == [g EXCEPT !.heap = Color(closed, grays, "white")]
           values == {UpValue(h, a) : a \in grays}
<1>1. luaF_close(g, us) = IF gcstate = "propagate" THEN mark(g2, values) ELSE g3
  BY DEF luaF_close
<1>2. Keeps(h, closed)
  <2> HIDE DEF kept
  <2>1. \A a \in us : "tt" \in DOMAIN closed[a] /\ closed[a].tt \in {"upval", "free"}
    BY DEF Heaplike, Shaped, Free
  <2>2. \A a \in Addresses \ us : closed[a] = h[a]
    OBVIOUS
  <2>3. DOMAIN closed = Addresses
    OBVIOUS
  <2> HIDE DEF closed
  <2>4. QED
    BY <2>1, <2>2, <2>3 DEF Keeps, Heaplike, Shaped
<1> HIDE DEF closed, kept, grays, values
<1>3. /\ Keeps(h, Color(closed, grays, "black"))
      /\ Keeps(h, Color(closed, grays, "white"))
  BY <1>2, KeepsHeaplike, KeepsColor, KeepsTrans
<1>4. /\ Grouped(g2) /\ g2.heap = Color(closed, grays, "black")
      /\ g3.heap = Color(closed, grays, "white")
  BY DEF Grouped
<1> HIDE DEF g2, g3
<1>5. Keeps(g2.heap, mark(g2, values).heap)
  BY <1>3, <1>4, KeepsHeaplike, MarkKeeps
<1>6. Keeps(h, mark(g2, values).heap)
  BY <1>3, <1>4, <1>5, KeepsTrans
<1>7. QED
  BY <1>1, <1>3, <1>4, <1>6

LEMMA SweptKeeps ==
  ASSUME NEW h, NEW as, Heaplike(h)
  PROVE  Keeps(h, Swept(h, as))
<1> DEFINE dead == {a \in as : h[a].col = "dead"}
           k == Swept(h, as)
<1>1. DOMAIN k = Addresses
  BY DEF Swept
<1>2. \A a \in Addresses \ dead : k[a] = Color(h, as, "white")[a]
  BY DEF Swept
<1>3. \A a \in Addresses \cap dead : k[a] = Free /\ h[a].col = "dead"
  BY DEF Swept
<1> HIDE DEF dead, k
<1>4. Keeps(h, Color(h, as, "white"))
  BY KeepsColor
<1> DEFINE white == Color(h, as, "white")
<1> HIDE DEF white
<1>5. Keeps(h, k)
  <2>1. \A a \in Addresses : a \in dead => k[a] = Free /\ h[a].col = "dead"
    BY <1>3
  <2>2. \A a \in Addresses : a \notin dead => k[a] = white[a]
    BY <1>2 DEF white
  <2>3. Keeps(h, white)
    BY <1>4 DEF white
  <2>4. "tt" \in DOMAIN Free /\ Free.tt = "free"
    BY DEF Free
  <2>5. Heaplike(k)
    BY <1>1, <2>1, <2>2, <2>3, <2>4 DEF Keeps, Heaplike, Shaped
  <2>6. QED
    BY <2>1, <2>2, <2>3, <2>4, <2>5 DEF Keeps
<1>6. QED
  BY <1>5 DEF k

LEMMA OpenAreUpvals ==
  ASSUME NEW h, NEW t
  PROVE  \A a \in OpenUpvals(h, t) : a \in Addresses /\ h[a].tt = "upval"
BY DEF OpenUpvals, IsOpen

-----------------------------------------------------------------------------
\* What the steps need to know of the change of the heap: only dead userdata go, and all the
\* others keep the state of their finalizer.
LEMMA KeptFinal ==
  ASSUME NEW h, NEW k, NEW waiting, Heaplike(h), Final(h, waiting), Keeps(h, k)
  PROVE  /\ Final(k, waiting) /\ (AllFinal(h) => AllFinal(k))
         /\ \A a \in Heap : WithFinalizer(h, a) =>
              IF k[a].tt = "free" THEN h[a].calls = 1 ELSE k[a].calls <= 1
<1>1. ASSUME NEW a \in Addresses, WithFinalizer(k, a)
      PROVE  /\ WithFinalizer(h, a) /\ k[a].finalized = h[a].finalized
             /\ k[a].calls = h[a].calls /\ (k[a].col = "dead" => h[a].col = "dead")
  BY <1>1 DEF WithFinalizer, Keeps
<1>2. ASSUME NEW a \in Addresses, WithFinalizer(h, a)
      PROVE  \/ k[a].tt = "free" /\ h[a].col = "dead"
             \/ WithFinalizer(k, a)
  BY <1>2 DEF WithFinalizer, Keeps
<1>3. \A a \in Addresses : WithFinalizer(h, a) =>
        /\ h[a].calls = IF a \in waiting THEN 0 ELSE IF h[a].finalized THEN 1 ELSE 0
        /\ h[a].col = "dead" => h[a].finalized /\ a \notin waiting
  BY DEF Final
<1>4. \A u \in waiting :
        u \in Addresses /\ WithFinalizer(h, u) /\ h[u].finalized /\ h[u].calls = 0
  BY DEF Final
<1>5. Final(k, waiting)
  BY <1>1, <1>2, <1>3, <1>4 DEF Final
<1>6. AllFinal(h) => AllFinal(k)
  BY <1>1 DEF AllFinal
<1>7. ASSUME NEW a \in Heap, WithFinalizer(h, a)
      PROVE  IF k[a].tt = "free" THEN h[a].calls = 1 ELSE k[a].calls <= 1
  <2>1. a \in Addresses
    BY DEF Addresses
  <2>2. CASE k[a].tt = "free" /\ h[a].col = "dead"
    BY <1>3, <1>7, <2>1, <2>2
  <2>3. CASE WithFinalizer(k, a)
    BY <1>1, <1>3, <1>7, <2>1, <2>3 DEF WithFinalizer
  <2>4. QED
    BY <1>2, <1>7, <2>1, <2>2, <2>3
<1>8. QED
  BY <1>5, <1>6, <1>7

LEMMA KeepingStep ==
  ASSUME FinalInv, Keeps(heap, heap'), tmudata' = tmudata, script' = script,
         mode' = "closing" => mode = "closing"
  PROVE  FinalInv' /\ Finalizes
<1>1. Heaplike(heap)' /\ Final(heap, tmudata)'
  BY KeptFinal, KeepsHeaplike DEF FinalInv
<1>2. (mode = "closing" => AllFinal(heap))'
  BY KeptFinal DEF FinalInv
<1>3. Finalizes
  BY KeptFinal DEF FinalInv, Finalizes, WithFinalizer
<1>4. QED
  BY <1>1, <1>2, <1>3 DEF FinalInv

\* The script only adds userdata, whose finalizer is to come.
Grows(h, k) ==
  /\ Heaplike(k)
  /\ \A a \in Addresses :
       /\ h[a].tt = "userdata" =>
            /\ k[a].tt = "userdata" /\ k[a].gc = h[a].gc /\ k[a].col = h[a].col
            /\ k[a].finalized = h[a].finalized /\ k[a].calls = h[a].calls
       /\ k[a].tt = "userdata" /\ h[a].tt # "userdata" =>
            ~k[a].finalized /\ k[a].calls = 0 /\ k[a].col # "dead"

LEMMA GrowsHeaplike == ASSUME NEW h, NEW k, Grows(h, k) PROVE Heaplike(k)
BY DEF Grows

LEMMA GrowsTrans ==
  ASSUME NEW h, NEW k, NEW m, Grows(h, k), Grows(k, m)
  PROVE  Grows(h, m)
<1>1. ASSUME NEW a \in Addresses, m[a].tt = "userdata", h[a].tt # "userdata"
      PROVE  ~m[a].finalized /\ m[a].calls = 0 /\ m[a].col # "dead"
  BY <1>1 DEF Grows
<1>2. QED
  BY <1>1 DEF Grows

LEMMA GrowsObject ==
  ASSUME NEW h, NEW a, NEW o, Heaplike(h), a \in Addresses => h[a].tt # "userdata",
         Shaped(o), o.tt = "userdata" => ~o.finalized /\ o.calls = 0 /\ o.col # "dead"
  PROVE  Grows(h, [h EXCEPT ![a] = o])
<1> DEFINE k == [h EXCEPT ![a] = o]
<1>1. /\ DOMAIN k = Addresses /\ (a \in Addresses => k[a] = o)
      /\ \A b \in Addresses \ {a} : k[b] = h[b]
  BY DEF Heaplike
<1> HIDE DEF k
<1>2. Grows(h, k)
  BY <1>1 DEF Grows, Heaplike
<1>3. QED
  BY <1>2 DEF k

\* Fields that say nothing of a finalizer.
LEMMA FieldKeeps ==
  ASSUME NEW h, NEW a, NEW f, NEW x, Heaplike(h),
         f \notin {"tt", "col", "gc", "finalized", "calls"}
  PROVE  LET k == [h EXCEPT ![a] = [h[a] EXCEPT ![f] = x]] IN Keeps(h, k) /\ Grows(h, k)
<1> DEFINE o == [h[a] EXCEPT ![f] = x]
           k == [h EXCEPT ![a] = o]
<1>1. /\ DOMAIN k = Addresses /\ (a \in Addresses => k[a] = o)
      /\ \A b \in Addresses \ {a} : k[b] = h[b]
  BY DEF Heaplike
<1>2. DOMAIN o = DOMAIN h[a] /\ \A g \in DOMAIN o \ {f} : o[g] = h[a][g]
  OBVIOUS
<1>3. a \in Addresses => "tt" \in DOMAIN o /\ o.tt = h[a].tt
  BY <1>2 DEF Heaplike, Shaped
<1>4. a \in Addresses /\ o.tt = "userdata" =>
        o.gc = h[a].gc /\ o.col = h[a].col /\ o.finalized = h[a].finalized /\ o.calls = h[a].calls
  BY <1>2, <1>3 DEF Heaplike, Shaped
<1> HIDE DEF k, o
<1>5. Heaplike(k)
  BY <1>1, <1>2, <1>3 DEF Heaplike, Shaped
<1>6. Keeps(h, k) /\ Grows(h, k)
  BY <1>1, <1>3, <1>4, <1>5 DEF Keeps, Grows
<1>7. QED
  BY <1>6 DEF k, o

LEMMA GrowingStep ==
  ASSUME FinalInv, Grows(heap, heap'), tmudata' = tmudata, script' = script, mode' # "closing"
  PROVE  FinalInv' /\ Finalizes
<1>1. /\ \A u \in tmudata : u \in Addresses /\ WithFinalizer(heap, u)
      /\ \A a \in Addresses : WithFinalizer(heap, a) =>
            /\ heap'[a].tt # "free"
            /\ heap[a].calls = IF a \in tmudata THEN 0 ELSE IF heap[a].finalized THEN 1 ELSE 0
  BY DEF FinalInv, Final, Grows, WithFinalizer
<1>2. ASSUME NEW a \in Addresses, WithFinalizer(heap, a)
      PROVE  /\ WithFinalizer(heap, a)' /\ heap'[a].col = heap[a].col
             /\ heap'[a].finalized = heap[a].finalized /\ heap'[a].calls = heap[a].calls
  BY <1>2 DEF Grows, WithFinalizer
<1>3. ASSUME NEW a \in Addresses, WithFinalizer(heap, a)', ~WithFinalizer(heap, a)
      PROVE  a \notin tmudata /\ ~heap'[a].finalized /\ heap'[a].calls = 0 /\ heap'[a].col # "dead"
  BY <1>1, <1>3 DEF Grows, WithFinalizer
<1>4. Final(heap, tmudata)'
  <2>1. \A u \in tmudata' : u \in Addresses /\ WithFinalizer(heap, u)' /\ heap'[u].finalized
                            /\ heap'[u].calls = 0
    BY <1>1, <1>2 DEF FinalInv, Final
  <2>2. ASSUME NEW a \in Addresses, WithFinalizer(heap, a)'
        PROVE  /\ a \notin tmudata' => heap'[a].calls = IF heap'[a].finalized THEN 1 ELSE 0
               /\ heap'[a].col = "dead" => heap'[a].finalized /\ a \notin tmudata'
    BY <1>2, <1>3, <2>2 DEF FinalInv, Final
  <2>3. QED
    BY <2>1, <2>2 DEF Final
<1>5. Finalizes
  <2>1. ASSUME NEW a \in Heap, heap[a].tt = "userdata", heap[a].gc
        PROVE  heap'[a].tt # "free" /\ heap'[a].calls <= 1
    <3>1. a \in Addresses /\ WithFinalizer(heap, a)
      BY <2>1 DEF Addresses, WithFinalizer
    <3>2. QED
      BY <1>1, <1>2, <3>1
  <2>2. QED
    BY <2>1 DEF Finalizes
<1>6. Heaplike(heap)'
  BY DEF Grows
<1>7. QED
  BY <1>4, <1>5, <1>6 DEF FinalInv

-----------------------------------------------------------------------------
(* The steps.                                                                  *)

LEMMA FinalInit == Init => FinalInv
<1> SUFFICES ASSUME Init PROVE FinalInv
  OBVIOUS
<1>1. /\ DOMAIN heap = Addresses /\ tmudata = {} /\ mode = "script" /\ script \in Scripts
      /\ \A a \in Addresses : "tt" \in DOMAIN heap[a] /\ heap[a].tt # "userdata"
  BY DEF Init, Free
<1>2. QED
  BY <1>1 DEF FinalInv, Heaplike, Shaped, Final, AllFinal, WithFinalizer

LEMMA ListsGrouped ==
  /\ Grouped(Lists) /\ Lists.heap = heap
  /\ \A h : Grouped([Lists EXCEPT !.heap = h]) /\ [Lists EXCEPT !.heap = h].heap = h
BY DEF Lists, Grouped

LEMMA CollectorFinal ==
  ASSUME FinalInv, StartCycle \/ Propagate \/ SweepString \/ Sweep \/ EndCycle \/ FullGC
  PROVE  FinalInv' /\ Finalizes
<1>0. Heaplike(heap)
  BY DEF FinalInv
<1>1. CASE StartCycle
  <2> DEFINE g == [heap |-> heap, gray |-> {}, again |-> {}, weak |-> {}]
  <2>1. Grouped(g) /\ g.heap = heap
    BY DEF Grouped
  <2> HIDE DEF g
  <2>2. Keeps(heap, mark(g, {Main}).heap)
    BY <1>0, <2>1, MarkKeeps
  <2>3. /\ heap' = mark(g, {Main}).heap /\ tmudata' = tmudata /\ script' = script
        /\ mode' = "closing" => mode = "closing"
    BY <1>1 DEF StartCycle, TakeLists, Rooted, g
  <2>4. QED
    BY <2>2, <2>3, KeepingStep
<1>2. CASE Propagate
  <2>1. PICK a \in gray : TakeLists(propagatemark(Lists, a))
    BY <1>2 DEF Propagate
  <2>2. Keeps(heap, propagatemark(Lists, a).heap)
    BY <1>0, ListsGrouped, PropagateKeeps
  <2>3. tmudata' = tmudata /\ script' = script /\ mode' = mode
    BY <1>2 DEF Propagate
  <2>4. QED
    BY <2>1, <2>2, <2>3, KeepingStep DEF TakeLists
<1>3. CASE SweepString
  <2>1. heap' = heap \/ \E a : heap' = Swept(heap, {a})
    BY <1>3 DEF SweepString
  <2>2. Keeps(heap, heap')
    BY <1>0, <2>1, SweptKeeps, KeepsSelf
  <2>3. QED
    BY <1>3, <2>2, KeepingStep DEF SweepString
<1>4. CASE Sweep
  <2>1. ASSUME NEW a \in unswept PROVE
          LET h == Swept(heap, OpenUpvals(heap, a))
              left == IF IsDead(a) THEN OpenUpvals(h, a) ELSE {}
          IN Keeps(heap, Swept(luaF_close([Lists EXCEPT !.heap = h], left).heap, {a}))
    <3> DEFINE h == Swept(heap, OpenUpvals(heap, a))
               left == IF IsDead(a) THEN OpenUpvals(h, a) ELSE {}
               g == [Lists EXCEPT !.heap = h]
               k == luaF_close(g, left).heap
    <3>1. Keeps(heap, h)
      BY <1>0, SweptKeeps
    <3>2. Grouped(g) /\ g.heap = h
      BY ListsGrouped
    <3>3. \A u \in left : u \in Addresses /\ h[u].tt = "upval"
      BY OpenAreUpvals
    <3> HIDE DEF h, left, g
    <3>4. Keeps(h, k)
      BY <3>1, <3>2, <3>3, KeepsHeaplike, CloseKeeps
    <3>5. Keeps(heap, k)
      BY <3>1, <3>4, KeepsTrans
    <3> HIDE DEF k
    <3>6. Keeps(heap, Swept(k, {a}))
      BY <3>5, KeepsHeaplike, SweptKeeps, KeepsTrans
    <3>7. QED
      BY <3>6 DEF k, g, left, h
  <2>2. heap' = heap \/ \E a \in unswept :
          LET h == Swept(heap, OpenUpvals(heap, a))
              left == IF IsDead(a) THEN OpenUpvals(h, a) ELSE {}
          IN heap' = Swept(luaF_close([Lists EXCEPT !.heap = h], left).heap, {a})
    BY <1>4 DEF Sweep
  <2>3. Keeps(heap, heap')
    BY <1>0, <2>1, <2>2, KeepsSelf
  <2>4. QED
    BY <1>4, <2>3, KeepingStep DEF Sweep
<1>5. CASE EndCycle \/ FullGC
  BY <1>0, <1>5, KeepsSelf, KeepingStep DEF EndCycle, FullGC
<1>6. QED
  BY <1>1, <1>2, <1>3, <1>4, <1>5

\* The finalizer of one userdata is called.
LEMMA CallFinal ==
  ASSUME FinalInv, GCTM
  PROVE  FinalInv' /\ Finalizes
<1>1. PICK u \in tmudata :
        /\ LET o == [heap[u] EXCEPT !.col = "white", !.calls = @ + 1]
               h == [heap EXCEPT ![u] = o]
           IN heap' \in {h} \cup {SetSlot(h, s, u) : s \in Slots}
        /\ tmudata' = tmudata \ {u}
  BY DEF GCTM
<1> DEFINE o == [heap[u] EXCEPT !.col = "white", !.calls = @ + 1]
           h == [heap EXCEPT ![u] = o]
<1>2. /\ u \in Addresses /\ WithFinalizer(heap, u) /\ heap[u].finalized /\ heap[u].calls = 0
      /\ {"tt", "col", "gc", "finalized", "calls"} \subseteq DOMAIN heap[u]
  BY DEF FinalInv, Final, Heaplike, Shaped, WithFinalizer
<1>3. /\ DOMAIN o = DOMAIN heap[u] /\ o.tt = "userdata" /\ o.gc /\ o.finalized
      /\ o.calls = 1 /\ o.col = "white"
  BY <1>2 DEF WithFinalizer
<1>4. DOMAIN h = Addresses /\ h[u] = o /\ \A b \in Addresses \ {u} : h[b] = heap[b]
  BY <1>2 DEF FinalInv, Heaplike
<1> HIDE DEF h, o
<1>5. Heaplike(h)
  BY <1>2, <1>3, <1>4 DEF FinalInv, Heaplike, Shaped
<1>6. Final(h, tmudata \ {u}) /\ (AllFinal(heap) => AllFinal(h))
  BY <1>2, <1>3, <1>4 DEF FinalInv, Final, AllFinal, WithFinalizer
<1>7. Keeps(h, heap')
  <2>1. ASSUME NEW s, heap' = SetSlot(h, s, u) PROVE Keeps(h, heap')
    BY <1>5, <2>1, FieldKeeps DEF SetSlot
  <2>2. QED
    BY <1>1, <1>5, <2>1, KeepsSelf DEF h, o
<1>8. FinalInv'
  BY <1>1, <1>5, <1>6, <1>7, KeptFinal, KeepsHeaplike DEF FinalInv, GCTM
<1>9. Finalizes
  <2>1. ASSUME NEW a \in Heap, heap[a].tt = "userdata", heap[a].gc
        PROVE  IF heap'[a].tt = "free" THEN heap[a].calls = 1 ELSE heap'[a].calls <= 1
    <3>1. a \in Addresses /\ WithFinalizer(h, a)
      BY <1>2, <1>3, <1>4, <2>1 DEF Addresses, WithFinalizer
    <3>2. IF heap'[a].tt = "free" THEN h[a].calls = 1 ELSE heap'[a].calls <= 1
      BY <1>5, <1>6, <1>7, <3>1, KeptFinal
    <3>3. CASE a = u
      BY <1>2, <1>3, <1>4, <1>7, <3>1, <3>2, <3>3 DEF Keeps
    <3>4. CASE a # u
      BY <1>4, <3>1, <3>2, <3>4
    <3>5. QED
      BY <3>3, <3>4
  <2>2. QED
    BY <2>1 DEF Finalizes
<1>10. QED
  BY <1>8, <1>9

\* What is reached.
LEMMA ReachedBetween ==
  ASSUME NEW from, NEW all, NEW refs, from \subseteq all
  PROVE  from \subseteq Reached(from, all, refs) /\ Reached(from, all, refs) \subseteq all
BY DEF Reached

LEMMA ColorFields ==
  ASSUME NEW h, NEW as, NEW c, Heaplike(h)
  PROVE  /\ Heaplike(Color(h, as, c))
         /\ \A a \in Addresses :
              LET o == Color(h, as, c)[a]
              IN /\ o.tt = h[a].tt /\ DOMAIN o = DOMAIN h[a]
                 /\ h[a].tt = "userdata" =>
                      /\ o.gc = h[a].gc /\ o.finalized = h[a].finalized /\ o.calls = h[a].calls
                      /\ o.col = IF a \in as THEN c ELSE h[a].col
BY DEF Color, Heaplike, Shaped

LEMMA FinalizedFields ==
  ASSUME NEW h, NEW us, Heaplike(h)
  PROVE  /\ Heaplike(Finalized(h, us))
         /\ \A a \in Addresses :
              LET o == Finalized(h, us)[a]
              IN /\ o.tt = h[a].tt /\ DOMAIN o = DOMAIN h[a]
                 /\ h[a].tt = "userdata" =>
                      /\ o.gc = h[a].gc /\ o.col = h[a].col /\ o.calls = h[a].calls
                      /\ a \in us => o.finalized
                      /\ a \notin us => o.finalized = h[a].finalized
BY DEF Finalized, Heaplike, Shaped

\* The end of the marking: a userdata with a finalizer that is not marked is either separated,
\* and then marked, or was separated before.
LEMMA AtomicFinal ==
  ASSUME FinalInv, atomic
  PROVE  FinalInv' /\ Finalizes
<1> DEFINE held == {a \in Addresses : IsOpen(heap, a) /\ heap[a].col = "gray"}
           again == grayagain \cup weak
           seeds == {Last(running)} \cup UNION {StrongRefs(heap, a) : a \in held \cup again}
           white1 == White(heap) \ MarkedAll(White(heap), seeds)
           us == tmudata \cup Separated(heap, white1)
           white2 == white1 \cup us
           white3 == white2 \ MarkedAll(white2, us)
           kept == Allocated(heap) \ white3
           tables == {a \in kept : heap[a].tt = "table"}
           traversed == tables \cap (White(heap) \cup again)
           emptied == {a \in traversed : Forgets(heap[a])}
           h == Finalized(heap, white1)
           ws == {a \in tables : heap[a].mode # {}}
           cleared == cleartable(h, white3, ws)
           dead == white3 \ cleared.strings
           blacks == {a \in kept : ~StaysGray(heap, a)}
           grays == (kept \cup cleared.strings) \ blacks
           c1 == Color(h, grays, "gray")
           c2 == Color(c1, blacks, "black")
           colored == Color(c2, dead, "dead")
<1>1. /\ heap' = [a \in Addresses |->
                     IF a \in cleared.gone THEN [colored[a] EXCEPT !.val = Nil, !.key = Nil]
                     ELSE IF a \in emptied THEN [colored[a] EXCEPT !.key = Nil]
                     ELSE colored[a]]
      /\ tmudata' = us /\ mode' = mode /\ script' = script /\ mode # "closing"
  BY DEF atomic, Collects
<1>2. white1 \subseteq White(heap) /\ White(heap) \subseteq Allocated(heap)
      /\ Allocated(heap) \subseteq Addresses
  BY DEF White, Allocated
<1>3. white3 \cap us = {} /\ white3 \subseteq white1
  <2> HIDE DEF us, white1
  <2>1. us \cap white2 \subseteq white2
    OBVIOUS
  <2> DEFINE refs == References(heap, white2)
  <2>2. us \cap white2 \subseteq Reached(us \cap white2, white2, refs)
    <3> HIDE DEF white2, refs
    <3>1. QED
      BY <2>1, ReachedBetween
  <2>3. MarkedAll(white2, us) = Reached(us \cap white2, white2, refs)
    BY DEF MarkedAll
  <2>4. QED
    BY <2>2, <2>3
<1>4. \A a \in white1 : WithFinalizer(heap, a) /\ ~heap[a].finalized => a \in us
  BY DEF Separated, WithFinalizer
<1>5. \A a \in us : a \in tmudata \/ (a \in white1 /\ WithFinalizer(heap, a) /\ ~heap[a].finalized)
  BY DEF Separated, WithFinalizer
<1>6. /\ cleared.gone \subseteq tables /\ emptied \subseteq tables
      /\ \A a \in cleared.strings : h[a].tt = "string"
  BY DEF cleartable
<1>7. \A a \in tables : heap[a].tt = "table"
  OBVIOUS
<1>8. blacks \subseteq kept /\ kept \subseteq blacks \cup grays
      /\ dead = white3 \ cleared.strings /\ kept = Allocated(heap) \ white3
  OBVIOUS
<1> HIDE DEF held, again, seeds, white1, us, white2, white3, kept, tables, traversed, emptied,
             cleared, dead, blacks, grays, h
<1>9. /\ Heaplike(h)
      /\ \A a \in Addresses :
           /\ h[a].tt = heap[a].tt /\ DOMAIN h[a] = DOMAIN heap[a]
           /\ heap[a].tt = "userdata" =>
                /\ h[a].gc = heap[a].gc /\ h[a].col = heap[a].col /\ h[a].calls = heap[a].calls
                /\ a \in white1 => h[a].finalized
                /\ a \notin white1 => h[a].finalized = heap[a].finalized
  <2>1. Heaplike(heap)
    BY DEF FinalInv
  <2>2. QED
    BY <2>1, FinalizedFields DEF h
<1>10. /\ Heaplike(colored)
       /\ \A a \in Addresses :
            /\ colored[a].tt = h[a].tt /\ DOMAIN colored[a] = DOMAIN h[a]
            /\ h[a].tt = "userdata" =>
                 /\ colored[a].gc = h[a].gc /\ colored[a].finalized = h[a].finalized
                 /\ colored[a].calls = h[a].calls
                 /\ colored[a].col = IF a \in dead THEN "dead" ELSE IF a \in blacks THEN "black"
                                     ELSE IF a \in grays THEN "gray" ELSE h[a].col
  <2>1. Heaplike(c1)
    BY <1>9, ColorFields
  <2>2. Heaplike(c2)
    BY <2>1, ColorFields
  <2>3. Heaplike(colored)
    BY <2>2, ColorFields
  <2>4. ASSUME NEW a \in Addresses
        PROVE  /\ colored[a].tt = h[a].tt /\ DOMAIN colored[a] = DOMAIN h[a]
               /\ h[a].tt = "userdata" =>
                    /\ colored[a].gc = h[a].gc /\ colored[a].finalized = h[a].finalized
                    /\ colored[a].calls = h[a].calls
                    /\ colored[a].col = IF a \in dead THEN "dead" ELSE IF a \in blacks THEN "black"
                                        ELSE IF a \in grays THEN "gray" ELSE h[a].col
    <3>1. /\ c1[a].tt = h[a].tt /\ DOMAIN c1[a] = DOMAIN h[a]
          /\ h[a].tt = "userdata" =>
               /\ c1[a].gc = h[a].gc /\ c1[a].finalized = h[a].finalized
               /\ c1[a].calls = h[a].calls
               /\ c1[a].col = IF a \in grays THEN "gray" ELSE h[a].col
      BY <1>9, ColorFields
    <3>2. /\ c2[a].tt = c1[a].tt /\ DOMAIN c2[a] = DOMAIN c1[a]
          /\ c1[a].tt = "userdata" =>
               /\ c2[a].gc = c1[a].gc /\ c2[a].finalized = c1[a].finalized
               /\ c2[a].calls = c1[a].calls
               /\ c2[a].col = IF a \in blacks THEN "black" ELSE c1[a].col
      BY <2>1, ColorFields
    <3>3. /\ colored[a].tt = c2[a].tt /\ DOMAIN colored[a] = DOMAIN c2[a]
          /\ c2[a].tt = "userdata" =>
               /\ colored[a].gc = c2[a].gc /\ colored[a].finalized = c2[a].finalized
               /\ colored[a].calls = c2[a].calls
               /\ colored[a].col = IF a \in dead THEN "dead" ELSE c2[a].col
      BY <2>2, ColorFields
    <3> HIDE DEF c1, c2, colored
    <3>4. QED
      BY <3>1, <3>2, <3>3
  <2>5. QED
    BY <2>3, <2>4
<1> HIDE DEF c1, c2, colored
<1>11. /\ DOMAIN heap' = Addresses
       /\ \A a \in Addresses :
            /\ heap'[a].tt = heap[a].tt /\ Shaped(heap'[a])
            /\ heap[a].tt = "userdata" => heap'[a] = colored[a]
  <2>1. DOMAIN heap' = Addresses
    BY <1>1
  <2>2. ASSUME NEW a \in Addresses
        PROVE  /\ heap'[a].tt = heap[a].tt /\ Shaped(heap'[a])
               /\ heap[a].tt = "userdata" => heap'[a] = colored[a]
    <3>1. CASE a \in tables
      BY <1>1, <1>6, <1>7, <1>9, <1>10, <3>1 DEF Heaplike, Shaped
    <3>2. CASE a \notin tables
      BY <1>1, <1>6, <1>9, <1>10, <3>2 DEF Heaplike
    <3>3. QED
      BY <3>1, <3>2
  <2>3. QED
    BY <2>1, <2>2
<1>12. ASSUME NEW a \in Addresses, heap[a].tt = "userdata"
       PROVE  /\ heap'[a].gc = heap[a].gc /\ heap'[a].calls = heap[a].calls
              /\ a \in white1 => heap'[a].finalized
              /\ a \notin white1 => heap'[a].finalized = heap[a].finalized
              /\ heap'[a].col = "dead" => a \in white3
  <2>1. a \in Allocated(heap)
    BY <1>12 DEF Allocated
  <2>2. a \notin white3 => a \in blacks \cup grays
    BY <1>8, <2>1
  <2>3. QED
    BY <1>8, <1>9, <1>10, <1>11, <1>12, <2>2
<1>13. \A a \in Addresses : WithFinalizer(heap, a)' <=> WithFinalizer(heap, a)
  BY <1>11, <1>12 DEF WithFinalizer
<1>14. Final(heap, tmudata)'
  <2>1. tmudata' \subseteq Addresses
    BY <1>1, <1>2, <1>5 DEF FinalInv, Final
  <2>2. ASSUME NEW u \in tmudata'
        PROVE  WithFinalizer(heap, u)' /\ heap'[u].finalized /\ heap'[u].calls = 0
    <3>1. u \in Addresses /\ u \in us
      BY <1>1, <2>1
    <3>2. WithFinalizer(heap, u) /\ heap[u].calls = 0 /\ (u \in white1 \/ heap[u].finalized)
      BY <1>5, <3>1 DEF FinalInv, Final
    <3>3. QED
      BY <1>12, <1>13, <3>1, <3>2 DEF WithFinalizer
  <2>3. ASSUME NEW a \in Addresses, WithFinalizer(heap, a)'
        PROVE  /\ a \notin tmudata' => heap'[a].calls = IF heap'[a].finalized THEN 1 ELSE 0
               /\ heap'[a].col = "dead" => heap'[a].finalized /\ a \notin tmudata'
    <3>1. WithFinalizer(heap, a) /\ heap[a].tt = "userdata"
      BY <1>13, <2>3 DEF WithFinalizer
    <3>2. a \notin us => a \notin tmudata /\ (a \in white1 => heap[a].finalized)
      BY <1>4, <3>1 DEF us
    <3>3. a \notin us => heap'[a].calls = IF heap'[a].finalized THEN 1 ELSE 0
      BY <1>12, <3>1, <3>2 DEF FinalInv, Final
    <3>4. heap'[a].col = "dead" => heap'[a].finalized /\ a \notin us
      BY <1>3, <1>12, <3>1
    <3>5. QED
      BY <1>1, <3>3, <3>4
  <2>4. QED
    BY <2>1, <2>2, <2>3 DEF Final
<1>15. Finalizes
  <2>1. ASSUME NEW a \in Heap, heap[a].tt = "userdata", heap[a].gc
        PROVE  heap'[a].tt # "free" /\ heap'[a].calls <= 1
    <3>1. a \in Addresses /\ WithFinalizer(heap, a)
      BY <2>1 DEF Addresses, WithFinalizer
    <3>2. heap[a].calls <= 1
      BY <3>1 DEF FinalInv, Final
    <3>3. heap'[a].tt = "userdata" /\ heap'[a].calls = heap[a].calls
      BY <1>11, <1>12, <2>1, <3>1
    <3>4. QED
      BY <3>2, <3>3
  <2>2. QED
    BY <2>1 DEF Finalizes
<1>16. Heaplike(heap)'
  BY <1>11 DEF Heaplike
<1>17. QED
  BY <1>1, <1>14, <1>15, <1>16 DEF FinalInv

\* lua_close: what has a finalizer still is separated, the white with the black.
LEMMA CloseFinal ==
  ASSUME FinalInv, Close
  PROVE  FinalInv' /\ Finalizes
<1> DEFINE us == OpenUpvals(heap, Main)
           h == luaF_close(Lists, us).heap
<1>0. Heaplike(heap)
  BY DEF FinalInv
<1>1. Keeps(heap, h)
  BY <1>0, ListsGrouped, OpenAreUpvals, CloseKeeps
<1>2. /\ heap' = Finalized(h, Addresses) /\ tmudata' = tmudata \cup Separated(h, Addresses)
      /\ script' = script
  BY DEF Close
<1> HIDE DEF h
<1>3. Heaplike(h) /\ Final(h, tmudata)
  BY <1>1, KeptFinal, KeepsHeaplike DEF FinalInv
<1>4. /\ Heaplike(heap')
      /\ \A a \in Addresses :
           /\ heap'[a].tt = h[a].tt
           /\ h[a].tt = "userdata" =>
                /\ heap'[a].gc = h[a].gc /\ heap'[a].col = h[a].col
                /\ heap'[a].calls = h[a].calls /\ heap'[a].finalized
  BY <1>2, <1>3, FinalizedFields
<1>5. \A a \in Addresses : WithFinalizer(heap, a)' <=> WithFinalizer(h, a)
  BY <1>4 DEF WithFinalizer
<1>6. AllFinal(heap)'
  BY <1>4, <1>5 DEF AllFinal, WithFinalizer
<1>7. \A u \in Separated(h, Addresses) :
        u \in Addresses /\ WithFinalizer(h, u) /\ ~h[u].finalized
  BY DEF Separated, WithFinalizer
<1>8. ASSUME NEW a \in Addresses, WithFinalizer(h, a), a \notin tmudata'
      PROVE  h[a].finalized /\ h[a].calls = 1
  <2>1. a \notin tmudata /\ h[a].finalized
    BY <1>2, <1>8 DEF Separated, WithFinalizer
  <2>2. QED
    BY <1>3, <1>8, <2>1 DEF Final
<1>9. \A u \in tmudata' : u \in Addresses /\ WithFinalizer(h, u) /\ h[u].calls = 0
  BY <1>2, <1>3, <1>7 DEF Final
<1>10. ASSUME NEW a \in Addresses, WithFinalizer(h, a), h[a].col = "dead"
       PROVE  a \notin tmudata'
  BY <1>2, <1>3, <1>7, <1>10 DEF Final
<1>11. Final(heap, tmudata)'
  <2>1. \A u \in tmudata' :
          u \in Addresses /\ WithFinalizer(heap, u)' /\ heap'[u].finalized /\ heap'[u].calls = 0
    BY <1>4, <1>5, <1>9 DEF WithFinalizer
  <2>2. ASSUME NEW a \in Addresses, WithFinalizer(heap, a)'
        PROVE  /\ a \notin tmudata' => heap'[a].calls = IF heap'[a].finalized THEN 1 ELSE 0
               /\ heap'[a].col = "dead" => heap'[a].finalized /\ a \notin tmudata'
    <3>1. WithFinalizer(h, a) /\ h[a].tt = "userdata"
      BY <1>5, <2>2 DEF WithFinalizer
    <3>2. heap'[a].col = h[a].col /\ heap'[a].calls = h[a].calls /\ heap'[a].finalized
      BY <1>4, <3>1
    <3>3. a \notin tmudata' => heap'[a].calls = 1
      BY <1>8, <3>1, <3>2
    <3>4. heap'[a].col = "dead" => a \notin tmudata'
      BY <1>10, <3>1, <3>2
    <3>5. QED
      BY <3>2, <3>3, <3>4
  <2>3. QED
    BY <2>1, <2>2 DEF Final
<1>12. Finalizes
  <2>1. ASSUME NEW a \in Heap, heap[a].tt = "userdata", heap[a].gc
        PROVE  IF heap'[a].tt = "free" THEN heap[a].calls = 1 ELSE heap'[a].calls <= 1
    <3>1. a \in Addresses /\ WithFinalizer(heap, a)
      BY <2>1 DEF Addresses, WithFinalizer
    <3>2. IF h[a].tt = "free" THEN heap[a].calls = 1 ELSE h[a].calls <= 1
      BY <1>1, <2>1, <3>1, KeptFinal DEF FinalInv
    <3>3. h[a].tt \in {"free", "userdata"}
      BY <1>1, <2>1, <3>1 DEF Keeps
    <3>4. QED
      BY <1>4, <3>1, <3>2, <3>3
  <2>2. QED
    BY <2>1 DEF Finalizes
<1>13. QED
  BY <1>2, <1>4, <1>6, <1>11, <1>12 DEF FinalInv

LEMMA FreeFinal ==
  ASSUME FinalInv, FreeAll
  PROVE  FinalInv' /\ Finalizes
<1>1. /\ tmudata = {} /\ tmudata' = {} /\ heap' = [a \in Addresses |-> Free]
      /\ script' = script /\ mode' = "closed" /\ AllFinal(heap)
  BY DEF FreeAll, FinalInv, collector
<1>2. Free.tt = "free" /\ "tt" \in DOMAIN Free
  BY DEF Free
<1>3. DOMAIN heap' = Addresses /\ \A a \in Addresses : heap'[a] = Free
  BY <1>1
<1>4. Heaplike(heap)' /\ Final(heap, tmudata)'
  BY <1>1, <1>2, <1>3 DEF Heaplike, Shaped, Final, WithFinalizer
<1>5. ASSUME NEW a \in Heap, heap[a].tt = "userdata", heap[a].gc
      PROVE  heap'[a].tt = "free" /\ heap[a].calls = 1
  <2>1. a \in Addresses /\ WithFinalizer(heap, a) /\ a \notin tmudata
    BY <1>1, <1>5 DEF Addresses, WithFinalizer
  <2>2. QED
    BY <1>1, <1>2, <1>3, <2>1 DEF FinalInv, Final, AllFinal
<1>6. Finalizes
  BY <1>5 DEF Finalizes
<1>7. QED
  BY <1>1, <1>4, <1>6 DEF FinalInv

-----------------------------------------------------------------------------
\* The steps of the script.
LEMMA SlotKeeps ==
  ASSUME NEW h, NEW a, NEW s, NEW v, Heaplike(h)
  PROVE  /\ Keeps(h, [h EXCEPT ![a].stack[s] = v])
         /\ Grows(h, [h EXCEPT ![a].stack[s] = v])
BY FieldKeeps

LEMMA GrowsSlot ==
  ASSUME NEW h, NEW k, NEW s, NEW v, Grows(h, k)
  PROVE  Grows(h, SetSlot(k, s, v))
<1>1. Grows(k, SetSlot(k, s, v))
  BY GrowsHeaplike, SlotKeeps DEF SetSlot
<1>2. QED
  BY <1>1, GrowsTrans

LEMMA GrowsSelf == ASSUME NEW h, Heaplike(h) PROVE Grows(h, h)
BY DEF Grows, Heaplike

\* malloc gives an address where nothing is.
LEMMA MallocFree ==
  ASSUME FinalInv, NEW h, script.memory \ Allocated(h) # {}
  PROVE  malloc(h) \in script.memory /\ malloc(h) \in Addresses /\ h[malloc(h)].tt = "free"
<1>1. malloc(h) \in script.memory \ Allocated(h)
  BY DEF malloc
<1>2. script.memory \subseteq Addresses
  BY ScriptsAssumption DEF FinalInv, Addresses
<1>3. QED
  BY <1>1, <1>2 DEF Allocated

LEMMA NewShaped ==
  ASSUME NEW kind
  PROVE  /\ Shaped(NewObject(kind))
         /\ NewObject(kind).tt = "userdata" =>
              /\ ~NewObject(kind).finalized /\ NewObject(kind).calls = 0
              /\ NewObject(kind).col # "dead"
<1>1. CASE kind \in {"strong", "k", "v", "kv"}
  BY <1>1 DEF NewObject, Shaped
<1>2. CASE kind \in {"userdata", "gcuserdata"}
  BY <1>2 DEF NewObject, Shaped
<1>3. CASE kind = "thread"
  BY <1>3 DEF NewObject, Shaped
<1>4. CASE kind \notin {"strong", "k", "v", "kv", "userdata", "gcuserdata", "thread"}
  BY <1>4 DEF NewObject, Shaped
<1>5. QED
  BY <1>1, <1>2, <1>3, <1>4

\* What is created is new, and no userdata gives way to it.
LEMMA CreatingFinal ==
  ASSUME FinalInv, NEW s,
         \/ \E kind : Create(kind, s)
         \/ NewString(s)
         \/ \E c : NewClosure(s, c)
         \/ Load(s)
  PROVE  FinalInv' /\ Finalizes
<1>0. Heaplike(heap)
  BY DEF FinalInv
<1>1. ASSUME NEW kind, Create(kind, s) PROVE Grows(heap, heap')
  <2> DEFINE a == malloc(heap)
             k == [heap EXCEPT ![a] = NewObject(kind)]
  <2>1. a \in Addresses /\ heap[a].tt = "free"
    BY <1>1, MallocFree DEF Create, FreeAddresses
  <2> HIDE DEF a
  <2>2. Grows(heap, k)
    BY <1>0, <2>1, NewShaped, GrowsObject
  <2>3. heap' = SetSlot(k, s, a)
    BY <1>1 DEF Create, a
  <2> HIDE DEF k
  <2>4. QED
    BY <2>2, <2>3, GrowsSlot
<1>2. ASSUME NewString(s) PROVE Grows(heap, heap')
  <2> DEFINE known == Strings(heap)
             a == IF known = {} THEN malloc(heap) ELSE CHOOSE x \in known : TRUE
             o == IF known # {} /\ ~IsDead(a) THEN heap[a] ELSE NewObject("string")
             k == [heap EXCEPT ![a] = o]
  <2>1. heap' = SetSlot(k, s, a) /\ (known # {} \/ FreeAddresses # {})
    BY <1>2 DEF NewString
  <2>2. \A x \in known : x \in Addresses /\ heap[x].tt = "string"
    BY DEF Strings, Allocated
  <2> HIDE DEF known
  <2>3. CASE known = {}
    <3>1. a \in Addresses /\ heap[a].tt = "free" /\ o = NewObject("string")
      BY <2>1, <2>3, MallocFree DEF FreeAddresses
    <3> HIDE DEF a, o
    <3>2. Grows(heap, k)
      BY <1>0, <3>1, NewShaped, GrowsObject
    <3> HIDE DEF k
    <3>3. QED
      BY <2>1, <3>2, GrowsSlot
  <2>4. CASE known # {}
    <3>1. a \in known
      BY <2>4
    <3>2. o \in {heap[a], NewObject("string")}
      OBVIOUS
    <3> HIDE DEF a, o
    <3>3. NewObject("string").tt = "string"
      BY DEF NewObject
    <3>4. Shaped(o) /\ o.tt = "string" /\ heap[a].tt = "string"
      BY <1>0, <2>2, <3>1, <3>2, <3>3, NewShaped DEF Heaplike
    <3>5. Grows(heap, k)
      BY <1>0, <3>4, GrowsObject
    <3> HIDE DEF k
    <3>6. QED
      BY <2>1, <3>5, GrowsSlot
  <2>5. QED
    BY <2>3, <2>4
<1>3. ASSUME NEW c, NewClosure(s, c) PROVE Grows(heap, heap')
  <2> DEFINE a == malloc(heap)
             h == [heap EXCEPT ![a] = [tt |-> "function", col |-> "white", up |-> Nil]]
             found == {u \in OpenUpvals(h, L) : h[u].at[2] = c}
             u == IF found # {} THEN CHOOSE x \in found : TRUE ELSE malloc(h)
             o == IF found # {} /\ ~IsDead(u) THEN h[u] ELSE Upval(<<L, c>>)
             k == [h EXCEPT ![u] = o]
             m == [k EXCEPT ![a].up = u]
  <2>1. /\ a \in FreeAddresses /\ heap' = SetSlot(m, s, a)
        /\ FreeAddresses # {a} \/ \E x \in OpenUpvals(heap, L) : heap[x].at[2] = c
    <3> DEFINE f == luaF_findupval(h, c)
    <3>1. f = [heap |-> k, up |-> u]
      BY DEF luaF_findupval
    <3>2. /\ a \in FreeAddresses /\ heap' = SetSlot([f.heap EXCEPT ![a].up = f.up], s, a)
          /\ FreeAddresses # {a} \/ \E x \in OpenUpvals(heap, L) : heap[x].at[2] = c
      BY <1>3 DEF NewClosure
    <3> HIDE DEF f, k, u, h, a
    <3>3. QED
      BY <3>1, <3>2
  <2>2. a \in script.memory /\ a \in Addresses /\ heap[a].tt = "free"
    BY <2>1, MallocFree DEF FreeAddresses
  <2> HIDE DEF a
  <2>3. Grows(heap, h)
    BY <1>0, <2>2, GrowsObject DEF Shaped
  <2>4. \A x \in Addresses \ {a} : h[x] = heap[x]
    BY <1>0 DEF Heaplike
  <2>5. h[a].tt = "function"
    BY <1>0, <2>2 DEF Heaplike
  <2> HIDE DEF h
  <2>6. \A x \in found : x \in Addresses /\ h[x].tt = "upval"
    BY OpenAreUpvals
  <2>7. Shaped(o) /\ o.tt = "upval" /\ (u \in Addresses => h[u].tt # "userdata")
    <3>1. /\ "tt" \in DOMAIN Upval(<<L, c>>) /\ Upval(<<L, c>>).tt = "upval"
          /\ Shaped(Upval(<<L, c>>))
      BY DEF Upval, Shaped
    <3>2. CASE found # {}
      <4>1. u \in found
        BY <3>2
      <4>2. o \in {h[u], Upval(<<L, c>>)}
        OBVIOUS
      <4> HIDE DEF u, o, found
      <4>3. QED
        BY <2>3, <2>6, <3>1, <4>1, <4>2 DEF Grows, Heaplike
    <3>3. CASE found = {}
      <4>1. FreeAddresses # {a}
        <5>1. ASSUME NEW x \in OpenUpvals(heap, L), heap[x].at[2] = c PROVE FALSE
          <6>1. x \in Addresses /\ heap[x].tt = "upval" /\ x # a
            BY <2>2, OpenAreUpvals
          <6>2. h[x] = heap[x]
            BY <2>4, <6>1
          <6>3. x \in OpenUpvals(h, L)
            BY <5>1, <6>1, <6>2 DEF OpenUpvals, IsOpen
          <6>4. QED
            BY <3>3, <5>1, <6>2, <6>3
        <5>2. QED
          BY <2>1, <5>1
      <4>2. PICK x \in FreeAddresses : x # a
        BY <2>1, <4>1
      <4>3. x \in script.memory /\ x \notin Allocated(h)
        BY <2>4, <4>2 DEF FreeAddresses, Allocated
      <4>4. h[u].tt = "free"
        BY <3>3, <4>3, MallocFree
      <4>5. o = Upval(<<L, c>>)
        BY <3>3
      <4>6. QED
        BY <3>1, <4>4, <4>5
    <3>4. QED
      BY <3>2, <3>3
  <2> HIDE DEF found, u, o
  <2>8. Grows(h, k)
    BY <2>3, <2>7, GrowsHeaplike, GrowsObject
  <2> HIDE DEF k
  <2>9. Grows(k, m)
    BY <2>8, GrowsHeaplike, FieldKeeps
  <2> HIDE DEF m
  <2>10. Grows(heap, m)
    BY <2>3, <2>8, <2>9, GrowsTrans
  <2>11. QED
    BY <2>1, <2>10, GrowsSlot
<1>4. ASSUME Load(s) PROVE Grows(heap, heap')
  <2>1. \E v : heap' = SetSlot(heap, s, v)
    BY <1>4 DEF Load
  <2>2. QED
    BY <1>0, <2>1, GrowsSelf, GrowsSlot
<1>5. Grows(heap, heap')
  BY <1>1, <1>2, <1>3, <1>4
<1>6. HeapOnly
  BY DEF Create, NewString, NewClosure, Load
<1>7. tmudata' = tmudata /\ script' = script /\ mode' # "closing"
  BY <1>6 DEF HeapOnly, Scripted
<1>8. QED
  BY <1>5, <1>7, GrowingStep

LEMMA LinkingFinal ==
  ASSUME FinalInv,
         \/ \E t \in InSlots({"table"}) : \E v, k : SetTable(t, k, v)
         \/ \E f, v : SetUpval(f, v)
         \/ \E s : CloseUpvals(s) \/ Yield(s)
         \/ \E s, v : Resume(s, v)
  PROVE  FinalInv' /\ Finalizes
<1>0. Heaplike(heap)
  BY DEF FinalInv
<1>1. ASSUME NEW t \in InSlots({"table"}), NEW v, NEW k, SetTable(t, k, v)
      PROVE  Keeps(heap, heap')
  <2> DEFINE o == [heap[t] EXCEPT !.key = k, !.val = v]
             h == [heap EXCEPT ![t] = o]
  <2>1. heap' \in {h, Color(h, {t}, "gray")}
    BY <1>1 DEF SetTable
  <2>2. t \in Addresses /\ heap[t].tt = "table"
    BY DEF InSlots
  <2>3. "tt" \in DOMAIN o /\ o.tt = "table"
    BY <1>0, <2>2 DEF Heaplike, Shaped
  <2> HIDE DEF o
  <2>4. Keeps(heap, h)
    BY <1>0, <2>2, <2>3, KeepsOther
  <2> HIDE DEF h
  <2>5. QED
    BY <2>1, <2>4, KeepsHeaplike, KeepsColor, KeepsTrans
<1>2. ASSUME NEW f, NEW v, SetUpval(f, v) PROVE Keeps(heap, heap')
  <2> DEFINE u == heap[f].up
             h == IF IsOpen(heap, u) THEN [heap EXCEPT ![heap[u].at[1]].stack[heap[u].at[2]] = v]
                  ELSE [heap EXCEPT ![u].val = v]
             g == [Lists EXCEPT !.heap = h]
  <2>1. heap' \in {g.heap, luaC_barrierf(g, u, v).heap}
    BY <1>2 DEF SetUpval, TakeLists
  <2>2. Keeps(heap, h)
    BY <1>0, SlotKeeps, FieldKeeps
  <2> HIDE DEF h, u
  <2>3. Grouped(g) /\ g.heap = h
    BY ListsGrouped
  <2> HIDE DEF g
  <2>4. Keeps(h, luaC_barrierf(g, u, v).heap)
    <3>1. Keeps(h, mark(g, {v}).heap)
      BY <2>2, <2>3, KeepsHeaplike, MarkKeeps
    <3>2. [g EXCEPT !.heap = Color(@, {u}, "white")].heap = Color(h, {u}, "white")
      BY <2>3 DEF Grouped
    <3>3. Keeps(h, Color(h, {u}, "white"))
      BY <2>2, KeepsHeaplike, KeepsColor
    <3>4. QED
      BY <3>1, <3>2, <3>3 DEF luaC_barrierf
  <2>5. QED
    BY <2>1, <2>2, <2>3, <2>4, KeepsTrans
<1>3. ASSUME NEW s, CloseUpvals(s) PROVE Keeps(heap, heap')
  <2> DEFINE us == {u \in OpenUpvals(heap, L) : heap[u].at[2] >= s}
  <2>1. heap' = luaF_close(Lists, us).heap
    BY <1>3 DEF CloseUpvals, TakeLists
  <2>2. \A u \in us : u \in Addresses /\ heap[u].tt = "upval"
    BY OpenAreUpvals
  <2> HIDE DEF us
  <2>3. QED
    BY <1>0, <2>1, <2>2, ListsGrouped, CloseKeeps
<1>4. ASSUME NEW a, NEW v, NEW b, NEW s, NEW w,
             heap' = [heap EXCEPT ![a].resumed = v, ![b].stack[s] = w]
      PROVE  Keeps(heap, heap')
  <2> DEFINE h == [heap EXCEPT ![a].resumed = v]
  <2>1. Keeps(heap, h)
    BY <1>0, FieldKeeps
  <2>2. heap' = [h EXCEPT ![b].stack[s] = w]
    BY <1>4
  <2> HIDE DEF h
  <2>3. Keeps(h, heap')
    BY <2>1, <2>2, KeepsHeaplike, SlotKeeps
  <2>4. QED
    BY <2>1, <2>3, KeepsTrans
<1>5. ASSUME NEW s, Yield(s) PROVE Keeps(heap, heap')
  BY <1>4, <1>5 DEF Yield
<1>6. ASSUME NEW s, NEW v, Resume(s, v) PROVE Keeps(heap, heap')
  BY <1>4, <1>6 DEF Resume
<1>7. Keeps(heap, heap')
  BY <1>1, <1>2, <1>3, <1>5, <1>6
<1>8. tmudata' = tmudata /\ script' = script /\ mode' = mode
  BY DEF SetTable, SetUpval, CloseUpvals, Resume, Yield, Scripted
<1>9. QED
  BY <1>7, <1>8, KeepingStep

LEMMA FinalNext ==
  ASSUME FinalInv, [Next]_vars
  PROVE  FinalInv' /\ Finalizes
<1>1. CASE StartCycle \/ Propagate \/ SweepString \/ Sweep \/ EndCycle \/ FullGC
  BY <1>1, CollectorFinal
<1>2. CASE atomic
  BY <1>2, AtomicFinal
<1>3. CASE GCTM
  BY <1>3, CallFinal
<1>4. CASE Close \/ FreeAll
  BY <1>4, CloseFinal, FreeFinal
<1>5. CASE ScriptStep
  <2>1. \/ \E s : \/ \E kind : Create(kind, s)
                 \/ NewString(s)
                 \/ \E c : NewClosure(s, c)
                 \/ Load(s)
        \/ \E t \in InSlots({"table"}) : \E v, k : SetTable(t, k, v)
        \/ \E f, v : SetUpval(f, v)
        \/ \E s : CloseUpvals(s) \/ Yield(s)
        \/ \E s, v : Resume(s, v)
    BY <1>5 DEF ScriptStep
  <2>2. QED
    BY <2>1, CreatingFinal, LinkingFinal
<1>6. CASE UNCHANGED vars
  <2>1. heap' = heap /\ tmudata' = tmudata /\ script' = script /\ mode' = mode
    BY <1>6 DEF vars, collector
  <2>2. QED
    BY <2>1, KeepsSelf, KeepingStep DEF FinalInv
<1>7. QED
  BY <1>1, <1>2, <1>3, <1>4, <1>5, <1>6 DEF Next, singlestep

\* The finalizer of a userdata is called exactly once before it is freed, and never twice,
\* whatever it revives, in every cycle and when the state is closed: the way of a userdata
\* through luaC_separateudata, marktmu, GCTM, the sweeps and lua_close
\* (lgc.c:128-155, 445-471).
THEOREM FinalizersOnce == Spec => FinalizedOnce
<1>1. Init => FinalInv
  BY FinalInit
<1>2. FinalInv /\ [Next]_vars => FinalInv' /\ [Finalizes]_vars
  BY FinalNext
<1>3. QED
  BY <1>1, <1>2, PTL DEF Spec, FinalizedOnce

-----------------------------------------------------------------------------
\* The strengthening of LiveIsKept: what the references of a heap are, the tricolour
\* invariant, and the lemmas on a heap that grows, loses references or is painted.

\* Objects that are there and not dead.
Good(h) == {a \in Allocated(h) : h[a].col # "dead"}

\* The fields and the colours that an object of each kind has.
WellFormed(o) ==
  /\ "tt" \in DOMAIN o
  /\ o.tt \in {"free", "table", "userdata", "function", "upval", "thread", "string"}
  /\ o.tt # "free" => "col" \in DOMAIN o /\ o.col \in {"white", "gray", "black", "dead"}
  /\ o.tt = "table" => {"key", "val", "mode"} \subseteq DOMAIN o
  /\ o.tt = "function" => "up" \in DOMAIN o
  /\ o.tt = "upval" => {"at", "val"} \subseteq DOMAIN o
  /\ o.tt = "thread" => {"stack", "resumed"} \subseteq DOMAIN o /\ 1 \in DOMAIN o.stack
Typed(h) == DOMAIN h = Addresses /\ \A a \in Addresses : WellFormed(h[a])

\* All that an object refers to, a weak or an empty entry of a table included, but not the
\* key of an empty entry in a table weak in both sides.
Keyed(o) == o.tt = "table" /\ (o.val # Nil \/ o.mode # {"k", "v"})
Edges(h, a) ==
  IF Keyed(h[a]) THEN {h[a].key, h[a].val} \cap Addresses ELSE StrongRefs(h, a)

\* An open upvalue is in a thread that is there, and is not black.
OpenAt(h) ==
  \A u \in Addresses : IsOpen(h, u) =>
    /\ h[u].col # "black"
    /\ h[u].at[1] \in Addresses /\ h[h[u].at[1]].tt = "thread"
    /\ h[u].at[2] \in DOMAIN h[h[u].at[1]].stack

\* What is not dead refers to nothing that is dead or freed.
Closed(h) ==
  \A a \in Good(h) :
    /\ Edges(h, a) \subseteq Good(h)
    /\ h[a].tt = "function" => h[a].up \in Addresses /\ h[h[a].up].tt = "upval"

\* What every heap satisfies, in all states of the collector.
Sound(h) == Typed(h) /\ OpenAt(h) /\ Closed(h)

LEMMA EdgesOf ==
  ASSUME NEW h, NEW a
  PROVE  /\ h[a].tt = "table" =>
              Edges(h, a) = IF Keyed(h[a]) THEN {h[a].key, h[a].val} \cap Addresses ELSE {}
         /\ h[a].tt = "function" => Edges(h, a) = {h[a].up} \cap Addresses
         /\ h[a].tt = "upval" => Edges(h, a) = {UpValue(h, a)} \cap Addresses
         /\ h[a].tt = "thread" =>
              Edges(h, a) = (Range(h[a].stack) \cup {h[a].resumed}) \cap Addresses
         /\ h[a].tt \in {"free", "userdata", "string"} => Edges(h, a) = {}
<1>1. CASE h[a].tt = "table"
  <2>1. ~Keyed(h[a]) => StrongRefs(h, a) = {}
    BY <1>1 DEF Keyed, StrongRefs
  <2>2. QED
    BY <1>1, <2>1 DEF Edges
<1>2. CASE h[a].tt = "function"
  BY <1>2 DEF Edges, Keyed, StrongRefs
<1>3. CASE h[a].tt = "upval"
  BY <1>3 DEF Edges, Keyed, StrongRefs
<1>4. CASE h[a].tt = "thread"
  BY <1>4 DEF Edges, Keyed, StrongRefs
<1>5. CASE h[a].tt \in {"free", "userdata", "string"}
  BY <1>5 DEF Edges, Keyed, StrongRefs
<1>6. QED
  BY <1>1, <1>2, <1>3, <1>4, <1>5

LEMMA StrongEdges ==
  ASSUME NEW h, NEW a
  PROVE  /\ StrongRefs(h, a) \subseteq Edges(h, a)
         /\ h[a].tt # "table" => StrongRefs(h, a) = Edges(h, a)
         /\ h[a].tt = "table" /\ h[a].mode = {} /\ h[a].val # Nil => StrongRefs(h, a) = Edges(h, a)
         /\ h[a].tt = "table" /\ h[a].mode = {} => {h[a].val} \cap Addresses \subseteq StrongRefs(h, a)
<1>1. CASE h[a].tt = "table"
  BY <1>1 DEF Edges, Keyed, StrongRefs
<1>2. CASE h[a].tt # "table"
  BY <1>2 DEF Edges, Keyed
<1>3. QED
  BY <1>1, <1>2

\* The same object but for its colour.
Same(o, p) ==
  /\ p.tt = o.tt
  /\ o.tt = "table" => p.key = o.key /\ p.val = o.val /\ p.mode = o.mode
  /\ o.tt = "function" => p.up = o.up
  /\ o.tt = "upval" => p.at = o.at /\ p.val = o.val
  /\ o.tt = "thread" => p.stack = o.stack /\ p.resumed = o.resumed

LEMMA SameEdges ==
  ASSUME NEW h, NEW k, OpenAt(h), \A a \in Addresses : Same(h[a], k[a])
  PROVE  \A a \in Addresses :
           /\ IsOpen(k, a) <=> IsOpen(h, a)
           /\ Edges(k, a) = Edges(h, a) /\ StrongRefs(k, a) = StrongRefs(h, a)
<1> SUFFICES ASSUME NEW a \in Addresses
             PROVE  /\ IsOpen(k, a) <=> IsOpen(h, a)
                    /\ Edges(k, a) = Edges(h, a) /\ StrongRefs(k, a) = StrongRefs(h, a)
  OBVIOUS
<1>1. Same(h[a], k[a])
  OBVIOUS
<1>2. IsOpen(k, a) <=> IsOpen(h, a)
  BY <1>1 DEF IsOpen, Same
<1>3. h[a].tt = "upval" => UpValue(k, a) = UpValue(h, a)
  <2>1. CASE IsOpen(h, a)
    <3>1. Same(h[h[a].at[1]], k[h[a].at[1]]) /\ h[h[a].at[1]].tt = "thread"
      BY <2>1 DEF OpenAt
    <3>2. QED
      BY <1>1, <1>2, <2>1, <3>1 DEF UpValue, Same, IsOpen
  <2>2. CASE ~IsOpen(h, a)
    BY <1>1, <1>2, <2>2 DEF UpValue, Same
  <2>3. QED
    BY <2>1, <2>2
<1>4. CASE h[a].tt = "table"
  <2>1. k[a].tt = "table" /\ k[a].key = h[a].key /\ k[a].val = h[a].val /\ k[a].mode = h[a].mode
    BY <1>1, <1>4 DEF Same
  <2>2. QED
    BY <1>2, <1>4, <2>1 DEF Edges, Keyed, StrongRefs
<1>5. CASE h[a].tt # "table"
  <2>1. Edges(k, a) = Edges(h, a)
    <3>1. CASE h[a].tt = "upval"
      <4>1. k[a].tt = "upval" /\ UpValue(k, a) = UpValue(h, a)
        BY <1>1, <1>3, <3>1 DEF Same
      <4>2. Edges(h, a) = {UpValue(h, a)} \cap Addresses
        BY <3>1, EdgesOf
      <4>3. Edges(k, a) = {UpValue(k, a)} \cap Addresses
        BY <4>1, EdgesOf
      <4>4. QED
        BY <4>1, <4>2, <4>3
    <3>2. CASE h[a].tt = "function"
      <4>1. k[a].tt = "function" /\ k[a].up = h[a].up
        BY <1>1, <3>2 DEF Same
      <4>2. Edges(h, a) = {h[a].up} \cap Addresses
        BY <3>2, EdgesOf
      <4>3. Edges(k, a) = {k[a].up} \cap Addresses
        BY <4>1, EdgesOf
      <4>4. QED
        BY <4>1, <4>2, <4>3
    <3>3. CASE h[a].tt = "thread"
      <4>1. k[a].tt = "thread" /\ k[a].stack = h[a].stack /\ k[a].resumed = h[a].resumed
        BY <1>1, <3>3 DEF Same
      <4>2. Edges(h, a) = (Range(h[a].stack) \cup {h[a].resumed}) \cap Addresses
        BY <3>3, EdgesOf
      <4>3. Edges(k, a) = (Range(k[a].stack) \cup {k[a].resumed}) \cap Addresses
        BY <4>1, EdgesOf
      <4>4. QED
        BY <4>1, <4>2, <4>3
    <3>4. CASE h[a].tt \notin {"table", "upval", "function", "thread"}
      BY <1>1, <3>4 DEF Same, Edges, Keyed, StrongRefs
    <3>5. QED
      BY <1>5, <3>1, <3>2, <3>3, <3>4
  <2>2. QED
    BY <1>1, <1>2, <1>5, <2>1, StrongEdges DEF Same
<1>6. QED
  BY <1>4, <1>5

\* From h to k only dead objects go; what stays refers to no more than before.
Retains(h, k) ==
  /\ Typed(k)
  /\ \A a \in Addresses :
       /\ k[a].tt # "free" =>
            /\ k[a].tt = h[a].tt /\ (k[a].col = "dead" <=> h[a].col = "dead")
            /\ Edges(k, a) \subseteq Edges(h, a)
            /\ k[a].tt = "function" => k[a].up = h[a].up
            /\ k[a].tt = "thread" => k[a].stack = h[a].stack /\ k[a].resumed = h[a].resumed
       /\ k[a].tt = "free" => h[a].tt = "free" \/ h[a].col = "dead"
       /\ IsOpen(k, a) => /\ IsOpen(h, a) /\ k[a].at = h[a].at /\ k[a].col # "black"
                          /\ k[h[a].at[1]].tt = "thread"

LEMMA RetainsSound ==
  ASSUME NEW h, NEW k, Sound(h), Retains(h, k)
  PROVE  Sound(k) /\ Good(k) = Good(h)
<1>1. Good(k) = Good(h)
  BY DEF Retains, Good, Allocated
<1>2. OpenAt(k)
  <2> SUFFICES ASSUME NEW u \in Addresses, IsOpen(k, u)
               PROVE  /\ k[u].col # "black"
                      /\ k[u].at[1] \in Addresses /\ k[k[u].at[1]].tt = "thread"
                      /\ k[u].at[2] \in DOMAIN k[k[u].at[1]].stack
    BY DEF OpenAt
  <2>1. /\ IsOpen(h, u) /\ k[u].at = h[u].at /\ k[u].col # "black"
        /\ k[h[u].at[1]].tt = "thread"
    BY DEF Retains
  <2>2. h[u].at[1] \in Addresses /\ h[u].at[2] \in DOMAIN h[h[u].at[1]].stack
    BY <2>1 DEF Sound, OpenAt
  <2>3. k[h[u].at[1]].stack = h[h[u].at[1]].stack
    BY <2>1, <2>2 DEF Retains
  <2>4. QED
    BY <2>1, <2>2, <2>3
<1>3. Closed(k)
  <2> SUFFICES ASSUME NEW a \in Good(k)
               PROVE  /\ Edges(k, a) \subseteq Good(k)
                      /\ k[a].tt = "function" => k[a].up \in Addresses /\ k[k[a].up].tt = "upval"
    BY DEF Closed
  <2>1. a \in Addresses /\ a \in Good(h) /\ k[a].tt # "free"
    BY <1>1 DEF Good, Allocated
  <2>2. Edges(k, a) \subseteq Edges(h, a) /\ k[a].tt = h[a].tt
    BY <2>1 DEF Retains
  <2>3. Edges(h, a) \subseteq Good(h)
    BY <2>1 DEF Sound, Closed
  <2>4. ASSUME k[a].tt = "function"
        PROVE  k[a].up \in Addresses /\ k[k[a].up].tt = "upval"
    <3>1. k[a].up = h[a].up
      BY <2>1, <2>4 DEF Retains
    <3>2. h[a].up \in Addresses /\ h[h[a].up].tt = "upval"
      BY <2>1, <2>2, <2>4 DEF Sound, Closed
    <3>3. h[a].up \in Good(k)
      BY <1>1, <2>2, <2>3, <2>4, <3>2, EdgesOf
    <3>4. QED
      BY <3>1, <3>2, <3>3 DEF Retains, Good, Allocated
  <2>5. QED
    BY <1>1, <2>2, <2>3, <2>4
<1>4. QED
  BY <1>1, <1>2, <1>3 DEF Retains, Sound

LEMMA RetainsTrans ==
  ASSUME NEW h, NEW k, NEW m, Retains(h, k), Retains(k, m)
  PROVE  Retains(h, m)
<1>1. ASSUME NEW a \in Addresses, m[a].tt # "free"
      PROVE  /\ m[a].tt = h[a].tt /\ (m[a].col = "dead" <=> h[a].col = "dead")
             /\ Edges(m, a) \subseteq Edges(h, a)
             /\ m[a].tt = "function" => m[a].up = h[a].up
             /\ m[a].tt = "thread" => m[a].stack = h[a].stack /\ m[a].resumed = h[a].resumed
  BY <1>1 DEF Retains
<1>2. ASSUME NEW a \in Addresses, m[a].tt = "free"
      PROVE  h[a].tt = "free" \/ h[a].col = "dead"
  BY <1>2 DEF Retains
<1>3. ASSUME NEW a \in Addresses, IsOpen(m, a)
      PROVE  /\ IsOpen(h, a) /\ m[a].at = h[a].at /\ m[a].col # "black"
             /\ m[h[a].at[1]].tt = "thread"
  <2>1. IsOpen(k, a) /\ m[a].at = k[a].at /\ m[a].col # "black" /\ m[k[a].at[1]].tt = "thread"
    BY <1>3 DEF Retains
  <2>2. IsOpen(h, a) /\ k[a].at = h[a].at
    BY <2>1 DEF Retains
  <2>3. QED
    BY <2>1, <2>2
<1>4. Typed(m)
  BY DEF Retains
<1>5. QED
  BY <1>1, <1>2, <1>3, <1>4 DEF Retains

LEMMA RetainsSelf == ASSUME NEW h, Sound(h) PROVE Retains(h, h)
BY DEF Retains, Sound, OpenAt

\* Changes of colours.
LEMMA SameRetains ==
  ASSUME NEW h, NEW k, Sound(h), Typed(k),
         \A a \in Addresses :
           /\ Same(h[a], k[a])
           /\ h[a].tt # "free" => (k[a].col = "dead" <=> h[a].col = "dead")
           /\ IsOpen(h, a) => k[a].col # "black"
  PROVE  Retains(h, k)
<1>1. \A a \in Addresses : (IsOpen(k, a) <=> IsOpen(h, a)) /\ Edges(k, a) = Edges(h, a)
  BY SameEdges DEF Sound
<1>2. ASSUME NEW a \in Addresses
      PROVE  /\ k[a].tt # "free" =>
                  /\ k[a].tt = h[a].tt /\ (k[a].col = "dead" <=> h[a].col = "dead")
                  /\ Edges(k, a) \subseteq Edges(h, a)
                  /\ k[a].tt = "function" => k[a].up = h[a].up
                  /\ k[a].tt = "thread" => k[a].stack = h[a].stack /\ k[a].resumed = h[a].resumed
             /\ k[a].tt = "free" => h[a].tt = "free" \/ h[a].col = "dead"
  BY <1>1 DEF Same
<1>3. ASSUME NEW a \in Addresses, IsOpen(k, a)
      PROVE  /\ IsOpen(h, a) /\ k[a].at = h[a].at /\ k[a].col # "black"
             /\ k[h[a].at[1]].tt = "thread"
  <2>1. IsOpen(h, a) /\ h[a].at[1] \in Addresses /\ h[h[a].at[1]].tt = "thread"
    BY <1>1, <1>3 DEF Sound, OpenAt
  <2>2. QED
    BY <2>1 DEF Same, IsOpen
<1>4. QED
  BY <1>2, <1>3 DEF Retains

LEMMA ColorObject ==
  ASSUME NEW o, NEW c \in {"white", "gray", "black", "dead"}, WellFormed(o)
  PROVE  /\ WellFormed([o EXCEPT !.col = c]) /\ Same(o, [o EXCEPT !.col = c])
         /\ o.tt # "free" => [o EXCEPT !.col = c].col = c
<1> DEFINE p == [o EXCEPT !.col = c]
<1>1. DOMAIN p = DOMAIN o /\ \A f \in DOMAIN o \ {"col"} : p[f] = o[f]
  OBVIOUS
<1>2. p.tt = o.tt
  BY <1>1 DEF WellFormed
<1>3. o.tt # "free" => p.col = c
  BY DEF WellFormed
<1> HIDE DEF p
<1>4. Same(o, p)
  BY <1>1, <1>2 DEF Same, WellFormed
<1>5. WellFormed(p)
  BY <1>1, <1>2, <1>3 DEF WellFormed
<1>6. QED
  BY <1>3, <1>4, <1>5 DEF p

\* From h to k these objects get this colour.
Painted(h, as, c, k) ==
  /\ Typed(k)
  /\ \A a \in Addresses :
       /\ Same(h[a], k[a])
       /\ h[a].tt # "free" => k[a].col = IF a \in as THEN c ELSE h[a].col

LEMMA ColorPaints ==
  ASSUME NEW h, NEW as, NEW c \in {"white", "gray", "black", "dead"}, Typed(h)
  PROVE  Painted(h, as, c, Color(h, as, c))
<1> DEFINE k == Color(h, as, c)
<1>1. DOMAIN k = Addresses
  BY DEF Color
<1>2. \A a \in Addresses : k[a] = IF a \in as THEN [h[a] EXCEPT !.col = c] ELSE h[a]
  BY DEF Color
<1> HIDE DEF k
<1>3. ASSUME NEW a \in Addresses
      PROVE  /\ WellFormed(k[a]) /\ Same(h[a], k[a])
             /\ h[a].tt # "free" => k[a].col = IF a \in as THEN c ELSE h[a].col
  <2>0. WellFormed(h[a])
    BY DEF Typed
  <2>1. CASE a \in as
    <3> DEFINE p == [h[a] EXCEPT !.col = c]
    <3>1. WellFormed(p) /\ Same(h[a], p) /\ (h[a].tt # "free" => p.col = c)
      BY <2>0, ColorObject
    <3>2. k[a] = p
      BY <1>2, <2>1
    <3> HIDE DEF p
    <3>3. QED
      BY <2>1, <3>1, <3>2
  <2>2. CASE a \notin as
    BY <1>2, <2>0, <2>2 DEF Same
  <2>3. QED
    BY <2>1, <2>2
<1>4. Painted(h, as, c, k)
  BY <1>1, <1>3 DEF Typed, Painted
<1>5. QED
  BY <1>4 DEF k

LEMMA ColorSame ==
  ASSUME NEW h, NEW as, NEW c \in {"white", "gray", "black", "dead"}, Typed(h)
  PROVE  /\ Typed(Color(h, as, c))
         /\ \A a \in Addresses :
              /\ Same(h[a], Color(h, as, c)[a])
              /\ h[a].tt # "free" => Color(h, as, c)[a].col = IF a \in as THEN c ELSE h[a].col
<1> DEFINE k == Color(h, as, c)
<1>1. Painted(h, as, c, k)
  BY ColorPaints
<1> HIDE DEF k
<1>2. /\ Typed(k)
      /\ \A a \in Addresses :
           Same(h[a], k[a]) /\ (h[a].tt # "free" => k[a].col = IF a \in as THEN c ELSE h[a].col)
  BY <1>1 DEF Painted
<1>3. QED
  BY <1>2 DEF k

LEMMA SameTrans ==
  ASSUME NEW o, NEW p, NEW q, Same(o, p), Same(p, q)
  PROVE  Same(o, q)
BY DEF Same

-----------------------------------------------------------------------------
LEMMA ReachedClosed ==
  ASSUME NEW from, NEW all, NEW refs, NEW r \in refs,
         r[1] \in Reached(from, all, refs), r[2] \in all
  PROVE  r[2] \in Reached(from, all, refs)
BY DEF Reached

LEMMA ReachedReferences ==
  ASSUME NEW from, NEW all, NEW h, NEW as, NEW a \in as, NEW b \in all,
         a \in Reached(from, all, References(h, as)), b \in StrongRefs(h, a)
  PROVE  b \in Reached(from, all, References(h, as))
<1>1. <<a, b>> \in References(h, as)
  <2>1. <<a, b>> \in {a} \X StrongRefs(h, a)
    OBVIOUS
  <2>2. {a} \X StrongRefs(h, a) \in {{x} \X StrongRefs(h, x) : x \in as}
    OBVIOUS
  <2>3. QED
    BY <2>1, <2>2 DEF References
<1> DEFINE refs == References(h, as)
<1> HIDE DEF refs
<1>2. <<a, b>> \in refs /\ <<a, b>>[1] = a /\ <<a, b>>[2] = b
  BY <1>1 DEF refs
<1>3. QED
  BY <1>2, ReachedClosed DEF refs

\* While marking no object is dead yet; gray are only kinds that are traversed.
NoneDead(h) == \A a \in Allocated(h) : h[a].col # "dead"
Traversable(h) == {a \in Addresses : h[a].tt \in {"table", "function", "thread"}}
Listed(g) == {"heap", "gray", "again", "weak"} \subseteq DOMAIN g

LEMMA MarkFacts ==
  ASSUME NEW g, NEW values, Sound(g.heap), NoneDead(g.heap), Listed(g)
  PROVE  LET h == g.heap
             r == mark(g, values)
         IN \E M \in SUBSET White(h) :
              /\ values \cap White(h) \subseteq M
              /\ \A a \in M : h[a].tt \in {"userdata", "upval"} =>
                   StrongRefs(h, a) \cap White(h) \subseteq M
              /\ Retains(h, r.heap) /\ \A a \in Addresses : Same(h[a], r.heap[a])
              /\ White(r.heap) = White(h) \ M
              /\ \A a \in Addresses : h[a].tt # "free" =>
                   /\ a \notin M => r.heap[a].col = h[a].col
                   /\ a \in M /\ h[a].tt = "upval" /\ ~IsOpen(h, a) => r.heap[a].col = "black"
              /\ r.gray = g.gray \cup (M \cap Traversable(h))
              /\ r.again = g.again /\ r.weak = g.weak
<1> DEFINE h == g.heap
           white == White(h)
           inner == {a \in white : h[a].tt \in {"userdata", "upval"}}
           marked == Reached(values \cap white, white, References(h, inner))
           black == {a \in marked : \/ h[a].tt = "userdata"
                                    \/ h[a].tt = "upval" /\ ~IsOpen(h, a)}
           c1 == Color(h, marked \ black, "gray")
           k == Color(c1, black, "black")
           grays == g.gray \cup {a \in marked : h[a].tt \in {"table", "function", "thread"}}
           r == [g EXCEPT !.heap = k, !.gray = grays]
<1>1. mark(g, values) = r
  BY DEF mark
<1>2. white \subseteq Addresses /\ inner \subseteq white
  BY DEF White
<1>3. values \cap white \subseteq marked /\ marked \subseteq white
  <2> HIDE DEF white, inner
  <2> DEFINE from == values \cap white
             refs == References(h, inner)
  <2>1. from \subseteq white
    OBVIOUS
  <2> HIDE DEF from, refs
  <2>2. from \subseteq Reached(from, white, refs) /\ Reached(from, white, refs) \subseteq white
    BY <2>1, ReachedBetween
  <2>3. QED
    BY <2>2 DEF from, refs
<1>4. \A a \in marked : h[a].tt \in {"userdata", "upval"} =>
        StrongRefs(h, a) \cap white \subseteq marked
  <2> SUFFICES ASSUME NEW a \in marked, h[a].tt \in {"userdata", "upval"},
                      NEW b \in StrongRefs(h, a) \cap white
               PROVE  b \in marked
    OBVIOUS
  <2>1. a \in inner
    BY <1>3
  <2> DEFINE from == values \cap white
  <2> HIDE DEF white, inner, from
  <2>2. QED
    BY <2>1, ReachedReferences DEF from
<1>5. black \subseteq marked /\ \A a \in black : ~IsOpen(h, a)
  BY DEF IsOpen
<1>6. grays = g.gray \cup (marked \cap Traversable(h))
  BY <1>2, <1>3 DEF Traversable
<1> HIDE DEF white, inner, marked, black, grays
<1>7. /\ Typed(c1)
      /\ \A a \in Addresses :
           /\ Same(h[a], c1[a])
           /\ h[a].tt # "free" => c1[a].col = IF a \in marked \ black THEN "gray" ELSE h[a].col
  BY ColorSame DEF Sound
<1>8. /\ Typed(k)
      /\ \A a \in Addresses :
           /\ Same(c1[a], k[a])
           /\ c1[a].tt # "free" => k[a].col = IF a \in black THEN "black" ELSE c1[a].col
  <2> HIDE DEF c1
  <2>1. QED
    BY <1>7, ColorSame
<1> HIDE DEF c1, k
<1>9. \A a \in Addresses :
        /\ Same(h[a], k[a])
        /\ h[a].tt # "free" => k[a].col = IF a \in black THEN "black"
                                          ELSE IF a \in marked THEN "gray" ELSE h[a].col
  BY <1>7, <1>8, SameTrans DEF Same
<1>10. Retains(h, k)
  <2>1. \A a \in Addresses : h[a].tt # "free" => (k[a].col = "dead" <=> h[a].col = "dead")
    BY <1>9 DEF NoneDead, Allocated
  <2>2. \A a \in Addresses : IsOpen(h, a) => k[a].col # "black"
    BY <1>5, <1>9 DEF Sound, OpenAt, IsOpen
  <2>3. QED
    BY <1>8, <1>9, <2>1, <2>2, SameRetains
<1>11. White(k) = White(h) \ marked
  BY <1>3, <1>5, <1>9 DEF White, white, Same
<1>12. r.heap = k /\ r.gray = grays /\ r.again = g.again /\ r.weak = g.weak
  BY DEF Listed
<1> HIDE DEF r
<1>13. /\ marked \in SUBSET White(h) /\ values \cap White(h) \subseteq marked
       /\ \A a \in marked : h[a].tt \in {"userdata", "upval"} =>
            StrongRefs(h, a) \cap White(h) \subseteq marked
  BY <1>3, <1>4 DEF white
<1>14. \A a \in Addresses : h[a].tt # "free" =>
         /\ a \notin marked => k[a].col = h[a].col
         /\ a \in marked /\ h[a].tt = "upval" /\ ~IsOpen(h, a) => k[a].col = "black"
  BY <1>5, <1>9 DEF black
<1>15. QED
  BY <1>1, <1>6, <1>9, <1>10, <1>11, <1>12, <1>13, <1>14

\* The tricolour invariant: a marked object that no list holds refers to no white one.  Threads
\* are in a list always, as are gray and weak tables; open upvalues are found in their threads
\* (remarkupvals), closed ones are black.
Tricolor(h, gr, ag, wk) ==
  /\ NoneDead(h)
  /\ gr \subseteq Traversable(h)
  /\ \A a \in Allocated(h) \ White(h) :
       /\ h[a].tt = "thread" => a \in gr \cup ag
       /\ a \notin gr \cup ag \cup wk /\ ~IsOpen(h, a) =>
            /\ Edges(h, a) \cap White(h) = {}
            /\ h[a].tt \in {"table", "upval"} => h[a].col = "black"
            /\ h[a].tt = "table" => h[a].mode = {}

\* Marking keeps it, when all that is missing are these values.
LEMMA MarkTricolor ==
  ASSUME NEW g, NEW values, Sound(g.heap), NoneDead(g.heap), Listed(g),
         g.gray \subseteq Traversable(g.heap),
         \A a \in Allocated(g.heap) \ White(g.heap) :
           /\ g.heap[a].tt = "thread" => a \in g.gray \cup g.again
           /\ a \notin g.gray \cup g.again \cup g.weak /\ ~IsOpen(g.heap, a) =>
                /\ Edges(g.heap, a) \cap White(g.heap) \subseteq values
                /\ g.heap[a].tt \in {"table", "upval"} => g.heap[a].col = "black"
                /\ g.heap[a].tt = "table" => g.heap[a].mode = {}
  PROVE  LET h == g.heap
             r == mark(g, values)
         IN /\ Retains(h, r.heap) /\ Tricolor(r.heap, r.gray, r.again, r.weak)
            /\ White(r.heap) \subseteq White(h) /\ values \cap White(r.heap) = {}
<1> DEFINE h == g.heap
           r == mark(g, values)
           k == r.heap
<1>1. PICK M \in SUBSET White(h) :
        /\ values \cap White(h) \subseteq M
        /\ \A a \in M : h[a].tt \in {"userdata", "upval"} =>
             StrongRefs(h, a) \cap White(h) \subseteq M
        /\ Retains(h, k) /\ \A a \in Addresses : Same(h[a], k[a])
        /\ White(k) = White(h) \ M
        /\ \A a \in Addresses : h[a].tt # "free" =>
             /\ a \notin M => k[a].col = h[a].col
             /\ a \in M /\ h[a].tt = "upval" /\ ~IsOpen(h, a) => k[a].col = "black"
        /\ r.gray = g.gray \cup (M \cap Traversable(h))
        /\ r.again = g.again /\ r.weak = g.weak
  BY MarkFacts
<1> HIDE DEF r
<1> HIDE DEF k
<1>2. \A a \in Addresses : (IsOpen(k, a) <=> IsOpen(h, a)) /\ Edges(k, a) = Edges(h, a)
  BY <1>1, SameEdges DEF Sound
<1>3. \A a \in Addresses : k[a].tt = h[a].tt /\ (h[a].tt = "table" => k[a].mode = h[a].mode)
  BY <1>1 DEF Same
<1>4. NoneDead(k) /\ Allocated(k) = Allocated(h)
  BY <1>1, <1>3 DEF NoneDead, Retains, Allocated
<1>5. Traversable(k) = Traversable(h)
  BY <1>3 DEF Traversable
<1>6. ASSUME NEW a \in Allocated(k) \ White(k)
      PROVE  /\ k[a].tt = "thread" => a \in r.gray \cup r.again
             /\ a \notin r.gray \cup r.again \cup r.weak /\ ~IsOpen(k, a) =>
                  /\ Edges(k, a) \cap White(k) = {}
                  /\ k[a].tt \in {"table", "upval"} => k[a].col = "black"
                  /\ k[a].tt = "table" => k[a].mode = {}
  <2>1. a \in Addresses /\ a \in Allocated(h) /\ h[a].tt # "free"
    BY <1>4 DEF Allocated
  <2>2. CASE a \in M
    <3>1. h[a].tt \in {"table", "function", "thread"} => a \in r.gray
      BY <1>1, <2>1, <2>2 DEF Traversable
    <3>2. h[a].tt \in {"userdata", "upval"} => Edges(h, a) \cap White(k) = {}
      BY <1>1, <2>2, StrongEdges
    <3>3. h[a].tt \notin {"table", "function", "thread", "userdata", "upval"} => Edges(h, a) = {}
      BY <2>1, EdgesOf DEF Sound, Typed, WellFormed
    <3>4. h[a].tt = "upval" /\ ~IsOpen(k, a) => k[a].col = "black"
      BY <1>1, <1>2, <2>1, <2>2
    <3>5. QED
      BY <1>2, <1>3, <2>1, <3>1, <3>2, <3>3, <3>4
  <2>3. CASE a \notin M
    <3>1. a \notin White(h)
      BY <1>1, <2>3
    <3>2. QED
      BY <1>1, <1>2, <1>3, <2>1, <3>1
  <2>4. QED
    BY <2>2, <2>3
<1>7. r.gray \subseteq Traversable(k)
  BY <1>1, <1>5
<1>8. Tricolor(k, r.gray, r.again, r.weak)
  BY <1>4, <1>6, <1>7 DEF Tricolor
<1>9. QED
  BY <1>1, <1>8 DEF k, r

-----------------------------------------------------------------------------
\* The threads from the main one to the one that runs: each has the next one as its resumed
\* coroutine.  Whatever holds the main thread and goes along these links holds them all.
ResumedIn(h, S) == \A a \in S : h[a].tt = "thread" => {h[a].resumed} \cap Addresses \subseteq S

\* The running threads form one chain from the main thread, each resumed by the one before;
\* so whatever holds the main thread and what its threads resumed holds them all.
RunningInv(h, run) ==
  /\ run \in Seq(Addresses) /\ Len(run) >= 1 /\ run[1] = Main
  /\ \A i, j \in 1 .. Len(run) : run[i] = run[j] => i = j
  /\ \A i \in 1 .. Len(run) : run[i] \in Good(h) /\ h[run[i]].tt = "thread"
  /\ \A t \in Addresses : h[t].tt = "thread" =>
       /\ \A i \in 1 .. Len(run) - 1 : t = run[i] => h[t].resumed = run[i + 1]
       /\ (\A i \in 1 .. Len(run) - 1 : t # run[i]) => h[t].resumed = Nil
  /\ \A S \in SUBSET Addresses :
       Main \in S /\ ResumedIn(h, S) => \A i \in 1 .. Len(run) : run[i] \in S

LEMMA RunningKept ==
  ASSUME NEW h, NEW k, NEW run, RunningInv(h, run),
         \A i \in 1 .. Len(run) : /\ run[i] \in Good(k) /\ k[run[i]].tt = "thread"
                                  /\ k[run[i]].resumed = h[run[i]].resumed,
         \A t \in Addresses : k[t].tt = "thread" =>
           \/ h[t].tt = "thread" /\ k[t].resumed = h[t].resumed
           \/ k[t].resumed = Nil /\ \A i \in 1 .. Len(run) : t # run[i]
  PROVE  RunningInv(k, run)
<1>0. run \in Seq(Addresses) /\ Len(run) \in Nat /\ Len(run) >= 1 /\ run[1] = Main
      /\ \A i \in 1 .. Len(run) : run[i] \in Addresses
  BY DEF RunningInv
<1>1. ASSUME NEW t \in Addresses, k[t].tt = "thread"
      PROVE  /\ \A i \in 1 .. Len(run) - 1 : t = run[i] => k[t].resumed = run[i + 1]
             /\ (\A i \in 1 .. Len(run) - 1 : t # run[i]) => k[t].resumed = Nil
  <2>1. CASE h[t].tt = "thread" /\ k[t].resumed = h[t].resumed
    BY <2>1 DEF RunningInv
  <2>2. CASE k[t].resumed = Nil /\ \A i \in 1 .. Len(run) : t # run[i]
    BY <1>0, <2>2
  <2>3. QED
    BY <1>1, <2>1, <2>2
<1>2. ASSUME NEW S \in SUBSET Addresses, Main \in S, ResumedIn(k, S), NEW i \in 1 .. Len(run)
      PROVE  run[i] \in S
  <2> DEFINE R == {run[j] : j \in 1 .. Len(run)}
             T == S \cap R
  <2>1. Main \in T /\ T \in SUBSET Addresses
    BY <1>0, <1>2
  <2>2. ASSUME NEW a \in T, h[a].tt = "thread" PROVE {h[a].resumed} \cap Addresses \subseteq T
    <3>1. PICK j \in 1 .. Len(run) : a = run[j]
      OBVIOUS
    <3>2. k[a].tt = "thread" /\ k[a].resumed = h[a].resumed
      BY <3>1
    <3>3. {h[a].resumed} \cap Addresses \subseteq S
      BY <1>2, <3>2 DEF ResumedIn
    <3>4. CASE j \in 1 .. Len(run) - 1
      <4>1. h[a].resumed = run[j + 1] /\ j + 1 \in 1 .. Len(run)
        BY <1>0, <2>2, <3>1, <3>4 DEF RunningInv
      <4>2. QED
        BY <3>3, <4>1
    <3>5. CASE j \notin 1 .. Len(run) - 1
      <4>1. j = Len(run)
        BY <1>0, <3>5
      <4>2. \A l \in 1 .. Len(run) - 1 : a # run[l]
        BY <1>0, <3>1, <4>1 DEF RunningInv
      <4>3. a \in Addresses
        BY <2>1
      <4>4. h[a].resumed = Nil
        BY <2>2, <4>2, <4>3 DEF RunningInv
      <4>5. QED
        BY <4>4, ValuesAssumption
    <3>6. QED
      BY <3>4, <3>5
  <2>3. ResumedIn(h, T)
    BY <2>2 DEF ResumedIn
  <2>4. \A l \in 1 .. Len(run) : run[l] \in T
    BY <2>1, <2>3 DEF RunningInv
  <2>5. QED
    BY <2>4
<1>3. QED
  BY <1>0, <1>1, <1>2 DEF RunningInv

\* While the collector may run: the colours in each of its states.
Coloured ==
  /\ gcstate = "propagate" =>
       Tricolor(heap, gray, grayagain, weak) /\ Main \notin White(heap)
  /\ gcstate = "sweepstring" =>
       /\ unswept \subseteq Strings(heap)
       /\ \A a \in Strings(heap) : heap[a].col # "white" => a \in unswept
  /\ gcstate = "sweep" =>
       \A a \in Allocated(heap) : heap[a].col # "white" =>
         a \in unswept \cup tmudata \/ (IsOpen(heap, a) /\ heap[a].at[1] \in unswept)
  /\ gcstate \in {"finalize", "pause"} =>
       \A a \in Allocated(heap) : heap[a].col # "white" => a \in tmudata

\* The inductive invariant; the colours say nothing once lua_close frees everything.
LiveInv ==
  /\ Sound(heap)
  /\ mode # "closed" => RunningInv(heap, running)
  /\ Collects => Coloured

\* A change that leaves no object in another colour than white but those that have one.
Calm(h, k) ==
  \A a \in Addresses :
    /\ h[a].tt = "string" => k[a].tt = "string"
    /\ k[a].tt # "free" /\ k[a].col # "white" =>
         /\ h[a].tt = k[a].tt /\ h[a].col # "white"
         /\ IsOpen(h, a) => IsOpen(k, a) /\ k[a].at = h[a].at

LEMMA CalmTrans ==
  ASSUME NEW h, NEW k, NEW m, Calm(h, k), Calm(k, m) PROVE Calm(h, m)
BY DEF Calm

LEMMA CalmSelf == ASSUME NEW h PROVE Calm(h, h)
BY DEF Calm

\* A step of the script.
LEMMA CalmStep ==
  ASSUME LiveInv, mode = "script", mode' = mode, gcstate' = gcstate, unswept' = unswept,
         tmudata' = tmudata, Sound(heap'), RunningInv(heap', running'),
         gcstate # "propagate" => Calm(heap, heap'),
         gcstate = "propagate" =>
           Tricolor(heap', gray', grayagain', weak') /\ Main \notin White(heap')
  PROVE  LiveInv'
<1>1. Coloured
  BY DEF LiveInv, Collects
<1>2. CASE gcstate = "propagate"
  BY <1>2 DEF LiveInv, Coloured
<1>3. CASE gcstate = "sweepstring"
  <2>1. Calm(heap, heap') /\ unswept \subseteq Strings(heap)
        /\ \A a \in Strings(heap) : heap[a].col # "white" => a \in unswept
    BY <1>1, <1>3 DEF Coloured
  <2>2. unswept' \subseteq Strings(heap')
    BY <2>1 DEF Calm, Strings, Allocated
  <2>3. \A a \in Strings(heap') : heap'[a].col # "white" => a \in unswept'
    BY <2>1 DEF Calm, Strings, Allocated
  <2>4. QED
    BY <1>3, <2>2, <2>3 DEF LiveInv, Coloured
<1>4. CASE gcstate = "sweep"
  <2>1. Calm(heap, heap')
        /\ \A a \in Allocated(heap) : heap[a].col # "white" =>
             a \in unswept \cup tmudata \/ (IsOpen(heap, a) /\ heap[a].at[1] \in unswept)
    BY <1>1, <1>4 DEF Coloured
  <2>2. \A a \in Allocated(heap') : heap'[a].col # "white" =>
             a \in unswept \cup tmudata \/ (IsOpen(heap', a) /\ heap'[a].at[1] \in unswept)
    BY <2>1 DEF Calm, Allocated
  <2>3. QED
    BY <1>4, <2>2 DEF LiveInv, Coloured
<1>5. CASE gcstate \in {"finalize", "pause"}
  <2>1. Calm(heap, heap')
        /\ \A a \in Allocated(heap) : heap[a].col # "white" => a \in tmudata
    BY <1>1, <1>5 DEF Coloured
  <2>2. \A a \in Allocated(heap') : heap'[a].col # "white" => a \in tmudata
    BY <2>1 DEF Calm, Allocated
  <2>3. QED
    BY <1>5, <2>2 DEF LiveInv, Coloured
<1>6. CASE gcstate \notin {"propagate", "sweepstring", "sweep", "finalize", "pause"}
  BY <1>6 DEF LiveInv, Coloured
<1>7. QED
  BY <1>2, <1>3, <1>4, <1>5, <1>6

-----------------------------------------------------------------------------
\* Changes of what objects refer to: from h to k they get no more than these values.
Writes(h, k, values) ==
  /\ Typed(k)
  /\ \A a \in Addresses :
       /\ k[a].tt = h[a].tt /\ (h[a].tt # "free" => k[a].col = h[a].col)
       /\ Edges(k, a) \subseteq Edges(h, a) \cup values
       /\ h[a].tt = "table" => k[a].mode = h[a].mode
       /\ h[a].tt = "function" => k[a].up = h[a].up
       /\ h[a].tt = "upval" => k[a].at = h[a].at
       /\ h[a].tt = "thread" => DOMAIN k[a].stack = DOMAIN h[a].stack

LEMMA WritesSound ==
  ASSUME NEW h, NEW k, NEW values, Sound(h), Writes(h, k, values),
         values \cap Addresses \subseteq Good(h)
  PROVE  /\ Sound(k) /\ Good(k) = Good(h) /\ White(k) = White(h) /\ Allocated(k) = Allocated(h)
         /\ \A a \in Addresses : IsOpen(k, a) <=> IsOpen(h, a)
<1>1. Good(k) = Good(h) /\ White(k) = White(h) /\ Allocated(k) = Allocated(h)
  BY DEF Writes, Good, White, Allocated
<1>2. \A a \in Addresses : IsOpen(k, a) <=> IsOpen(h, a)
  BY DEF Writes, IsOpen
<1>3. OpenAt(k)
  <2> SUFFICES ASSUME NEW u \in Addresses, IsOpen(k, u)
               PROVE  /\ k[u].col # "black"
                      /\ k[u].at[1] \in Addresses /\ k[k[u].at[1]].tt = "thread"
                      /\ k[u].at[2] \in DOMAIN k[k[u].at[1]].stack
    BY DEF OpenAt
  <2>1. /\ h[u].col # "black" /\ h[u].at[1] \in Addresses /\ h[h[u].at[1]].tt = "thread"
        /\ h[u].at[2] \in DOMAIN h[h[u].at[1]].stack
    BY <1>2 DEF Sound, OpenAt
  <2>2. k[u].at = h[u].at /\ k[u].col = h[u].col
    BY <1>2 DEF Writes, IsOpen
  <2>3. QED
    BY <2>1, <2>2 DEF Writes
<1>4. Closed(k)
  <2> SUFFICES ASSUME NEW a \in Good(k)
               PROVE  /\ Edges(k, a) \subseteq Good(k)
                      /\ k[a].tt = "function" => k[a].up \in Addresses /\ k[k[a].up].tt = "upval"
    BY DEF Closed
  <2>1. a \in Addresses /\ a \in Good(h) /\ k[a].tt = h[a].tt
    BY <1>1 DEF Good, Allocated, Writes
  <2>2. Edges(k, a) \subseteq Edges(h, a) \cup values
    BY <2>1 DEF Writes
  <2>3. Edges(h, a) \subseteq Good(h)
    BY <2>1 DEF Sound, Closed
  <2>4. Edges(k, a) \subseteq Addresses
    BY DEF Edges, Keyed, StrongRefs
  <2>5. k[a].tt = "function" => k[a].up \in Addresses /\ k[k[a].up].tt = "upval"
    BY <2>1 DEF Sound, Closed, Writes
  <2>6. QED
    BY <1>1, <2>2, <2>3, <2>4, <2>5
<1>5. QED
  BY <1>1, <1>2, <1>3, <1>4 DEF Sound, Writes

\* A write to an object that is found again when the marking ends.
LEMMA WritesTricolor ==
  ASSUME NEW h, NEW k, NEW values, NEW gr, NEW ag, NEW wk, Sound(h), Writes(h, k, values),
         values \cap Addresses \subseteq Good(h), Tricolor(h, gr, ag, wk),
         \A a \in Allocated(h) \ White(h) :
           a \notin gr \cup ag \cup wk /\ ~IsOpen(h, a) => Edges(k, a) \cap White(h) = {}
  PROVE  Tricolor(k, gr, ag, wk)
<1>1. /\ White(k) = White(h) /\ Allocated(k) = Allocated(h)
      /\ \A a \in Addresses : IsOpen(k, a) <=> IsOpen(h, a)
  BY WritesSound
<1>2. \A a \in Addresses :
        /\ k[a].tt = h[a].tt /\ (h[a].tt # "free" => k[a].col = h[a].col)
        /\ h[a].tt = "table" => k[a].mode = h[a].mode
  BY DEF Writes
<1>3. NoneDead(k)
  BY <1>1, <1>2 DEF Tricolor, NoneDead, Allocated
<1>4. gr \subseteq Traversable(k)
  BY <1>2 DEF Tricolor, Traversable
<1>5. Allocated(k) \subseteq Addresses
  BY DEF Allocated
<1>6. QED
  BY <1>1, <1>2, <1>3, <1>4, <1>5 DEF Tricolor

LEMMA WritesCalm ==
  ASSUME NEW h, NEW k, NEW values, Sound(h), Writes(h, k, values)
  PROVE  Calm(h, k)
BY DEF Writes, Calm, IsOpen

\* One object, or one slot of a stack, is written.
Puts(h, k, a, o) == k = [h EXCEPT ![a] = o]
PutsSlot(h, k, t, s, v) == k = [h EXCEPT ![t].stack[s] = v]

LEMMA SlotWrites ==
  ASSUME NEW h, NEW t \in Addresses, NEW s, NEW v, NEW k, PutsSlot(h, k, t, s, v),
         Sound(h), h[t].tt = "thread"
  PROVE  /\ Writes(h, k, {v})
         /\ \A a \in Addresses :
              /\ h[a].tt # "thread" /\ ~IsOpen(h, a) => Edges(k, a) = Edges(h, a)
              /\ h[a].tt = "thread" => k[a].resumed = h[a].resumed
<1> DEFINE o == [h[t] EXCEPT !.stack = [h[t].stack EXCEPT ![s] = v]]
<1>1. DOMAIN k = Addresses /\ k[t] = o /\ \A a \in Addresses \ {t} : k[a] = h[a]
  BY DEF Sound, Typed, PutsSlot
<1>2. WellFormed(h[t]) /\ "stack" \in DOMAIN h[t] /\ "tt" \in DOMAIN h[t]
      /\ "col" \in DOMAIN h[t] /\ "resumed" \in DOMAIN h[t]
  BY DEF Sound, Typed, WellFormed
<1>3. /\ DOMAIN o = DOMAIN h[t] /\ o.tt = "thread" /\ o.col = h[t].col
      /\ o.resumed = h[t].resumed /\ o.stack = [h[t].stack EXCEPT ![s] = v]
  BY <1>2
<1> HIDE DEF o
<1>4. Typed(k)
  BY <1>1, <1>2, <1>3 DEF Sound, Typed, WellFormed
<1> DEFINE st == h[t].stack
           st2 == [st EXCEPT ![s] = v]
<1>5. DOMAIN st2 = DOMAIN st /\ \A i \in DOMAIN st : st2[i] \in {st[i], v}
  OBVIOUS
<1>6. Range(st2) \subseteq Range(st) \cup {v}
  BY <1>5 DEF Range
<1>7. k[t].stack = st2 /\ k[t].tt = "thread" /\ k[t].resumed = h[t].resumed /\ k[t].col = h[t].col
  BY <1>1, <1>3
<1> HIDE DEF st2
<1>8. \A a \in Addresses : k[a].tt = h[a].tt /\ k[a].col = h[a].col /\ (a # t => k[a] = h[a])
  BY <1>1, <1>7
<1>9. \A a \in Addresses : IsOpen(k, a) <=> IsOpen(h, a)
  BY <1>7, <1>8 DEF IsOpen
<1>10. ASSUME NEW a \in Addresses, h[a].tt = "upval"
       PROVE  /\ UpValue(k, a) \in {UpValue(h, a), v}
              /\ ~IsOpen(h, a) => UpValue(k, a) = UpValue(h, a)
  <2>1. a # t /\ k[a] = h[a]
    BY <1>8, <1>10
  <2>2. CASE IsOpen(h, a)
    <3>1. h[a].at[1] \in Addresses /\ h[h[a].at[1]].tt = "thread"
          /\ h[a].at[2] \in DOMAIN h[h[a].at[1]].stack
      BY <2>2 DEF Sound, OpenAt
    <3>2. UpValue(k, a) = k[h[a].at[1]].stack[h[a].at[2]]
          /\ UpValue(h, a) = h[h[a].at[1]].stack[h[a].at[2]]
      BY <1>9, <2>1, <2>2 DEF UpValue
    <3>3. CASE h[a].at[1] = t
      BY <1>5, <1>7, <2>2, <3>1, <3>2, <3>3 DEF st2
    <3>4. CASE h[a].at[1] # t
      BY <1>8, <2>2, <3>1, <3>2, <3>4
    <3>5. QED
      BY <3>3, <3>4
  <2>3. CASE ~IsOpen(h, a)
    BY <1>9, <2>1, <2>3 DEF UpValue
  <2>4. QED
    BY <2>2, <2>3
<1>11. ASSUME NEW a \in Addresses
       PROVE  /\ Edges(k, a) \subseteq Edges(h, a) \cup {v}
              /\ h[a].tt # "thread" /\ ~IsOpen(h, a) => Edges(k, a) = Edges(h, a)
  <2>1. CASE h[a].tt = "thread"
    <3>1. Edges(h, a) = (Range(h[a].stack) \cup {h[a].resumed}) \cap Addresses
      BY <2>1, EdgesOf
    <3>2. Edges(k, a) = (Range(k[a].stack) \cup {k[a].resumed}) \cap Addresses
      BY <1>8, <2>1, EdgesOf
    <3>3. Range(k[a].stack) \subseteq Range(h[a].stack) \cup {v} /\ k[a].resumed = h[a].resumed
      BY <1>6, <1>7, <1>8
    <3>4. QED
      BY <2>1, <3>1, <3>2, <3>3
  <2>2. CASE h[a].tt = "upval"
    <3>1. Edges(h, a) = {UpValue(h, a)} \cap Addresses
      BY <2>2, EdgesOf
    <3>2. Edges(k, a) = {UpValue(k, a)} \cap Addresses
      BY <1>8, <2>2, EdgesOf
    <3>3. QED
      BY <1>10, <2>2, <3>1, <3>2
  <2>3. CASE h[a].tt \notin {"thread", "upval"}
    <3>1. k[a] = h[a]
      BY <1>8, <2>3
    <3>2. Edges(k, a) = Edges(h, a)
      BY <2>3, <3>1 DEF Edges, Keyed, StrongRefs
    <3>3. QED
      BY <3>2
  <2>4. QED
    BY <2>1, <2>2, <2>3
<1>12. Writes(h, k, {v})
  BY <1>4, <1>5, <1>7, <1>8, <1>11 DEF Writes
<1>13. QED
  BY <1>7, <1>8, <1>11, <1>12

\* A new object, or a dead string or upvalue that is one again.
LEMMA AllocSound ==
  ASSUME NEW h, NEW a \in Addresses, NEW o, NEW k, Puts(h, k, a, o), Sound(h),
         WellFormed(o), o.tt # "free", o.col = "white",
         \/ h[a].tt = "free"
         \/ h[a].col = "dead" /\ h[a].tt = o.tt /\ o.tt \in {"string", "upval"},
         Edges(k, a) \subseteq Good(h) \cup {a},
         o.tt = "upval" /\ o.at # <<>> =>
           /\ o.at[1] \in Addresses /\ h[o.at[1]].tt = "thread"
           /\ o.at[2] \in DOMAIN h[o.at[1]].stack,
         o.tt = "function" => o.up \in Addresses /\ h[o.up].tt = "upval"
  PROVE  /\ Sound(k) /\ Good(k) = Good(h) \cup {a} /\ White(k) = White(h) \cup {a}
         /\ Allocated(k) = Allocated(h) \cup {a} /\ a \notin Good(h)
         /\ \A b \in Addresses \ {a} : k[b] = h[b] /\ Edges(k, b) = Edges(h, b)
<1>1. DOMAIN k = Addresses /\ k[a] = o /\ \A b \in Addresses \ {a} : k[b] = h[b]
  BY DEF Sound, Typed, Puts
<1>2. Typed(k)
  BY <1>1 DEF Sound, Typed
<1>3. /\ Good(k) = Good(h) \cup {a} /\ White(k) = White(h) \cup {a}
      /\ Allocated(k) = Allocated(h) \cup {a} /\ a \notin Good(h)
  BY <1>1 DEF Good, White, Allocated
<1>4. ASSUME NEW b \in Addresses \ {a} PROVE Edges(k, b) = Edges(h, b)
  <2>1. k[b] = h[b] /\ b \in Addresses
    BY <1>1
  <2>2. h[b].tt = "upval" => UpValue(k, b) = UpValue(h, b)
    <3>1. CASE IsOpen(h, b)
      <4>1. h[b].at[1] \in Addresses /\ h[h[b].at[1]].tt = "thread"
        BY <2>1, <3>1 DEF Sound, OpenAt
      <4>2. k[h[b].at[1]] = h[h[b].at[1]]
        BY <1>1, <4>1
      <4>3. IsOpen(k, b)
        BY <2>1, <3>1 DEF IsOpen
      <4>4. QED
        BY <2>1, <3>1, <4>2, <4>3 DEF UpValue
    <3>2. CASE ~IsOpen(h, b)
      BY <2>1, <3>2 DEF UpValue, IsOpen
    <3>3. QED
      BY <3>1, <3>2
  <2>3. CASE h[b].tt = "upval"
    <3>1. Edges(h, b) = {UpValue(h, b)} \cap Addresses
      BY <2>3, EdgesOf
    <3>2. Edges(k, b) = {UpValue(k, b)} \cap Addresses
      BY <2>1, <2>3, EdgesOf
    <3>3. QED
      BY <2>2, <2>3, <3>1, <3>2
  <2>4. CASE h[b].tt # "upval"
    BY <2>1, <2>4 DEF Edges, Keyed, StrongRefs
  <2>5. QED
    BY <2>3, <2>4
<1>5. OpenAt(k)
  <2> SUFFICES ASSUME NEW u \in Addresses, IsOpen(k, u)
               PROVE  /\ k[u].col # "black"
                      /\ k[u].at[1] \in Addresses /\ k[k[u].at[1]].tt = "thread"
                      /\ k[u].at[2] \in DOMAIN k[k[u].at[1]].stack
    BY DEF OpenAt
  <2>1. /\ k[u].col # "black"
        /\ k[u].at[1] \in Addresses /\ h[k[u].at[1]].tt = "thread"
        /\ k[u].at[2] \in DOMAIN h[k[u].at[1]].stack
    <3>1. CASE u = a
      BY <1>1, <3>1 DEF IsOpen
    <3>2. CASE u # a
      BY <1>1, <3>2 DEF IsOpen, Sound, OpenAt
    <3>3. QED
      BY <3>1, <3>2
  <2>2. CASE k[u].at[1] = a
    BY <2>1, <2>2
  <2>3. CASE k[u].at[1] # a
    BY <1>1, <2>1, <2>3
  <2>4. QED
    BY <2>2, <2>3
<1>6. Closed(k)
  <2> SUFFICES ASSUME NEW b \in Good(k)
               PROVE  /\ Edges(k, b) \subseteq Good(k)
                      /\ k[b].tt = "function" => k[b].up \in Addresses /\ k[k[b].up].tt = "upval"
    BY DEF Closed
  <2>1. \A x \in Addresses : h[x].tt = "upval" => k[x].tt = "upval"
    BY <1>1
  <2>2. CASE b = a
    BY <1>1, <1>3, <2>1, <2>2
  <2>3. CASE b # a
    <3>1. b \in Addresses \ {a} /\ b \in Good(h) /\ k[b] = h[b]
      BY <1>1, <1>3, <2>3 DEF Good, Allocated
    <3>2. Edges(k, b) \subseteq Good(h)
      BY <1>4, <3>1 DEF Sound, Closed
    <3>3. k[b].tt = "function" => k[b].up \in Addresses /\ h[k[b].up].tt = "upval"
      BY <3>1 DEF Sound, Closed
    <3>4. QED
      BY <1>3, <2>1, <3>2, <3>3
  <2>4. QED
    BY <2>2, <2>3
<1>7. QED
  BY <1>1, <1>2, <1>3, <1>4, <1>5, <1>6 DEF Sound

\* What holds of the heap between the writes of a step of the script.
Fine(h) ==
  /\ Sound(h) /\ RunningInv(h, running)
  /\ gcstate = "propagate" => Tricolor(h, gray, grayagain, weak) /\ Main \notin White(h)
  /\ gcstate # "propagate" => Calm(heap, h)

LEMMA AllocFine ==
  ASSUME NEW h, NEW a \in Addresses, NEW o, NEW k, Puts(h, k, a, o), Fine(h),
         WellFormed(o), o.tt # "free", o.col = "white",
         \/ h[a].tt = "free"
         \/ h[a].col = "dead" /\ h[a].tt = o.tt /\ o.tt \in {"string", "upval"},
         Edges(k, a) \subseteq Good(h) \cup {a},
         o.tt = "upval" /\ o.at # <<>> =>
           /\ o.at[1] \in Addresses /\ h[o.at[1]].tt = "thread"
           /\ o.at[2] \in DOMAIN h[o.at[1]].stack,
         o.tt = "function" => o.up \in Addresses /\ h[o.up].tt = "upval",
         o.tt = "thread" => o.resumed = Nil
  PROVE  Fine(k) /\ a \in Good(k) /\ Good(h) \subseteq Good(k)
<1>0. Sound(h)
  BY DEF Fine
<1>1. /\ Sound(k) /\ Good(k) = Good(h) \cup {a} /\ White(k) = White(h) \cup {a}
      /\ Allocated(k) = Allocated(h) \cup {a} /\ a \notin Good(h)
      /\ \A b \in Addresses \ {a} : k[b] = h[b] /\ Edges(k, b) = Edges(h, b)
  BY <1>0, AllocSound
<1>2. k[a] = o
  BY <1>0 DEF Sound, Typed, Puts
<1>3. RunningInv(k, running)
  <2>1. \A i \in 1 .. Len(running) :
          /\ running[i] \in Good(k) /\ k[running[i]].tt = "thread"
          /\ k[running[i]].resumed = h[running[i]].resumed /\ running[i] # a
    <3> TAKE i \in 1 .. Len(running)
    <3>1. running[i] \in Good(h) /\ h[running[i]].tt = "thread"
      BY DEF Fine, RunningInv
    <3>2. running[i] \in Addresses \ {a}
      BY <1>1, <3>1 DEF Good, Allocated
    <3>3. QED
      BY <1>1, <3>1, <3>2
  <2>2. ASSUME NEW t \in Addresses, k[t].tt = "thread"
        PROVE  \/ h[t].tt = "thread" /\ k[t].resumed = h[t].resumed
               \/ k[t].resumed = Nil /\ \A i \in 1 .. Len(running) : t # running[i]
    <3>1. CASE t = a
      BY <1>2, <2>1, <2>2, <3>1
    <3>2. CASE t # a
      BY <1>1, <2>2, <3>2
    <3>3. QED
      BY <3>1, <3>2
  <2>3. QED
    <3>1. RunningInv(h, running)
      BY DEF Fine
    <3>2. QED
      BY <2>1, <2>2, <3>1, RunningKept
<1>4. ASSUME gcstate = "propagate"
      PROVE  Tricolor(k, gray, grayagain, weak) /\ Main \notin White(k)
  <2>1. Tricolor(h, gray, grayagain, weak) /\ Main \notin White(h)
    BY <1>4 DEF Fine
  <2>2. h[a].tt = "free"
    BY <2>1 DEF Tricolor, NoneDead, Allocated
  <2>3. Main # a
    <3>1. Main \in Good(h)
      BY DEF Fine, RunningInv
    <3>2. QED
      BY <1>1, <3>1
  <2>4. NoneDead(k)
    BY <1>1, <1>2, <2>1 DEF Tricolor, NoneDead, Allocated
  <2>5. gray \subseteq Traversable(k)
    BY <1>1, <2>1, <2>2 DEF Tricolor, Traversable
  <2>6. ASSUME NEW b \in Allocated(k) \ White(k)
        PROVE  /\ k[b].tt = "thread" => b \in gray \cup grayagain
               /\ b \notin gray \cup grayagain \cup weak /\ ~IsOpen(k, b) =>
                    /\ Edges(k, b) \cap White(k) = {}
                    /\ k[b].tt \in {"table", "upval"} => k[b].col = "black"
                    /\ k[b].tt = "table" => k[b].mode = {}
    <3>1. b \in Addresses \ {a} /\ b \in Allocated(h) \ White(h)
      BY <1>1 DEF Allocated
    <3>2. k[b] = h[b] /\ Edges(k, b) = Edges(h, b)
      BY <1>1, <3>1
    <3>3. b \in Good(h)
      BY <2>1, <3>1 DEF Tricolor, NoneDead, Good
    <3>4. a \notin Edges(h, b)
      BY <1>0, <1>1, <3>3 DEF Sound, Closed
    <3>5. IsOpen(k, b) <=> IsOpen(h, b)
      BY <3>2 DEF IsOpen
    <3>6. QED
      BY <1>1, <2>1, <3>1, <3>2, <3>4, <3>5 DEF Tricolor
  <2>7. QED
    BY <1>1, <2>1, <2>3, <2>4, <2>5, <2>6 DEF Tricolor
<1>5. ASSUME gcstate # "propagate" PROVE Calm(heap, k)
  <2>1. Calm(h, k)
    BY <1>1, <1>2 DEF Calm, IsOpen
  <2>2. QED
    BY <1>5, <2>1, CalmTrans DEF Fine
<1>6. QED
  BY <1>1, <1>3, <1>4, <1>5 DEF Fine

\* A value is put in the stack of a thread that is marked, if at all, in a list.
LEMMA SlotFine ==
  ASSUME NEW h, NEW t \in Addresses, NEW s, NEW v, NEW k, PutsSlot(h, k, t, s, v),
         Fine(h), h[t].tt = "thread", v \in Addresses => v \in Good(h)
  PROVE  Fine(k) /\ Good(k) = Good(h)
<1>0. Sound(h)
  BY DEF Fine
<1>1. /\ Writes(h, k, {v})
      /\ \A a \in Addresses : /\ h[a].tt # "thread" /\ ~IsOpen(h, a) => Edges(k, a) = Edges(h, a)
                              /\ h[a].tt = "thread" => k[a].resumed = h[a].resumed
  BY <1>0, SlotWrites
<1>2. {v} \cap Addresses \subseteq Good(h)
  OBVIOUS
<1>3. Sound(k) /\ Good(k) = Good(h) /\ White(k) = White(h)
  BY <1>0, <1>1, <1>2, WritesSound
<1>4. RunningInv(k, running)
  <2>1. \A a \in Addresses : k[a].tt = h[a].tt
    BY <1>1 DEF Writes
  <2>2. \A i \in 1 .. Len(running) :
          /\ running[i] \in Good(k) /\ k[running[i]].tt = "thread"
          /\ k[running[i]].resumed = h[running[i]].resumed
    <3> TAKE i \in 1 .. Len(running)
    <3>1. running[i] \in Good(h) /\ h[running[i]].tt = "thread"
      BY DEF Fine, RunningInv
    <3>2. running[i] \in Addresses
      BY <3>1 DEF Good, Allocated
    <3>3. QED
      BY <1>1, <1>3, <2>1, <3>1, <3>2
  <2>3. \A x \in Addresses : k[x].tt = "thread" =>
          h[x].tt = "thread" /\ k[x].resumed = h[x].resumed
    BY <1>1, <2>1
  <2>4. QED
    <3>1. RunningInv(h, running)
      BY DEF Fine
    <3>2. QED
      BY <2>2, <2>3, <3>1, RunningKept
<1>5. ASSUME gcstate = "propagate"
      PROVE  Tricolor(k, gray, grayagain, weak) /\ Main \notin White(k)
  <2>1. Tricolor(h, gray, grayagain, weak) /\ Main \notin White(h)
    BY <1>5 DEF Fine
  <2>2. ASSUME NEW a \in Allocated(h) \ White(h),
               a \notin gray \cup grayagain \cup weak, ~IsOpen(h, a)
        PROVE  Edges(k, a) \cap White(h) = {}
    <3>1. a \in Addresses /\ h[a].tt # "thread" /\ Edges(h, a) \cap White(h) = {}
      BY <2>1, <2>2 DEF Tricolor, Allocated
    <3>2. QED
      BY <1>1, <2>2, <3>1
  <2>3. Tricolor(k, gray, grayagain, weak)
    BY <1>0, <1>1, <1>2, <2>1, <2>2, WritesTricolor
  <2>4. QED
    BY <1>3, <2>1, <2>3
<1>6. ASSUME gcstate # "propagate" PROVE Calm(heap, k)
  BY <1>0, <1>1, <1>6, WritesCalm, CalmTrans DEF Fine
<1>7. QED
  BY <1>3, <1>4, <1>5, <1>6 DEF Fine

-----------------------------------------------------------------------------
\* The steps of the script.
LEMMA FineNow ==
  ASSUME LiveInv, mode = "script" PROVE Fine(heap)
BY CalmSelf DEF LiveInv, Fine, Coloured, Collects

LEMMA FineStep ==
  ASSUME LiveInv, HeapOnly, Fine(heap') PROVE LiveInv'
<1>1. /\ mode = "script" /\ mode' = mode /\ gcstate' = gcstate /\ unswept' = unswept
      /\ tmudata' = tmudata /\ gray' = gray /\ grayagain' = grayagain /\ weak' = weak
      /\ running' = running
  BY DEF HeapOnly, Scripted
<1>2. Sound(heap') /\ RunningInv(heap', running')
      /\ (gcstate # "propagate" => Calm(heap, heap'))
      /\ (gcstate = "propagate" =>
           Tricolor(heap', gray', grayagain', weak') /\ Main \notin White(heap'))
  BY <1>1 DEF Fine
<1>3. QED
  BY <1>1, <1>2, CalmStep

LEMMA RunningThread ==
  ASSUME NEW h, RunningInv(h, running)
  PROVE  L \in Addresses /\ L \in Good(h) /\ h[L].tt = "thread"
<1>1. Len(running) \in 1 .. Len(running) /\ L = running[Len(running)]
  BY DEF RunningInv, L, Last
<1>2. L \in Good(h) /\ h[L].tt = "thread"
  BY <1>1 DEF RunningInv
<1>3. QED
  BY <1>2 DEF Good, Allocated

LEMMA SlotRunning ==
  ASSUME NEW h, NEW s, NEW v, Fine(h), v \in Addresses => v \in Good(h)
  PROVE  Fine(SetSlot(h, s, v))
<1>1. L \in Addresses /\ h[L].tt = "thread"
  BY RunningThread DEF Fine
<1>2. PutsSlot(h, SetSlot(h, s, v), L, s, v)
  BY DEF PutsSlot, SetSlot
<1>3. QED
  BY <1>1, <1>2, SlotFine

\* What the script has in its stack, and what that refers to.
LEMMA InReach ==
  ASSUME NEW h, Sound(h), RunningInv(h, running)
  PROVE  /\ \A a \in Range(h[L].stack) \cap Addresses : a \in Good(h)
         /\ \A t \in Good(h) : Keyed(h[t]) => {h[t].key, h[t].val} \cap Addresses \subseteq Good(h)
         /\ \A f \in Good(h) : h[f].tt = "function" =>
              h[f].up \in Good(h) /\ h[h[f].up].tt = "upval"
         /\ \A u \in Good(h) : h[u].tt = "upval" => {UpValue(h, u)} \cap Addresses \subseteq Good(h)
<1>1. \A a \in Good(h) : Edges(h, a) \subseteq Good(h)
  BY DEF Sound, Closed
<1>2. \A a \in Range(h[L].stack) \cap Addresses : a \in Good(h)
  <2>1. L \in Good(h) /\ h[L].tt = "thread"
    BY RunningThread
  <2>2. Edges(h, L) = (Range(h[L].stack) \cup {h[L].resumed}) \cap Addresses
    BY <2>1, EdgesOf
  <2>3. QED
    BY <1>1, <2>1, <2>2
<1>3. \A t \in Good(h) : Keyed(h[t]) => {h[t].key, h[t].val} \cap Addresses \subseteq Good(h)
  BY <1>1 DEF Edges
<1>4. ASSUME NEW f \in Good(h), h[f].tt = "function"
      PROVE  h[f].up \in Good(h) /\ h[h[f].up].tt = "upval"
  <2>1. h[f].up \in Addresses /\ h[h[f].up].tt = "upval"
    BY <1>4 DEF Sound, Closed
  <2>2. Edges(h, f) = {h[f].up} \cap Addresses
    BY <1>4, EdgesOf
  <2>3. QED
    BY <1>1, <2>1, <2>2
<1>5. ASSUME NEW u \in Good(h), h[u].tt = "upval"
      PROVE  {UpValue(h, u)} \cap Addresses \subseteq Good(h)
  <2>1. Edges(h, u) = {UpValue(h, u)} \cap Addresses
    BY <1>5, EdgesOf
  <2>2. QED
    BY <1>1, <2>1
<1>6. QED
  BY <1>2, <1>3, <1>4, <1>5

LEMMA NewWellFormed ==
  ASSUME NEW kind
  PROVE  LET o == NewObject(kind)
         IN /\ WellFormed(o) /\ o.col = "white"
            /\ o.tt \in {"table", "userdata", "thread", "string"}
            /\ o.tt = "table" => o.key = Nil /\ o.val = Nil
            /\ o.tt = "thread" => o.resumed = Nil /\ Range(o.stack) = {Nil}
<1>1. CASE kind \in {"strong", "k", "v", "kv"}
  BY <1>1 DEF NewObject, WellFormed
<1>2. CASE kind \in {"userdata", "gcuserdata"}
  BY <1>2 DEF NewObject, WellFormed
<1>3. CASE kind = "thread"
  <2>1. Range(<<Nil>>) = {Nil}
    BY DEF Range
  <2>2. QED
    BY <1>3, <2>1 DEF NewObject, WellFormed
<1>4. CASE kind \notin {"strong", "k", "v", "kv", "userdata", "gcuserdata", "thread"}
  BY <1>4 DEF NewObject, WellFormed
<1>5. QED
  BY <1>1, <1>2, <1>3, <1>4

LEMMA NewFine ==
  ASSUME NEW h, NEW a \in Addresses, NEW kind, NEW k, Puts(h, k, a, NewObject(kind)), Fine(h),
         h[a].tt = "free" \/ (h[a].col = "dead" /\ h[a].tt = "string" /\ NewObject(kind).tt = "string")
  PROVE  Fine(k) /\ a \in Good(k)
<1> DEFINE o == NewObject(kind)
<1>1. /\ WellFormed(o) /\ o.col = "white"
      /\ o.tt \in {"table", "userdata", "thread", "string"}
      /\ o.tt = "table" => o.key = Nil /\ o.val = Nil
      /\ o.tt = "thread" => o.resumed = Nil /\ Range(o.stack) = {Nil}
  BY NewWellFormed
<1>2. Puts(h, k, a, o)
  OBVIOUS
<1> HIDE DEF o
<1>3. k[a] = o
  BY <1>2 DEF Puts, Fine, Sound, Typed
<1>4. Edges(k, a) = {}
  <2>1. CASE o.tt = "table"
    BY <1>1, <1>3, <2>1, EdgesOf, ValuesAssumption
  <2>2. CASE o.tt = "thread"
    <3>1. Edges(k, a) = (Range(k[a].stack) \cup {k[a].resumed}) \cap Addresses
      BY <1>3, <2>2, EdgesOf
    <3>2. QED
      BY <1>1, <1>3, <2>2, <3>1, ValuesAssumption
  <2>3. CASE o.tt \in {"userdata", "string"}
    BY <1>3, <2>3, EdgesOf
  <2>4. QED
    BY <1>1, <2>1, <2>2, <2>3
<1>5. h[a].tt = "free" \/ (h[a].col = "dead" /\ h[a].tt = o.tt /\ o.tt \in {"string", "upval"})
  BY DEF o
<1>6. QED
  BY <1>1, <1>2, <1>4, <1>5, AllocFine

LEMMA LiveCreate ==
  ASSUME FinalInv, LiveInv, NEW kind, NEW s, Create(kind, s)
  PROVE  LiveInv'
<1> DEFINE a == malloc(heap)
           k == [heap EXCEPT ![a] = NewObject(kind)]
<1>1. a \in Addresses /\ heap[a].tt = "free"
  BY MallocFree DEF Create, FreeAddresses
<1>2. heap' = SetSlot(k, s, a) /\ HeapOnly
  BY DEF Create
<1> HIDE DEF a
<1>3. Puts(heap, k, a, NewObject(kind)) /\ Fine(heap)
  BY <1>2, FineNow DEF Puts, HeapOnly, Scripted
<1> HIDE DEF k
<1>4. Fine(k) /\ a \in Good(k)
  BY <1>1, <1>3, NewFine
<1>5. QED
  BY <1>2, <1>4, SlotRunning, FineStep

LEMMA LiveString ==
  ASSUME FinalInv, LiveInv, NEW s, NewString(s)
  PROVE  LiveInv'
<1> DEFINE known == Strings(heap)
           a == IF known = {} THEN malloc(heap) ELSE CHOOSE x \in known : TRUE
           o == IF known # {} /\ ~IsDead(a) THEN heap[a] ELSE NewObject("string")
           k == [heap EXCEPT ![a] = o]
<1>1. heap' = SetSlot(k, s, a) /\ (known # {} \/ FreeAddresses # {}) /\ HeapOnly
  BY DEF NewString
<1>2. \A x \in known : x \in Addresses /\ heap[x].tt = "string"
  BY DEF Strings, Allocated
<1> HIDE DEF known
<1>3. Fine(heap)
  BY <1>1, FineNow DEF HeapOnly, Scripted
<1>4. CASE known = {}
  <2>1. a \in Addresses /\ heap[a].tt = "free" /\ o = NewObject("string")
    BY <1>1, <1>4, MallocFree DEF FreeAddresses
  <2> HIDE DEF a, o
  <2>2. Puts(heap, k, a, NewObject("string"))
    BY <2>1 DEF Puts
  <2> HIDE DEF k
  <2>3. Fine(k) /\ a \in Good(k)
    BY <1>3, <2>1, <2>2, NewFine
  <2>4. QED
    BY <1>1, <2>3, SlotRunning, FineStep
<1>5. CASE known # {}
  <2>1. a \in known
    BY <1>5
  <2>2. IF IsDead(a) THEN o = NewObject("string") ELSE o = heap[a]
    BY <1>5
  <2> HIDE DEF a, o
  <2>3. a \in Addresses /\ heap[a].tt = "string"
    BY <1>2, <2>1
  <2>4. CASE IsDead(a)
    <3>1. Puts(heap, k, a, NewObject("string"))
      BY <2>2, <2>4 DEF Puts
    <3>2. NewObject("string").tt = "string"
      BY DEF NewObject
    <3> HIDE DEF k
    <3>3. Fine(k) /\ a \in Good(k)
      BY <1>3, <2>3, <2>4, <3>1, <3>2, NewFine DEF IsDead
    <3>4. QED
      BY <1>1, <3>3, SlotRunning, FineStep
  <2>5. CASE ~IsDead(a)
    <3>1. SetSlot(k, s, a) = SetSlot(heap, s, a)
      <4>1. DOMAIN k = DOMAIN heap /\ \A x \in DOMAIN heap : k[x] = heap[x]
        BY <2>2, <2>5
      <4>2. L \in DOMAIN heap
        BY <1>3, RunningThread DEF Fine, Sound, Typed
      <4> HIDE DEF k
      <4>3. QED
        BY <4>1, <4>2 DEF SetSlot
    <3>2. a \in Good(heap)
      BY <2>3, <2>5 DEF Good, Allocated, IsDead
    <3> HIDE DEF k
    <3>3. QED
      BY <1>1, <1>3, <3>1, <3>2, SlotRunning, FineStep
  <2>6. QED
    BY <2>4, <2>5
<1>6. QED
  BY <1>4, <1>5

LEMMA LiveLoad ==
  ASSUME LiveInv, NEW s, Load(s)
  PROVE  LiveInv'
<1> DEFINE tables == {t \in InSlots({"table"}) : heap[t].val # Nil}
           gotten == {UpValue(heap, heap[f].up) : f \in InSlots({"function"})} \cup
                     UNION {{heap[t].val, heap[t].key} : t \in tables}
<1>1. HeapOnly
  BY DEF Load
<1>2. PICK v \in {Nil} \cup Range(heap[L].stack) \cup gotten : heap' = SetSlot(heap, s, v)
  BY DEF Load
<1>3. Fine(heap)
  BY <1>1, FineNow DEF HeapOnly, Scripted
<1>4. Sound(heap) /\ RunningInv(heap, running)
  BY <1>3 DEF Fine
<1>5. ASSUME v \in Addresses PROVE v \in Good(heap)
  <2>1. CASE v \in Range(heap[L].stack)
    BY <1>4, <1>5, <2>1, InReach
  <2>2. ASSUME NEW t \in tables, v \in {heap[t].val, heap[t].key} PROVE v \in Good(heap)
    <3>1. t \in Range(heap[L].stack) \cap Addresses /\ Keyed(heap[t])
      BY DEF InSlots, Keyed
    <3>2. t \in Good(heap)
      BY <1>4, <3>1, InReach
    <3>3. {heap[t].key, heap[t].val} \cap Addresses \subseteq Good(heap)
      BY <1>4, <3>1, <3>2, InReach
    <3>4. QED
      BY <1>5, <2>2, <3>3
  <2>3. ASSUME NEW f \in InSlots({"function"}), v = UpValue(heap, heap[f].up)
        PROVE  v \in Good(heap)
    <3>1. f \in Range(heap[L].stack) \cap Addresses /\ heap[f].tt = "function"
      BY DEF InSlots
    <3>2. f \in Good(heap)
      BY <1>4, <3>1, InReach
    <3>3. heap[f].up \in Good(heap) /\ heap[heap[f].up].tt = "upval"
      BY <1>4, <3>1, <3>2, InReach
    <3>4. {UpValue(heap, heap[f].up)} \cap Addresses \subseteq Good(heap)
      BY <1>4, <3>3, InReach
    <3>5. QED
      BY <1>5, <2>3, <3>4
  <2>4. QED
    BY <1>2, <1>5, <2>1, <2>2, <2>3, ValuesAssumption
<1>6. QED
  BY <1>1, <1>2, <1>3, <1>5, SlotRunning, FineStep

-----------------------------------------------------------------------------
\* Functions and their upvalues: sharing an open upvalue, or creating one.

\* The open upvalue that a closure is to share, which may be revived, or a new one.
LEMMA UpvalueFine ==
  ASSUME NEW u \in Addresses, NEW c \in Slots, NEW k, Fine(heap),
         Puts(heap, k, u, Upval(<<L, c>>)),
         heap[u].tt = "free" \/ (heap[u].tt = "upval" /\ IsDead(u))
  PROVE  Fine(k) /\ u \in Good(k) /\ k[u].tt = "upval"
<1> DEFINE o == Upval(<<L, c>>)
<1>1. /\ WellFormed(o) /\ o.tt = "upval" /\ o.col = "white" /\ o.at = <<L, c>>
  BY DEF Upval, WellFormed
<1>2. L \in Addresses /\ L \in Good(heap) /\ heap[L].tt = "thread"
  BY RunningThread DEF Fine
<1>3. L # u
  BY <1>2 DEF Good, IsDead
<1>4. Sound(heap) /\ RunningInv(heap, running) /\ DOMAIN heap = Addresses
  BY DEF Fine, Sound, Typed
<1>5. k[u] = o /\ k[L] = heap[L]
  BY <1>2, <1>3, <1>4 DEF Puts
<1> HIDE DEF o
<1>6. UpValue(k, u) = heap[L].stack[c]
  BY <1>1, <1>5 DEF UpValue, IsOpen
<1>7. Edges(k, u) = {heap[L].stack[c]} \cap Addresses
  <2>1. Edges(k, u) = {UpValue(k, u)} \cap Addresses
    BY <1>1, <1>5, EdgesOf
  <2>2. QED
    BY <1>6, <2>1
<1>8. Edges(k, u) \subseteq Good(heap) \cup {u}
  <2>1. heap[L].stack[c] \in Range(heap[L].stack)
    BY DEF Slots, Range
  <2>2. QED
    BY <1>4, <1>7, <2>1, InReach
<1>9. /\ o.at[1] \in Addresses /\ heap[o.at[1]].tt = "thread"
      /\ o.at[2] \in DOMAIN heap[o.at[1]].stack
  BY <1>1, <1>2 DEF Slots
<1>10. Puts(heap, k, u, o)
  BY DEF o
<1>11. Fine(k) /\ u \in Good(k)
  <2>1. o.tt # "free" /\ o.tt # "function" /\ o.tt # "thread"
    BY <1>1
  <2>2. heap[u].tt = "free" \/ (heap[u].col = "dead" /\ heap[u].tt = o.tt /\ o.tt \in {"string", "upval"})
    BY <1>1 DEF IsDead
  <2>3. QED
    BY <1>1, <1>8, <1>9, <1>10, <2>1, <2>2, AllocFine
<1>12. QED
  BY <1>1, <1>5, <1>11

LEMMA LiveClosure ==
  ASSUME FinalInv, LiveInv, NEW s \in Slots, NEW c \in Slots, NewClosure(s, c)
  PROVE  LiveInv'
<1> DEFINE a == malloc(heap)
           h == [heap EXCEPT ![a] = [tt |-> "function", col |-> "white", up |-> Nil]]
           found == {u \in OpenUpvals(h, L) : h[u].at[2] = c}
           u == IF found # {} THEN CHOOSE x \in found : TRUE ELSE malloc(h)
           o == IF found # {} /\ ~IsDead(u) THEN h[u] ELSE Upval(<<L, c>>)
           k == [h EXCEPT ![u] = o]
           m == [k EXCEPT ![a].up = u]
           f == [tt |-> "function", col |-> "white", up |-> u]
<1>1. /\ a \in FreeAddresses /\ heap' = SetSlot(m, s, a) /\ HeapOnly
      /\ FreeAddresses # {a} \/ \E x \in OpenUpvals(heap, L) : heap[x].at[2] = c
  <2> DEFINE r == luaF_findupval(h, c)
  <2>1. r = [heap |-> k, up |-> u]
    BY DEF luaF_findupval
  <2>2. /\ a \in FreeAddresses /\ heap' = SetSlot([r.heap EXCEPT ![a].up = r.up], s, a) /\ HeapOnly
        /\ FreeAddresses # {a} \/ \E x \in OpenUpvals(heap, L) : heap[x].at[2] = c
    BY DEF NewClosure
  <2> HIDE DEF r, k, u, h, a
  <2>3. QED
    BY <2>1, <2>2
<1>2. Fine(heap) /\ DOMAIN heap = Addresses
  BY <1>1, FineNow DEF HeapOnly, Scripted, Fine, Sound, Typed
<1>3. a \in script.memory /\ a \in Addresses /\ heap[a].tt = "free"
  BY <1>1, MallocFree DEF FreeAddresses
<1> HIDE DEF a
<1>4. /\ \A x \in Addresses \ {a} : h[x] = heap[x]
      /\ h[a] = [tt |-> "function", col |-> "white", up |-> Nil] /\ DOMAIN h = Addresses
  BY <1>2, <1>3
<1> HIDE DEF h
<1>5. ASSUME found = {}
      PROVE  u \in Addresses /\ u # a /\ heap[u].tt = "free" /\ o = Upval(<<L, c>>)
  <2>1. FreeAddresses # {a}
    <3>1. ASSUME NEW x \in OpenUpvals(heap, L), heap[x].at[2] = c PROVE FALSE
      <4>1. x \in Addresses /\ heap[x].tt = "upval" /\ x # a
        BY <1>3, OpenAreUpvals
      <4>2. h[x] = heap[x]
        BY <1>4, <4>1
      <4>3. x \in OpenUpvals(h, L)
        BY <3>1, <4>1, <4>2 DEF OpenUpvals, IsOpen
      <4>4. QED
        BY <1>5, <3>1, <4>2, <4>3
    <3>2. QED
      BY <1>1, <3>1
  <2>2. PICK x \in FreeAddresses : x # a
    BY <1>1, <2>1
  <2>3. x \in script.memory /\ x \notin Allocated(h)
    BY <1>4, <2>2 DEF FreeAddresses, Allocated
  <2>4. u \in Addresses /\ h[u].tt = "free"
    BY <1>5, <2>3, MallocFree
  <2>5. o = Upval(<<L, c>>)
    BY <1>5
  <2> HIDE DEF u, o
  <2>6. QED
    BY <1>4, <2>4, <2>5
<1>6. ASSUME found # {}
      PROVE  /\ u \in Addresses /\ u # a /\ heap[u].tt = "upval"
             /\ IsDead(u) => o = Upval(<<L, c>>)
             /\ ~IsDead(u) => o = heap[u]
  <2>1. u \in found
    BY <1>6
  <2>2. IF IsDead(u) THEN o = Upval(<<L, c>>) ELSE o = h[u]
    BY <1>6
  <2> HIDE DEF u, o
  <2>3. u \in Addresses /\ h[u].tt = "upval"
    BY <2>1, OpenAreUpvals
  <2>4. QED
    BY <1>4, <2>2, <2>3
<1> HIDE DEF found, u, o
<1>7. u \in Addresses /\ u # a
  BY <1>5, <1>6
<1>8. \E q : /\ Fine(q) /\ u \in Good(q) /\ q[u].tt = "upval"
             /\ DOMAIN q = Addresses /\ q[u] = o /\ \A x \in Addresses \ {u} : q[x] = heap[x]
  <2>1. CASE o = Upval(<<L, c>>) /\ (heap[u].tt = "free" \/ (heap[u].tt = "upval" /\ IsDead(u)))
    <3> DEFINE q == [heap EXCEPT ![u] = o]
    <3>1. Puts(heap, q, u, Upval(<<L, c>>))
      BY <2>1 DEF Puts
    <3>2. DOMAIN q = Addresses /\ q[u] = o /\ \A x \in Addresses \ {u} : q[x] = heap[x]
      BY <1>2, <1>7
    <3> HIDE DEF q
    <3>3. Fine(q) /\ u \in Good(q) /\ q[u].tt = "upval"
      BY <1>2, <1>7, <2>1, <3>1, UpvalueFine
    <3>4. QED
      BY <3>2, <3>3
  <2>2. CASE o = heap[u] /\ heap[u].tt = "upval" /\ ~IsDead(u)
    <3>1. u \in Good(heap)
      BY <1>7, <2>2 DEF Good, Allocated, IsDead
    <3>2. QED
      BY <1>2, <2>2, <3>1
  <2>3. QED
    BY <1>5, <1>6, <2>1, <2>2
<1> PICK p : /\ Fine(p) /\ u \in Good(p) /\ p[u].tt = "upval"
             /\ DOMAIN p = Addresses /\ p[u] = o /\ \A x \in Addresses \ {u} : p[x] = heap[x]
  BY <1>8
<1>9. Puts(p, m, a, f)
  <2>1. DOMAIN p = Addresses /\ p[u] = o /\ \A x \in Addresses \ {u} : p[x] = heap[x]
    OBVIOUS
  <2>2. DOMAIN k = Addresses /\ k[u] = o /\ \A x \in Addresses \ {u} : k[x] = h[x]
    BY <1>4, <1>7
  <2> HIDE DEF k
  <2>3. k[a] = [tt |-> "function", col |-> "white", up |-> Nil]
    BY <1>3, <1>4, <1>7, <2>2
  <2>4. [k[a] EXCEPT !.up = u] = f
    BY <2>3
  <2>5. DOMAIN m = Addresses /\ m[a] = [k[a] EXCEPT !.up = u]
        /\ \A x \in Addresses \ {a} : m[x] = k[x]
    BY <1>3, <2>2
  <2> HIDE DEF m, f
  <2> DEFINE q == [p EXCEPT ![a] = f]
  <2>6. DOMAIN q = Addresses /\ q[a] = f /\ \A x \in Addresses \ {a} : q[x] = p[x]
    BY <1>3, <2>1
  <2>7. \A x \in Addresses \ {a} : m[x] = p[x]
    BY <1>4, <2>1, <2>2, <2>5
  <2> HIDE DEF q
  <2>8. \A x \in Addresses : m[x] = q[x]
    BY <2>4, <2>5, <2>6, <2>7
  <2>9. m = q
    <3>1. m = [x \in Addresses |-> m[x]] /\ q = [x \in Addresses |-> q[x]]
      <4>1. m = [x \in DOMAIN m |-> m[x]]
        BY DEF m
      <4>2. q = [x \in DOMAIN q |-> q[x]]
        BY DEF q
      <4>3. QED
        BY <2>5, <2>6, <4>1, <4>2
    <3>2. QED
      BY <2>8, <3>1
  <2>10. QED
    BY <2>9 DEF Puts, q
<1>10. /\ WellFormed(f) /\ f.tt = "function" /\ f.col = "white" /\ f.up = u
  BY DEF WellFormed
<1>11. p[a].tt = "free"
  BY <1>3, <1>7
<1>12. m[a] = f
  <2> HIDE DEF m, f
  <2>1. QED
    BY <1>3, <1>9 DEF Puts
<1> HIDE DEF m, f
<1>13. Edges(m, a) \subseteq Good(p) \cup {a}
  <2>1. Edges(m, a) = {m[a].up} \cap Addresses
    BY <1>10, <1>12, EdgesOf
  <2>2. QED
    BY <1>8, <1>10, <1>12, <2>1
<1>14. Fine(m) /\ a \in Good(m)
  <2>1. f.tt # "free" /\ f.tt # "upval" /\ f.tt # "thread" /\ f.up \in Addresses /\ p[f.up].tt = "upval"
    BY <1>7, <1>8, <1>10
  <2>2. QED
    BY <1>3, <1>8, <1>9, <1>10, <1>11, <1>13, <2>1, AllocFine
<1>15. QED
  BY <1>1, <1>14, SlotRunning, FineStep

-----------------------------------------------------------------------------
\* What the script's stores keep: the running threads, and what is kept in a heap.

LEMMA RetainsRunning ==
  ASSUME NEW h, NEW k, NEW run, Sound(h), Retains(h, k), RunningInv(h, run)
  PROVE  RunningInv(k, run)
<1>1. Good(k) = Good(h)
  BY RetainsSound
<1>2. \A i \in 1 .. Len(run) : /\ run[i] \in Good(k) /\ k[run[i]].tt = "thread"
                               /\ k[run[i]].resumed = h[run[i]].resumed
  <2> TAKE i \in 1 .. Len(run)
  <2>1. run[i] \in Good(k) /\ h[run[i]].tt = "thread"
    BY <1>1 DEF RunningInv
  <2>2. run[i] \in Addresses /\ k[run[i]].tt # "free"
    BY <2>1 DEF Good, Allocated
  <2>3. QED
    BY <2>1, <2>2 DEF Retains
<1>3. \A t \in Addresses : k[t].tt = "thread" => h[t].tt = "thread" /\ k[t].resumed = h[t].resumed
  BY DEF Retains
<1>4. QED
  BY <1>2, <1>3, RunningKept

LEMMA WritesRunning ==
  ASSUME NEW h, NEW k, NEW values, Sound(h), Writes(h, k, values),
         values \cap Addresses \subseteq Good(h), RunningInv(h, running),
         \A a \in Addresses : h[a].tt = "thread" => k[a].resumed = h[a].resumed
  PROVE  RunningInv(k, running)
<1>1. Good(k) = Good(h)
  BY WritesSound
<1>2. \A i \in 1 .. Len(running) :
        /\ running[i] \in Good(k) /\ k[running[i]].tt = "thread"
        /\ k[running[i]].resumed = h[running[i]].resumed
  <2> TAKE i \in 1 .. Len(running)
  <2>1. running[i] \in Good(k) /\ h[running[i]].tt = "thread"
    BY <1>1 DEF RunningInv
  <2>2. running[i] \in Addresses
    BY <2>1 DEF Good, Allocated
  <2>3. QED
    BY <2>1, <2>2 DEF Writes
<1>3. \A t \in Addresses : k[t].tt = "thread" => h[t].tt = "thread" /\ k[t].resumed = h[t].resumed
  BY DEF Writes
<1>4. QED
  BY <1>2, <1>3, RunningKept

\* What an object refers to depends on it, and if it is an open upvalue on a thread.
LEMMA OtherEdges ==
  ASSUME NEW h, NEW k, NEW t \in Addresses, OpenAt(h), h[t].tt # "thread",
         \A b \in Addresses \ {t} : k[b] = h[b]
  PROVE  \A b \in Addresses \ {t} : Edges(k, b) = Edges(h, b)
<1> TAKE b \in Addresses \ {t}
<1>1. k[b] = h[b] /\ b \in Addresses
  OBVIOUS
<1>2. CASE h[b].tt = "upval"
  <2>1. UpValue(k, b) = UpValue(h, b)
    <3>1. CASE IsOpen(h, b)
      <4>1. h[b].at[1] \in Addresses /\ h[h[b].at[1]].tt = "thread"
        BY <1>1, <3>1 DEF OpenAt
      <4>2. k[h[b].at[1]] = h[h[b].at[1]]
        BY <4>1
      <4>3. IsOpen(k, b)
        BY <1>1, <3>1 DEF IsOpen
      <4>4. QED
        BY <1>1, <3>1, <4>2, <4>3 DEF UpValue
    <3>2. CASE ~IsOpen(h, b)
      BY <1>1, <3>2 DEF UpValue, IsOpen
    <3>3. QED
      BY <3>1, <3>2
  <2>2. Edges(h, b) = {UpValue(h, b)} \cap Addresses
    BY <1>2, EdgesOf
  <2>3. Edges(k, b) = {UpValue(k, b)} \cap Addresses
    BY <1>1, <1>2, EdgesOf
  <2>4. QED
    BY <2>1, <2>2, <2>3
<1>3. CASE h[b].tt # "upval"
  BY <1>1, <1>3 DEF Edges, Keyed, StrongRefs
<1>4. QED
  BY <1>2, <1>3

\* An assignment to the entry of a table; of references only the two stored are new.
PutsEntry(h, h2, t, k, v) == h2 = [h EXCEPT ![t] = [@ EXCEPT !.key = k, !.val = v]]

EntryWritten(h, h2, t, k, v) ==
  /\ Writes(h, h2, {k, v}) /\ Edges(h2, t) \subseteq {k, v} \cap Addresses
  /\ \A a \in Addresses \ {t} : h2[a] = h[a] /\ Edges(h2, a) = Edges(h, a)

LEMMA EntryWrites ==
  ASSUME NEW h, NEW t \in Addresses, NEW v, NEW k, NEW h2, PutsEntry(h, h2, t, k, v),
         Sound(h), h[t].tt = "table"
  PROVE  EntryWritten(h, h2, t, k, v)
<1> DEFINE o == [h[t] EXCEPT !.key = k, !.val = v]
<1>1. DOMAIN h2 = Addresses /\ h2[t] = o /\ \A a \in Addresses \ {t} : h2[a] = h[a]
  BY DEF Sound, Typed, PutsEntry
<1>2. WellFormed(h[t]) /\ {"tt", "col", "key", "val", "mode"} \subseteq DOMAIN h[t]
  BY DEF Sound, Typed, WellFormed
<1>3. /\ DOMAIN o = DOMAIN h[t] /\ o.tt = "table" /\ o.col = h[t].col
      /\ o.key = k /\ o.val = v /\ o.mode = h[t].mode
  BY <1>2
<1> HIDE DEF o
<1>4. Typed(h2)
  BY <1>1, <1>2, <1>3 DEF Sound, Typed, WellFormed
<1>5. Edges(h2, t) \subseteq {k, v} \cap Addresses
  BY <1>1, <1>3, EdgesOf
<1>6. \A a \in Addresses \ {t} : Edges(h2, a) = Edges(h, a)
  <2>1. OpenAt(h) /\ h[t].tt # "thread"
    BY DEF Sound
  <2>2. \A a \in Addresses \ {t} : h2[a] = h[a]
    BY <1>1
  <2>3. QED
    BY <2>1, <2>2, OtherEdges
<1>7. Writes(h, h2, {k, v})
  BY <1>1, <1>3, <1>4, <1>5, <1>6 DEF Writes
<1>8. QED
  BY <1>1, <1>5, <1>6, <1>7 DEF EntryWritten

LEMMA LiveSetTable ==
  ASSUME LiveInv, NEW t \in InSlots({"table"}), NEW v \in {Plain} \cup Range(heap[L].stack),
         NEW k \in {Plain} \cup Range(heap[L].stack), SetTable(t, k, v)
  PROVE  LiveInv'
<1> DEFINE h == [heap EXCEPT ![t] = [@ EXCEPT !.key = k, !.val = v]]
           back == /\ heap[t].col = "black"
                   /\ IsWhite(heap, v) \/ (heap[t].key # k /\ IsWhite(heap, k))
           c == Color(h, {t}, "gray")
<1>1. /\ mode = "script" /\ mode' = mode /\ gcstate' = gcstate /\ unswept' = unswept
      /\ tmudata' = tmudata /\ gray' = gray /\ weak' = weak /\ running' = running
      /\ heap' = IF back THEN c ELSE h
      /\ grayagain' = IF back /\ gcstate = "propagate" THEN grayagain \cup {t} ELSE grayagain
  BY DEF SetTable, Scripted
<1>2. Fine(heap) /\ Sound(heap) /\ RunningInv(heap, running)
  BY <1>1, FineNow DEF Fine
<1>3. t \in Addresses /\ heap[t].tt = "table" /\ t \in Range(heap[L].stack)
  BY DEF InSlots
<1>4. t \in Good(heap) /\ {k, v} \cap Addresses \subseteq Good(heap)
  BY <1>2, <1>3, InReach, ValuesAssumption
<1>5. PutsEntry(heap, h, t, k, v)
  BY DEF PutsEntry
<1> HIDE DEF h, back, c
<1>6. /\ Writes(heap, h, {k, v}) /\ Edges(h, t) \subseteq {k, v} \cap Addresses
      /\ \A a \in Addresses \ {t} : h[a] = heap[a] /\ Edges(h, a) = Edges(heap, a)
  <2>1. Sound(heap) /\ t \in Addresses /\ heap[t].tt = "table"
    BY <1>2, <1>3
  <2>2. EntryWritten(heap, h, t, k, v)
    BY <1>5, <2>1, EntryWrites
  <2>3. QED
    BY <2>2 DEF EntryWritten
<1>7. /\ Sound(h) /\ Good(h) = Good(heap) /\ White(h) = White(heap)
      /\ Allocated(h) = Allocated(heap) /\ \A a \in Addresses : IsOpen(h, a) <=> IsOpen(heap, a)
  BY <1>2, <1>4, <1>6, WritesSound
<1>8. RunningInv(h, running)
  <2>1. \A a \in Addresses : heap[a].tt = "thread" => h[a].resumed = heap[a].resumed
    BY <1>3, <1>6
  <2>2. QED
    BY <1>2, <1>4, <1>6, <2>1, WritesRunning
<1>9. h[t].tt = "table" /\ h[t].col = heap[t].col
  BY <1>3, <1>6 DEF Writes
<1>10. CASE ~back
  <2>1. heap' = h /\ grayagain' = grayagain
    BY <1>1, <1>10
  <2>2. gcstate # "propagate" => Calm(heap, h)
    BY <1>2, <1>6, WritesCalm
  <2>3. ASSUME gcstate = "propagate"
        PROVE  Tricolor(h, gray, grayagain, weak) /\ Main \notin White(h)
    <3>1. Tricolor(heap, gray, grayagain, weak) /\ Main \notin White(heap)
      BY <1>2, <2>3 DEF Fine
    <3>2. ASSUME NEW a \in Allocated(heap) \ White(heap),
                 a \notin gray \cup grayagain \cup weak, ~IsOpen(heap, a)
          PROVE  Edges(h, a) \cap White(heap) = {}
      <4>1. a \in Addresses /\ Edges(heap, a) \cap White(heap) = {}
        BY <3>1, <3>2 DEF Tricolor, Allocated
      <4>2. CASE a = t
        <5>1. heap[t].col = "black" /\ heap[t].mode = {}
          BY <1>3, <3>1, <3>2, <4>2 DEF Tricolor
        <5>2. v \notin White(heap)
          BY <1>10, <5>1 DEF IsWhite, back
        <5>3. CASE heap[t].key = k
          <6>1. {k} \cap Addresses \subseteq Edges(heap, t)
            BY <1>3, <5>1, <5>3 DEF Edges, Keyed
          <6>2. QED
            BY <1>6, <4>1, <4>2, <5>2, <6>1
        <5>4. CASE heap[t].key # k
          BY <1>6, <1>10, <4>2, <5>1, <5>2, <5>4 DEF IsWhite, back
        <5>5. QED
          BY <5>3, <5>4
      <4>3. CASE a # t
        BY <1>6, <4>1, <4>3
      <4>4. QED
        BY <4>2, <4>3
    <3>3. Tricolor(h, gray, grayagain, weak)
      BY <1>2, <1>4, <1>6, <3>1, <3>2, WritesTricolor
    <3>4. QED
      BY <1>7, <3>1, <3>3
  <2>4. QED
    BY <1>1, <1>7, <1>8, <2>1, <2>2, <2>3, CalmStep
<1>11. CASE back
  <2>1. heap' = c /\ (gcstate = "propagate" => grayagain' = grayagain \cup {t})
    BY <1>1, <1>11
  <2>2. heap[t].col = "black"
    BY <1>11 DEF back
  <2>3. /\ Typed(c)
        /\ \A a \in Addresses :
             /\ Same(h[a], c[a])
             /\ h[a].tt # "free" => c[a].col = IF a \in {t} THEN "gray" ELSE h[a].col
    BY <1>7, ColorSame DEF Sound, c
  <2>4. Retains(h, c)
    <3>1. \A a \in Addresses : h[a].tt # "free" => (c[a].col = "dead" <=> h[a].col = "dead")
      BY <1>9, <2>2, <2>3
    <3>2. \A a \in Addresses : IsOpen(h, a) => c[a].col # "black"
      BY <1>7, <2>3 DEF Sound, OpenAt, IsOpen
    <3>3. QED
      BY <1>7, <2>3, <3>1, <3>2, SameRetains
  <2>5. Sound(c) /\ RunningInv(c, running)
    BY <1>7, <1>8, <2>4, RetainsSound, RetainsRunning
  <2>6. \A a \in Addresses : (IsOpen(c, a) <=> IsOpen(h, a)) /\ Edges(c, a) = Edges(h, a)
    BY <1>7, <2>3, SameEdges DEF Sound
  <2>7. ASSUME gcstate # "propagate" PROVE Calm(heap, c)
    <3>1. Calm(heap, h)
      BY <1>2, <1>6, WritesCalm
    <3>2. Calm(h, c)
      BY <1>9, <2>2, <2>3 DEF Calm, Same, IsOpen
    <3>3. QED
      BY <3>1, <3>2, CalmTrans
  <2>8. ASSUME gcstate = "propagate"
        PROVE  Tricolor(c, gray, grayagain \cup {t}, weak) /\ Main \notin White(c)
    <3>1. Tricolor(heap, gray, grayagain, weak) /\ Main \notin White(heap)
      BY <1>2, <2>8 DEF Fine
    <3>2. \A a \in Addresses :
            /\ c[a].tt = heap[a].tt /\ (a # t /\ c[a].tt # "free" => c[a].col = heap[a].col)
            /\ heap[a].tt = "table" => c[a].mode = heap[a].mode
      BY <1>6, <2>3 DEF Same, Writes
    <3>3. c[t].col = "gray" /\ c[t].tt = "table"
      BY <1>3, <1>9, <2>3, <3>2
    <3>4. White(c) = White(heap) /\ Allocated(c) = Allocated(heap)
      BY <2>2, <3>2, <3>3 DEF White, Allocated
    <3>5. NoneDead(c)
      BY <3>1, <3>2, <3>3 DEF Tricolor, NoneDead, Allocated
    <3>6. gray \subseteq Traversable(c)
      BY <3>1, <3>2 DEF Tricolor, Traversable
    <3>7. ASSUME NEW a \in Allocated(c) \ White(c)
          PROVE  /\ c[a].tt = "thread" => a \in gray \cup (grayagain \cup {t})
                 /\ a \notin gray \cup (grayagain \cup {t}) \cup weak /\ ~IsOpen(c, a) =>
                      /\ Edges(c, a) \cap White(c) = {}
                      /\ c[a].tt \in {"table", "upval"} => c[a].col = "black"
                      /\ c[a].tt = "table" => c[a].mode = {}
      <4>1. a \in Addresses /\ a \in Allocated(heap) \ White(heap) /\ c[a].tt # "free"
        BY <3>4 DEF Allocated
      <4>2. CASE a = t
        BY <3>3, <4>2
      <4>3. CASE a # t
        <5>1. Edges(c, a) = Edges(heap, a) /\ (IsOpen(c, a) <=> IsOpen(heap, a))
          BY <1>6, <1>7, <2>6, <4>1, <4>3
        <5>2. QED
          BY <3>1, <3>2, <3>4, <4>1, <4>3, <5>1 DEF Tricolor
      <4>4. QED
        BY <4>2, <4>3
    <3>8. QED
      BY <3>1, <3>4, <3>5, <3>6, <3>7 DEF Tricolor
  <2>9. QED
    BY <1>1, <2>1, <2>5, <2>7, <2>8, CalmStep
<1>12. QED
  BY <1>10, <1>11

-----------------------------------------------------------------------------
\* The steps of the script that create an object.

LEMMA ListsListed ==
  /\ Listed(Lists) /\ Lists.heap = heap /\ Lists.gray = gray /\ Lists.again = grayagain
  /\ Lists.weak = weak
BY DEF Lists, Listed

LEMMA ListsWith ==
  ASSUME NEW h
  PROVE  LET g == [Lists EXCEPT !.heap = h]
         IN /\ Listed(g) /\ g.heap = h /\ g.gray = gray /\ g.again = grayagain /\ g.weak = weak
BY DEF Lists, Listed

\* An assignment to a closed upvalue.
PutsVal(h, h2, u, v) == h2 = [h EXCEPT ![u].val = v]
ValWritten(h, h2, u, v) ==
  /\ Writes(h, h2, {v}) /\ Edges(h2, u) = {v} \cap Addresses
  /\ \A a \in Addresses \ {u} : h2[a] = h[a] /\ Edges(h2, a) = Edges(h, a)

LEMMA ValWrites ==
  ASSUME NEW h, NEW u \in Addresses, NEW v, NEW h2, PutsVal(h, h2, u, v),
         Sound(h), h[u].tt = "upval", ~IsOpen(h, u)
  PROVE  ValWritten(h, h2, u, v)
<1> DEFINE o == [h[u] EXCEPT !.val = v]
<1>1. DOMAIN h2 = Addresses /\ h2[u] = o /\ \A a \in Addresses \ {u} : h2[a] = h[a]
  BY DEF Sound, Typed, PutsVal
<1>2. WellFormed(h[u]) /\ {"tt", "col", "at", "val"} \subseteq DOMAIN h[u]
  BY DEF Sound, Typed, WellFormed
<1>3. /\ DOMAIN o = DOMAIN h[u] /\ o.tt = "upval" /\ o.col = h[u].col
      /\ o.at = h[u].at /\ o.val = v
  BY <1>2
<1> HIDE DEF o
<1>4. Typed(h2)
  BY <1>1, <1>2, <1>3 DEF Sound, Typed, WellFormed
<1>5. Edges(h2, u) = {v} \cap Addresses
  <2>1. Edges(h2, u) = {UpValue(h2, u)} \cap Addresses
    BY <1>1, <1>3, EdgesOf
  <2>2. UpValue(h2, u) = v
    BY <1>1, <1>3 DEF UpValue, IsOpen
  <2>3. QED
    BY <2>1, <2>2
<1>6. \A a \in Addresses \ {u} : Edges(h2, a) = Edges(h, a)
  <2>1. OpenAt(h) /\ h[u].tt # "thread"
    BY DEF Sound
  <2>2. \A a \in Addresses \ {u} : h2[a] = h[a]
    BY <1>1
  <2>3. QED
    BY <2>1, <2>2, OtherEdges
<1>7. Writes(h, h2, {v})
  BY <1>1, <1>3, <1>4, <1>5, <1>6 DEF Writes
<1>8. QED
  BY <1>1, <1>5, <1>6, <1>7 DEF ValWritten

LEMMA LiveSetUpval ==
  ASSUME LiveInv, NEW f \in InSlots({"function"}), NEW v \in Range(heap[L].stack), SetUpval(f, v)
  PROVE  LiveInv'
<1> DEFINE u == heap[f].up
           h == IF IsOpen(heap, u) THEN [heap EXCEPT ![heap[u].at[1]].stack[heap[u].at[2]] = v]
                ELSE [heap EXCEPT ![u].val = v]
           g == [Lists EXCEPT !.heap = h]
           barrier == h[u].col = "black" /\ IsWhite(h, v)
<1>1. /\ mode = "script" /\ mode' = mode /\ gcstate' = gcstate /\ unswept' = unswept
      /\ tmudata' = tmudata /\ running' = running /\ Scripted
      /\ TakeLists(IF barrier THEN luaC_barrierf(g, u, v) ELSE g)
  BY DEF SetUpval, Scripted
<1>2. Fine(heap) /\ Sound(heap) /\ RunningInv(heap, running)
  BY <1>1, FineNow DEF Fine
<1>3. u \in Good(heap) /\ u \in Addresses /\ heap[u].tt = "upval"
  <2>1. f \in Range(heap[L].stack) \cap Addresses /\ heap[f].tt = "function"
    BY DEF InSlots
  <2>2. f \in Good(heap)
    BY <1>2, <2>1, InReach
  <2>3. u \in Good(heap) /\ heap[u].tt = "upval"
    BY <1>2, <2>1, <2>2, InReach
  <2>4. QED
    BY <2>3 DEF Good, Allocated
<1>4. v \in Addresses => v \in Good(heap)
  BY <1>2, InReach
<1>5. IF IsOpen(heap, u) THEN PutsSlot(heap, h, heap[u].at[1], heap[u].at[2], v)
      ELSE PutsVal(heap, h, u, v)
  BY DEF PutsSlot, PutsVal
<1> HIDE DEF u, h
<1>6. Listed(g) /\ g.heap = h /\ g.gray = gray /\ g.again = grayagain /\ g.weak = weak
  BY ListsWith
<1> HIDE DEF g, barrier
<1>7. CASE IsOpen(heap, u)
  <2>1. heap[u].col # "black" /\ heap[u].at[1] \in Addresses /\ heap[heap[u].at[1]].tt = "thread"
    BY <1>2, <1>3, <1>7 DEF Sound, OpenAt
  <2> DEFINE t == heap[u].at[1]
             s == heap[u].at[2]
  <2>2. PutsSlot(heap, h, t, s, v) /\ t \in Addresses /\ heap[t].tt = "thread"
    BY <1>5, <1>7, <2>1
  <2> HIDE DEF t, s
  <2>3. Fine(h)
    BY <1>2, <1>4, <2>2, SlotFine
  <2>4. Writes(heap, h, {v})
    BY <1>2, <2>2, SlotWrites
  <2>5. ~barrier
    BY <1>3, <2>1, <2>4 DEF Writes, barrier
  <2>6. heap' = h /\ gray' = gray /\ grayagain' = grayagain /\ weak' = weak
    BY <1>1, <1>6, <2>5 DEF TakeLists
  <2>7. HeapOnly
    BY <1>1, <2>6 DEF HeapOnly
  <2>8. QED
    BY <2>3, <2>6, <2>7, FineStep
<1>8. CASE ~IsOpen(heap, u)
  <2>1. ValWritten(heap, h, u, v)
    BY <1>2, <1>3, <1>5, <1>8, ValWrites
  <2>2. /\ Writes(heap, h, {v}) /\ Edges(h, u) = {v} \cap Addresses
        /\ \A a \in Addresses \ {u} : h[a] = heap[a] /\ Edges(h, a) = Edges(heap, a)
    BY <2>1 DEF ValWritten
  <2>3. {v} \cap Addresses \subseteq Good(heap)
    BY <1>4
  <2>4. /\ Sound(h) /\ Good(h) = Good(heap) /\ White(h) = White(heap)
        /\ Allocated(h) = Allocated(heap) /\ \A a \in Addresses : IsOpen(h, a) <=> IsOpen(heap, a)
    BY <1>2, <2>2, <2>3, WritesSound
  <2>5. RunningInv(h, running)
    <3>1. \A a \in Addresses : heap[a].tt = "thread" => h[a].resumed = heap[a].resumed
      BY <1>3, <2>2
    <3>2. QED
      BY <1>2, <2>2, <2>3, <3>1, WritesRunning
  <2>6. /\ h[u].tt = "upval" /\ h[u].col = heap[u].col /\ ~IsOpen(h, u)
        /\ \A a \in Addresses : /\ h[a].tt = heap[a].tt /\ (h[a].tt # "free" => h[a].col = heap[a].col)
                                /\ heap[a].tt = "table" => h[a].mode = heap[a].mode
    BY <1>3, <1>8, <2>2, <2>4 DEF Writes
  <2>7. gcstate # "propagate" => Calm(heap, h)
    BY <1>2, <2>2, WritesCalm
  <2>8. ASSUME gcstate = "propagate"
        PROVE  /\ Tricolor(heap, gray, grayagain, weak) /\ Main \notin White(heap)
               /\ NoneDead(h) /\ gray \subseteq Traversable(h)
    <3>1. Tricolor(heap, gray, grayagain, weak) /\ Main \notin White(heap)
      BY <1>2, <2>8 DEF Fine
    <3>2. NoneDead(h) /\ gray \subseteq Traversable(h)
      BY <2>6, <3>1 DEF Tricolor, NoneDead, Traversable, Allocated
    <3>3. QED
      BY <3>1, <3>2
  <2>9. ASSUME gcstate = "propagate", NEW a \in Allocated(h) \ White(h)
        PROVE  /\ h[a].tt = "thread" => a \in gray \cup grayagain
               /\ a \notin gray \cup grayagain \cup weak /\ ~IsOpen(h, a) =>
                    /\ Edges(h, a) \cap White(h) \subseteq {v}
                    /\ ~barrier => Edges(h, a) \cap White(h) = {}
                    /\ h[a].tt \in {"table", "upval"} => h[a].col = "black"
                    /\ h[a].tt = "table" => h[a].mode = {}
    <3>1. Tricolor(heap, gray, grayagain, weak)
      BY <2>8, <2>9
    <3>2. a \in Addresses /\ a \in Allocated(heap) \ White(heap) /\ h[a].tt # "free"
      BY <2>4, <2>9 DEF Allocated
    <3>3. CASE a = u
      <4>1. ASSUME ~barrier, a \notin gray \cup grayagain \cup weak PROVE v \notin White(h)
        <5>1. heap[u].col = "black"
          BY <1>3, <1>8, <3>1, <3>2, <3>3, <4>1 DEF Tricolor
        <5>2. QED
          BY <2>6, <4>1, <5>1 DEF barrier, IsWhite
      <4>2. QED
        BY <2>2, <2>4, <2>6, <3>1, <3>2, <3>3, <4>1 DEF Tricolor
    <3>4. CASE a # u
      BY <2>2, <2>4, <2>6, <3>1, <3>2, <3>4 DEF Tricolor
    <3>5. QED
      BY <3>3, <3>4
  <2>10. CASE ~barrier
    <3>1. heap' = h /\ gray' = gray /\ grayagain' = grayagain /\ weak' = weak
      BY <1>1, <1>6, <2>10 DEF TakeLists
    <3>2. gcstate = "propagate" =>
            Tricolor(h, gray, grayagain, weak) /\ Main \notin White(h)
      BY <2>4, <2>8, <2>9, <2>10 DEF Tricolor
    <3>3. QED
      BY <1>1, <2>4, <2>5, <2>7, <3>1, <3>2, CalmStep
  <2>11. CASE barrier /\ gcstate = "propagate"
    <3> DEFINE r == mark(g, {v})
    <3>1. heap' = r.heap /\ gray' = r.gray /\ grayagain' = r.again /\ weak' = r.weak
      BY <1>1, <2>11 DEF TakeLists, luaC_barrierf
    <3>2. /\ Sound(g.heap) /\ NoneDead(g.heap) /\ Listed(g)
          /\ g.gray \subseteq Traversable(g.heap)
      BY <1>6, <2>4, <2>8, <2>11
    <3>3. \A a \in Allocated(g.heap) \ White(g.heap) :
            /\ g.heap[a].tt = "thread" => a \in g.gray \cup g.again
            /\ a \notin g.gray \cup g.again \cup g.weak /\ ~IsOpen(g.heap, a) =>
                 /\ Edges(g.heap, a) \cap White(g.heap) \subseteq {v}
                 /\ g.heap[a].tt \in {"table", "upval"} => g.heap[a].col = "black"
                 /\ g.heap[a].tt = "table" => g.heap[a].mode = {}
      BY <1>6, <2>9, <2>11
    <3>4. /\ Retains(g.heap, r.heap) /\ Tricolor(r.heap, r.gray, r.again, r.weak)
          /\ White(r.heap) \subseteq White(g.heap)
      BY <3>2, <3>3, MarkTricolor
    <3> HIDE DEF r
    <3>5. Sound(r.heap) /\ RunningInv(r.heap, running)
      BY <1>6, <2>4, <2>5, <3>4, RetainsSound, RetainsRunning
    <3>6. Main \notin White(r.heap)
      BY <1>6, <2>4, <2>8, <2>11, <3>4
    <3>7. QED
      BY <1>1, <2>11, <3>1, <3>4, <3>5, <3>6, CalmStep
  <2>12. CASE barrier /\ gcstate # "propagate"
    <3> DEFINE k == Color(h, {u}, "white")
               r == [g EXCEPT !.heap = Color(@, {u}, "white")]
    <3>1. r.heap = k /\ r.gray = gray /\ r.again = grayagain /\ r.weak = weak
      BY <1>6 DEF Listed
    <3>2. TakeLists(r)
      BY <1>1, <2>12 DEF luaC_barrierf
    <3> HIDE DEF r
    <3>3. heap' = k /\ gray' = gray /\ grayagain' = grayagain /\ weak' = weak
      BY <3>1, <3>2 DEF TakeLists
    <3>4. /\ Typed(k)
          /\ \A a \in Addresses :
               /\ Same(h[a], k[a])
               /\ h[a].tt # "free" => k[a].col = IF a \in {u} THEN "white" ELSE h[a].col
      BY <2>4, ColorSame DEF Sound
    <3>5. h[u].col = "black"
      BY <2>12 DEF barrier
    <3> HIDE DEF k
    <3>6. Retains(h, k)
      <4>1. \A a \in Addresses : h[a].tt # "free" => (k[a].col = "dead" <=> h[a].col = "dead")
        BY <3>4, <3>5
      <4>2. \A a \in Addresses : IsOpen(h, a) => k[a].col # "black"
        BY <2>4, <3>4 DEF Sound, OpenAt, IsOpen
      <4>3. QED
        BY <2>4, <3>4, <4>1, <4>2, SameRetains
    <3>7. Sound(k) /\ RunningInv(k, running)
      BY <2>4, <2>5, <3>6, RetainsSound, RetainsRunning
    <3>8. Calm(heap, k)
      <4>1. Calm(h, k)
        BY <3>4 DEF Calm, Same, IsOpen
      <4>2. QED
        BY <2>7, <2>12, <4>1, CalmTrans
    <3>9. QED
      BY <1>1, <2>12, <3>3, <3>7, <3>8, CalmStep
  <2>13. QED
    BY <2>10, <2>11, <2>12
<1>9. QED
  BY <1>7, <1>8

-----------------------------------------------------------------------------
\* The steps of the script that store a reference.

\* luaF_close: the dead upvalues are freed, the others keep what they refer to.
ClosedHeap(h, us, c, k) ==
  /\ Retains(h, k)
  /\ \A a \in Addresses \ us : k[a] = h[a] /\ Edges(k, a) = Edges(h, a)
  /\ \A a \in us :
       IF h[a].col = "dead" THEN k[a].tt = "free"
       ELSE /\ k[a].tt = "upval" /\ ~IsOpen(k, a) /\ Edges(k, a) = {UpValue(h, a)} \cap Addresses
            /\ k[a].col = IF h[a].col = "gray" THEN c ELSE h[a].col

LEMMA ClosesHeap ==
  ASSUME NEW h, NEW us, NEW c \in {"white", "black"}, Sound(h),
         \A u \in us : u \in Addresses /\ IsOpen(h, u)
  PROVE  LET kept == {a \in us : h[a].col # "dead"}
             closed == [a \in Addresses |->
                          IF a \notin us THEN h[a]
                          ELSE IF a \in kept THEN [h[a] EXCEPT !.val = UpValue(h, a), !.at = <<>>]
                          ELSE Free]
         IN ClosedHeap(h, us, c, Color(closed, {a \in kept : h[a].col = "gray"}, c))
<1> DEFINE kept == {a \in us : h[a].col # "dead"}
           closed == [a \in Addresses |->
                        IF a \notin us THEN h[a]
                        ELSE IF a \in kept THEN [h[a] EXCEPT !.val = UpValue(h, a), !.at = <<>>]
                        ELSE Free]
           grays == {a \in kept : h[a].col = "gray"}
           k == Color(closed, grays, c)
<1>1. \A a \in us : WellFormed(h[a]) /\ h[a].tt = "upval"
  BY DEF Sound, Typed, IsOpen
<1>2. ASSUME NEW a \in kept
      PROVE  /\ WellFormed(closed[a]) /\ closed[a].tt = "upval" /\ closed[a].col = h[a].col
             /\ closed[a].val = UpValue(h, a) /\ closed[a].at = <<>>
  <2> DEFINE o == [h[a] EXCEPT !.val = UpValue(h, a), !.at = <<>>]
  <2>1. a \in us /\ a \in Addresses /\ closed[a] = o
    OBVIOUS
  <2>2. {"tt", "col", "at", "val"} \subseteq DOMAIN h[a] /\ h[a].tt = "upval"
        /\ h[a].col \in {"white", "gray", "black", "dead"}
    BY <1>1, <2>1 DEF WellFormed
  <2>3. /\ DOMAIN o = DOMAIN h[a] /\ o.tt = "upval" /\ o.col = h[a].col
        /\ o.val = UpValue(h, a) /\ o.at = <<>>
    BY <2>2
  <2> HIDE DEF o, closed
  <2>4. QED
    BY <2>1, <2>2, <2>3 DEF WellFormed
<1>3. \A a \in us \ kept : closed[a] = Free /\ h[a].col = "dead"
  OBVIOUS
<1>4. \A a \in Addresses \ us : closed[a] = h[a]
  OBVIOUS
<1>5. Typed(closed)
  <2>1. DOMAIN closed = Addresses
    OBVIOUS
  <2>2. WellFormed(Free)
    BY DEF WellFormed, Free
  <2> HIDE DEF closed, kept
  <2>3. QED
    BY <1>2, <1>3, <1>4, <2>1, <2>2 DEF Typed, Sound
<1>6. \A a \in Addresses \ grays : k[a] = closed[a]
  BY DEF Color
<1>7. grays \subseteq kept /\ kept \subseteq us /\ us \subseteq Addresses
      /\ (\A a \in kept : h[a].col # "dead") /\ \A a \in kept : a \in grays <=> h[a].col = "gray"
  OBVIOUS
<1> HIDE DEF closed, kept, grays
<1>8. /\ Typed(k)
      /\ \A a \in Addresses :
           /\ Same(closed[a], k[a])
           /\ closed[a].tt # "free" => k[a].col = IF a \in grays THEN c ELSE closed[a].col
  BY <1>5, ColorSame
<1> HIDE DEF k
<1>9. \A a \in Addresses \ us : k[a] = h[a]
  BY <1>4, <1>6, <1>7
<1>10. ASSUME NEW a \in kept
       PROVE  /\ k[a].tt = "upval" /\ ~IsOpen(k, a) /\ Edges(k, a) = {UpValue(h, a)} \cap Addresses
              /\ k[a].col = IF h[a].col = "gray" THEN c ELSE h[a].col
  <2>1. k[a].tt = "upval" /\ k[a].at = <<>> /\ k[a].val = UpValue(h, a)
        /\ k[a].col = IF h[a].col = "gray" THEN c ELSE h[a].col
    BY <1>2, <1>7, <1>8 DEF Same
  <2>2. Edges(k, a) = {UpValue(k, a)} \cap Addresses
    BY <2>1, EdgesOf
  <2>3. ~IsOpen(k, a) /\ UpValue(k, a) = UpValue(h, a)
    BY <2>1 DEF IsOpen, UpValue
  <2>4. QED
    BY <2>1, <2>2, <2>3
<1>11. \A a \in us \ kept : k[a].tt = "free" /\ h[a].col = "dead"
  BY <1>3, <1>7, <1>8 DEF Same, Free
<1>12. ASSUME NEW a \in Addresses \ us PROVE Edges(k, a) = Edges(h, a)
  <2>1. k[a] = h[a] /\ a \in Addresses
    BY <1>9
  <2>2. CASE h[a].tt = "upval"
    <3>1. UpValue(k, a) = UpValue(h, a)
      <4>1. CASE IsOpen(h, a)
        <5>1. h[a].at[1] \in Addresses /\ h[h[a].at[1]].tt = "thread"
          BY <2>1, <4>1 DEF Sound, OpenAt
        <5>2. h[a].at[1] \notin us
          BY <1>1, <5>1
        <5>3. k[h[a].at[1]] = h[h[a].at[1]] /\ IsOpen(k, a)
          BY <1>9, <2>1, <4>1, <5>1, <5>2 DEF IsOpen
        <5>4. QED
          BY <2>1, <4>1, <5>3 DEF UpValue
      <4>2. CASE ~IsOpen(h, a)
        BY <2>1, <4>2 DEF UpValue, IsOpen
      <4>3. QED
        BY <4>1, <4>2
    <3>2. Edges(h, a) = {UpValue(h, a)} \cap Addresses
      BY <2>2, EdgesOf
    <3>3. Edges(k, a) = {UpValue(k, a)} \cap Addresses
      BY <2>1, <2>2, EdgesOf
    <3>4. QED
      BY <3>1, <3>2, <3>3
  <2>3. CASE h[a].tt # "upval"
    BY <2>1, <2>3 DEF Edges, Keyed, StrongRefs
  <2>4. QED
    BY <2>2, <2>3
<1>13. Retains(h, k)
  <2>1. ASSUME NEW a \in kept PROVE Edges(h, a) = {UpValue(h, a)} \cap Addresses
    BY <1>1, <1>7, <2>1, EdgesOf
  <2>2. ASSUME NEW a \in Addresses, k[a].tt # "free"
        PROVE  /\ k[a].tt = h[a].tt /\ (k[a].col = "dead" <=> h[a].col = "dead")
               /\ Edges(k, a) \subseteq Edges(h, a)
               /\ k[a].tt = "function" => k[a].up = h[a].up
               /\ k[a].tt = "thread" => k[a].stack = h[a].stack /\ k[a].resumed = h[a].resumed
    <3>1. CASE a \in us
      <4>1. a \in kept
        BY <1>11, <2>2, <3>1
      <4>2. QED
        BY <1>1, <1>7, <1>10, <2>1, <4>1
    <3>2. CASE a \notin us
      BY <1>9, <1>12, <3>2
    <3>3. QED
      BY <3>1, <3>2
  <2>3. ASSUME NEW a \in Addresses, k[a].tt = "free" PROVE h[a].tt = "free" \/ h[a].col = "dead"
    <3>1. CASE a \in us
      BY <1>10, <1>11, <2>3, <3>1
    <3>2. CASE a \notin us
      BY <1>9, <2>3, <3>2
    <3>3. QED
      BY <3>1, <3>2
  <2>4. ASSUME NEW a \in Addresses, IsOpen(k, a)
        PROVE  /\ IsOpen(h, a) /\ k[a].at = h[a].at /\ k[a].col # "black"
               /\ k[h[a].at[1]].tt = "thread"
    <3>1. a \notin us
      <4>1. k[a].tt # "free"
        BY <2>4 DEF IsOpen
      <4>2. QED
        BY <1>10, <1>11, <2>4, <4>1
    <3>2. k[a] = h[a] /\ IsOpen(h, a)
      BY <1>9, <2>4, <3>1 DEF IsOpen
    <3>3. h[a].at[1] \in Addresses /\ h[h[a].at[1]].tt = "thread" /\ h[a].col # "black"
      BY <3>2 DEF Sound, OpenAt
    <3>4. h[a].at[1] \notin us
      BY <1>1, <3>3
    <3>5. QED
      BY <1>9, <3>2, <3>3, <3>4
  <2>5. QED
    BY <1>8, <2>2, <2>3, <2>4 DEF Retains
<1>14. ClosedHeap(h, us, c, k)
  <2>1. \A a \in us :
          IF h[a].col = "dead" THEN k[a].tt = "free"
          ELSE /\ k[a].tt = "upval" /\ ~IsOpen(k, a)
               /\ Edges(k, a) = {UpValue(h, a)} \cap Addresses
               /\ k[a].col = IF h[a].col = "gray" THEN c ELSE h[a].col
    <3> TAKE a \in us
    <3>1. CASE a \in kept
      BY <1>7, <1>10, <3>1
    <3>2. CASE a \notin kept
      BY <1>11, <3>2
    <3>3. QED
      BY <3>1, <3>2
  <2>2. QED
    BY <1>9, <1>12, <1>13, <2>1 DEF ClosedHeap
<1>15. QED
  BY <1>14 DEF k, grays, closed, kept

\* What luaF_close does, in the mark phase and in the others.
LEMMA ClosesIdle ==
  ASSUME NEW g, NEW us, Listed(g), Sound(g.heap), gcstate # "propagate",
         \A u \in us : u \in Addresses /\ IsOpen(g.heap, u)
  PROVE  LET r == luaF_close(g, us)
         IN /\ ClosedHeap(g.heap, us, "white", r.heap)
            /\ r.gray = g.gray /\ r.again = g.again /\ r.weak = g.weak
<1> DEFINE h == g.heap
           kept == {a \in us : h[a].col # "dead"}
           closed == [a \in Addresses |->
                        IF a \notin us THEN h[a]
                        ELSE IF a \in kept THEN [h[a] EXCEPT !.val = UpValue(h, a), !.at = <<>>]
                        ELSE Free]
           k == Color(closed, {a \in kept : h[a].col = "gray"}, "white")
<1>1. luaF_close(g, us) = [g EXCEPT !.heap = k]
  BY DEF luaF_close
<1>2. ClosedHeap(h, us, "white", k)
  BY ClosesHeap
<1> HIDE DEF k
<1>3. [g EXCEPT !.heap = k].heap = k /\ [g EXCEPT !.heap = k].gray = g.gray
      /\ [g EXCEPT !.heap = k].again = g.again /\ [g EXCEPT !.heap = k].weak = g.weak
  BY DEF Listed
<1>4. QED
  BY <1>1, <1>2, <1>3

LEMMA ClosesMarking ==
  ASSUME NEW g, NEW us, Listed(g), Sound(g.heap), gcstate = "propagate",
         Tricolor(g.heap, g.gray, g.again, g.weak),
         \A u \in us : u \in Addresses /\ IsOpen(g.heap, u)
  PROVE  LET r == luaF_close(g, us)
         IN /\ Retains(g.heap, r.heap) /\ Tricolor(r.heap, r.gray, r.again, r.weak)
            /\ White(r.heap) \subseteq White(g.heap)
<1> DEFINE h == g.heap
           kept == {a \in us : h[a].col # "dead"}
           closed == [a \in Addresses |->
                        IF a \notin us THEN h[a]
                        ELSE IF a \in kept THEN [h[a] EXCEPT !.val = UpValue(h, a), !.at = <<>>]
                        ELSE Free]
           grays == {a \in kept : h[a].col = "gray"}
           k == Color(closed, grays, "black")
           g2 == [g EXCEPT !.heap = k]
           values == {UpValue(h, a) : a \in grays}
           r == mark(g2, values)
<1>1. luaF_close(g, us) = r
  BY DEF luaF_close
<1>2. ClosedHeap(h, us, "black", k)
  BY ClosesHeap
<1> HIDE DEF k
<1>3. Listed(g2) /\ g2.heap = k /\ g2.gray = g.gray /\ g2.again = g.again /\ g2.weak = g.weak
  BY DEF Listed
<1>4. /\ Retains(h, k)
      /\ \A a \in Addresses \ us : k[a] = h[a] /\ Edges(k, a) = Edges(h, a)
      /\ \A a \in us : IF h[a].col = "dead" THEN k[a].tt = "free"
           ELSE /\ k[a].tt = "upval" /\ ~IsOpen(k, a)
                /\ Edges(k, a) = {UpValue(h, a)} \cap Addresses
                /\ k[a].col = IF h[a].col = "gray" THEN "black" ELSE h[a].col
  BY <1>2 DEF ClosedHeap
<1>5. \A a \in us : a \in Addresses /\ h[a].tt = "upval" /\ h[a].col \in {"white", "gray"}
  <2> TAKE a \in us
  <2>1. a \in Addresses /\ IsOpen(h, a)
    OBVIOUS
  <2>2. h[a].tt = "upval" /\ h[a].col # "black"
    BY <2>1 DEF Sound, OpenAt, IsOpen
  <2>3. h[a].col # "dead"
    BY <2>1, <2>2 DEF Tricolor, NoneDead, Allocated
  <2>4. WellFormed(h[a])
    BY <2>1 DEF Sound, Typed
  <2>5. QED
    BY <2>1, <2>2, <2>3, <2>4 DEF WellFormed
<1>6. \A a \in us : h[a].col = "gray" => UpValue(h, a) \in values
  BY <1>5
<1> HIDE DEF g2, values
<1>7. /\ Sound(k) /\ White(k) = White(h) /\ Allocated(k) = Allocated(h) /\ NoneDead(k)
      /\ \A a \in Addresses : k[a].tt = h[a].tt
  <2>1. Sound(k)
    BY <1>4, RetainsSound
  <2>2. \A a \in Addresses : k[a].tt = h[a].tt /\ (h[a].tt # "free" => k[a].col \in {h[a].col, "black"})
    BY <1>4, <1>5
  <2>3. \A a \in us : k[a].col \in {"white", "black"} /\ (k[a].col = "white" <=> h[a].col = "white")
    BY <1>4, <1>5
  <2>4. White(k) = White(h)
    BY <1>4, <1>5, <2>2, <2>3 DEF White
  <2>5. Allocated(k) = Allocated(h) /\ NoneDead(k)
    BY <2>2 DEF Tricolor, NoneDead, Allocated
  <2>6. QED
    BY <2>1, <2>2, <2>4, <2>5
<1>8. g2.gray \subseteq Traversable(g2.heap)
  BY <1>3, <1>7 DEF Tricolor, Traversable
<1>9. ASSUME NEW a \in Allocated(k) \ White(k)
      PROVE  /\ k[a].tt = "thread" => a \in g.gray \cup g.again
             /\ a \notin g.gray \cup g.again \cup g.weak /\ ~IsOpen(k, a) =>
                  /\ Edges(k, a) \cap White(k) \subseteq values
                  /\ k[a].tt \in {"table", "upval"} => k[a].col = "black"
                  /\ k[a].tt = "table" => k[a].mode = {}
  <2>1. a \in Addresses /\ a \in Allocated(h) \ White(h)
    BY <1>7 DEF Allocated
  <2>2. CASE a \in us
    <3>1. h[a].col = "gray"
      BY <1>5, <2>1, <2>2 DEF White, Allocated
    <3>2. QED
      BY <1>4, <1>6, <2>2, <3>1
  <2>3. CASE a \notin us
    <3>1. k[a] = h[a] /\ Edges(k, a) = Edges(h, a) /\ (IsOpen(k, a) <=> IsOpen(h, a))
      BY <1>4, <2>1, <2>3 DEF IsOpen
    <3>2. QED
      BY <1>7, <2>1, <3>1 DEF Tricolor
  <2>4. QED
    BY <2>2, <2>3
<1>10. /\ Retains(k, r.heap) /\ Tricolor(r.heap, r.gray, r.again, r.weak)
       /\ White(r.heap) \subseteq White(k)
  <2>1. /\ Sound(g2.heap) /\ NoneDead(g2.heap)
        /\ \A a \in Allocated(g2.heap) \ White(g2.heap) :
             /\ g2.heap[a].tt = "thread" => a \in g2.gray \cup g2.again
             /\ a \notin g2.gray \cup g2.again \cup g2.weak /\ ~IsOpen(g2.heap, a) =>
                  /\ Edges(g2.heap, a) \cap White(g2.heap) \subseteq values
                  /\ g2.heap[a].tt \in {"table", "upval"} => g2.heap[a].col = "black"
                  /\ g2.heap[a].tt = "table" => g2.heap[a].mode = {}
    BY <1>3, <1>7, <1>9
  <2>2. /\ Retains(g2.heap, r.heap) /\ Tricolor(r.heap, r.gray, r.again, r.weak)
        /\ White(r.heap) \subseteq White(g2.heap)
    BY <1>3, <1>8, <2>1, MarkTricolor
  <2>3. QED
    BY <1>3, <2>2
<1> HIDE DEF r
<1>11. QED
  BY <1>1, <1>4, <1>7, <1>10, RetainsTrans

LEMMA ClosedCalm ==
  ASSUME NEW h, NEW us, NEW k, Sound(h), ClosedHeap(h, us, "white", k),
         \A u \in us : u \in Addresses /\ IsOpen(h, u)
  PROVE  Calm(h, k)
<1> SUFFICES ASSUME NEW a \in Addresses
             PROVE  /\ h[a].tt = "string" => k[a].tt = "string"
                    /\ k[a].tt # "free" /\ k[a].col # "white" =>
                         /\ h[a].tt = k[a].tt /\ h[a].col # "white"
                         /\ IsOpen(h, a) => IsOpen(k, a) /\ k[a].at = h[a].at
  BY DEF Calm
<1>1. CASE a \in us
  <2>1. h[a].tt = "upval" /\ h[a].col \in {"white", "gray", "dead"}
    <3>1. IsOpen(h, a) /\ WellFormed(h[a])
      BY <1>1 DEF Sound, Typed
    <3>2. h[a].tt = "upval" /\ h[a].col # "black"
      BY <3>1 DEF Sound, OpenAt, IsOpen
    <3>3. QED
      BY <3>1, <3>2 DEF WellFormed
  <2>2. k[a].tt = "free" \/ k[a].col = "white"
    BY <1>1, <2>1 DEF ClosedHeap
  <2>3. QED
    BY <2>1, <2>2
<1>2. CASE a \notin us
  BY <1>2 DEF ClosedHeap, IsOpen
<1>3. QED
  BY <1>1, <1>2

LEMMA LiveCloseUpvals ==
  ASSUME LiveInv, NEW level, CloseUpvals(level)
  PROVE  LiveInv'
<1> DEFINE us == {u \in OpenUpvals(heap, L) : heap[u].at[2] >= level}
           r == luaF_close(Lists, us)
<1>1. /\ mode = "script" /\ mode' = mode /\ gcstate' = gcstate /\ unswept' = unswept
      /\ tmudata' = tmudata /\ running' = running
      /\ heap' = r.heap /\ gray' = r.gray /\ grayagain' = r.again /\ weak' = r.weak
  BY DEF CloseUpvals, Scripted, TakeLists
<1>2. Fine(heap) /\ Sound(heap) /\ RunningInv(heap, running)
  BY <1>1, FineNow DEF Fine
<1>3. \A u \in us : u \in Addresses /\ IsOpen(heap, u)
  BY DEF OpenUpvals
<1> HIDE DEF us
<1>4. CASE gcstate = "propagate"
  <2>1. Tricolor(heap, gray, grayagain, weak) /\ Main \notin White(heap)
    BY <1>2, <1>4 DEF Fine
  <2>2. /\ Retains(heap, r.heap) /\ Tricolor(r.heap, r.gray, r.again, r.weak)
        /\ White(r.heap) \subseteq White(heap)
    BY <1>2, <1>3, <1>4, <2>1, ListsListed, ClosesMarking
  <2> HIDE DEF r
  <2>3. Sound(r.heap) /\ RunningInv(r.heap, running)
    BY <1>2, <2>2, RetainsSound, RetainsRunning
  <2>4. Main \notin White(r.heap)
    BY <2>1, <2>2
  <2>5. QED
    BY <1>1, <1>4, <2>2, <2>3, <2>4, CalmStep
<1>5. CASE gcstate # "propagate"
  <2>1. ClosedHeap(heap, us, "white", r.heap)
    BY <1>2, <1>3, <1>5, ListsListed, ClosesIdle
  <2> HIDE DEF r
  <2>2. Calm(heap, r.heap)
    BY <1>2, <1>3, <2>1, ClosedCalm
  <2>3. Retains(heap, r.heap)
    BY <2>1 DEF ClosedHeap
  <2>4. Sound(r.heap) /\ RunningInv(r.heap, running)
    BY <1>2, <2>3, RetainsSound, RetainsRunning
  <2>5. QED
    BY <1>1, <1>5, <2>2, <2>4, CalmStep
<1>6. QED
  BY <1>4, <1>5

-----------------------------------------------------------------------------
\* The threads: resuming, yielding, and closing upvalues.

\* Fine but for the threads that run.
Steady(h) ==
  /\ Sound(h)
  /\ gcstate = "propagate" => Tricolor(h, gray, grayagain, weak) /\ Main \notin White(h)
  /\ gcstate # "propagate" => Calm(heap, h)

\* What is written to a thread is found again when the marking ends.
LEMMA ThreadWrite ==
  ASSUME NEW h, NEW k, NEW v, Steady(h), Writes(h, k, {v}), v \in Addresses => v \in Good(h),
         \A a \in Addresses : h[a].tt # "thread" /\ ~IsOpen(h, a) => Edges(k, a) = Edges(h, a)
  PROVE  Steady(k) /\ Good(k) = Good(h)
<1>1. {v} \cap Addresses \subseteq Good(h) /\ Sound(h)
  BY DEF Steady
<1>2. Sound(k) /\ Good(k) = Good(h) /\ White(k) = White(h)
  BY <1>1, WritesSound
<1>3. ASSUME gcstate = "propagate"
      PROVE  Tricolor(k, gray, grayagain, weak) /\ Main \notin White(k)
  <2>1. Tricolor(h, gray, grayagain, weak) /\ Main \notin White(h)
    BY <1>3 DEF Steady
  <2>2. ASSUME NEW a \in Allocated(h) \ White(h),
               a \notin gray \cup grayagain \cup weak, ~IsOpen(h, a)
        PROVE  Edges(k, a) \cap White(h) = {}
    <3>1. a \in Addresses /\ h[a].tt # "thread" /\ Edges(h, a) \cap White(h) = {}
      BY <2>1, <2>2 DEF Tricolor, Allocated
    <3>2. QED
      BY <2>2, <3>1
  <2>3. Tricolor(k, gray, grayagain, weak)
    BY <1>1, <2>1, <2>2, WritesTricolor
  <2>4. QED
    BY <1>2, <2>1, <2>3
<1>4. ASSUME gcstate # "propagate" PROVE Calm(heap, k)
  BY <1>1, <1>4, WritesCalm, CalmTrans DEF Steady
<1>5. QED
  BY <1>2, <1>3, <1>4 DEF Steady

\* What a thread is recorded to have resumed is changed.
PutsResumed(h, h2, t, v) == h2 = [h EXCEPT ![t].resumed = v]
ResumedWritten(h, h2, t, v) ==
  /\ Writes(h, h2, {v})
  /\ h2[t].resumed = v /\ h2[t].stack = h[t].stack
  /\ \A a \in Addresses \ {t} : h2[a] = h[a]
  /\ \A a \in Addresses : h[a].tt # "thread" /\ ~IsOpen(h, a) => Edges(h2, a) = Edges(h, a)

LEMMA ResumedWrites ==
  ASSUME NEW h, NEW t \in Addresses, NEW v, NEW h2, PutsResumed(h, h2, t, v),
         Sound(h), h[t].tt = "thread"
  PROVE  ResumedWritten(h, h2, t, v)
<1> DEFINE o == [h[t] EXCEPT !.resumed = v]
<1>1. DOMAIN h2 = Addresses /\ h2[t] = o /\ \A a \in Addresses \ {t} : h2[a] = h[a]
  BY DEF Sound, Typed, PutsResumed
<1>2. WellFormed(h[t]) /\ {"tt", "col", "stack", "resumed"} \subseteq DOMAIN h[t]
  BY DEF Sound, Typed, WellFormed
<1>3. /\ DOMAIN o = DOMAIN h[t] /\ o.tt = "thread" /\ o.col = h[t].col
      /\ o.stack = h[t].stack /\ o.resumed = v
  BY <1>2
<1> HIDE DEF o
<1>4. Typed(h2)
  BY <1>1, <1>2, <1>3 DEF Sound, Typed, WellFormed
<1>5. h2[t].tt = "thread" /\ h2[t].stack = h[t].stack /\ h2[t].resumed = v /\ h2[t].col = h[t].col
  BY <1>1, <1>3
<1>6. Edges(h2, t) \subseteq Edges(h, t) \cup {v}
  <2>1. Edges(h2, t) = (Range(h2[t].stack) \cup {h2[t].resumed}) \cap Addresses
    BY <1>5, EdgesOf
  <2>2. Edges(h, t) = (Range(h[t].stack) \cup {h[t].resumed}) \cap Addresses
    BY EdgesOf
  <2>3. Range(h2[t].stack) = Range(h[t].stack)
    BY <1>5
  <2>4. QED
    BY <1>5, <2>1, <2>2, <2>3
<1>7. ASSUME NEW a \in Addresses \ {t} PROVE Edges(h2, a) = Edges(h, a)
  <2>1. h2[a] = h[a] /\ a \in Addresses
    BY <1>1
  <2>2. CASE h[a].tt = "upval"
    <3>1. UpValue(h2, a) = UpValue(h, a)
      <4>1. CASE IsOpen(h, a)
        <5>1. h[a].at[1] \in Addresses
          BY <2>1, <4>1 DEF Sound, OpenAt
        <5>2. h2[h[a].at[1]].stack = h[h[a].at[1]].stack /\ IsOpen(h2, a)
          BY <1>1, <1>5, <2>1, <4>1, <5>1 DEF IsOpen
        <5>3. QED
          BY <2>1, <4>1, <5>2 DEF UpValue
      <4>2. CASE ~IsOpen(h, a)
        BY <2>1, <4>2 DEF UpValue, IsOpen
      <4>3. QED
        BY <4>1, <4>2
    <3>2. Edges(h, a) = {UpValue(h, a)} \cap Addresses
      BY <2>2, EdgesOf
    <3>3. Edges(h2, a) = {UpValue(h2, a)} \cap Addresses
      BY <2>1, <2>2, EdgesOf
    <3>4. QED
      BY <3>1, <3>2, <3>3
  <2>3. CASE h[a].tt # "upval"
    BY <2>1, <2>3 DEF Edges, Keyed, StrongRefs
  <2>4. QED
    BY <2>2, <2>3
<1>8. Writes(h, h2, {v})
  BY <1>1, <1>4, <1>5, <1>6, <1>7 DEF Writes
<1>9. QED
  BY <1>1, <1>5, <1>7, <1>8 DEF ResumedWritten

\* A thread gets another one as its resumed coroutine, and a thread a value.
Switches(h, k, t, r, b, s, v) == k = [h EXCEPT ![t].resumed = r, ![b].stack[s] = v]

LEMMA Switched ==
  ASSUME NEW t \in Addresses, NEW r, NEW b \in Addresses, NEW s, NEW v,
         Steady(heap), heap[t].tt = "thread", heap[b].tt = "thread",
         r \in Addresses => r \in Good(heap), v \in Addresses => v \in Good(heap),
         Switches(heap, heap', t, r, b, s, v)
  PROVE  /\ Steady(heap') /\ Good(heap') = Good(heap)
         /\ \A a \in Addresses :
              /\ heap'[a].tt = heap[a].tt
              /\ a # t /\ heap[a].tt = "thread" => heap'[a].resumed = heap[a].resumed
         /\ heap'[t].resumed = r
<1> DEFINE h == [heap EXCEPT ![t].resumed = r]
<1>1. heap' = [h EXCEPT ![b].stack[s] = v]
  BY DEF Switches
<1>2. PutsResumed(heap, h, t, r)
  BY DEF PutsResumed
<1> HIDE DEF h
<1>3. PutsSlot(h, heap', b, s, v)
  BY <1>1 DEF PutsSlot
<1>4. ResumedWritten(heap, h, t, r)
  BY <1>2, ResumedWrites DEF Steady
<1>5. /\ Writes(heap, h, {r}) /\ h[t].resumed = r
      /\ \A a \in Addresses \ {t} : h[a] = heap[a]
      /\ \A a \in Addresses : heap[a].tt # "thread" /\ ~IsOpen(heap, a) => Edges(h, a) = Edges(heap, a)
  BY <1>4 DEF ResumedWritten
<1>6. Steady(h) /\ Good(h) = Good(heap)
  BY <1>5, ThreadWrite
<1>7. Sound(h) /\ h[b].tt = "thread"
  BY <1>5, <1>6 DEF Steady, Writes
<1>8. /\ Writes(h, heap', {v})
      /\ \A a \in Addresses :
           /\ h[a].tt # "thread" /\ ~IsOpen(h, a) => Edges(heap', a) = Edges(h, a)
           /\ h[a].tt = "thread" => heap'[a].resumed = h[a].resumed
  BY <1>3, <1>7, SlotWrites
<1>9. Steady(heap') /\ Good(heap') = Good(h)
  <2>1. v \in Addresses => v \in Good(h)
    BY <1>6
  <2>2. QED
    BY <1>6, <1>8, <2>1, ThreadWrite
<1>10. \A a \in Addresses : h[a].tt = heap[a].tt /\ heap'[a].tt = h[a].tt
  BY <1>5, <1>8 DEF Writes
<1>11. QED
  BY <1>5, <1>6, <1>8, <1>9, <1>10

LEMMA SteadyStep ==
  ASSUME LiveInv, Scripted, UNCHANGED <<gray, grayagain, weak>>, Steady(heap'),
         RunningInv(heap', running')
  PROVE  LiveInv'
<1>1. /\ mode = "script" /\ mode' = mode /\ gcstate' = gcstate /\ unswept' = unswept
      /\ tmudata' = tmudata /\ gray' = gray /\ grayagain' = grayagain /\ weak' = weak
  BY DEF Scripted
<1>2. QED
  BY <1>1, CalmStep DEF Steady

LEMMA LiveResume ==
  ASSUME LiveInv, NEW s \in Slots, NEW v \in Range(heap[L].stack), Resume(s, v)
  PROVE  LiveInv'
<1> DEFINE co == heap[L].stack[s]
           n == Len(running)
           run == Append(running, co)
<1>1. /\ co \in InSlots({"thread"}) /\ co \notin Range(running) /\ running' = run /\ Scripted
      /\ UNCHANGED <<gray, grayagain, weak>>
      /\ Switches(heap, heap', L, co, co, 1, v)
  BY DEF Resume, Switches
<1>2. Fine(heap) /\ Sound(heap) /\ RunningInv(heap, running)
  BY <1>1, FineNow DEF Fine, Scripted
<1>3. L \in Addresses /\ L \in Good(heap) /\ heap[L].tt = "thread"
  BY <1>2, RunningThread
<1>4. co \in Addresses /\ co \in Good(heap) /\ heap[co].tt = "thread"
  BY <1>1, <1>2, InReach DEF InSlots
<1>5. v \in Addresses => v \in Good(heap)
  BY <1>2, InReach
<1>6. /\ n \in Nat /\ n >= 1 /\ running \in Seq(Addresses) /\ running[1] = Main /\ L = running[n]
      /\ \A i, j \in 1 .. n : running[i] = running[j] => i = j
      /\ \A i \in 1 .. n : running[i] \in Good(heap) /\ heap[running[i]].tt = "thread"
                           /\ running[i] \in Addresses
      /\ \A t \in Addresses : heap[t].tt = "thread" =>
           /\ \A i \in 1 .. n - 1 : t = running[i] => heap[t].resumed = running[i + 1]
           /\ (\A i \in 1 .. n - 1 : t # running[i]) => heap[t].resumed = Nil
  BY <1>2 DEF RunningInv, L, Last
<1>7. \A S \in SUBSET Addresses :
        Main \in S /\ ResumedIn(heap, S) => \A i \in 1 .. n : running[i] \in S
  BY <1>2 DEF RunningInv
<1>8. \A i \in 1 .. n : running[i] # co
  <2>1. DOMAIN running = 1 .. n
    BY <1>6
  <2> HIDE DEF co, n, run
  <2>2. QED
    BY <1>1, <2>1 DEF Range
<1>9. run \in Seq(Addresses) /\ Len(run) = n + 1 /\ run[n + 1] = co /\ \A i \in 1 .. n : run[i] = running[i]
  BY <1>4, <1>6
<1> HIDE DEF co, run, n
<1>10. /\ Steady(heap') /\ Good(heap') = Good(heap)
       /\ \A a \in Addresses :
            /\ heap'[a].tt = heap[a].tt
            /\ a # L /\ heap[a].tt = "thread" => heap'[a].resumed = heap[a].resumed
       /\ heap'[L].resumed = co
  <2>1. Steady(heap)
    BY <1>2 DEF Fine, Steady
  <2>2. QED
    BY <1>1, <1>3, <1>4, <1>5, <2>1, Switched
<1>11. \A i, j \in 1 .. n + 1 : run[i] = run[j] => i = j
  <2> SUFFICES ASSUME NEW i \in 1 .. n + 1, NEW j \in 1 .. n + 1, run[i] = run[j] PROVE i = j
    OBVIOUS
  <2>1. CASE i \in 1 .. n /\ j \in 1 .. n
    BY <1>6, <1>9, <2>1
  <2>2. CASE i = n + 1 /\ j \in 1 .. n
    BY <1>8, <1>9, <2>2
  <2>3. CASE j = n + 1 /\ i \in 1 .. n
    BY <1>8, <1>9, <2>3
  <2>4. QED
    BY <1>6, <2>1, <2>2, <2>3
<1>12. \A i \in 1 .. n + 1 : run[i] \in Good(heap') /\ heap'[run[i]].tt = "thread"
  <2> TAKE i \in 1 .. n + 1
  <2>1. CASE i \in 1 .. n
    BY <1>6, <1>9, <1>10, <2>1
  <2>2. CASE i = n + 1
    BY <1>4, <1>9, <1>10, <2>2
  <2>3. QED
    BY <1>6, <2>1, <2>2
<1>13. ASSUME NEW t \in Addresses, heap'[t].tt = "thread"
       PROVE  /\ \A i \in 1 .. (n + 1) - 1 : t = run[i] => heap'[t].resumed = run[i + 1]
              /\ (\A i \in 1 .. (n + 1) - 1 : t # run[i]) => heap'[t].resumed = Nil
  <2>1. heap[t].tt = "thread"
    BY <1>10, <1>13
  <2>2. ASSUME NEW i \in 1 .. n, t = run[i] PROVE heap'[t].resumed = run[i + 1]
    <3>1. CASE i = n
      BY <1>6, <1>9, <1>10, <2>2, <3>1
    <3>2. CASE i \in 1 .. n - 1
      <4>1. heap[t].resumed = running[i + 1] /\ t # running[n] /\ i + 1 \in 1 .. n
        BY <1>6, <1>9, <2>1, <2>2, <3>2
      <4>2. QED
        BY <1>6, <1>9, <1>10, <2>1, <4>1
    <3>3. QED
      BY <1>6, <3>1, <3>2
  <2>3. ASSUME \A i \in 1 .. n : t # run[i] PROVE heap'[t].resumed = Nil
    <3>1. t # L /\ \A i \in 1 .. n - 1 : t # running[i]
      BY <1>6, <1>9, <2>3
    <3>2. QED
      BY <1>6, <1>10, <2>1, <3>1
  <2>4. QED
    BY <1>6, <2>2, <2>3
<1>14. ASSUME NEW S \in SUBSET Addresses, Main \in S, ResumedIn(heap', S)
       PROVE  \A i \in 1 .. n + 1 : run[i] \in S
  <2> DEFINE T == S \cap {running[j] : j \in 1 .. n}
  <2>1. Main \in T /\ T \in SUBSET Addresses
    BY <1>6, <1>14
  <2>2. ASSUME NEW a \in T, heap[a].tt = "thread" PROVE {heap[a].resumed} \cap Addresses \subseteq T
    <3>1. PICK j \in 1 .. n : a = running[j]
      OBVIOUS
    <3>2. a \in Addresses /\ a \in S
      BY <2>1
    <3>3. CASE j = n
      <4>1. \A i \in 1 .. n - 1 : a # running[i]
        BY <1>6, <3>1, <3>3
      <4>2. heap[a].resumed = Nil
        BY <1>6, <2>2, <3>2, <4>1
      <4>3. QED
        BY <4>2, ValuesAssumption
    <3>4. CASE j \in 1 .. n - 1
      <4>1. heap[a].resumed = running[j + 1] /\ j + 1 \in 1 .. n /\ a # L
        BY <1>6, <2>2, <3>1, <3>2, <3>4
      <4>2. heap'[a].resumed = heap[a].resumed /\ heap'[a].tt = "thread"
        BY <1>10, <2>2, <3>2, <4>1
      <4>3. {heap'[a].resumed} \cap Addresses \subseteq S
        BY <1>14, <3>2, <4>2 DEF ResumedIn
      <4>4. QED
        BY <4>1, <4>2, <4>3
    <3>5. QED
      BY <1>6, <3>3, <3>4
  <2>3. ResumedIn(heap, T)
    BY <2>2 DEF ResumedIn
  <2>4. \A i \in 1 .. n : running[i] \in T
    BY <1>7, <2>1, <2>3
  <2>5. \A i \in 1 .. n : running[i] \in S
    BY <2>4
  <2>6. co \in S
    <3>1. L \in S
      BY <1>6, <2>5
    <3>2. heap'[L].tt = "thread" /\ heap'[L].resumed = co
      BY <1>3, <1>10
    <3>3. QED
      BY <1>4, <1>14, <3>1, <3>2 DEF ResumedIn
  <2> TAKE i \in 1 .. n + 1
  <2>7. i \in 1 .. n \/ i = n + 1
    BY <1>6
  <2>8. QED
    BY <1>9, <2>5, <2>6, <2>7
<1>15. RunningInv(heap', run)
  BY <1>6, <1>9, <1>11, <1>12, <1>13, <1>14 DEF RunningInv
<1>16. QED
  BY <1>1, <1>10, <1>15, SteadyStep

LEMMA LiveYield ==
  ASSUME LiveInv, NEW s, Yield(s)
  PROVE  LiveInv'
<1> DEFINE n == Len(running)
           run == Front(running)
           from == Last(run)
<1>1. /\ running' = run /\ Scripted /\ n > 1
      /\ UNCHANGED <<gray, grayagain, weak>>
      /\ Switches(heap, heap', from, Nil, from, s, heap[L].stack[1])
  BY DEF Yield, Switches
<1>2. Fine(heap) /\ Sound(heap) /\ RunningInv(heap, running)
  BY <1>1, FineNow DEF Fine, Scripted
<1>3. L \in Addresses /\ L \in Good(heap) /\ heap[L].tt = "thread"
  BY <1>2, RunningThread
<1>4. heap[L].stack[1] \in Addresses => heap[L].stack[1] \in Good(heap)
  <2>1. 1 \in DOMAIN heap[L].stack
    BY <1>2, <1>3 DEF Sound, Typed, WellFormed
  <2>2. heap[L].stack[1] \in Range(heap[L].stack)
    BY <2>1 DEF Range
  <2>3. QED
    BY <1>2, <2>2, InReach
<1>6. /\ n \in Nat /\ n >= 1 /\ running \in Seq(Addresses) /\ running[1] = Main /\ L = running[n]
      /\ \A i, j \in 1 .. n : running[i] = running[j] => i = j
      /\ \A i \in 1 .. n : running[i] \in Good(heap) /\ heap[running[i]].tt = "thread"
                           /\ running[i] \in Addresses
      /\ \A t \in Addresses : heap[t].tt = "thread" =>
           /\ \A i \in 1 .. n - 1 : t = running[i] => heap[t].resumed = running[i + 1]
           /\ (\A i \in 1 .. n - 1 : t # running[i]) => heap[t].resumed = Nil
  BY <1>2 DEF RunningInv, L, Last
<1>7. \A S \in SUBSET Addresses :
        Main \in S /\ ResumedIn(heap, S) => \A i \in 1 .. n : running[i] \in S
  BY <1>2 DEF RunningInv
<1>8. run \in Seq(Addresses) /\ Len(run) = n - 1 /\ \A i \in 1 .. n - 1 : run[i] = running[i]
  <2>1. run = SubSeq(running, 1, Len(running) - 1)
    BY DEF Front
  <2>2. running \in Seq(Addresses) /\ Len(running) \in Nat /\ Len(running) > 1
    BY <1>1, <1>6
  <2> HIDE DEF run
  <2>3. QED
    BY <2>1, <2>2
<1>9. from = running[n - 1] /\ n - 1 \in 1 .. n
  <2>1. n \in Nat /\ n > 1
    BY <1>1, <1>6
  <2> HIDE DEF run, n
  <2>2. n - 1 \in 1 .. n - 1 /\ from = run[n - 1]
    BY <1>8, <2>1 DEF Last
  <2> HIDE DEF from
  <2>3. QED
    BY <1>8, <2>1, <2>2
<1> HIDE DEF run, n, from
<1>10. /\ Steady(heap') /\ Good(heap') = Good(heap)
       /\ \A a \in Addresses :
            /\ heap'[a].tt = heap[a].tt
            /\ a # from /\ heap[a].tt = "thread" => heap'[a].resumed = heap[a].resumed
       /\ heap'[from].resumed = Nil
  <2>1. Steady(heap)
    BY <1>2 DEF Fine, Steady
  <2>2. from \in Addresses /\ heap[from].tt = "thread"
    BY <1>6, <1>9
  <2>3. QED
    BY <1>1, <1>4, <2>1, <2>2, ValuesAssumption, Switched
<1>11. \A i, j \in 1 .. n - 1 : run[i] = run[j] => i = j
  BY <1>6, <1>8
<1>12. \A i \in 1 .. n - 1 : run[i] \in Good(heap') /\ heap'[run[i]].tt = "thread"
  BY <1>6, <1>8, <1>10
<1>13. ASSUME NEW t \in Addresses, heap'[t].tt = "thread"
       PROVE  /\ \A i \in 1 .. (n - 1) - 1 : t = run[i] => heap'[t].resumed = run[i + 1]
              /\ (\A i \in 1 .. (n - 1) - 1 : t # run[i]) => heap'[t].resumed = Nil
  <2>1. heap[t].tt = "thread"
    BY <1>10, <1>13
  <2>2. ASSUME NEW i \in 1 .. (n - 1) - 1, t = run[i] PROVE heap'[t].resumed = run[i + 1]
    <3>1. i \in 1 .. n - 1 /\ i + 1 \in 1 .. n - 1 /\ i \in 1 .. n /\ i # n - 1
      BY <1>6, <2>2
    <3>2. heap[t].resumed = running[i + 1] /\ t # from
      BY <1>6, <1>8, <1>9, <2>1, <2>2, <3>1
    <3>3. QED
      BY <1>8, <1>10, <2>1, <3>1, <3>2
  <2>3. ASSUME \A i \in 1 .. (n - 1) - 1 : t # run[i] PROVE heap'[t].resumed = Nil
    <3>1. CASE t = from
      BY <1>10, <3>1
    <3>2. CASE t # from
      <4>1. \A i \in 1 .. n - 1 : t # running[i]
        <5> SUFFICES ASSUME NEW i \in 1 .. n - 1, t = running[i] PROVE FALSE
          OBVIOUS
        <5>1. i = n - 1 \/ i \in 1 .. (n - 1) - 1
          BY <1>6
        <5>2. QED
          BY <1>8, <1>9, <2>3, <3>2, <5>1
      <4>2. QED
        BY <1>6, <1>10, <2>1, <3>2, <4>1
    <3>3. QED
      BY <3>1, <3>2
  <2>4. QED
    BY <2>2, <2>3
<1>14. ASSUME NEW S \in SUBSET Addresses, Main \in S, ResumedIn(heap', S)
       PROVE  \A i \in 1 .. n - 1 : run[i] \in S
  <2> DEFINE T == (S \cap {running[j] : j \in 1 .. n - 1}) \cup {L}
  <2>1. Main \in T /\ T \in SUBSET Addresses
    <3>1. 1 \in 1 .. n - 1
      BY <1>1, <1>6
    <3>2. QED
      BY <1>3, <1>6, <1>14, <3>1
  <2>2. ASSUME NEW a \in T, heap[a].tt = "thread" PROVE {heap[a].resumed} \cap Addresses \subseteq T
    <3>1. CASE a = L
      <4>1. \A i \in 1 .. n - 1 : a # running[i]
        BY <1>6, <3>1
      <4>2. heap[a].resumed = Nil
        BY <1>3, <1>6, <2>2, <3>1, <4>1
      <4>3. QED
        BY <4>2, ValuesAssumption
    <3>2. CASE a # L
      <4>1. a \in S /\ a \in Addresses /\ \E j \in 1 .. n - 1 : a = running[j]
        BY <2>1, <3>2
      <4>2. PICK j \in 1 .. n - 1 : a = running[j]
        BY <4>1
      <4>3. heap[a].resumed = running[j + 1]
        BY <1>6, <2>2, <4>1, <4>2
      <4>4. CASE j = n - 1
        <5>1. j + 1 = n
          BY <1>6, <4>4
        <5>2. heap[a].resumed = L
          BY <1>6, <4>3, <5>1
        <5>3. QED
          BY <5>2
      <4>5. CASE j # n - 1
        <5>1. j + 1 \in 1 .. n - 1 /\ j \in 1 .. n
          BY <1>6, <4>5
        <5>2. a # from
          BY <1>6, <1>9, <4>2, <4>5, <5>1
        <5>3. heap'[a].resumed = heap[a].resumed /\ heap'[a].tt = "thread"
          BY <1>10, <2>2, <4>1, <5>2
        <5>4. {heap'[a].resumed} \cap Addresses \subseteq S
          BY <1>14, <4>1, <5>3 DEF ResumedIn
        <5>5. QED
          BY <4>3, <5>1, <5>3, <5>4
      <4>6. QED
        BY <4>4, <4>5
    <3>3. QED
      BY <3>1, <3>2
  <2>3. ResumedIn(heap, T)
    BY <2>2 DEF ResumedIn
  <2>4. \A i \in 1 .. n : running[i] \in T
    BY <1>7, <2>1, <2>3
  <2> TAKE i \in 1 .. n - 1
  <2>5. i \in 1 .. n /\ n \in 1 .. n /\ i # n
    BY <1>6
  <2>6. running[i] \in T /\ running[i] # L
    BY <1>6, <2>4, <2>5
  <2>7. QED
    BY <1>8, <2>6
<1>15. RunningInv(heap', run)
  <2>1. n - 1 >= 1 /\ run[1] = Main
    BY <1>1, <1>6, <1>8
  <2>2. QED
    BY <1>8, <1>11, <1>12, <1>13, <1>14, <2>1 DEF RunningInv
<1>16. QED
  BY <1>1, <1>10, <1>15, SteadyStep

-----------------------------------------------------------------------------
\* The start of a cycle, and the marking of one gray object.

\* A sweep of these objects, whose threads are not the place of an open upvalue when dead.
LEMMA SweptRetains ==
  ASSUME NEW h, NEW as, Sound(h),
         \A u \in Addresses : IsOpen(h, u) /\ h[u].at[1] \in as => h[h[u].at[1]].col # "dead"
  PROVE  LET k == Swept(h, as)
         IN /\ Retains(h, k)
            /\ \A a \in Addresses \ as : k[a] = h[a]
            /\ \A a \in as \cap Addresses :
                 k[a].tt = "free" \/ (h[a].col # "dead" /\ Same(h[a], k[a]) /\ k[a].col = "white")
<1> DEFINE dead == {a \in as : h[a].col = "dead"}
           c == Color(h, as, "white")
           k == Swept(h, as)
<1>1. DOMAIN k = Addresses /\ \A a \in Addresses : k[a] = IF a \in dead THEN Free ELSE c[a]
  BY DEF Swept
<1>2. \A a \in Addresses \ as : c[a] = h[a] /\ a \notin dead
  BY DEF Color
<1>3. Painted(h, as, "white", c)
  BY ColorPaints DEF Sound
<1>4. \A a \in Addresses : a \in dead <=> a \in as /\ h[a].col = "dead"
  OBVIOUS
<1> HIDE DEF dead, c, k
<1>30. /\ Typed(c)
       /\ \A a \in Addresses :
            /\ Same(h[a], c[a])
            /\ h[a].tt # "free" => c[a].col = IF a \in as THEN "white" ELSE h[a].col
  BY <1>3 DEF Painted
<1>5. WellFormed(Free) /\ Free.tt = "free"
  BY DEF WellFormed, Free
<1>6. Typed(k)
  BY <1>1, <1>30, <1>5 DEF Typed
<1>7. \A a \in Addresses \ as : k[a] = h[a]
  BY <1>1, <1>2
<1>8. \A a \in Addresses : (IsOpen(c, a) <=> IsOpen(h, a)) /\ Edges(c, a) = Edges(h, a)
  BY <1>30, SameEdges DEF Sound
<1>9. ASSUME NEW a \in Addresses, a \notin dead
      PROVE  /\ k[a] = c[a] /\ (IsOpen(k, a) <=> IsOpen(h, a)) /\ Edges(k, a) = Edges(h, a)
             /\ IsOpen(h, a) => k[h[a].at[1]].tt = "thread"
  <2>1. k[a] = c[a] /\ (IsOpen(k, a) <=> IsOpen(h, a))
    BY <1>1, <1>8, <1>9 DEF IsOpen
  <2>2. ASSUME IsOpen(h, a)
        PROVE  h[a].at[1] \in Addresses /\ k[h[a].at[1]] = c[h[a].at[1]]
               /\ k[h[a].at[1]].tt = "thread"
    <3>1. h[a].at[1] \in Addresses /\ h[h[a].at[1]].tt = "thread"
      BY <2>2 DEF Sound, OpenAt
    <3>2. h[a].at[1] \notin dead
      BY <1>4, <2>2, <3>1
    <3>3. QED
      BY <1>1, <1>30, <3>1, <3>2 DEF Same
  <2>3. h[a].tt = "upval" => UpValue(k, a) = UpValue(c, a)
    <3>1. CASE IsOpen(h, a)
      <4>1. c[a].at = h[a].at /\ IsOpen(c, a)
        BY <1>30, <1>8, <3>1 DEF Same, IsOpen
      <4>2. QED
        BY <2>1, <2>2, <3>1, <4>1 DEF UpValue
    <3>2. CASE ~IsOpen(h, a)
      BY <1>8, <2>1, <3>2 DEF UpValue
    <3>3. QED
      BY <3>1, <3>2
  <2>4. Edges(k, a) = Edges(c, a)
    <3>1. c[a].tt = h[a].tt
      BY <1>30 DEF Same
    <3>2. CASE h[a].tt = "upval"
      <4>1. Edges(c, a) = {UpValue(c, a)} \cap Addresses
        BY <3>1, <3>2, EdgesOf
      <4>2. Edges(k, a) = {UpValue(k, a)} \cap Addresses
        BY <2>1, <3>1, <3>2, EdgesOf
      <4>3. QED
        BY <2>3, <3>2, <4>1, <4>2
    <3>3. CASE h[a].tt # "upval"
      BY <2>1, <3>1, <3>3 DEF Edges, Keyed, StrongRefs
    <3>4. QED
      BY <3>2, <3>3
  <2>5. QED
    BY <1>8, <2>1, <2>2, <2>4
<1>10. \A a \in dead : a \in Addresses => k[a].tt = "free" /\ h[a].col = "dead"
  BY <1>1, <1>4, <1>5
<1>11. ASSUME NEW a \in Addresses, k[a].tt # "free"
       PROVE  /\ k[a].tt = h[a].tt /\ (k[a].col = "dead" <=> h[a].col = "dead")
              /\ Edges(k, a) \subseteq Edges(h, a)
              /\ k[a].tt = "function" => k[a].up = h[a].up
              /\ k[a].tt = "thread" => k[a].stack = h[a].stack /\ k[a].resumed = h[a].resumed
  <2>1. a \notin dead
    BY <1>10, <1>11
  <2>2. k[a] = c[a] /\ Edges(k, a) = Edges(h, a)
    BY <1>9, <2>1
  <2>3. k[a].tt = h[a].tt /\ (k[a].tt = "function" => k[a].up = h[a].up)
        /\ (k[a].tt = "thread" => k[a].stack = h[a].stack /\ k[a].resumed = h[a].resumed)
    <3>1. Same(h[a], c[a])
      BY <1>30
    <3>2. QED
      BY <1>11, <2>2, <3>1 DEF Same
  <2>4. k[a].col = "dead" <=> h[a].col = "dead"
    BY <1>30, <1>4, <1>11, <2>1, <2>2, <2>3
  <2>5. QED
    BY <2>2, <2>3, <2>4
<1>12. ASSUME NEW a \in Addresses, k[a].tt = "free" PROVE h[a].tt = "free" \/ h[a].col = "dead"
  <2>1. CASE a \in dead
    BY <1>10, <2>1
  <2>2. CASE a \notin dead
    BY <1>30, <1>9, <1>12, <2>2 DEF Same
  <2>3. QED
    BY <2>1, <2>2
<1>13. ASSUME NEW a \in Addresses, IsOpen(k, a)
       PROVE  /\ IsOpen(h, a) /\ k[a].at = h[a].at /\ k[a].col # "black"
              /\ k[h[a].at[1]].tt = "thread"
  <2>1. a \notin dead
    BY <1>10, <1>13 DEF IsOpen
  <2>2. k[a] = c[a] /\ IsOpen(h, a) /\ k[h[a].at[1]].tt = "thread"
    BY <1>9, <1>13, <2>1
  <2>3. k[a].at = h[a].at /\ k[a].col \in {"white", h[a].col} /\ h[a].col # "black"
    BY <1>30, <2>2 DEF Same, IsOpen, Sound, OpenAt
  <2>4. QED
    BY <2>2, <2>3
<1>14. Retains(h, k)
  BY <1>6, <1>11, <1>12, <1>13 DEF Retains
<1>15. ASSUME NEW a \in as \cap Addresses
       PROVE  k[a].tt = "free" \/ (h[a].col # "dead" /\ Same(h[a], k[a]) /\ k[a].col = "white")
  <2>1. CASE a \in dead
    BY <1>10, <2>1
  <2>2. CASE a \notin dead
    <3>1. k[a] = c[a] /\ h[a].col # "dead" /\ Same(h[a], k[a])
      BY <1>30, <1>4, <1>9, <2>2
    <3>2. h[a].tt # "free" => k[a].col = "white"
      BY <1>30, <3>1
    <3>3. QED
      BY <3>1, <3>2 DEF Same
  <2>3. QED
    BY <2>1, <2>2
<1>16. QED
  BY <1>7, <1>14, <1>15 DEF k

LEMMA LiveStart ==
  ASSUME FinalInv, LiveInv, StartCycle
  PROVE  LiveInv'
<1> DEFINE g == [heap |-> heap, gray |-> {}, again |-> {}, weak |-> {}]
           r == mark(g, {Main})
<1>1. /\ Collects /\ gcstate \in {"pause", "finalize"} /\ gcstate' = "propagate" /\ mode' # "closed"
      /\ heap' = r.heap /\ gray' = r.gray /\ grayagain' = r.again /\ weak' = r.weak
      /\ running' = running /\ mode # "closed"
  BY DEF StartCycle, TakeLists, Rooted, Collects
<1>2. Sound(heap) /\ RunningInv(heap, running)
      /\ \A a \in Allocated(heap) : heap[a].col # "white" => a \in tmudata
  BY <1>1 DEF LiveInv, Coloured
<1>3. Listed(g) /\ g.heap = heap /\ g.gray = {} /\ g.again = {} /\ g.weak = {}
  BY DEF Listed
<1>4. \A u \in tmudata : heap[u].tt = "userdata" /\ heap[u].col # "dead" /\ Edges(heap, u) = {}
  <2> TAKE u \in tmudata
  <2>1. heap[u].tt = "userdata" /\ heap[u].col # "dead"
    BY DEF FinalInv, Final, WithFinalizer
  <2>2. Edges(heap, u) = {}
    BY <2>1, EdgesOf
  <2>3. QED
    BY <2>1, <2>2
<1>5. NoneDead(heap)
  BY <1>2, <1>4 DEF NoneDead
<1>6. \A a \in Allocated(heap) \ White(heap) : a \in tmudata
  BY <1>2 DEF White, Allocated
<1> HIDE DEF g
<1>7. /\ Retains(heap, r.heap) /\ Tricolor(r.heap, r.gray, r.again, r.weak)
      /\ {Main} \cap White(r.heap) = {}
  <2>1. /\ Sound(g.heap) /\ NoneDead(g.heap) /\ g.gray \subseteq Traversable(g.heap)
        /\ \A a \in Allocated(g.heap) \ White(g.heap) :
             /\ g.heap[a].tt = "thread" => a \in g.gray \cup g.again
             /\ a \notin g.gray \cup g.again \cup g.weak /\ ~IsOpen(g.heap, a) =>
                  /\ Edges(g.heap, a) \cap White(g.heap) \subseteq {Main}
                  /\ g.heap[a].tt \in {"table", "upval"} => g.heap[a].col = "black"
                  /\ g.heap[a].tt = "table" => g.heap[a].mode = {}
    BY <1>2, <1>3, <1>4, <1>5, <1>6
  <2>2. Retains(g.heap, r.heap) /\ Tricolor(r.heap, r.gray, r.again, r.weak)
        /\ {Main} \cap White(r.heap) = {}
    BY <1>3, <2>1, MarkTricolor
  <2>3. QED
    BY <1>3, <2>2
<1> HIDE DEF r
<1>8. Sound(r.heap) /\ RunningInv(r.heap, running)
  BY <1>2, <1>7, RetainsSound, RetainsRunning
<1>9. QED
  BY <1>1, <1>7, <1>8 DEF LiveInv, Coloured

\* The traversal of one object.
LEMMA CleanedObject ==
  ASSUME NEW h, NEW a \in Addresses, NEW k, Sound(h), NoneDead(h), h[a].tt \in {"table", "function", "thread"},
         LET o == h[a]
             isweak == o.tt = "table" /\ o.mode # {}
             cleaned == IF Forgets(o) THEN [o EXCEPT !.key = Nil] ELSE o
             col == IF isweak \/ o.tt = "thread" THEN "gray" ELSE "black"
         IN Puts(h, k, a, [cleaned EXCEPT !.col = col])
  PROVE  /\ Retains(h, k) /\ \A b \in Addresses \ {a} : k[b] = h[b] /\ Edges(k, b) = Edges(h, b)
         /\ k[a].tt = h[a].tt /\ k[a].col \in {"gray", "black"} /\ ~IsOpen(h, a)
         /\ h[a].tt = "table" => k[a].mode = h[a].mode
         /\ h[a].tt \notin {"thread"} /\ ~(h[a].tt = "table" /\ h[a].mode # {}) =>
              Edges(k, a) \subseteq StrongRefs(h, a) /\ k[a].col = "black"
<1> DEFINE o == h[a]
           isweak == o.tt = "table" /\ o.mode # {}
           cleaned == IF Forgets(o) THEN [o EXCEPT !.key = Nil] ELSE o
           col == IF isweak \/ o.tt = "thread" THEN "gray" ELSE "black"
           p == [cleaned EXCEPT !.col = col]
<1>1. Puts(h, k, a, p)
  OBVIOUS
<1>2. WellFormed(o) /\ o.tt \in {"table", "function", "thread"}
  BY DEF Sound, Typed
<1>3. WellFormed(cleaned) /\ cleaned.tt = o.tt
      /\ (o.tt = "table" => /\ cleaned.val = o.val /\ cleaned.mode = o.mode
                            /\ cleaned.key = IF Forgets(o) THEN Nil ELSE o.key)
      /\ (o.tt # "table" => cleaned = o)
  <2>1. CASE Forgets(o)
    <3> DEFINE q == [o EXCEPT !.key = Nil]
    <3>1. {"tt", "col", "key", "val", "mode"} \subseteq DOMAIN o
          /\ o.col \in {"white", "gray", "black", "dead"}
      BY <1>2, <2>1 DEF WellFormed, Forgets
    <3>2. DOMAIN q = DOMAIN o /\ q.tt = "table" /\ q.col = o.col /\ q.val = o.val
          /\ q.mode = o.mode /\ q.key = Nil
      BY <2>1, <3>1 DEF Forgets
    <3>3. cleaned = q
      BY <2>1
    <3> HIDE DEF q, cleaned, o
    <3>4. QED
      BY <2>1, <3>1, <3>2, <3>3 DEF WellFormed, Forgets
  <2>2. CASE ~Forgets(o)
    BY <1>2, <2>2
  <2>3. QED
    BY <2>1, <2>2
<1>4. col \in {"gray", "black"} /\ (o.tt # "thread" /\ ~isweak => col = "black")
  OBVIOUS
<1> HIDE DEF cleaned, col
<1>5. WellFormed(p) /\ Same(cleaned, p) /\ p.col = col
  BY <1>2, <1>3, <1>4, ColorObject
<1> HIDE DEF p
<1>6. DOMAIN k = Addresses /\ k[a] = p /\ \A b \in Addresses \ {a} : k[b] = h[b]
  BY <1>1 DEF Puts, Sound, Typed
<1>7. p.tt = o.tt
      /\ (o.tt = "table" => /\ p.val = o.val /\ p.mode = o.mode
                            /\ p.key = IF Forgets(o) THEN Nil ELSE o.key)
      /\ (o.tt = "function" => p.up = o.up)
      /\ (o.tt = "thread" => p.stack = o.stack /\ p.resumed = o.resumed)
  BY <1>3, <1>5 DEF Same
<1>8. ASSUME NEW b \in Addresses \ {a} PROVE Edges(k, b) = Edges(h, b)
  <2>1. k[b] = h[b] /\ b \in Addresses
    BY <1>6
  <2>2. CASE h[b].tt = "upval"
    <3>1. UpValue(k, b) = UpValue(h, b)
      <4>1. CASE IsOpen(h, b)
        <5>1. h[b].at[1] \in Addresses /\ h[h[b].at[1]].tt = "thread"
          BY <2>1, <4>1 DEF Sound, OpenAt
        <5>2. k[h[b].at[1]].stack = h[h[b].at[1]].stack /\ IsOpen(k, b)
          BY <1>6, <1>7, <2>1, <4>1, <5>1 DEF IsOpen
        <5>3. QED
          BY <2>1, <4>1, <5>2 DEF UpValue
      <4>2. CASE ~IsOpen(h, b)
        BY <2>1, <4>2 DEF UpValue, IsOpen
      <4>3. QED
        BY <4>1, <4>2
    <3>2. Edges(h, b) = {UpValue(h, b)} \cap Addresses
      BY <2>2, EdgesOf
    <3>3. Edges(k, b) = {UpValue(k, b)} \cap Addresses
      BY <2>1, <2>2, EdgesOf
    <3>4. QED
      BY <3>1, <3>2, <3>3
  <2>3. CASE h[b].tt # "upval"
    BY <2>1, <2>3 DEF Edges, Keyed, StrongRefs
  <2>4. QED
    BY <2>2, <2>3
<1>9. Edges(k, a) \subseteq Edges(h, a)
      /\ (o.tt # "thread" /\ ~isweak => Edges(k, a) \subseteq StrongRefs(h, a))
  <2>1. CASE o.tt = "table"
    <3>1. /\ Edges(k, a) = IF Keyed(p) THEN {p.key, p.val} \cap Addresses ELSE {}
          /\ Edges(h, a) = IF Keyed(o) THEN {o.key, o.val} \cap Addresses ELSE {}
          /\ Keyed(p) <=> Keyed(o)
      BY <1>6, <1>7, <2>1, EdgesOf DEF Keyed
    <3>2. CASE o.val = Nil
      <4>1. Keyed(p) => p.key = Nil /\ p.val = Nil
        BY <1>7, <2>1, <3>2 DEF Keyed, Forgets
      <4>2. QED
        BY <3>1, <4>1, ValuesAssumption
    <3>3. CASE o.val # Nil
      <4>1. Edges(k, a) = Edges(h, a)
        BY <1>7, <2>1, <3>1, <3>3 DEF Forgets
      <4>2. ~isweak => StrongRefs(h, a) = Edges(h, a)
        BY <2>1, <3>3, StrongEdges
      <4>3. QED
        BY <4>1, <4>2
    <3>4. QED
      BY <3>2, <3>3
  <2>2. CASE o.tt = "function"
    <3>1. Edges(k, a) = {k[a].up} \cap Addresses
      BY <1>6, <1>7, <2>2, EdgesOf
    <3>2. Edges(h, a) = {h[a].up} \cap Addresses
      BY <2>2, EdgesOf
    <3>3. StrongRefs(h, a) = Edges(h, a)
      BY <2>2, StrongEdges
    <3>4. QED
      BY <1>6, <1>7, <2>2, <3>1, <3>2, <3>3
  <2>3. CASE o.tt = "thread"
    <3>1. Edges(k, a) = (Range(k[a].stack) \cup {k[a].resumed}) \cap Addresses
      BY <1>6, <1>7, <2>3, EdgesOf
    <3>2. Edges(h, a) = (Range(h[a].stack) \cup {h[a].resumed}) \cap Addresses
      BY <2>3, EdgesOf
    <3>3. k[a].stack = h[a].stack /\ k[a].resumed = h[a].resumed
      BY <1>6, <1>7, <2>3
    <3>4. QED
      BY <2>3, <3>1, <3>2, <3>3
  <2>4. QED
    BY <1>2, <2>1, <2>2, <2>3
<1>10. o.col # "dead"
  BY <1>2 DEF NoneDead, Allocated
<1>11. Retains(h, k)
  <2>1. Typed(k)
    BY <1>5, <1>6 DEF Typed, Sound
  <2>2. ASSUME NEW b \in Addresses
        PROVE  /\ k[b].tt # "free" =>
                    /\ k[b].tt = h[b].tt /\ (k[b].col = "dead" <=> h[b].col = "dead")
                    /\ Edges(k, b) \subseteq Edges(h, b)
                    /\ k[b].tt = "function" => k[b].up = h[b].up
                    /\ k[b].tt = "thread" => k[b].stack = h[b].stack /\ k[b].resumed = h[b].resumed
               /\ k[b].tt = "free" => h[b].tt = "free" \/ h[b].col = "dead"
    <3>1. CASE b = a
      BY <1>4, <1>5, <1>6, <1>7, <1>9, <1>10, <3>1
    <3>2. CASE b # a
      BY <1>6, <1>8, <3>2
    <3>3. QED
      BY <3>1, <3>2
  <2>3. ASSUME NEW b \in Addresses, IsOpen(k, b)
        PROVE  /\ IsOpen(h, b) /\ k[b].at = h[b].at /\ k[b].col # "black"
               /\ k[h[b].at[1]].tt = "thread"
    <3>1. b # a /\ k[b] = h[b] /\ IsOpen(h, b)
      BY <1>2, <1>6, <1>7, <2>3 DEF IsOpen
    <3>2. h[b].at[1] \in Addresses /\ h[h[b].at[1]].tt = "thread" /\ h[b].col # "black"
      BY <3>1 DEF Sound, OpenAt
    <3>3. k[h[b].at[1]].tt = "thread"
      BY <1>6, <1>7, <3>2
    <3>4. QED
      BY <3>1, <3>2, <3>3
  <2>4. QED
    BY <2>1, <2>2, <2>3 DEF Retains
<1>12. ~IsOpen(h, a)
  BY <1>2 DEF IsOpen
<1>13. QED
  BY <1>4, <1>5, <1>6, <1>7, <1>8, <1>9, <1>11, <1>12

LEMMA LivePropagate ==
  ASSUME LiveInv, Propagate
  PROVE  LiveInv'
<1>1. /\ Collects /\ gcstate = "propagate" /\ gcstate' = gcstate /\ running' = running
      /\ mode' = mode /\ mode # "closed"
  BY DEF Propagate, Collects
<1>2. Sound(heap) /\ RunningInv(heap, running) /\ Main \notin White(heap)
      /\ Tricolor(heap, gray, grayagain, weak)
  BY <1>1 DEF LiveInv, Coloured
<1>3. PICK a \in gray : TakeLists(propagatemark(Lists, a))
  BY DEF Propagate
<1> DEFINE o == heap[a]
           isweak == o.tt = "table" /\ o.mode # {}
           cleaned == IF Forgets(o) THEN [o EXCEPT !.key = Nil] ELSE o
           col == IF isweak \/ o.tt = "thread" THEN "gray" ELSE "black"
           k == [heap EXCEPT ![a] = [cleaned EXCEPT !.col = col]]
           g == [heap |-> k, gray |-> gray \ {a},
                 again |-> IF o.tt = "thread" THEN grayagain \cup {a} ELSE grayagain,
                 weak |-> IF isweak THEN weak \cup {a} ELSE weak]
           values == StrongRefs(heap, a)
           r == mark(g, values)
<1>4. heap' = r.heap /\ gray' = r.gray /\ grayagain' = r.again /\ weak' = r.weak
  BY <1>3, ListsListed DEF TakeLists, propagatemark
<1>5. a \in Addresses /\ o.tt \in {"table", "function", "thread"} /\ NoneDead(heap)
      /\ gray \subseteq Traversable(heap)
  BY <1>2 DEF Tricolor, Traversable
<1>6. Puts(heap, k, a, [cleaned EXCEPT !.col = col])
  BY DEF Puts
<1>7. Listed(g) /\ g.heap = k /\ g.gray = gray \ {a}
      /\ g.again = (IF o.tt = "thread" THEN grayagain \cup {a} ELSE grayagain)
      /\ g.weak = (IF isweak THEN weak \cup {a} ELSE weak)
  BY DEF Listed
<1> HIDE DEF k
<1>8. /\ Retains(heap, k)
      /\ \A b \in Addresses \ {a} : k[b] = heap[b] /\ Edges(k, b) = Edges(heap, b)
      /\ k[a].tt = o.tt /\ k[a].col \in {"gray", "black"} /\ ~IsOpen(heap, a)
      /\ o.tt = "table" => k[a].mode = o.mode
      /\ o.tt # "thread" /\ ~isweak => Edges(k, a) \subseteq values /\ k[a].col = "black"
  BY <1>2, <1>5, <1>6, CleanedObject
<1> HIDE DEF g, cleaned, col, values
<1>9. Sound(k) /\ RunningInv(k, running)
  BY <1>2, <1>8, RetainsSound, RetainsRunning
<1>10. /\ NoneDead(k) /\ White(k) \subseteq White(heap)
       /\ \A b \in Addresses : k[b].tt = heap[b].tt
  <2>1. \A b \in Addresses : k[b].tt = heap[b].tt
    BY <1>8
  <2>2. NoneDead(k)
    BY <1>5, <1>8, <2>1 DEF NoneDead, Allocated
  <2>3. White(k) \subseteq White(heap)
    BY <1>8, <2>1 DEF White
  <2>4. QED
    BY <2>1, <2>2, <2>3
<1>11. g.gray \subseteq Traversable(g.heap)
  BY <1>5, <1>7, <1>10 DEF Traversable
<1>12. ASSUME NEW b \in Allocated(k) \ White(k)
       PROVE  /\ k[b].tt = "thread" => b \in g.gray \cup g.again
              /\ b \notin g.gray \cup g.again \cup g.weak /\ ~IsOpen(k, b) =>
                   /\ Edges(k, b) \cap White(k) \subseteq values
                   /\ k[b].tt \in {"table", "upval"} => k[b].col = "black"
                   /\ k[b].tt = "table" => k[b].mode = {}
  <2>1. b \in Addresses
    BY DEF Allocated
  <2>2. CASE b = a
    BY <1>5, <1>7, <1>8, <2>2
  <2>3. CASE b # a
    <3>1. k[b] = heap[b] /\ Edges(k, b) = Edges(heap, b) /\ (IsOpen(k, b) <=> IsOpen(heap, b))
      BY <1>8, <2>1, <2>3 DEF IsOpen
    <3>2. b \in Allocated(heap) \ White(heap)
      BY <1>12, <2>1, <3>1 DEF Allocated, White
    <3>3. k[b].tt = "thread" => b \in g.gray \cup g.again
      BY <1>2, <1>7, <2>3, <3>1, <3>2 DEF Tricolor
    <3>4. b \notin g.gray \cup g.again \cup g.weak => b \notin gray \cup grayagain \cup weak
      BY <1>7, <2>3
    <3>5. QED
      BY <1>2, <1>10, <3>1, <3>2, <3>3, <3>4 DEF Tricolor
  <2>4. QED
    BY <2>2, <2>3
<1>13. /\ Retains(k, r.heap) /\ Tricolor(r.heap, r.gray, r.again, r.weak)
       /\ White(r.heap) \subseteq White(k)
  <2>1. /\ Sound(g.heap) /\ NoneDead(g.heap)
        /\ \A b \in Allocated(g.heap) \ White(g.heap) :
             /\ g.heap[b].tt = "thread" => b \in g.gray \cup g.again
             /\ b \notin g.gray \cup g.again \cup g.weak /\ ~IsOpen(g.heap, b) =>
                  /\ Edges(g.heap, b) \cap White(g.heap) \subseteq values
                  /\ g.heap[b].tt \in {"table", "upval"} => g.heap[b].col = "black"
                  /\ g.heap[b].tt = "table" => g.heap[b].mode = {}
    BY <1>7, <1>9, <1>10, <1>12
  <2>2. /\ Retains(g.heap, r.heap) /\ Tricolor(r.heap, r.gray, r.again, r.weak)
        /\ White(r.heap) \subseteq White(g.heap)
    BY <1>7, <1>11, <2>1, MarkTricolor
  <2>3. QED
    BY <1>7, <2>2
<1> HIDE DEF r
<1>14. Sound(r.heap) /\ RunningInv(r.heap, running) /\ Main \notin White(r.heap)
  BY <1>2, <1>9, <1>10, <1>13, RetainsSound, RetainsRunning
<1>15. QED
  BY <1>1, <1>4, <1>13, <1>14 DEF LiveInv, Coloured

-----------------------------------------------------------------------------
\* The sweeps of the strings and of the other objects.

LEMMA LiveSweepString ==
  ASSUME FinalInv, LiveInv, SweepString
  PROVE  LiveInv'
<1>1. /\ Collects /\ gcstate = "sweepstring" /\ running' = running /\ mode' = mode
      /\ mode # "closed" /\ tmudata' = tmudata
  BY DEF SweepString, Collects
<1>2. Sound(heap) /\ RunningInv(heap, running) /\ unswept \subseteq Strings(heap)
      /\ \A a \in Strings(heap) : heap[a].col # "white" => a \in unswept
  BY <1>1 DEF LiveInv, Coloured
<1>3. CASE unswept = {}
  <2>1. heap' = heap /\ gcstate' = "sweep" /\ unswept' = rootgc(heap)
    BY <1>3 DEF SweepString
  <2>2. ASSUME NEW a \in Allocated(heap), heap[a].col # "white"
        PROVE  a \in unswept' \cup tmudata' \/ (IsOpen(heap, a) /\ heap[a].at[1] \in unswept')
    <3>1. a \notin Strings(heap)
      BY <1>2, <1>3, <2>2
    <3>2. CASE ~IsOpen(heap, a)
      BY <1>1, <2>1, <3>1, <3>2 DEF rootgc
    <3>3. CASE IsOpen(heap, a)
      <4> DEFINE t == heap[a].at[1]
      <4>1. a \in Addresses
        BY DEF Allocated
      <4>2. t \in Addresses /\ heap[t].tt = "thread"
        BY <1>2, <3>3, <4>1 DEF Sound, OpenAt
      <4> HIDE DEF t
      <4>3. t \notin tmudata
        BY <4>2 DEF FinalInv, Final, WithFinalizer
      <4>4. t \in rootgc(heap)
        BY <4>2, <4>3 DEF rootgc, Allocated, Strings, IsOpen
      <4>5. QED
        BY <2>1, <3>3, <4>4 DEF t
    <3>4. QED
      BY <3>2, <3>3
  <2>3. QED
    BY <1>1, <1>2, <2>1, <2>2 DEF LiveInv, Coloured
<1>4. CASE unswept # {}
  <2>1. PICK a \in unswept : heap' = Swept(heap, {a}) /\ unswept' = unswept \ {a}
    BY <1>4 DEF SweepString
  <2>2. gcstate' = gcstate
    BY <1>4 DEF SweepString
  <2>3. a \in Addresses /\ heap[a].tt = "string"
    BY <1>2 DEF Strings, Allocated
  <2>4. \A u \in Addresses : IsOpen(heap, u) /\ heap[u].at[1] \in {a} => heap[heap[u].at[1]].col # "dead"
    BY <1>2, <2>3 DEF Sound, OpenAt
  <2>5. /\ Retains(heap, heap')
        /\ \A b \in Addresses \ {a} : heap'[b] = heap[b]
        /\ heap'[a].tt = "free" \/ heap'[a].col = "white"
    <3> DEFINE k == Swept(heap, {a})
    <3>1. /\ Retains(heap, k)
          /\ \A b \in Addresses \ {a} : k[b] = heap[b]
          /\ \A b \in {a} \cap Addresses :
                 k[b].tt = "free" \/ (heap[b].col # "dead" /\ Same(heap[b], k[b]) /\ k[b].col = "white")
      BY <1>2, <2>4, SweptRetains
    <3> HIDE DEF k
    <3>2. QED
      BY <2>1, <2>3, <3>1 DEF k
  <2>6. Sound(heap') /\ RunningInv(heap', running)
    BY <1>2, <2>5, RetainsSound, RetainsRunning
  <2>7. unswept' \subseteq Strings(heap')
    BY <1>2, <2>1, <2>5 DEF Strings, Allocated
  <2>8. \A b \in Strings(heap') : heap'[b].col # "white" => b \in unswept'
    BY <1>2, <2>1, <2>5 DEF Strings, Allocated
  <2>9. QED
    BY <1>1, <2>2, <2>6, <2>7, <2>8 DEF LiveInv, Coloured
<1>5. QED
  BY <1>3, <1>4

LEMMA LiveSweep ==
  ASSUME FinalInv, LiveInv, Sweep
  PROVE  LiveInv'
<1>1. /\ Collects /\ gcstate = "sweep" /\ running' = running /\ mode' = mode
      /\ mode # "closed" /\ tmudata' = tmudata
  BY DEF Sweep, Collects
<1>2. Sound(heap) /\ RunningInv(heap, running)
      /\ \A a \in Allocated(heap) : heap[a].col # "white" =>
           a \in unswept \cup tmudata \/ (IsOpen(heap, a) /\ heap[a].at[1] \in unswept)
  BY <1>1 DEF LiveInv, Coloured
<1>3. CASE unswept = {}
  <2>1. heap' = heap /\ gcstate' = "finalize" /\ unswept' = {}
    BY <1>3 DEF Sweep
  <2>2. \A a \in Allocated(heap) : heap[a].col # "white" => a \in tmudata
    BY <1>2, <1>3
  <2>3. QED
    BY <1>1, <1>2, <2>1, <2>2 DEF LiveInv, Coloured
<1>4. CASE unswept # {}
  <2>1. PICK a \in unswept :
          /\ LET h == Swept(heap, OpenUpvals(heap, a))
                 left == IF IsDead(a) THEN OpenUpvals(h, a) ELSE {}
             IN heap' = Swept(luaF_close([Lists EXCEPT !.heap = h], left).heap, {a})
          /\ unswept' = unswept \ {a}
    BY <1>4 DEF Sweep
  <2>2. gcstate' = gcstate
    BY <1>4 DEF Sweep
  <2> DEFINE opens == OpenUpvals(heap, a)
             h1 == Swept(heap, opens)
             left == IF IsDead(a) THEN OpenUpvals(h1, a) ELSE {}
             g == [Lists EXCEPT !.heap = h1]
             h2 == luaF_close(g, left).heap
             h3 == Swept(h2, {a})
  <2>3. heap' = h3
    BY <2>1
  <2>4. \A u \in opens : u \in Addresses /\ IsOpen(heap, u) /\ heap[u].at[1] = a /\ heap[u].tt = "upval"
    BY DEF OpenUpvals, IsOpen
  <2>5. \A u \in left : u \in Addresses /\ IsOpen(h1, u) /\ h1[u].at[1] = a
    BY DEF OpenUpvals
  <2>6. IsDead(a) => \A u \in Addresses : IsOpen(h1, u) /\ h1[u].at[1] = a => u \in left
    BY DEF OpenUpvals
  <2>7. Listed(g) /\ g.heap = h1
    <3> HIDE DEF h1
    <3>1. QED
      BY ListsWith
  <2>8. \A u \in Addresses : IsOpen(heap, u) /\ heap[u].at[1] = a => u \in opens
    BY DEF OpenUpvals
  <2> HIDE DEF opens
  <2>9. /\ Retains(heap, h1)
        /\ \A b \in Addresses \ opens : h1[b] = heap[b]
        /\ \A b \in opens : h1[b].tt = "free" \/ h1[b].col = "white"
    <3>1. \A u \in Addresses : IsOpen(heap, u) /\ heap[u].at[1] \in opens =>
            heap[heap[u].at[1]].col # "dead"
      BY <1>2, <2>4 DEF Sound, OpenAt
    <3>2. /\ Retains(heap, h1)
          /\ \A b \in Addresses \ opens : h1[b] = heap[b]
          /\ \A b \in opens \cap Addresses :
                 h1[b].tt = "free" \/ (heap[b].col # "dead" /\ Same(heap[b], h1[b]) /\ h1[b].col = "white")
      BY <1>2, <3>1, SweptRetains
    <3> HIDE DEF h1
    <3>3. QED
      BY <2>4, <3>2
  <2> HIDE DEF h1, left, g
  <2>10. Sound(h1)
    BY <1>2, <2>9, RetainsSound
  <2>11. ClosedHeap(h1, left, "white", h2)
    <3>1. Sound(g.heap) /\ \A u \in left : u \in Addresses /\ IsOpen(g.heap, u)
      BY <2>5, <2>7, <2>10
    <3>2. ClosedHeap(g.heap, left, "white", luaF_close(g, left).heap)
      BY <1>1, <2>7, <3>1, ClosesIdle
    <3>3. QED
      BY <2>7, <3>2
  <2> HIDE DEF h2
  <2>12. Calm(h1, h2) /\ Retains(h1, h2)
    <3>1. Calm(h1, h2)
      BY <2>5, <2>10, <2>11, ClosedCalm
    <3>2. QED
      BY <2>11, <3>1 DEF ClosedHeap
  <2>13. Retains(heap, h2) /\ Sound(h2)
    BY <1>2, <2>9, <2>12, RetainsTrans, RetainsSound
  <2>14. ASSUME NEW u \in Addresses, IsOpen(h2, u), h2[u].at[1] \in {a}
         PROVE  h2[h2[u].at[1]].col # "dead"
    <3>1. a \in Addresses /\ h2[a].tt = "thread"
      BY <2>13, <2>14 DEF Sound, OpenAt
    <3>2. h2[a].col = "dead" <=> IsDead(a)
      BY <2>13, <3>1 DEF Retains, IsDead
    <3>3. IsOpen(h1, u) /\ h1[u].at[1] = a
      BY <2>12, <2>14 DEF Retains
    <3>4. u \notin left
      BY <2>11, <2>14 DEF ClosedHeap, IsOpen
    <3>5. QED
      BY <2>6, <2>14, <3>2, <3>3, <3>4
  <2>15. /\ Retains(h2, h3)
         /\ \A b \in Addresses \ {a} : h3[b] = h2[b]
         /\ a \in Addresses => h3[a].tt = "free" \/ h3[a].col = "white"
    <3>1. /\ Retains(h2, h3)
          /\ \A b \in Addresses \ {a} : h3[b] = h2[b]
          /\ \A b \in {a} \cap Addresses :
                 h3[b].tt = "free" \/ (h2[b].col # "dead" /\ Same(h2[b], h3[b]) /\ h3[b].col = "white")
      BY <2>13, <2>14, SweptRetains
    <3> HIDE DEF h3
    <3>2. QED
      BY <3>1
  <2> HIDE DEF h3
  <2>16. Sound(h3) /\ RunningInv(h3, running)
    <3>1. Retains(heap, h3)
      BY <2>13, <2>15, RetainsTrans
    <3>2. QED
      BY <1>2, <3>1, RetainsSound, RetainsRunning
  <2>17. ASSUME NEW b \in Allocated(h3), h3[b].col # "white"
         PROVE  b \in unswept' \cup tmudata' \/ (IsOpen(h3, b) /\ h3[b].at[1] \in unswept')
    <3>1. b \in Addresses \ {a} /\ h3[b] = h2[b] /\ h2[b].tt # "free" /\ h2[b].col # "white"
      BY <2>15, <2>17 DEF Allocated
    <3>2. /\ h1[b].tt # "free" /\ h1[b].col # "white"
          /\ IsOpen(h1, b) => IsOpen(h2, b) /\ h2[b].at = h1[b].at
      BY <2>12, <3>1 DEF Calm
    <3>3. b \notin opens /\ h1[b] = heap[b]
      BY <2>9, <3>1, <3>2
    <3>4. b \in Allocated(heap) /\ heap[b].col # "white"
      BY <3>1, <3>2, <3>3 DEF Allocated
    <3>5. CASE b \in unswept \cup tmudata
      BY <1>1, <2>1, <3>1, <3>5
    <3>6. CASE IsOpen(heap, b) /\ heap[b].at[1] \in unswept
      <4>1. heap[b].at[1] # a
        BY <2>8, <3>1, <3>3, <3>6
      <4>2. IsOpen(h1, b)
        BY <3>3, <3>6 DEF IsOpen
      <4>3. IsOpen(h3, b) /\ h3[b].at[1] = heap[b].at[1]
        BY <3>1, <3>2, <3>3, <4>2 DEF IsOpen
      <4>4. QED
        BY <2>1, <3>6, <4>1, <4>3
    <3>7. QED
      BY <1>2, <3>4, <3>5, <3>6
  <2>18. QED
    BY <1>1, <2>2, <2>3, <2>16, <2>17 DEF LiveInv, Coloured
<1>5. QED
  BY <1>3, <1>4

-----------------------------------------------------------------------------
\* The other steps: the change of state, finalizers, free and close; the initial state.

LEMMA LiveStates ==
  ASSUME LiveInv, EndCycle \/ FullGC
  PROVE  LiveInv'
<1>1. heap' = heap /\ running' = running /\ mode # "closed" /\ tmudata' = tmudata /\ Collects
  BY DEF EndCycle, FullGC, Collects
<1>2. Sound(heap) /\ RunningInv(heap, running) /\ Coloured
  BY <1>1 DEF LiveInv
<1>3. CASE EndCycle
  <2>1. gcstate = "finalize" /\ gcstate' = "pause"
    BY <1>3 DEF EndCycle
  <2>2. \A a \in Allocated(heap) : heap[a].col # "white" => a \in tmudata
    BY <1>2, <2>1 DEF Coloured
  <2>3. QED
    BY <1>1, <1>2, <2>1, <2>2 DEF LiveInv, Coloured
<1>4. CASE FullGC /\ gcstate \in {"pause", "propagate"}
  <2>1. gcstate' = "sweepstring" /\ unswept' = Strings(heap)
    BY <1>4 DEF FullGC
  <2>2. QED
    BY <1>1, <1>2, <2>1 DEF LiveInv, Coloured
<1>5. CASE FullGC /\ gcstate \notin {"pause", "propagate"}
  <2>1. UNCHANGED <<gray, grayagain, weak, gcstate, unswept>>
    BY <1>5 DEF FullGC
  <2>2. QED
    BY <1>1, <1>2, <2>1 DEF LiveInv, Coloured
<1>6. QED
  BY <1>3, <1>4, <1>5

LEMMA LiveCall ==
  ASSUME FinalInv, LiveInv, GCTM
  PROVE  LiveInv'
<1>1. PICK u \in tmudata :
        /\ LET o == [heap[u] EXCEPT !.col = "white", !.calls = @ + 1]
               h == [heap EXCEPT ![u] = o]
           IN heap' \in {h} \cup {SetSlot(h, s, u) : s \in Slots}
        /\ tmudata' = tmudata \ {u}
  BY DEF GCTM
<1>2. running' = running /\ mode' = mode /\ gcstate' = gcstate /\ mode # "closed"
      /\ (Collects => gcstate = "finalize")
  BY DEF GCTM, Collects
<1>3. Sound(heap) /\ RunningInv(heap, running) /\ (Collects => Coloured)
  BY <1>2 DEF LiveInv
<1> DEFINE o == [heap[u] EXCEPT !.col = "white", !.calls = @ + 1]
           h == [heap EXCEPT ![u] = o]
<1>4. heap' = h \/ \E s : heap' = SetSlot(h, s, u)
  BY <1>1
<1>5. u \in Addresses /\ heap[u].tt = "userdata" /\ heap[u].col # "dead"
  BY DEF FinalInv, Final, WithFinalizer
<1>6. WellFormed(heap[u])
  BY <1>3, <1>5 DEF Sound, Typed
<1>7. WellFormed(o) /\ Same(heap[u], o) /\ o.tt = "userdata" /\ o.col = "white"
  <2>1. {"tt", "col"} \subseteq DOMAIN heap[u]
    BY <1>5, <1>6 DEF WellFormed
  <2>2. DOMAIN o = DOMAIN heap[u] /\ o.tt = "userdata" /\ o.col = "white"
    BY <1>5, <2>1
  <2> HIDE DEF o
  <2>3. QED
    BY <1>5, <2>1, <2>2 DEF WellFormed, Same
<1>8. DOMAIN h = Addresses /\ h[u] = o /\ \A a \in Addresses \ {u} : h[a] = heap[a]
  BY <1>3, <1>5 DEF Sound, Typed
<1> HIDE DEF h, o
<1>9. Retains(heap, h)
  <2>1. Typed(h)
    BY <1>3, <1>7, <1>8 DEF Sound, Typed
  <2>2. ASSUME NEW a \in Addresses
        PROVE  /\ Same(heap[a], h[a])
               /\ heap[a].tt # "free" => (h[a].col = "dead" <=> heap[a].col = "dead")
               /\ IsOpen(heap, a) => h[a].col # "black"
    <3>1. CASE a = u
      BY <1>5, <1>7, <1>8, <3>1
    <3>2. CASE a # u
      <4>1. h[a] = heap[a]
        BY <1>8, <3>2
      <4>2. IsOpen(heap, a) => heap[a].col # "black"
        BY <1>3 DEF Sound, OpenAt
      <4>3. QED
        BY <4>1, <4>2 DEF Same
    <3>3. QED
      BY <3>1, <3>2
  <2>3. QED
    BY <1>3, <2>1, <2>2, SameRetains
<1>10. Sound(h) /\ RunningInv(h, running)
  BY <1>3, <1>9, RetainsSound, RetainsRunning
<1>11. u \in Good(h)
  BY <1>5, <1>7, <1>8 DEF Good, Allocated
<1>12. Sound(heap') /\ RunningInv(heap', running) /\ Calm(h, heap')
  <2>1. CASE heap' = h
    BY <1>10, <2>1, CalmSelf
  <2>2. ASSUME NEW s, heap' = SetSlot(h, s, u)
        PROVE  Sound(heap') /\ RunningInv(heap', running) /\ Calm(h, heap')
    <3> DEFINE k == heap'
    <3>1. PutsSlot(h, k, L, s, u)
      BY <2>2 DEF PutsSlot, SetSlot
    <3>2. L \in Addresses /\ h[L].tt = "thread" /\ Sound(h)
      BY <1>10, RunningThread
    <3> HIDE DEF k
    <3>3. /\ Writes(h, k, {u})
          /\ \A a \in Addresses :
               /\ h[a].tt # "thread" /\ ~IsOpen(h, a) => Edges(k, a) = Edges(h, a)
               /\ h[a].tt = "thread" => k[a].resumed = h[a].resumed
      BY <3>1, <3>2, SlotWrites
    <3>4. {u} \cap Addresses \subseteq Good(h)
      BY <1>11
    <3>5. QED
      <4>1. Sound(k) /\ RunningInv(k, running) /\ Calm(h, k)
        BY <1>10, <3>3, <3>4, WritesSound, WritesRunning, WritesCalm
      <4>2. QED
        BY <4>1 DEF k
  <2>3. QED
    BY <1>4, <2>1, <2>2
<1>13. ASSUME Collects PROVE Coloured'
  <2>1. gcstate' = "finalize" /\ \A a \in Allocated(heap) : heap[a].col # "white" => a \in tmudata
    BY <1>2, <1>3, <1>13 DEF Coloured
  <2>2. ASSUME NEW a \in Allocated(heap'), heap'[a].col # "white" PROVE a \in tmudata'
    <3>1. a \in Addresses /\ h[a].tt # "free" /\ h[a].col # "white"
      BY <1>12, <2>2 DEF Calm, Allocated
    <3>2. a # u /\ a \in Allocated(heap) /\ heap[a].col # "white"
      BY <1>7, <1>8, <3>1 DEF Allocated
    <3>3. QED
      BY <1>1, <2>1, <3>2
  <2>3. QED
    BY <2>1, <2>2 DEF Coloured
<1>14. QED
  BY <1>2, <1>12, <1>13 DEF LiveInv, Collects

LEMMA FinalizedSame ==
  ASSUME NEW h, NEW us, NEW k, k = Finalized(h, us), Typed(h)
  PROVE  /\ Typed(k)
         /\ \A a \in Addresses :
              Same(h[a], k[a]) /\ (h[a].tt # "free" => k[a].col = h[a].col)
<1>1. DOMAIN k = Addresses
  BY DEF Finalized
<1>2. ASSUME NEW a \in Addresses
      PROVE  WellFormed(k[a]) /\ Same(h[a], k[a]) /\ (h[a].tt # "free" => k[a].col = h[a].col)
  <2>1. WellFormed(h[a])
    BY DEF Typed
  <2>2. CASE h[a].tt = "userdata" /\ a \in us
    <3> DEFINE o == [h[a] EXCEPT !.finalized = TRUE]
    <3>1. k[a] = o
      BY <2>2 DEF Finalized
    <3>2. {"tt", "col"} \subseteq DOMAIN h[a] /\ h[a].col \in {"white", "gray", "black", "dead"}
      BY <2>1, <2>2 DEF WellFormed
    <3>3. DOMAIN o = DOMAIN h[a] /\ o.tt = "userdata" /\ o.col = h[a].col
      BY <2>2, <3>2
    <3> HIDE DEF o
    <3>4. QED
      BY <2>2, <3>1, <3>2, <3>3 DEF WellFormed, Same
  <2>3. CASE ~(h[a].tt = "userdata" /\ a \in us)
    <3>1. k[a] = h[a]
      BY <2>3 DEF Finalized
    <3>2. QED
      BY <2>1, <3>1 DEF Same
  <2>4. QED
    BY <2>2, <2>3
<1>3. QED
  BY <1>1, <1>2 DEF Typed

LEMMA LiveClose ==
  ASSUME LiveInv, Close
  PROVE  LiveInv'
<1> DEFINE us == OpenUpvals(heap, Main)
           h == luaF_close(Lists, us).heap
<1>1. /\ mode = "script" /\ mode' = "closing" /\ running' = running
      /\ heap' = Finalized(h, Addresses)
  BY DEF Close
<1>2. Sound(heap) /\ RunningInv(heap, running) /\ Coloured
  BY <1>1 DEF LiveInv, Collects
<1>3. \A u \in us : u \in Addresses /\ IsOpen(heap, u)
  BY DEF OpenUpvals
<1> HIDE DEF us
<1>4. Retains(heap, h)
  <2>1. CASE gcstate = "propagate"
    BY <1>2, <1>3, <2>1, ListsListed, ClosesMarking DEF Coloured
  <2>2. CASE gcstate # "propagate"
    <3>1. ClosedHeap(heap, us, "white", h)
      BY <1>2, <1>3, <2>2, ListsListed, ClosesIdle
    <3>2. QED
      BY <3>1 DEF ClosedHeap
  <2>3. QED
    BY <2>1, <2>2
<1> HIDE DEF h
<1>5. Sound(h)
  BY <1>2, <1>4, RetainsSound
<1>6. /\ Typed(heap')
      /\ \A a \in Addresses :
           Same(h[a], heap'[a]) /\ (h[a].tt # "free" => heap'[a].col = h[a].col)
  <2>1. Typed(h)
    BY <1>5 DEF Sound
  <2>2. QED
    BY <1>1, <2>1, FinalizedSame
<1>7. \A a \in Addresses : IsOpen(h, a) => heap'[a].col # "black"
  BY <1>5, <1>6 DEF Sound, OpenAt, IsOpen
<1>8. Retains(h, heap')
  BY <1>5, <1>6, <1>7, SameRetains
<1>9. Sound(heap') /\ RunningInv(heap', running)
  BY <1>2, <1>4, <1>8, RetainsTrans, RetainsSound, RetainsRunning
<1>10. QED
  BY <1>1, <1>9 DEF LiveInv, Collects

LEMMA LiveFree ==
  ASSUME FreeAll
  PROVE  LiveInv'
<1>1. mode' = "closed" /\ heap' = [a \in Addresses |-> Free]
  BY DEF FreeAll
<1>2. DOMAIN heap' = Addresses /\ \A a \in Addresses : heap'[a] = Free
  BY <1>1
<1>3. WellFormed(Free) /\ Free.tt = "free"
  BY DEF WellFormed, Free
<1>4. Typed(heap') /\ OpenAt(heap') /\ Closed(heap')
  BY <1>2, <1>3 DEF Typed, OpenAt, IsOpen, Closed, Good, Allocated
<1>5. QED
  BY <1>1, <1>4 DEF LiveInv, Sound, Collects

LEMMA LiveInit == Init => LiveInv
<1> SUFFICES ASSUME Init PROVE LiveInv
  OBVIOUS
<1> DEFINE o == [tt |-> "thread", col |-> "white", resumed |-> Nil,
                 stack |-> [s \in 1 .. script.slots |-> Nil]]
<1>1. /\ DOMAIN heap = Addresses /\ heap[Main] = o /\ Main \in Addresses
      /\ \A a \in Addresses \ {Main} : heap[a] = Free
      /\ gcstate = "pause" /\ running = <<Main>> /\ script \in Scripts
  BY DEF Init, Addresses
<1>2. WellFormed(Free) /\ Free.tt = "free"
  BY DEF WellFormed, Free
<1>3. script.slots \in Nat \ {0}
  BY <1>1, ScriptsAssumption
<1>4. o.tt = "thread" /\ o.col = "white" /\ o.resumed = Nil /\ Range(o.stack) \subseteq {Nil}
      /\ WellFormed(o)
  BY <1>3 DEF WellFormed, Range
<1> HIDE DEF o
<1>5. Typed(heap)
  BY <1>1, <1>2, <1>4 DEF Typed
<1>6. \A a \in Addresses : ~IsOpen(heap, a)
  BY <1>1, <1>2, <1>4 DEF IsOpen
<1>7. Good(heap) = {Main} /\ Allocated(heap) = {Main}
  BY <1>1, <1>2, <1>4 DEF Good, Allocated
<1>8. Edges(heap, Main) = {}
  <2>1. Edges(heap, Main) = (Range(heap[Main].stack) \cup {heap[Main].resumed}) \cap Addresses
    BY <1>1, <1>4, EdgesOf
  <2>2. QED
    BY <1>1, <1>4, <2>1, ValuesAssumption
<1>9. Sound(heap)
  BY <1>1, <1>4, <1>5, <1>6, <1>7, <1>8 DEF Sound, OpenAt, Closed
<1>10. RunningInv(heap, running)
  <2>1. running \in Seq(Addresses) /\ Len(running) = 1 /\ running[1] = Main
    BY <1>1
  <2>2. \A t \in Addresses : heap[t].tt = "thread" => t = Main /\ heap[t].resumed = Nil
    BY <1>1, <1>2, <1>4
  <2>3. \A i \in 1 .. Len(running) : i = 1
    BY <2>1
  <2>4. \A i \in 1 .. Len(running) - 1 : FALSE
    BY <2>1
  <2>5. QED
    BY <1>1, <1>4, <1>7, <2>1, <2>2, <2>3, <2>4 DEF RunningInv
<1>11. Coloured
  BY <1>1, <1>4, <1>7 DEF Coloured
<1>12. QED
  BY <1>9, <1>10, <1>11 DEF LiveInv

-----------------------------------------------------------------------------
\* The atomic step, object by object: recolouring, and clearing the weak entries.

\* What the end of the marking makes of the heap: the objects that are kept are closed under
\* the strong references, what is left of their tables is kept with them or a string, and an
\* entry goes for a reason.
Cleaned(h, k, kept, strings, gone) ==
  /\ kept \subseteq Allocated(h) /\ Main \in kept
  /\ \A a \in kept : StrongRefs(h, a) \subseteq kept
  /\ strings \subseteq Strings(h)
  /\ Typed(k) /\ Good(k) = kept \cup strings
  /\ \A a \in Addresses :
       /\ k[a].tt = h[a].tt
       /\ h[a].tt = "table" /\ a \notin gone => k[a].val = h[a].val
       /\ h[a].tt = "function" => k[a].up = h[a].up
       /\ h[a].tt = "upval" => k[a].at = h[a].at /\ k[a].val = h[a].val
       /\ h[a].tt = "thread" => k[a].stack = h[a].stack /\ k[a].resumed = h[a].resumed
       /\ IsOpen(h, a) => k[a].col # "black"
  /\ \A a \in kept : h[a].tt = "table" => Edges(k, a) \subseteq kept \cup strings
  /\ \A a \in gone \cap kept :
       \/ "k" \in h[a].mode /\ h[a].key \in Addresses \ kept /\ h[h[a].key].tt # "string"
       \/ "v" \in h[a].mode /\ h[a].val \in Addresses \ kept /\ h[h[a].val].tt # "string"
       \/ /\ h[a].val \in Addresses /\ k[h[a].val].tt = "userdata" /\ k[h[a].val].finalized

LEMMA MarkedAllFacts ==
  ASSUME NEW white, NEW values
  PROVE  LET M == MarkedAll(white, values)
         IN /\ values \cap white \subseteq M /\ M \subseteq white
            /\ \A a \in M : StrongRefs(heap, a) \cap white \subseteq M
<1> DEFINE refs == References(heap, white)
           from == values \cap white
           M == Reached(from, white, refs)
<1>1. MarkedAll(white, values) = M
  BY DEF MarkedAll
<1>2. from \subseteq white
  OBVIOUS
<1>3. from \subseteq M /\ M \subseteq white
  <2> HIDE DEF from, refs
  <2>1. QED
    BY <1>2, ReachedBetween
<1>4. \A a \in M : StrongRefs(heap, a) \cap white \subseteq M
  <2> SUFFICES ASSUME NEW a \in M, NEW b \in StrongRefs(heap, a) \cap white
               PROVE  b \in M
    OBVIOUS
  <2>1. a \in white
    BY <1>3
  <2> HIDE DEF from
  <2>2. QED
    BY <2>1, ReachedReferences
<1>5. QED
  BY <1>1, <1>3, <1>4

\* The three changes of colour.
LEMMA Recolored ==
  ASSUME NEW h, NEW grays, NEW blacks, NEW dead, Typed(h), Heaplike(h)
  PROVE  LET k == Color(Color(Color(h, grays, "gray"), blacks, "black"), dead, "dead")
         IN /\ Typed(k)
            /\ \A a \in Addresses :
                 /\ Same(h[a], k[a])
                 /\ h[a].tt # "free" =>
                      k[a].col = IF a \in dead THEN "dead" ELSE IF a \in blacks THEN "black"
                                 ELSE IF a \in grays THEN "gray" ELSE h[a].col
                 /\ h[a].tt = "userdata" => k[a].finalized = h[a].finalized
<1> DEFINE c1 == Color(h, grays, "gray")
           c2 == Color(c1, blacks, "black")
           k == Color(c2, dead, "dead")
<1>1. Painted(h, grays, "gray", c1)
  BY ColorPaints
<1>2. Heaplike(c1) /\ \A a \in Addresses : h[a].tt = "userdata" => c1[a].finalized = h[a].finalized
  BY ColorFields
<1> HIDE DEF c1
<1>3. Typed(c1)
  BY <1>1 DEF Painted
<1>4. Painted(c1, blacks, "black", c2)
  BY <1>3, ColorPaints
<1>5. Heaplike(c2) /\ \A a \in Addresses : c1[a].tt = "userdata" => c2[a].finalized = c1[a].finalized
  BY <1>2, ColorFields
<1> HIDE DEF c2
<1>6. Typed(c2)
  BY <1>4 DEF Painted
<1>7. Painted(c2, dead, "dead", k)
  BY <1>6, ColorPaints
<1>8. \A a \in Addresses : c2[a].tt = "userdata" => k[a].finalized = c2[a].finalized
  BY <1>5, ColorFields
<1> HIDE DEF k
<1>9. ASSUME NEW a \in Addresses
      PROVE  /\ Same(h[a], k[a])
             /\ h[a].tt # "free" =>
                  k[a].col = IF a \in dead THEN "dead" ELSE IF a \in blacks THEN "black"
                             ELSE IF a \in grays THEN "gray" ELSE h[a].col
             /\ h[a].tt = "userdata" => k[a].finalized = h[a].finalized
  <2>1. Same(h[a], c1[a]) /\ (h[a].tt # "free" => c1[a].col = IF a \in grays THEN "gray" ELSE h[a].col)
    BY <1>1 DEF Painted
  <2>2. Same(c1[a], c2[a]) /\ (c1[a].tt # "free" => c2[a].col = IF a \in blacks THEN "black" ELSE c1[a].col)
    BY <1>4 DEF Painted
  <2>3. Same(c2[a], k[a]) /\ (c2[a].tt # "free" => k[a].col = IF a \in dead THEN "dead" ELSE c2[a].col)
    BY <1>7 DEF Painted
  <2>4. Same(h[a], k[a])
    BY <2>1, <2>2, <2>3, SameTrans
  <2>5. c1[a].tt = h[a].tt /\ c2[a].tt = h[a].tt
    BY <2>1, <2>2 DEF Same
  <2>6. QED
    BY <1>2, <1>5, <1>8, <2>1, <2>2, <2>3, <2>4, <2>5
<1>10. Typed(k)
  BY <1>7 DEF Painted
<1>11. QED
  BY <1>9, <1>10 DEF k, c2, c1

LEMMA EntryKept ==
  ASSUME NEW h, NEW white, NEW ws, NEW a \in ws, h[a].val # Nil, a \notin cleartable(h, white, ws).gone
  PROVE  /\ \A x \in {h[a].key, h[a].val} \cap Addresses :
              x \notin white \/ x \in cleartable(h, white, ws).strings
<1> DEFINE full == {b \in ws : h[b].val # Nil}
           locked == {b \in full : ~iscleared(h, white, h[b].key, TRUE)}
           kept == {b \in locked : ~iscleared(h, white, h[b].val, FALSE)}
           seen == {h[b].key : b \in full} \cup {h[b].val : b \in locked}
           strings == {x \in seen \cap Addresses : h[x].tt = "string"}
<1>1. cleartable(h, white, ws).gone = full \ kept /\ cleartable(h, white, ws).strings = strings
  BY DEF cleartable
<1>2. a \in full /\ kept \subseteq locked
  OBVIOUS
<1>3. a \in kept /\ a \in locked
  <2> HIDE DEF full, locked, kept, seen, strings
  <2>1. QED
    BY <1>1, <1>2
<1>4. ~iscleared(h, white, h[a].key, TRUE) /\ ~iscleared(h, white, h[a].val, FALSE)
  BY <1>3
<1>5. h[a].key \in seen /\ h[a].val \in seen
  BY <1>2, <1>3
<1>6. \A x \in {h[a].key, h[a].val} \cap Addresses : x \notin white \/ x \in strings
  BY <1>4, <1>5 DEF iscleared
<1> HIDE DEF full, locked, kept, seen, strings
<1>7. QED
  BY <1>1, <1>6

LEMMA EntryGone ==
  ASSUME NEW h, NEW white, NEW ws, NEW a \in cleartable(h, white, ws).gone
  PROVE  /\ a \in ws /\ h[a].val # Nil
         /\ \/ h[a].key \in Addresses \cap white /\ h[h[a].key].tt # "string"
            \/ h[a].val \in Addresses \cap white /\ h[h[a].val].tt # "string"
            \/ /\ h[a].val \in Addresses /\ h[h[a].val].tt = "userdata" /\ h[h[a].val].finalized
BY DEF cleartable, iscleared

LEMMA ClearedStrings ==
  ASSUME NEW h, NEW white, NEW ws
  PROVE  \A x \in cleartable(h, white, ws).strings : x \in Addresses /\ h[x].tt = "string"
BY DEF cleartable

-----------------------------------------------------------------------------
\* The atomic step as a whole: what marking to the end keeps.

LEMMA AtomicCleans ==
  ASSUME FinalInv, LiveInv, atomic
  PROVE  \E kept, strings, gone : Cleaned(heap, heap', kept, strings, gone)
<1> DEFINE white == White(heap)
           held == {a \in Addresses : IsOpen(heap, a) /\ heap[a].col = "gray"}
           again == grayagain \cup weak
           seeds == {Last(running)} \cup UNION {StrongRefs(heap, a) : a \in held \cup again}
           M1 == MarkedAll(white, seeds)
           white1 == white \ M1
           us == tmudata \cup Separated(heap, white1)
           white2 == white1 \cup us
           M2 == MarkedAll(white2, us)
           white3 == white2 \ M2
           kept == Allocated(heap) \ white3
           tables == {a \in kept : heap[a].tt = "table"}
           traversed == tables \cap (white \cup again)
           emptied == {a \in traversed : Forgets(heap[a])}
           h == Finalized(heap, white1)
           ws == {a \in tables : heap[a].mode # {}}
           cleared == cleartable(h, white3, ws)
           strings == cleared.strings
           gone == cleared.gone
           dead == white3 \ strings
           blacks == {a \in kept : ~StaysGray(heap, a)}
           grays == (kept \cup strings) \ blacks
           colored == Color(Color(Color(h, grays, "gray"), blacks, "black"), dead, "dead")
           k == heap'
<1>1. k = [a \in Addresses |->
             IF a \in gone THEN [colored[a] EXCEPT !.val = Nil, !.key = Nil]
             ELSE IF a \in emptied THEN [colored[a] EXCEPT !.key = Nil]
             ELSE colored[a]]
  BY DEF atomic
<1>2. gcstate = "propagate" /\ gray = {} /\ Collects /\ mode # "closed"
  BY DEF atomic, Collects
<1>3. /\ Sound(heap) /\ RunningInv(heap, running) /\ Main \notin white
      /\ Tricolor(heap, {}, grayagain, weak)
  BY <1>2 DEF LiveInv, Coloured
<1>4. NoneDead(heap) /\ Good(heap) = Allocated(heap)
  BY <1>3 DEF Tricolor, NoneDead, Good
<1>5. \A a \in Allocated(heap) : Edges(heap, a) \subseteq Allocated(heap)
  BY <1>3, <1>4 DEF Sound, Closed
<1>6. white \subseteq Allocated(heap) /\ Allocated(heap) \subseteq Addresses
  BY DEF White, Allocated
<1>7. tmudata \subseteq Allocated(heap) /\ us \subseteq Allocated(heap)
  <2>1. \A u \in tmudata : u \in Addresses /\ heap[u].tt = "userdata"
    BY DEF FinalInv, Final, WithFinalizer
  <2>2. tmudata \subseteq Allocated(heap)
    BY <2>1 DEF Allocated
  <2>3. QED
    BY <1>6, <2>2 DEF Separated
<1>8. /\ seeds \cap white \subseteq M1 /\ M1 \subseteq white
      /\ \A a \in M1 : StrongRefs(heap, a) \cap white \subseteq M1
  <2> HIDE DEF white, seeds, M1
  <2>1. QED
    BY MarkedAllFacts DEF M1
<1>9. /\ us \cap white2 \subseteq M2 /\ M2 \subseteq white2
      /\ \A a \in M2 : StrongRefs(heap, a) \cap white2 \subseteq M2
  <2> HIDE DEF white2, us, M2
  <2>1. QED
    BY MarkedAllFacts DEF M2
<1>10. \A a \in held \cup again : StrongRefs(heap, a) \subseteq seeds
  OBVIOUS
<1>11. ASSUME NEW a \in Allocated(heap) \ white, IsOpen(heap, a) PROVE a \in held
  <2>1. a \in Addresses /\ heap[a].tt = "upval" /\ a \notin White(heap)
    BY <1>6, <1>11 DEF IsOpen
  <2>2. heap[a].col # "black" /\ WellFormed(heap[a])
    BY <1>3, <1>11, <2>1 DEF Sound, OpenAt, Typed
  <2>3. heap[a].col = "gray"
    BY <2>1, <2>2 DEF White, WellFormed
  <2>4. QED
    BY <1>11, <2>1, <2>3
<1>12. /\ white1 = white \ M1 /\ white2 = white1 \cup us /\ white3 = white2 \ M2
       /\ kept = Allocated(heap) \ white3
  OBVIOUS
<1>13. again = grayagain \cup weak
  OBVIOUS
<1>14. strings \subseteq Strings(heap)
  <2>1. \A x \in strings : x \in Addresses /\ h[x].tt = "string"
    <3> HIDE DEF h, white3, ws
    <3>1. QED
      BY ClearedStrings
  <2>2. \A x \in Addresses : h[x].tt = heap[x].tt
    BY FinalizedFields DEF FinalInv
  <2> HIDE DEF h, strings
  <2>3. QED
    BY <2>1, <2>2 DEF Strings, Allocated
<1>15. blacks = {a \in kept : ~StaysGray(heap, a)} /\ grays = (kept \cup strings) \ blacks
       /\ dead = white3 \ strings /\ ws = {a \in tables : heap[a].mode # {}}
       /\ tables = {a \in kept : heap[a].tt = "table"}
       /\ emptied = {a \in tables \cap (white \cup again) : Forgets(heap[a])}
  OBVIOUS
<1> HIDE DEF held, seeds, M1, white1, us, white2, M2, white3, kept, tables, traversed, emptied, white, again
<1>16. white3 \subseteq white1 /\ white3 \subseteq white
  BY <1>9, <1>12
\* What is kept is closed under the strong references.
<1>17. ASSUME NEW a \in kept PROVE StrongRefs(heap, a) \subseteq kept
  <2> SUFFICES ASSUME NEW b \in StrongRefs(heap, a), b \in white3
               PROVE  FALSE
    <3>1. StrongRefs(heap, a) \subseteq Allocated(heap)
      BY <1>5, <1>12, StrongEdges
    <3>2. QED
      BY <1>12, <3>1
  <2>1. CASE a \in M2
    BY <1>9, <1>12, <2>1
  <2>2. CASE a \in M1
    BY <1>8, <1>12, <1>16, <2>2
  <2>3. CASE a \notin M2 /\ a \notin M1
    <3>1. a \in Allocated(heap) \ white
      BY <1>12, <2>3
    <3>2. CASE a \in held \cup again
      BY <1>8, <1>10, <1>12, <1>16, <3>2
    <3>3. CASE a \notin held \cup again
      <4>1. ~IsOpen(heap, a)
        BY <1>11, <3>1, <3>3
      <4>2. Edges(heap, a) \cap white = {}
        BY <1>3, <1>13, <3>1, <3>3, <4>1 DEF Tricolor, white
      <4>3. QED
        BY <1>16, <4>2, StrongEdges
    <3>4. QED
      BY <3>2, <3>3
  <2>4. QED
    BY <2>1, <2>2, <2>3
<1>18. Main \in kept
  <2>1. Main \in Good(heap)
    BY <1>3 DEF RunningInv
  <2>2. QED
    BY <1>3, <1>4, <1>12, <1>16, <2>1
<1>19. /\ Typed(h) /\ Heaplike(h)
       /\ \A a \in Addresses : Same(heap[a], h[a]) /\ (heap[a].tt # "free" => h[a].col = heap[a].col)
  <2>1. Typed(heap) /\ Heaplike(heap)
    BY <1>3 DEF Sound, FinalInv
  <2>2. QED
    BY <2>1, FinalizedSame, FinalizedFields
<1> HIDE DEF h
<1>20. /\ Typed(colored)
       /\ \A a \in Addresses :
            /\ Same(h[a], colored[a])
            /\ h[a].tt # "free" =>
                 colored[a].col = IF a \in dead THEN "dead" ELSE IF a \in blacks THEN "black"
                                  ELSE IF a \in grays THEN "gray" ELSE h[a].col
            /\ h[a].tt = "userdata" => colored[a].finalized = h[a].finalized
  <2> HIDE DEF dead, blacks, grays
  <2>1. QED
    BY <1>19, Recolored
<1> HIDE DEF colored
<1>21. gone \subseteq tables /\ emptied \subseteq tables /\ \A a \in emptied : heap[a].val = Nil
  <2>1. \A a \in gone : a \in ws
    <3> HIDE DEF ws
    <3>1. QED
      BY EntryGone
  <2>2. QED
    BY <1>15, <2>1 DEF Forgets
<1> HIDE DEF strings, gone, cleared, dead, blacks, grays, ws
<1>22. ASSUME NEW a \in Addresses
       PROVE  /\ colored[a].tt = heap[a].tt
              /\ heap[a].tt = "table" => /\ colored[a].val = heap[a].val /\ colored[a].key = heap[a].key
                                         /\ colored[a].mode = heap[a].mode
              /\ heap[a].tt = "function" => colored[a].up = heap[a].up
              /\ heap[a].tt = "upval" => colored[a].at = heap[a].at /\ colored[a].val = heap[a].val
              /\ heap[a].tt = "thread" =>
                   colored[a].stack = heap[a].stack /\ colored[a].resumed = heap[a].resumed
  <2>1. Same(heap[a], h[a]) /\ Same(h[a], colored[a])
    BY <1>19, <1>20
  <2>2. Same(heap[a], colored[a])
    BY <2>1, SameTrans
  <2>3. QED
    BY <2>2 DEF Same
<1>23. ASSUME NEW a \in Addresses
       PROVE  /\ WellFormed(k[a]) /\ k[a].tt = heap[a].tt
              /\ heap[a].tt # "free" => k[a].col = colored[a].col
              /\ heap[a].tt = "table" =>
                   /\ k[a].val = IF a \in gone THEN Nil ELSE heap[a].val
                   /\ k[a].key = IF a \in gone \cup emptied THEN Nil ELSE heap[a].key
                   /\ k[a].mode = heap[a].mode
              /\ heap[a].tt # "table" => k[a] = colored[a]
  <2>1. WellFormed(colored[a])
    BY <1>20 DEF Typed
  <2>2. CASE a \in gone
    <3> DEFINE o == [colored[a] EXCEPT !.val = Nil, !.key = Nil]
    <3>1. heap[a].tt = "table" /\ k[a] = o
      BY <1>1, <1>15, <1>21, <2>2
    <3>2. {"tt", "col", "key", "val", "mode"} \subseteq DOMAIN colored[a]
          /\ colored[a].col \in {"white", "gray", "black", "dead"}
      BY <1>22, <2>1, <3>1 DEF WellFormed
    <3>3. DOMAIN o = DOMAIN colored[a] /\ o.tt = "table" /\ o.col = colored[a].col
          /\ o.val = Nil /\ o.key = Nil /\ o.mode = colored[a].mode
      BY <1>22, <3>1, <3>2
    <3> HIDE DEF o
    <3>4. QED
      BY <1>22, <2>2, <3>1, <3>2, <3>3 DEF WellFormed
  <2>3. CASE a \in emptied \ gone
    <3> DEFINE o == [colored[a] EXCEPT !.key = Nil]
    <3>1. heap[a].tt = "table" /\ k[a] = o
      BY <1>1, <1>15, <1>21, <2>3
    <3>2. {"tt", "col", "key", "val", "mode"} \subseteq DOMAIN colored[a]
          /\ colored[a].col \in {"white", "gray", "black", "dead"}
      BY <1>22, <2>1, <3>1 DEF WellFormed
    <3>3. DOMAIN o = DOMAIN colored[a] /\ o.tt = "table" /\ o.col = colored[a].col
          /\ o.val = heap[a].val /\ o.key = Nil /\ o.mode = colored[a].mode
      BY <1>22, <3>1, <3>2
    <3> HIDE DEF o
    <3>4. QED
      BY <1>22, <2>3, <3>1, <3>2, <3>3 DEF WellFormed
  <2>4. CASE a \notin emptied \cup gone
    <3>1. k[a] = colored[a]
      BY <1>1, <2>4
    <3>2. QED
      BY <1>22, <2>1, <2>4, <3>1
  <2>5. heap[a].tt # "table" => a \notin emptied \cup gone
    BY <1>15, <1>21
  <2>6. QED
    BY <2>2, <2>3, <2>4, <2>5, <1>1
<1>24. DOMAIN k = Addresses
  BY <1>1
<1> HIDE DEF k
<1>25. Typed(k)
  BY <1>23, <1>24 DEF Typed
<1>26. Good(k) = kept \cup strings
  <2>1. \A a \in Addresses : heap[a].tt # "free" => h[a].tt # "free" /\ h[a].col = heap[a].col
    BY <1>19 DEF Same
  <2>2. \A a \in Addresses : k[a].tt = heap[a].tt
    BY <1>23
  <2>3. ASSUME NEW a \in Allocated(heap) PROVE k[a].col # "dead" <=> a \in kept \cup strings
    <3>1. a \in Addresses /\ heap[a].tt # "free" /\ heap[a].col # "dead"
      BY <1>4 DEF NoneDead, Allocated
    <3>2. k[a].col = IF a \in dead THEN "dead" ELSE IF a \in blacks THEN "black"
                     ELSE IF a \in grays THEN "gray" ELSE heap[a].col
      BY <1>20, <1>23, <2>1, <3>1
    <3>3. a \in dead <=> a \notin kept \cup strings
      BY <1>12, <1>15
    <3>4. QED
      BY <3>1, <3>2, <3>3
  <2>4. kept \subseteq Allocated(heap) /\ strings \subseteq Allocated(heap)
    BY <1>12, <1>14 DEF Strings
  <2>5. Allocated(k) = Allocated(heap)
    BY <2>2 DEF Allocated
  <2>6. QED
    BY <2>3, <2>4, <2>5 DEF Good
<1>27. ASSUME NEW a \in Addresses, IsOpen(heap, a) PROVE k[a].col # "black"
  <2>1. a \notin blacks
    BY <1>15, <1>27 DEF StaysGray
  <2>2. heap[a].tt = "upval" /\ heap[a].col # "black"
    BY <1>3, <1>27 DEF Sound, OpenAt, IsOpen
  <2>3. h[a].tt = "upval" /\ h[a].col = heap[a].col
    BY <1>19, <2>2 DEF Same
  <2>4. QED
    BY <1>20, <1>23, <2>1, <2>2, <2>3
<1>28. ASSUME NEW a \in kept, heap[a].tt = "table"
       PROVE  Edges(k, a) \subseteq kept \cup strings
  <2>1. a \in Addresses /\ a \in Allocated(heap) /\ a \in tables
    BY <1>6, <1>12, <1>15, <1>28
  <2>2. Edges(k, a) = IF Keyed(k[a]) THEN {k[a].key, k[a].val} \cap Addresses ELSE {}
    BY <1>23, <1>28, <2>1, EdgesOf
  <2>3. Edges(heap, a) = IF Keyed(heap[a]) THEN {heap[a].key, heap[a].val} \cap Addresses ELSE {}
    BY <1>28, EdgesOf
  <2>4. Edges(heap, a) \subseteq Allocated(heap)
    BY <1>5, <2>1
  <2>10. k[a].tt = "table" /\ k[a].mode = heap[a].mode
        /\ (a \notin gone => k[a].val = heap[a].val /\ (Keyed(k[a]) <=> Keyed(heap[a])))
    BY <1>23, <1>28, <2>1 DEF Keyed
  <2>5. CASE a \in gone
    BY <1>23, <1>28, <2>1, <2>2, <2>5, ValuesAssumption
  <2>6. CASE a \notin gone /\ heap[a].val = Nil
    <3>1. CASE a \in emptied
      BY <1>23, <1>28, <2>1, <2>2, <2>6, <3>1, ValuesAssumption
    <3>2. CASE a \notin emptied /\ Keyed(heap[a])
      <4>1. a \notin white \cup again
        BY <1>15, <2>1, <2>6, <3>2 DEF Keyed, Forgets
      <4>2. Edges(heap, a) \cap white = {}
        BY <1>3, <1>13, <1>28, <2>1, <4>1 DEF Tricolor, white, IsOpen
      <4>3. Edges(k, a) = Edges(heap, a)
        BY <1>23, <1>28, <2>1, <2>2, <2>3, <2>6, <2>10, <3>2
      <4>4. QED
        BY <1>12, <1>16, <2>4, <4>2, <4>3
    <3>3. CASE ~Keyed(heap[a])
      BY <2>2, <2>6, <2>10, <3>3
    <3>4. QED
      BY <3>1, <3>2, <3>3
  <2>7. CASE a \notin gone /\ heap[a].val # Nil
    <3>1. Edges(k, a) = Edges(heap, a)
      BY <1>21, <1>23, <1>28, <2>1, <2>2, <2>3, <2>7, <2>10
    <3>2. CASE heap[a].mode = {}
      <4>1. Edges(heap, a) = StrongRefs(heap, a)
        BY <1>28, <2>7, <3>2, StrongEdges
      <4>2. QED
        BY <1>17, <3>1, <4>1
    <3>3. CASE heap[a].mode # {}
      <4>1. a \in ws
        BY <1>15, <2>1, <3>3
      <4>2. h[a].key = heap[a].key /\ h[a].val = heap[a].val
        BY <1>19, <1>28, <2>1 DEF Same
      <4>3. h[a].val # Nil /\ a \notin cleartable(h, white3, ws).gone
        BY <2>7, <4>2 DEF gone, cleared
      <4>4. \A x \in {h[a].key, h[a].val} \cap Addresses :
              x \notin white3 \/ x \in cleartable(h, white3, ws).strings
        BY <4>1, <4>3, EntryKept
      <4>5. \A x \in Edges(heap, a) : x \notin white3 \/ x \in strings
        BY <2>3, <4>2, <4>4 DEF strings, cleared
      <4>6. QED
        BY <1>12, <2>4, <3>1, <4>5
    <3>4. QED
      BY <3>2, <3>3
  <2>8. QED
    BY <2>5, <2>6, <2>7
<1>29. ASSUME NEW a \in gone \cap kept
       PROVE  \/ "k" \in heap[a].mode /\ heap[a].key \in Addresses \ kept /\ heap[heap[a].key].tt # "string"
              \/ "v" \in heap[a].mode /\ heap[a].val \in Addresses \ kept /\ heap[heap[a].val].tt # "string"
              \/ /\ heap[a].val \in Addresses /\ k[heap[a].val].tt = "userdata" /\ k[heap[a].val].finalized
  <2>1. a \in Addresses /\ heap[a].tt = "table" /\ a \in tables
    BY <1>6, <1>12, <1>15, <1>21
  <2>2. h[a].key = heap[a].key /\ h[a].val = heap[a].val
    BY <1>19, <2>1 DEF Same
  <2>3. /\ h[a].val # Nil
        /\ \/ h[a].key \in Addresses \cap white3 /\ h[h[a].key].tt # "string"
           \/ h[a].val \in Addresses \cap white3 /\ h[h[a].val].tt # "string"
           \/ /\ h[a].val \in Addresses /\ h[h[a].val].tt = "userdata" /\ h[h[a].val].finalized
    <3>1. a \in cleartable(h, white3, ws).gone
      BY DEF gone, cleared
    <3>2. QED
      BY <3>1, EntryGone
  <2>4. \A x \in Addresses : h[x].tt = heap[x].tt
    BY <1>19 DEF Same
  <2>5. StrongRefs(heap, a) \cap white3 = {}
    BY <1>12, <1>17
  <2>6. \A x \in white3 : x \notin kept
    BY <1>12
  <2>7. CASE h[a].key \in Addresses \cap white3 /\ h[h[a].key].tt # "string"
    <3>1. "k" \notin heap[a].mode => heap[a].key \in StrongRefs(heap, a)
      BY <2>1, <2>2, <2>3, <2>7 DEF StrongRefs
    <3>2. QED
      BY <2>2, <2>4, <2>5, <2>6, <2>7, <3>1
  <2>8. CASE h[a].val \in Addresses \cap white3 /\ h[h[a].val].tt # "string"
    <3>1. "v" \notin heap[a].mode => heap[a].val \in StrongRefs(heap, a)
      BY <2>1, <2>2, <2>8 DEF StrongRefs
    <3>2. QED
      BY <2>2, <2>4, <2>5, <2>6, <2>8, <3>1
  <2>9. CASE /\ h[a].val \in Addresses /\ h[h[a].val].tt = "userdata" /\ h[h[a].val].finalized
    <3> DEFINE u == heap[a].val
    <3>1. u \in Addresses /\ h[u].tt = "userdata" /\ h[u].finalized
      BY <2>2, <2>9
    <3> HIDE DEF u
    <3>2. heap[u].tt = "userdata"
      BY <2>4, <3>1
    <3>3. k[u] = colored[u] /\ k[u].tt = "userdata"
      BY <1>23, <3>1, <3>2
    <3>4. k[u].finalized
      BY <1>20, <3>1, <3>3
    <3>5. QED
      BY <3>1, <3>3, <3>4 DEF u
  <2>10. QED
    BY <2>3, <2>7, <2>8, <2>9
<1>30. \A a \in Addresses :
         /\ k[a].tt = heap[a].tt
         /\ heap[a].tt = "table" /\ a \notin gone => k[a].val = heap[a].val
         /\ heap[a].tt = "function" => k[a].up = heap[a].up
         /\ heap[a].tt = "upval" => k[a].at = heap[a].at /\ k[a].val = heap[a].val
         /\ heap[a].tt = "thread" => k[a].stack = heap[a].stack /\ k[a].resumed = heap[a].resumed
         /\ IsOpen(heap, a) => k[a].col # "black"
  BY <1>22, <1>23, <1>27
<1>31. Cleaned(heap, k, kept, strings, gone)
  BY <1>12, <1>14, <1>17, <1>18, <1>25, <1>26, <1>28, <1>29, <1>30 DEF Cleaned
<1>32. QED
  BY <1>31 DEF k

-----------------------------------------------------------------------------
\* The atomic step keeps the invariant; all steps; both theorems.

LEMMA LiveAtomic ==
  ASSUME FinalInv, LiveInv, atomic
  PROVE  LiveInv'
<1>1. /\ gcstate = "propagate" /\ Collects /\ mode # "closed" /\ mode' = mode
      /\ running' = running /\ gcstate' = "sweepstring" /\ unswept' = Strings(heap)
  BY DEF atomic, Collects
<1>2. Sound(heap) /\ RunningInv(heap, running)
  BY <1>1 DEF LiveInv
<1>3. PICK kept, strings, gone : Cleaned(heap, heap', kept, strings, gone)
  BY AtomicCleans
<1> DEFINE k == heap'
<1>4. /\ kept \subseteq Allocated(heap) /\ Main \in kept
      /\ \A a \in kept : StrongRefs(heap, a) \subseteq kept
      /\ strings \subseteq Strings(heap)
      /\ Typed(k) /\ Good(k) = kept \cup strings
      /\ \A a \in kept : heap[a].tt = "table" => Edges(k, a) \subseteq kept \cup strings
  BY <1>3 DEF Cleaned
<1>5. \A a \in Addresses :
         /\ k[a].tt = heap[a].tt
         /\ heap[a].tt = "function" => k[a].up = heap[a].up
         /\ heap[a].tt = "upval" => k[a].at = heap[a].at /\ k[a].val = heap[a].val
         /\ heap[a].tt = "thread" => k[a].stack = heap[a].stack /\ k[a].resumed = heap[a].resumed
         /\ IsOpen(heap, a) => k[a].col # "black"
  BY <1>3 DEF Cleaned
<1> HIDE DEF k
<1>6. \A a \in Addresses : IsOpen(k, a) <=> IsOpen(heap, a)
  BY <1>5 DEF IsOpen
<1>7. kept \subseteq Addresses /\ strings \subseteq Addresses /\ strings \cap {a \in Addresses : heap[a].tt # "string"} = {}
  BY <1>4 DEF Allocated, Strings
<1>8. OpenAt(k)
  <2> SUFFICES ASSUME NEW u \in Addresses, IsOpen(k, u)
               PROVE  /\ k[u].col # "black"
                      /\ k[u].at[1] \in Addresses /\ k[k[u].at[1]].tt = "thread"
                      /\ k[u].at[2] \in DOMAIN k[k[u].at[1]].stack
    BY DEF OpenAt
  <2>1. IsOpen(heap, u) /\ k[u].at = heap[u].at /\ k[u].col # "black"
    BY <1>5, <1>6 DEF IsOpen
  <2>2. heap[u].at[1] \in Addresses /\ heap[heap[u].at[1]].tt = "thread"
        /\ heap[u].at[2] \in DOMAIN heap[heap[u].at[1]].stack
    BY <1>2, <2>1 DEF Sound, OpenAt
  <2>3. k[heap[u].at[1]].tt = "thread" /\ k[heap[u].at[1]].stack = heap[heap[u].at[1]].stack
    BY <1>5, <2>2
  <2>4. QED
    BY <2>1, <2>2, <2>3
<1>9. ASSUME NEW a \in Addresses, heap[a].tt # "table" PROVE Edges(k, a) = StrongRefs(heap, a)
  <2>0. Edges(heap, a) = StrongRefs(heap, a)
    BY <1>9, StrongEdges
  <2>1. CASE heap[a].tt = "function"
    <3>1. Edges(k, a) = {k[a].up} \cap Addresses
      BY <1>5, <2>1, EdgesOf
    <3>2. Edges(heap, a) = {heap[a].up} \cap Addresses
      BY <2>1, EdgesOf
    <3>3. QED
      BY <1>5, <2>0, <2>1, <3>1, <3>2
  <2>2. CASE heap[a].tt = "thread"
    <3>1. Edges(k, a) = (Range(k[a].stack) \cup {k[a].resumed}) \cap Addresses
      BY <1>5, <2>2, EdgesOf
    <3>2. Edges(heap, a) = (Range(heap[a].stack) \cup {heap[a].resumed}) \cap Addresses
      BY <2>2, EdgesOf
    <3>3. QED
      BY <1>5, <2>0, <2>2, <3>1, <3>2
  <2>3. CASE heap[a].tt = "upval"
    <3>1. Edges(k, a) = {UpValue(k, a)} \cap Addresses
      BY <1>5, <2>3, EdgesOf
    <3>2. Edges(heap, a) = {UpValue(heap, a)} \cap Addresses
      BY <2>3, EdgesOf
    <3>3. UpValue(k, a) = UpValue(heap, a)
      <4>1. CASE IsOpen(heap, a)
        <5>1. heap[a].at[1] \in Addresses /\ heap[heap[a].at[1]].tt = "thread"
          BY <1>2, <4>1 DEF Sound, OpenAt
        <5>2. k[a].at = heap[a].at /\ k[heap[a].at[1]].stack = heap[heap[a].at[1]].stack
          BY <1>5, <2>3, <5>1
        <5>3. QED
          BY <1>6, <4>1, <5>2 DEF UpValue
      <4>2. CASE ~IsOpen(heap, a)
        BY <1>5, <1>6, <2>3, <4>2 DEF UpValue
      <4>3. QED
        BY <4>1, <4>2
    <3>4. QED
      BY <2>0, <3>1, <3>2, <3>3
  <2>4. CASE heap[a].tt \in {"free", "userdata", "string"}
    <3>1. Edges(heap, a) = {}
      BY <2>4, EdgesOf
    <3>2. k[a].tt \in {"free", "userdata", "string"}
      BY <1>5, <2>4
    <3>3. Edges(k, a) = {}
      BY <3>2, EdgesOf
    <3>4. QED
      BY <2>0, <3>1, <3>3
  <2>5. WellFormed(heap[a])
    BY <1>2 DEF Sound, Typed
  <2>6. QED
    BY <1>9, <2>1, <2>2, <2>3, <2>4, <2>5 DEF WellFormed
<1>10. Closed(k)
  <2> SUFFICES ASSUME NEW a \in Good(k)
               PROVE  /\ Edges(k, a) \subseteq Good(k)
                      /\ k[a].tt = "function" => k[a].up \in Addresses /\ k[k[a].up].tt = "upval"
    BY DEF Closed
  <2>1. a \in Addresses /\ a \in kept \cup strings
    BY <1>4, <1>7
  <2>2. CASE heap[a].tt = "string"
    BY <1>5, <2>1, <2>2, EdgesOf
  <2>3. CASE heap[a].tt # "string"
    <3>1. a \in kept
      BY <1>7, <2>1, <2>3
    <3>2. Edges(k, a) \subseteq kept \cup strings
      BY <1>4, <1>9, <2>1, <3>1
    <3>3. ASSUME k[a].tt = "function"
          PROVE  k[a].up \in Addresses /\ k[k[a].up].tt = "upval"
      <4>1. heap[a].tt = "function" /\ k[a].up = heap[a].up
        BY <1>5, <2>1, <3>3
      <4>2. a \in Good(heap)
        <5>1. NoneDead(heap)
          BY <1>1 DEF LiveInv, Coloured, Tricolor
        <5>2. QED
          BY <1>4, <3>1, <5>1 DEF NoneDead, Good
      <4>3. heap[a].up \in Addresses /\ heap[heap[a].up].tt = "upval"
        BY <1>2, <4>1, <4>2 DEF Sound, Closed
      <4>4. QED
        BY <1>5, <4>1, <4>3
    <3>4. QED
      BY <1>4, <3>2, <3>3
  <2>4. QED
    BY <2>2, <2>3
<1>11. Sound(k)
  BY <1>4, <1>8, <1>10 DEF Sound
<1>12. RunningInv(k, running)
  <2>1. ASSUME NEW a \in kept, heap[a].tt = "thread" PROVE {heap[a].resumed} \cap Addresses \subseteq kept
    <3>1. Edges(heap, a) = StrongRefs(heap, a)
      BY <2>1, StrongEdges
    <3>2. Edges(heap, a) = (Range(heap[a].stack) \cup {heap[a].resumed}) \cap Addresses
      BY <2>1, EdgesOf
    <3>3. StrongRefs(heap, a) \subseteq kept
      BY <1>4
    <3>4. QED
      BY <3>1, <3>2, <3>3
  <2>2. ResumedIn(heap, kept)
    BY <2>1 DEF ResumedIn
  <2>3. kept \in SUBSET Addresses /\ Main \in kept
    BY <1>4, <1>7
  <2>4. \A i \in 1 .. Len(running) : running[i] \in kept
    BY <1>2, <2>2, <2>3 DEF RunningInv
  <2>5. \A i \in 1 .. Len(running) : heap[running[i]].tt = "thread"
    BY <1>2 DEF RunningInv
  <2>6. \A i \in 1 .. Len(running) :
          /\ running[i] \in Good(k) /\ k[running[i]].tt = "thread"
          /\ k[running[i]].resumed = heap[running[i]].resumed
    BY <1>4, <1>5, <1>7, <2>4, <2>5
  <2>7. \A t \in Addresses : k[t].tt = "thread" => heap[t].tt = "thread" /\ k[t].resumed = heap[t].resumed
    BY <1>5
  <2>8. QED
    BY <1>2, <2>6, <2>7, RunningKept
<1>13. Strings(k) = Strings(heap)
  BY <1>5 DEF Strings, Allocated
<1>14. QED
  BY <1>1, <1>11, <1>12, <1>13 DEF LiveInv, Coloured, k

LEMMA LiveScript ==
  ASSUME FinalInv, LiveInv, ScriptStep
  PROVE  LiveInv'
<1>1. CASE \E kind \in script.kinds, s \in Slots : Create(kind, s)
  BY <1>1, LiveCreate
<1>2. CASE \E s \in Slots : NewString(s) \/ Load(s) \/ CloseUpvals(s)
  BY <1>2, LiveString, LiveLoad, LiveCloseUpvals
<1>3. CASE \E s \in 1 .. script.slots : Yield(s)
  BY <1>3, LiveYield
<1>4. CASE \E s \in Slots, c \in Slots : NewClosure(s, c)
  BY <1>4, LiveClosure
<1>5. CASE \E s \in Slots, c \in Slots : Resume(s, heap[L].stack[c])
  <2>1. PICK s \in Slots, c \in Slots : Resume(s, heap[L].stack[c])
    BY <1>5
  <2>2. heap[L].stack[c] \in Range(heap[L].stack)
    BY DEF Slots, Range
  <2>3. QED
    BY <2>1, <2>2, LiveResume
<1>6. CASE \E t \in InSlots({"table"}), v \in {Plain} \cup Range(heap[L].stack),
              k \in {Plain} \cup (Range(heap[L].stack) \ {Nil}) :
                (k = Plain \/ v \in {Plain, Nil}) /\ SetTable(t, k, v)
  BY <1>6, LiveSetTable
<1>7. CASE \E f \in InSlots({"function"}), v \in Range(heap[L].stack) : SetUpval(f, v)
  BY <1>7, LiveSetUpval
<1>8. QED
  BY <1>1, <1>2, <1>3, <1>4, <1>5, <1>6, <1>7 DEF ScriptStep

LEMMA LiveNext ==
  ASSUME FinalInv, LiveInv, [Next]_vars
  PROVE  LiveInv'
<1>1. CASE singlestep
  BY <1>1, LiveStart, LivePropagate, LiveAtomic, LiveSweepString, LiveSweep, LiveCall, LiveStates
     DEF singlestep
<1>2. CASE FullGC \/ Close \/ FreeAll
  BY <1>2, LiveStates, LiveClose, LiveFree
<1>3. CASE ScriptStep
  BY <1>3, LiveScript
<1>4. CASE UNCHANGED vars
  BY <1>4 DEF vars, collector, LiveInv, Coloured, Collects
<1>5. QED
  BY <1>1, <1>2, <1>3, <1>4 DEF Next

LEMMA LiveWithin ==
  ASSUME NEW h, NEW S \in SUBSET Addresses, Roots \subseteq S,
         \A a \in S : StrongRefs(h, a) \subseteq S
  PROVE  Live(h) \subseteq S
<1> DEFINE refs == References(h, Addresses)
           roots == Roots
<1>1. \A r \in refs : r[1] \in S => r[2] \in S
  <2> SUFFICES ASSUME NEW r \in refs, r[1] \in S PROVE r[2] \in S
    OBVIOUS
  <2>1. PICK a \in Addresses : r \in {a} \X StrongRefs(h, a)
    BY DEF References
  <2>2. r[1] = a /\ r[2] \in StrongRefs(h, a)
    BY <2>1
  <2>3. QED
    BY <2>2
<1>2. roots \cup (S \ roots) = S /\ S \ roots \in SUBSET (Addresses \ roots)
  OBVIOUS
<1> HIDE DEF refs, roots
<1>3. S \in {roots \cup T : T \in SUBSET (Addresses \ roots)}
  BY <1>2
<1>4. Reached(roots, Addresses, refs) \subseteq S
  BY <1>1, <1>3 DEF Reached
<1>5. QED
  BY <1>4 DEF Live, Reach, refs, roots

LEMMA RootsGood ==
  ASSUME NEW h, RunningInv(h, running) PROVE Roots \subseteq Good(h) /\ Roots \subseteq Addresses
<1>1. L \in Good(h)
  BY RunningThread
<1>2. 1 \in 1 .. Len(running) /\ Main = running[1]
  BY DEF RunningInv
<1>3. Main \in Good(h)
  BY <1>2 DEF RunningInv
<1>4. QED
  BY <1>1, <1>3 DEF Roots, L, Good, Allocated

\* What the script can get at is good.
LEMMA LiveAreGood ==
  ASSUME LiveInv, mode # "closed" PROVE Live(heap) \subseteq Good(heap)
<1>1. Sound(heap) /\ RunningInv(heap, running)
  BY DEF LiveInv
<1>2. \A a \in Good(heap) : StrongRefs(heap, a) \subseteq Good(heap)
  <2> TAKE a \in Good(heap)
  <2>1. Edges(heap, a) \subseteq Good(heap)
    BY <1>1 DEF Sound, Closed
  <2>2. QED
    BY <2>1, StrongEdges
<1>3. Good(heap) \in SUBSET Addresses
  BY DEF Good, Allocated
<1>4. QED
  BY <1>1, <1>2, <1>3, RootsGood, LiveWithin

LEMMA LiveAreKept == ASSUME FinalInv, LiveInv PROVE LiveIsKept
<1> SUFFICES ASSUME mode # "closed", NEW a \in Live(heap) \cup tmudata
             PROVE  /\ heap[a].tt # "free" /\ ~IsDead(a)
                    /\ heap[a].tt = "table" /\ (heap[a].val # Nil \/ heap[a].mode # {"k", "v"}) =>
                         {heap[a].key, heap[a].val} \cap Addresses \subseteq Allocated(heap)
  BY DEF LiveIsKept
<1>1. CASE a \in Live(heap)
  <2>1. a \in Good(heap)
    BY <1>1, LiveAreGood
  <2>2. Edges(heap, a) \subseteq Good(heap)
    BY <2>1 DEF LiveInv, Sound, Closed
  <2>3. Keyed(heap[a]) => Edges(heap, a) = {heap[a].key, heap[a].val} \cap Addresses
    BY DEF Edges
  <2>4. QED
    BY <2>1, <2>2, <2>3 DEF Keyed, Good, Allocated, IsDead
<1>2. CASE a \in tmudata
  BY <1>2 DEF FinalInv, Final, WithFinalizer, IsDead
<1>3. QED
  BY <1>1, <1>2

\* Nothing that the script can still get at is freed, or will be by the sweep to come, and no
\* entry of a table in reach holds what is freed, nor an empty entry's key but in tables weak
\* in both sides: whatever the script writes between two steps of
\* the collector, the barriers, the lists, the traversal of the stacks at the end and the
\* strings and upvalues that are revived see to it (lgc.c:337-375, 530-700, lfunc.c:61,
\* lstring.c:88).
THEOREM ReachableIsKept == Spec => []LiveIsKept
<1>1. Init => FinalInv /\ LiveInv
  BY FinalInit, LiveInit
<1>2. FinalInv /\ LiveInv /\ [Next]_vars => (FinalInv /\ LiveInv)'
  BY FinalNext, LiveNext
<1>3. FinalInv /\ LiveInv => LiveIsKept
  BY LiveAreKept
<1>4. QED
  BY <1>1, <1>2, <1>3, PTL DEF Spec

LEMMA MarkSame ==
  ASSUME NEW g, NEW values, Typed(g.heap), Listed(g), NEW a \in Addresses
  PROVE  Same(g.heap[a], mark(g, values).heap[a])
<1> DEFINE h == g.heap
           white == White(h)
           inner == {x \in white : h[x].tt \in {"userdata", "upval"}}
           marked == Reached(values \cap white, white, References(h, inner))
           black == {x \in marked : \/ h[x].tt = "userdata"
                                    \/ h[x].tt = "upval" /\ ~IsOpen(h, x)}
           c1 == Color(h, marked \ black, "gray")
           k == Color(c1, black, "black")
<1>1. mark(g, values).heap = k
  BY DEF mark, Listed
<1> HIDE DEF marked, black
<1>2. Painted(h, marked \ black, "gray", c1)
  BY ColorPaints
<1> HIDE DEF c1
<1>3. Typed(c1)
  BY <1>2 DEF Painted
<1>4. Painted(c1, black, "black", k)
  BY <1>3, ColorPaints
<1> HIDE DEF k
<1>5. Same(h[a], c1[a]) /\ Same(c1[a], k[a])
  BY <1>2, <1>4 DEF Painted
<1>6. QED
  BY <1>1, <1>5, SameTrans

\* The action property.
Entries ==
  gcstate # gcstate' /\ mode' # "closed" =>
    \A a \in Live(heap) : heap[a].tt = "table" /\ heap[a].val # Nil =>
      \/ heap'[a].val = heap[a].val
      \/ "k" \in heap[a].mode /\ heap[a].key \in Addresses \ Held(heap)
      \/ "v" \in heap[a].mode /\ heap[a].val \in Addresses \ Held(heap)
      \/ \E u \in Heap : /\ heap[a].val = u /\ heap'[u].tt = "userdata"
                        /\ heap'[u].finalized

LEMMA EntriesAtomic ==
  ASSUME FinalInv, LiveInv, atomic PROVE Entries
<1>1. mode # "closed"
  BY DEF atomic, Collects
<1>2. Sound(heap) /\ RunningInv(heap, running)
  BY <1>1 DEF LiveInv
<1>3. PICK kept, strings, gone : Cleaned(heap, heap', kept, strings, gone)
  BY AtomicCleans
<1>4. /\ kept \subseteq Allocated(heap) /\ Main \in kept
      /\ \A a \in kept : StrongRefs(heap, a) \subseteq kept
      /\ \A a \in Addresses : heap'[a].tt = heap[a].tt
      /\ \A a \in Addresses : heap[a].tt = "table" /\ a \notin gone => heap'[a].val = heap[a].val
      /\ \A a \in gone \cap kept :
           \/ "k" \in heap[a].mode /\ heap[a].key \in Addresses \ kept /\ heap[heap[a].key].tt # "string"
           \/ "v" \in heap[a].mode /\ heap[a].val \in Addresses \ kept /\ heap[heap[a].val].tt # "string"
           \/ /\ heap[a].val \in Addresses /\ heap'[heap[a].val].tt = "userdata"
              /\ heap'[heap[a].val].finalized
  BY <1>3 DEF Cleaned
<1>5. kept \in SUBSET Addresses
  BY <1>4 DEF Allocated
<1>6. Roots \subseteq kept
  <2>1. ASSUME NEW a \in kept, heap[a].tt = "thread" PROVE {heap[a].resumed} \cap Addresses \subseteq kept
    <3>1. Edges(heap, a) = StrongRefs(heap, a)
      BY <2>1, StrongEdges
    <3>2. Edges(heap, a) = (Range(heap[a].stack) \cup {heap[a].resumed}) \cap Addresses
      BY <2>1, EdgesOf
    <3>3. StrongRefs(heap, a) \subseteq kept
      BY <1>4
    <3>4. QED
      BY <3>1, <3>2, <3>3
  <2>2. ResumedIn(heap, kept)
    BY <2>1 DEF ResumedIn
  <2>3. \A i \in 1 .. Len(running) : running[i] \in kept
    BY <1>2, <1>4, <1>5, <2>2 DEF RunningInv
  <2>4. Len(running) \in 1 .. Len(running) /\ Last(running) = running[Len(running)]
    BY <1>2 DEF RunningInv, Last
  <2>5. QED
    BY <1>4, <2>3, <2>4 DEF Roots
<1>7. Live(heap) \subseteq kept
  BY <1>4, <1>5, <1>6, LiveWithin
<1>8. \A x \in Addresses \ kept : heap[x].tt # "string" => x \notin Held(heap)
  BY <1>7 DEF Held
<1>9. ASSUME NEW a \in Live(heap), heap[a].tt = "table", heap[a].val # Nil
      PROVE  \/ heap'[a].val = heap[a].val
             \/ "k" \in heap[a].mode /\ heap[a].key \in Addresses \ Held(heap)
             \/ "v" \in heap[a].mode /\ heap[a].val \in Addresses \ Held(heap)
             \/ \E u \in Heap : /\ heap[a].val = u /\ heap'[u].tt = "userdata"
                               /\ heap'[u].finalized
  <2>1. a \in kept /\ a \in Addresses
    BY <1>5, <1>7
  <2>2. CASE a \notin gone
    BY <1>4, <1>9, <2>1, <2>2
  <2>3. CASE a \in gone
    <3>1. CASE "k" \in heap[a].mode /\ heap[a].key \in Addresses \ kept /\ heap[heap[a].key].tt # "string"
      BY <1>8, <3>1
    <3>2. CASE "v" \in heap[a].mode /\ heap[a].val \in Addresses \ kept /\ heap[heap[a].val].tt # "string"
      BY <1>8, <3>2
    <3>3. CASE /\ heap[a].val \in Addresses /\ heap'[heap[a].val].tt = "userdata"
               /\ heap'[heap[a].val].finalized
      <4>1. heap[Main].tt = "thread" /\ Main \in Addresses
        BY <1>2 DEF RunningInv, Addresses
      <4>2. heap'[Main].tt = "thread"
        BY <1>4, <4>1
      <4>3. heap[a].val \in Heap
        BY <3>3, <4>2 DEF Addresses
      <4>4. QED
        BY <3>3, <4>3
    <3>4. QED
      BY <1>4, <2>1, <2>3, <3>1, <3>2, <3>3
  <2>4. QED
    BY <2>2, <2>3
<1>10. QED
  BY <1>9 DEF Entries

LEMMA EntriesNext ==
  ASSUME FinalInv, LiveInv, Next PROVE Entries
<1>1. CASE atomic
  BY <1>1, EntriesAtomic
<1>2. CASE StartCycle
  <2> DEFINE g == [heap |-> heap, gray |-> {}, again |-> {}, weak |-> {}]
  <2>1. Listed(g) /\ g.heap = heap
    BY DEF Listed
  <2> HIDE DEF g
  <2>2. heap' = mark(g, {Main}).heap
    BY <1>2 DEF StartCycle, TakeLists, Rooted, g
  <2>3. Typed(heap)
    BY DEF LiveInv, Sound
  <2>4. \A a \in Addresses : Same(heap[a], heap'[a])
    BY <2>1, <2>2, <2>3, MarkSame
  <2>5. Live(heap) \subseteq Addresses
    BY DEF Live, Reach, Reached
  <2>6. \A a \in Live(heap) : heap[a].tt = "table" => heap'[a].val = heap[a].val
    BY <2>4, <2>5 DEF Same
  <2>7. QED
    BY <2>6 DEF Entries
<1>3. CASE SweepString \/ Sweep \/ EndCycle \/ FullGC
  <2>1. gcstate' = gcstate \/ heap' = heap
    BY <1>3 DEF SweepString, Sweep, EndCycle, FullGC
  <2>2. QED
    BY <2>1 DEF Entries
<1>4. CASE Propagate \/ GCTM \/ Close \/ ScriptStep
  <2>1. gcstate' = gcstate
    BY <1>4 DEF Propagate, GCTM, Close, ScriptStep, Create, NewString, Load, CloseUpvals, Yield,
                NewClosure, Resume, SetTable, SetUpval, HeapOnly, Scripted
  <2>2. QED
    BY <2>1 DEF Entries
<1>5. CASE FreeAll
  BY <1>5 DEF FreeAll, Entries
<1>6. QED
  BY <1>1, <1>2, <1>3, <1>4, <1>5 DEF Next, singlestep

\* The collector takes an entry out of a table in reach only when a side that is weak is
\* nowhere else in reach, or its value is a userdata that is finalized (lgc.c:337-375).
THEOREM OnlyWeakEntriesGo == Spec => EntriesKept
<1>1. Init => FinalInv /\ LiveInv
  BY FinalInit, LiveInit
<1>2. FinalInv /\ LiveInv /\ [Next]_vars => (FinalInv /\ LiveInv)' /\ [Entries]_vars
  BY FinalNext, LiveNext, EntriesNext
<1>3. QED
  BY <1>1, <1>2, PTL DEF Spec, EntriesKept, Entries
=============================================================================
