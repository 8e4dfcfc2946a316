--------------------------- MODULE KeyInputProofs ---------------------------
(***************************************************************************)
(* Proofs about KeyInput for every set of script keys and delays, and for  *)
(* every length of the event queue.                                        *)
(*                                                                         *)
(* The argument: after every prefix of the pending events the game would   *)
(* hold no two opposite directions, and after all of them it would hold    *)
(* exactly the keys in on[].  Appending an event preserves this because    *)
(* on_check clears the opposite key first; sending the oldest event only   *)
(* moves one step along the prefixes.  The events are sent oldest first    *)
(* because their waits never decrease along the queue, which is where the  *)
(* restriction of SteadySpec (DelayKept) is needed.                        *)
(***************************************************************************)
EXTENDS KeyInput, SequenceTheorems, TLAPS

\* Would the game hold key n after the first j events of q, if it holds h now?
After(h, q, j, n) ==
  \/ \E p \in 1 .. j : q[p].act = n /\ q[p].down /\ \A r \in p + 1 .. j : q[r].act # n
  \/ n \in h /\ \A r \in 1 .. j : q[r].act # n

PrefixesOK(h, q) ==
  \A j \in 0 .. Len(q), n \in Acts :
    HasOpposite(n) /\ After(h, q, j, n) => ~After(h, q, j, Opposite(n))

EndsInOn(h, q, o) == \A n \in Acts : After(h, q, Len(q), n) <=> o[n]

Sorted(q, d) ==
  /\ \A i \in 1 .. Len(q) : q[i].wait <= d
  /\ \A i, j \in 1 .. Len(q) : i <= j => q[i].wait <= q[j].wait

\* What the pure steps of the key manager preserve.
Good(kb) ==
  /\ kb.on \in [Acts -> BOOLEAN]
  /\ kb.queue \in Seq(Events)
  /\ PrefixesOK(held, kb.queue)
  /\ EndsInOn(held, kb.queue, kb.on)
  /\ Sorted(kb.queue, key_delay)

\* ProcessEvent has passed only events that are not due.
PassedNotDue == pc = "process" =>
  it > 0 /\ \A i \in DOMAIN queue : i < it => queue[i].wait > 0

IInv == TypeOK /\ Good(KB) /\ PassedNotDue

-----------------------------------------------------------------------------
\* The opposite of a direction is the other direction of its pair.
LEMMA OppositeFacts ==
  ASSUME NEW n \in Acts, HasOpposite(n)
  PROVE  /\ Opposite(n) \in Acts /\ HasOpposite(Opposite(n))
         /\ Opposite(n) # n /\ Opposite(Opposite(n)) = n
<1>1. n \in 0 .. 3
  BY DEF Acts, HasOpposite
<1>2. Opposite(0) = 1 /\ Opposite(1) = 0 /\ Opposite(2) = 3 /\ Opposite(3) = 2
  BY DEF Opposite
<1>3. n = 0 \/ n = 1 \/ n = 2 \/ n = 3
  BY <1>1
<1>4. QED
  BY <1>2, <1>3 DEF Acts, HasOpposite

\* The fields of a queued event.
LEMMA EventFields ==
  ASSUME NEW e \in Events
  PROVE  e.act \in Acts /\ e.down \in BOOLEAN /\ e.wait \in Nat
BY DEF Events

LEMMA QueuedFields ==
  ASSUME NEW q \in Seq(Events), NEW i \in DOMAIN q
  PROVE  q[i] \in Events /\ q[i].act \in Acts /\ q[i].wait \in Nat
BY EventFields

\* Appending an event changes no shorter prefix, and decides its own key.
LEMMA AppendAfter ==
  ASSUME NEW h, NEW q \in Seq(Events), NEW e \in Events, NEW n
  PROVE  /\ \A j \in 0 .. Len(q) : After(h, Append(q, e), j, n) <=> After(h, q, j, n)
         /\ After(h, Append(q, e), Len(q) + 1, n)
              <=> IF e.act = n THEN e.down ELSE After(h, q, Len(q), n)
<1> DEFINE q2 == Append(q, e)
<1>1. /\ Len(q2) = Len(q) + 1 /\ Len(q) \in Nat
      /\ \A i \in 1 .. Len(q) : q2[i] = q[i]
      /\ q2[Len(q) + 1] = e
  OBVIOUS
<1> HIDE DEF q2
<1>2. ASSUME NEW j \in 0 .. Len(q)
      PROVE  After(h, q2, j, n) <=> After(h, q, j, n)
  <2>1. \A i \in 1 .. j : q2[i] = q[i]
    BY <1>1
  <2>2. \A p \in 1 .. j : \A r \in p + 1 .. j : r \in 1 .. j
    BY <1>1
  <2>3. QED
    BY <2>1, <2>2 DEF After
<1>3. CASE e.act = n
  <2>1. \A r \in (Len(q) + 1) + 1 .. Len(q) + 1 : FALSE
    BY <1>1
  <2>2. Len(q) + 1 \in 1 .. Len(q) + 1
    BY <1>1
  <2>3. \A p \in 1 .. Len(q) + 1 : p # Len(q) + 1 => Len(q) + 1 \in p + 1 .. Len(q) + 1
    BY <1>1
  <2>4. After(h, q2, Len(q) + 1, n) <=> e.down
    BY <1>1, <1>3, <2>1, <2>2, <2>3 DEF After
  <2>5. QED
    BY <1>2, <1>3, <2>4 DEF q2
<1>4. CASE e.act # n
  <2> DEFINE A(p) == q[p].act = n /\ q[p].down /\ \A r \in p + 1 .. Len(q) : q[r].act # n
             B(p) == q2[p].act = n /\ q2[p].down
                       /\ \A r \in p + 1 .. Len(q) + 1 : q2[r].act # n
  <2>1. (\A r \in 1 .. Len(q) + 1 : q2[r].act # n) <=> \A r \in 1 .. Len(q) : q[r].act # n
    <3>1. \A r : r \in 1 .. Len(q) + 1 <=> r \in 1 .. Len(q) \/ r = Len(q) + 1
      BY <1>1
    <3>2. QED
      BY <1>1, <1>4, <3>1
  <2>2. ASSUME NEW p \in 1 .. Len(q)
        PROVE  B(p) <=> A(p)
    <3>1. \A r : r \in p + 1 .. Len(q) + 1 <=> r \in p + 1 .. Len(q) \/ r = Len(q) + 1
      BY <1>1
    <3>2. \A r \in p + 1 .. Len(q) : q2[r] = q[r]
      BY <1>1
    <3>3. QED
      BY <1>1, <1>4, <3>1, <3>2
  <2>3. ~B(Len(q) + 1)
    BY <1>1, <1>4
  <2>4. \A p : p \in 1 .. Len(q) + 1 <=> p \in 1 .. Len(q) \/ p = Len(q) + 1
    BY <1>1
  <2>5. (\E p \in 1 .. Len(q) + 1 : B(p)) <=> \E p \in 1 .. Len(q) : A(p)
    <3> HIDE DEF A, B
    <3>1. QED
      BY <2>2, <2>3, <2>4
  <2>6. After(h, q2, Len(q) + 1, n) <=> After(h, q, Len(q), n)
    BY <2>1, <2>5 DEF After
  <2>7. QED
    BY <1>2, <1>4, <2>6 DEF q2
<1>5. QED
  BY <1>3, <1>4

\* Sending the oldest event moves every later prefix one place.
LEMMA TailAfter ==
  ASSUME NEW h, NEW q \in Seq(Events), q # <<>>, NEW n,
         NEW j \in 0 .. Len(q) - 1,
         NEW g, n \in g <=> IF Head(q).act = n THEN Head(q).down ELSE n \in h
  PROVE  After(g, Tail(q), j, n) <=> After(h, q, j + 1, n)
<1> DEFINE t == Tail(q)
<1>1. Len(q) \in Nat \ {0} /\ Len(t) = Len(q) - 1 /\ Head(q) = q[1]
  OBVIOUS
<1>2. \A i \in 1 .. j : t[i] = q[i + 1]
  BY <1>1
<1> HIDE DEF t
<1>3. (\A r \in 1 .. j : t[r].act # n) <=> \A r \in 2 .. j + 1 : q[r].act # n
  <2>1. ASSUME \A r \in 1 .. j : t[r].act # n, NEW r \in 2 .. j + 1
        PROVE  q[r].act # n
    <3>1. r - 1 \in 1 .. j /\ (r - 1) + 1 = r
      BY <1>1
    <3>2. QED
      BY <1>2, <2>1, <3>1
  <2>2. ASSUME \A r \in 2 .. j + 1 : q[r].act # n, NEW r \in 1 .. j
        PROVE  t[r].act # n
    <3>1. r + 1 \in 2 .. j + 1
      BY <1>1
    <3>2. QED
      BY <1>2, <2>2, <3>1
  <2>3. QED
    BY <2>1, <2>2
<1>4. ASSUME NEW p \in 1 .. j
      PROVE  (\A r \in p + 1 .. j : t[r].act # n)
               <=> \A r \in (p + 1) + 1 .. j + 1 : q[r].act # n
  <2>1. ASSUME \A r \in p + 1 .. j : t[r].act # n, NEW r \in (p + 1) + 1 .. j + 1
        PROVE  q[r].act # n
    <3>1. r - 1 \in p + 1 .. j /\ r - 1 \in 1 .. j /\ (r - 1) + 1 = r
      BY <1>1
    <3>2. QED
      BY <1>2, <2>1, <3>1
  <2>2. ASSUME \A r \in (p + 1) + 1 .. j + 1 : q[r].act # n, NEW r \in p + 1 .. j
        PROVE  t[r].act # n
    <3>1. r + 1 \in (p + 1) + 1 .. j + 1 /\ r \in 1 .. j
      BY <1>1
    <3>2. QED
      BY <1>2, <2>2, <3>1
  <2>3. QED
    BY <2>1, <2>2
<1> DEFINE A(p) == q[p].act = n /\ q[p].down /\ \A r \in p + 1 .. j + 1 : q[r].act # n
           B(p) == t[p].act = n /\ t[p].down /\ \A r \in p + 1 .. j : t[r].act # n
<1>5. (\E p \in 1 .. j : B(p)) <=> \E p \in 2 .. j + 1 : A(p)
  <2>1. \A p \in 1 .. j : B(p) <=> A(p + 1)
    BY <1>2, <1>4
  <2>2. \A p \in 2 .. j + 1 : p - 1 \in 1 .. j /\ p = (p - 1) + 1
    BY <1>1
  <2>3. \A p \in 1 .. j : p + 1 \in 2 .. j + 1
    BY <1>1
  <2> HIDE DEF A, B
  <2>4. QED
    BY <2>1, <2>2, <2>3
<1>6. \A r : r \in 1 .. j + 1 <=> r = 1 \/ r \in 2 .. j + 1
  BY <1>1
<1>7. After(h, q, j + 1, n)
        <=> \/ \E p \in 2 .. j + 1 : A(p)
            \/ n \in g /\ \A r \in 2 .. j + 1 : q[r].act # n
  <2>1. A(1) <=> q[1].act = n /\ q[1].down /\ \A r \in 2 .. j + 1 : q[r].act # n
    BY <1>1
  <2>2. After(h, q, j + 1, n)
          <=> \/ \E p \in 1 .. j + 1 : A(p)
              \/ n \in h /\ \A r \in 1 .. j + 1 : q[r].act # n
    BY DEF After
  <2> HIDE DEF A
  <2>3. QED
    BY <1>1, <1>6, <2>1, <2>2
<1>8. After(g, t, j, n) <=> (\E p \in 1 .. j : B(p)) \/ (n \in g /\ \A r \in 1 .. j : t[r].act # n)
  BY DEF After
<1>9. QED
  BY <1>3, <1>5, <1>7, <1>8 DEF t

-----------------------------------------------------------------------------
\* Queueing an event for key n and setting on[n] to match it keeps Good, if no
\* press is queued while the opposite key is on.
LEMMA AppendGood ==
  ASSUME key_delay \in Nat, NEW kb, Good(kb), NEW n \in Acts, NEW down \in BOOLEAN,
         down /\ HasOpposite(n) => ~kb.on[Opposite(n)]
  PROVE  Good([on |-> [kb.on EXCEPT ![n] = down], queue |-> AddEvent(kb, n, down)])
<1> DEFINE e == [act |-> n, down |-> down, wait |-> key_delay]
           q == kb.queue
           q2 == Append(q, e)
           o2 == [kb.on EXCEPT ![n] = down]
<1>1. e \in Events /\ q \in Seq(Events) /\ q2 \in Seq(Events) /\ o2 \in [Acts -> BOOLEAN]
  BY DEF Good, Events
<1>2. AddEvent(kb, n, down) = q2 /\ e.act = n /\ e.down = down /\ e.wait = key_delay
  BY DEF AddEvent
<1>3. /\ Len(q) \in Nat /\ Len(q2) = Len(q) + 1
      /\ \A i \in 1 .. Len(q) : q2[i] = q[i]
      /\ q2[Len(q) + 1] = e
  BY <1>1
<1>g. PrefixesOK(held, q) /\ EndsInOn(held, q, kb.on) /\ Sorted(q, key_delay)
  BY DEF Good
<1>h. kb.on \in [Acts -> BOOLEAN]
  BY DEF Good
<1> HIDE DEF e, q, q2
<1>4. ASSUME NEW m \in Acts
      PROVE  /\ \A j \in 0 .. Len(q) : After(held, q2, j, m) <=> After(held, q, j, m)
             /\ After(held, q2, Len(q2), m) <=> IF n = m THEN down ELSE After(held, q, Len(q), m)
  BY <1>1, <1>2, <1>3, AppendAfter DEF q2
<1>5. EndsInOn(held, q2, o2)
  <2>1. \A m \in Acts : After(held, q, Len(q), m) <=> kb.on[m]
    BY <1>g DEF EndsInOn
  <2>2. \A m \in Acts : o2[m] = IF n = m THEN down ELSE kb.on[m]
    BY <1>h
  <2> HIDE DEF o2
  <2>3. QED
    BY <1>4, <2>1, <2>2 DEF EndsInOn
<1>6. PrefixesOK(held, q2)
  <2> SUFFICES ASSUME NEW j \in 0 .. Len(q2), NEW m \in Acts, HasOpposite(m),
                      After(held, q2, j, m)
               PROVE  ~After(held, q2, j, Opposite(m))
    BY DEF PrefixesOK
  <2>1. Opposite(m) \in Acts /\ HasOpposite(Opposite(m)) /\ Opposite(m) # m
        /\ Opposite(Opposite(m)) = m
    BY OppositeFacts
  <2>2. CASE j \in 0 .. Len(q)
    BY <1>4, <1>g, <2>1, <2>2 DEF PrefixesOK
  <2>3. CASE j = Len(q2)
    <3>1. After(held, q, Len(q), m) => ~After(held, q, Len(q), Opposite(m))
      BY <1>3, <1>g DEF PrefixesOK
    <3>2. After(held, q, Len(q), Opposite(m)) <=> kb.on[Opposite(m)]
      BY <1>g, <2>1 DEF EndsInOn
    <3>3. After(held, q, Len(q), m) <=> kb.on[m]
      BY <1>g DEF EndsInOn
    <3>4. CASE n = m
      BY <1>4, <2>1, <2>3, <3>2, <3>4
    <3>5. CASE n = Opposite(m)
      BY <1>4, <2>1, <2>3, <3>3, <3>5
    <3>6. CASE n # m /\ n # Opposite(m)
      BY <1>4, <2>1, <2>3, <3>1, <3>6
    <3>7. QED
      BY <3>4, <3>5, <3>6
  <2>4. QED
    BY <1>3, <2>2, <2>3
<1>7. Sorted(q2, key_delay)
  <2>1. /\ \A i \in 1 .. Len(q) : q[i].wait <= key_delay
        /\ \A i, j \in 1 .. Len(q) : i <= j => q[i].wait <= q[j].wait
    BY <1>g DEF Sorted
  <2>2. \A i : i \in 1 .. Len(q2) <=> i \in 1 .. Len(q) \/ i = Len(q) + 1
    BY <1>3
  <2>3. \A i \in 1 .. Len(q2) : q2[i].wait <= key_delay
    BY <1>2, <1>3, <2>1, <2>2
  <2>4. ASSUME NEW i \in 1 .. Len(q2), NEW j \in 1 .. Len(q2), i <= j
        PROVE  q2[i].wait <= q2[j].wait
    <3>1. CASE j = Len(q) + 1
      BY <1>2, <1>3, <2>3, <3>1
    <3>2. CASE j \in 1 .. Len(q)
      <4>1. i \in 1 .. Len(q)
        BY <1>3, <2>4, <3>2
      <4>2. QED
        BY <1>3, <2>1, <2>4, <3>2, <4>1
    <3>3. QED
      BY <2>2, <3>1, <3>2
  <2>5. QED
    BY <2>3, <2>4 DEF Sorted
<1>8. QED
  BY <1>1, <1>2, <1>5, <1>6, <1>7 DEF Good

\* Releasing a key keeps Good, and leaves exactly that key off.
LEMMA ReleaseGood ==
  ASSUME key_delay \in Nat, NEW kb, Good(kb), NEW n \in Acts
  PROVE  /\ Good(Release(kb, n))
         /\ Release(kb, n).on = [kb.on EXCEPT ![n] = FALSE]
<1>1. CASE kb.on[n]
  BY <1>1, AppendGood DEF Release
<1>2. CASE ~kb.on[n]
  BY <1>2 DEF Release, Good
<1>3. QED
  BY <1>1, <1>2

\* on_check keeps Good and leaves the key and its opposite off.
LEMMA OnCheckGood ==
  ASSUME key_delay \in Nat, NEW kb, Good(kb), NEW n \in Acts
  PROVE  /\ Good(on_check(kb, n))
         /\ ~on_check(kb, n).on[n]
         /\ HasOpposite(n) => ~on_check(kb, n).on[Opposite(n)]
<1> DEFINE r == Release(kb, n)
<1>1. Good(r) /\ r.on = [kb.on EXCEPT ![n] = FALSE]
  BY ReleaseGood
<1>2. kb.on \in [Acts -> BOOLEAN]
  BY DEF Good
<1> HIDE DEF r
<1>3. CASE HasOpposite(n)
  <2>1. Opposite(n) \in Acts /\ Opposite(n) # n
    BY <1>3, OppositeFacts
  <2>2. /\ Good(Release(r, Opposite(n)))
        /\ Release(r, Opposite(n)).on = [r.on EXCEPT ![Opposite(n)] = FALSE]
    BY <1>1, <2>1, ReleaseGood
  <2>3. on_check(kb, n) = Release(r, Opposite(n))
    BY <1>3 DEF on_check, r
  <2>4. QED
    BY <1>1, <1>2, <2>1, <2>2, <2>3
<1>4. CASE ~HasOpposite(n)
  <2>1. on_check(kb, n) = r
    BY <1>4 DEF on_check, r
  <2>2. QED
    BY <1>1, <1>2, <1>4, <2>1
<1>5. QED
  BY <1>3, <1>4

\* Pressing a key keeps Good.
LEMMA PressGood ==
  ASSUME key_delay \in Nat, NEW kb, Good(kb), NEW n \in Acts
  PROVE  Good(Press(kb, n))
<1>1. CASE kb.on[n]
  BY <1>1 DEF Press
<1>2. CASE ~kb.on[n]
  <2> DEFINE clear == on_check(kb, n)
  <2>1. Good(clear) /\ (HasOpposite(n) => ~clear.on[Opposite(n)])
    BY OnCheckGood
  <2>2. Press(kb, n) = [on |-> [clear.on EXCEPT ![n] = TRUE], queue |-> AddEvent(clear, n, TRUE)]
    BY <1>2 DEF Press
  <2> HIDE DEF clear
  <2>3. QED
    BY <2>1, <2>2, AppendGood
<1>3. QED
  BY <1>1, <1>2

\* So do key_on and key_off, for single keys and for diagonals.
LEMMA AnyGood ==
  ASSUME key_delay \in Nat, NEW kb, Good(kb), NEW n
  PROVE  Good(PressAny(kb, n)) /\ Good(ReleaseAny(kb, n))
<1>1. Vertical(n) \in Acts /\ Horizontal(n) \in Acts /\ ACT_DOWN \in Acts /\ ACT_LEFT \in Acts
  BY DEF Vertical, Horizontal, Acts, ACT_UP, ACT_DOWN, ACT_LEFT, ACT_RIGHT
<1>2. Good(PressAny(kb, n))
  <2>1. CASE n \in Acts
    BY <2>1, PressGood DEF PressAny
  <2>2. CASE n \notin Acts
    <3>1. Good(Press(kb, Vertical(n)))
      BY <1>1, PressGood
    <3>2. Good(Press(Press(kb, Vertical(n)), Horizontal(n)))
      BY <1>1, <3>1, PressGood
    <3>3. QED
      BY <2>2, <3>2 DEF PressAny
  <2>3. QED
    BY <2>1, <2>2
<1>3. Good(ReleaseAny(kb, n))
  <2>1. CASE n \in Acts
    BY <2>1, OnCheckGood DEF ReleaseAny
  <2>2. CASE n \notin Acts
    <3>1. Good(on_check(kb, ACT_DOWN))
      BY <1>1, OnCheckGood
    <3>2. Good(on_check(on_check(kb, ACT_DOWN), ACT_LEFT))
      BY <1>1, <3>1, OnCheckGood
    <3>3. QED
      BY <2>2, <3>2 DEF ReleaseAny
  <2>3. QED
    BY <2>1, <2>2
<1>4. QED
  BY <1>2, <1>3

-----------------------------------------------------------------------------
\* Good(KB) spelled out over the variables.
GoodVars ==
  /\ PrefixesOK(held, queue)
  /\ EndsInOn(held, queue, on)
  /\ Sorted(queue, key_delay)

LEMMA GoodIsGoodVars == TypeOK => (Good(KB) <=> GoodVars)
BY DEF TypeOK, Good, KB, GoodVars

\* A step that only edits on[] and the queue, keeping Good, keeps the invariant.
LEMMA ApplyGood ==
  ASSUME IInv, NEW kb, Good(kb), ApplyKB(kb), UNCHANGED <<key_delay, held>>,
         pc' \in {"script", "reset", "reset_clear", "clear"}, it' \in Nat
  PROVE  IInv'
<1>1. TypeOK'
  BY DEF IInv, TypeOK, Good, ApplyKB
<1>2. Good(KB)'
  BY DEF Good, KB, ApplyKB, PrefixesOK, EndsInOn, Sorted, After
<1>3. QED
  BY <1>1, <1>2 DEF IInv, PassedNotDue

\* Sending the oldest event keeps the prefixes in order.
LEMMA PopGood ==
  ASSUME IInv, queue # <<>>, ExecEvent(Head(queue)), queue' = Tail(queue),
         UNCHANGED <<on, key_delay>>
  PROVE  held' \subseteq Acts /\ queue' \in Seq(Events) /\ GoodVars'
<1>1. /\ queue \in Seq(Events) /\ held \subseteq Acts /\ on \in [Acts -> BOOLEAN]
      /\ key_delay \in Nat
  BY DEF IInv, TypeOK
<1>2. Head(queue).act \in Acts
  <2>1. Head(queue) = queue[1] /\ 1 \in DOMAIN queue
    BY <1>1
  <2>2. QED
    BY <1>1, <2>1, QueuedFields
<1>3. held' = IF Head(queue).down THEN held \cup {Head(queue).act} ELSE held \ {Head(queue).act}
  BY DEF ExecEvent
<1>4. /\ Len(queue) \in Nat \ {0} /\ Len(queue') = Len(queue) - 1
      /\ queue' \in Seq(Events)
      /\ \A i \in 1 .. Len(queue) - 1 : queue'[i] = queue[i + 1]
  BY <1>1
<1>5. ASSUME NEW n \in Acts, NEW j \in 0 .. Len(queue) - 1
      PROVE  After(held', queue', j, n) <=> After(held, queue, j + 1, n)
  <2>1. n \in held' <=> IF Head(queue).act = n THEN Head(queue).down ELSE n \in held
    BY <1>3
  <2> DEFINE g == held'
  <2>2. n \in g <=> IF Head(queue).act = n THEN Head(queue).down ELSE n \in held
    BY <2>1
  <2> HIDE DEF g
  <2>3. After(g, Tail(queue), j, n) <=> After(held, queue, j + 1, n)
    BY <1>1, <2>2, TailAfter
  <2>4. QED
    BY <2>3 DEF g
<1>6. PrefixesOK(held, queue) /\ EndsInOn(held, queue, on) /\ Sorted(queue, key_delay)
  BY DEF IInv, Good, KB
<1>7. PrefixesOK(held', queue')
  <2>1. \A j \in 0 .. Len(queue') : j \in 0 .. Len(queue) - 1 /\ j + 1 \in 0 .. Len(queue)
    BY <1>4
  <2>2. QED
    BY <1>5, <1>6, <2>1, OppositeFacts DEF PrefixesOK
<1>8. EndsInOn(held', queue', on')
  <2>1. Len(queue') \in 0 .. Len(queue) - 1 /\ Len(queue') + 1 = Len(queue)
    BY <1>4
  <2>2. QED
    BY <1>5, <1>6, <2>1 DEF EndsInOn
<1>9. Sorted(queue', key_delay')
  <2>1. \A i \in 1 .. Len(queue') : i \in 1 .. Len(queue) - 1 /\ i + 1 \in 1 .. Len(queue)
    BY <1>4
  <2>2. \A i \in 1 .. Len(queue') : queue'[i] = queue[i + 1]
    BY <1>4
  <2>3. \A i, j \in 1 .. Len(queue') : i <= j => i + 1 <= j + 1
    BY <1>4
  <2>4. QED
    BY <1>6, <2>1, <2>2, <2>3 DEF Sorted
<1>10. held' \subseteq Acts
  BY <1>1, <1>2, <1>3
<1>11. QED
  BY <1>4, <1>7, <1>8, <1>9, <1>10 DEF GoodVars

\* Steps that touch neither the keys, nor the events, nor the delay.
LEMMA KeptGood ==
  ASSUME TypeOK, Good(KB), UNCHANGED <<on, queue, key_delay, held>>,
         pc' \in {"script", "reset", "reset_clear", "process", "clear"}, it' \in Nat
  PROVE  TypeOK' /\ Good(KB)'
<1>1. TypeOK'
  BY DEF TypeOK
<1>2. KB' = KB
  BY DEF KB
<1>3. Good(KB)'
  BY <1>2 DEF Good
<1>4. QED
  BY <1>1, <1>3

LEMMA InitGood == Init => IInv
<1> SUFFICES ASSUME Init PROVE IInv
  OBVIOUS
<1>1. TypeOK
  BY DEF Init, TypeOK, Acts
<1>2. Good(KB)
  <2>1. queue = <<>> /\ Len(queue) = 0 /\ held = {} /\ on = [n \in Acts |-> FALSE]
    BY DEF Init
  <2>2. \A j \in 0 .. Len(queue), n \in Acts : ~After(held, queue, j, n)
    BY <2>1 DEF After
  <2>3. PrefixesOK(held, queue)
    BY <2>2 DEF PrefixesOK
  <2>4. EndsInOn(held, queue, on)
    BY <2>1, <2>2 DEF EndsInOn
  <2>5. Sorted(queue, key_delay)
    BY <2>1 DEF Sorted
  <2>6. QED
    BY <1>1, <2>3, <2>4, <2>5 DEF Good, KB, TypeOK
<1>3. PassedNotDue
  BY DEF Init, PassedNotDue
<1>4. QED
  BY <1>1, <1>2, <1>3 DEF IInv

\* Every step of a steady script keeps the inductive invariant.
LEMMA StepGood == IInv /\ [Next /\ DelayKept]_vars => IInv'
<1> SUFFICES ASSUME IInv, [Next /\ DelayKept]_vars
             PROVE  IInv'
  OBVIOUS
<1>t. TypeOK /\ Good(KB) /\ key_delay \in Nat /\ it \in Nat
  BY DEF IInv, TypeOK
<1>1. ASSUME NEW n \in ScriptKeys, key_on(n)
      PROVE  IInv'
  <2>1. Good(PressAny(KB, n))
    BY <1>t, AnyGood
  <2>2. QED
    BY <1>1, <1>t, <2>1, ApplyGood DEF key_on
<1>2. ASSUME NEW n \in ScriptKeys, key_off(n)
      PROVE  IInv'
  <2>1. Good(ReleaseAny(KB, n))
    BY <1>t, AnyGood
  <2>2. QED
    BY <1>2, <1>t, <2>1, ApplyGood DEF key_off
<1>3. ASSUME NEW d \in Delays, set_key_delay(d), DelayKept
      PROVE  IInv'
  <2>1. d \in Nat /\ key_delay' = d /\ UNCHANGED <<on, queue, held, pc, it>> /\ pc = "script"
    BY <1>3, DelaysAssumption DEF set_key_delay
  <2>2. Sorted(queue, key_delay')
    <3>1. CASE queue = <<>>
      BY <3>1 DEF Sorted
    <3>2. CASE key_delay' >= key_delay
      <4>1. \A i \in 1 .. Len(queue) : queue[i].wait \in Nat
        BY <1>t, QueuedFields DEF TypeOK
      <4>2. QED
        BY <1>t, <2>1, <3>2, <4>1 DEF Good, KB, Sorted
    <3>3. QED
      BY <1>3, <3>1, <3>2 DEF DelayKept
  <2>3. TypeOK'
    BY <1>t, <2>1 DEF TypeOK
  <2>4. QED
    <3>1. KB' = KB
      BY <2>1 DEF KB
    <3>2. Sorted(queue, key_delay)'
      BY <2>1, <2>2 DEF Sorted
    <3>3. Good(KB)'
      BY <1>t, <2>1, <3>1, <3>2 DEF Good, KB
    <3>4. PassedNotDue'
      BY <2>1 DEF PassedNotDue
    <3>5. QED
      BY <2>3, <3>3, <3>4 DEF IInv
<1>4. ASSUME NEW loop \in {"reset", "reset_clear"}, key_reset_call(loop)
      PROVE  IInv'
  <2>1. ApplyKB(KB)
    BY <1>4 DEF key_reset_call, ApplyKB, KB
  <2>2. QED
    BY <1>4, <1>t, <2>1, ApplyGood DEF key_reset_call
<1>5. CASE key_reset_step
  <2>1. CASE it \in Acts
    <3>1. Good(ReleaseAny(KB, it))
      BY <1>t, AnyGood
    <3>2. QED
      BY <1>5, <1>t, <2>1, <3>1, ApplyGood DEF key_reset_step
  <2>2. CASE it \notin Acts
    <3>1. ApplyKB(KB)
      BY <1>5, <2>2 DEF key_reset_step, ApplyKB, KB
    <3>2. QED
      BY <1>5, <1>t, <2>2, <3>1, ApplyGood DEF key_reset_step
  <2>3. QED
    BY <2>1, <2>2
<1>6. CASE ProcessEvent_begin
  <2>1. pc' = "process" /\ it' = 1 /\ UNCHANGED <<on, queue, key_delay, held>>
    BY <1>6 DEF ProcessEvent_begin
  <2>2. TypeOK' /\ Good(KB)'
    BY <1>t, <2>1, KeptGood
  <2>3. PassedNotDue'
    BY <1>t, <2>1 DEF PassedNotDue, TypeOK
  <2>4. QED
    BY <2>2, <2>3 DEF IInv
<1>7. CASE ProcessEvent_step
  <2>1. CASE queue[it].wait <= 0
    <3>1. it \in DOMAIN queue /\ queue \in Seq(Events) /\ Len(queue) \in Nat \ {0} /\ 1 \in DOMAIN queue
      BY <1>7, <1>t DEF ProcessEvent_step, TypeOK
    <3>2. it = 1
      <4>1. SUFFICES ASSUME it # 1 PROVE FALSE
        OBVIOUS
      <4>2. queue[1].wait > 0
        BY <1>7, <1>t, <3>1, <4>1 DEF IInv, PassedNotDue, ProcessEvent_step
      <4>3. queue[1].wait <= queue[it].wait
        BY <1>t, <3>1 DEF Good, KB, Sorted
      <4>4. queue[1].wait \in Nat /\ queue[it].wait \in Nat
        BY <3>1, QueuedFields
      <4>5. QED
        BY <2>1, <4>2, <4>3, <4>4
    <3>3. RemoveAt(queue, 1) = Tail(queue)
      <4>1. SubSeq(queue, 1, 0) = <<>> /\ SubSeq(queue, 2, Len(queue)) = Tail(queue)
        BY <3>1
      <4>2. <<>> \o Tail(queue) = Tail(queue)
        BY <3>1
      <4>3. QED
        BY <4>1, <4>2 DEF RemoveAt
    <3>4. queue # <<>> /\ Head(queue) = queue[1]
      BY <3>1
    <3>5. /\ ExecEvent(Head(queue)) /\ queue' = Tail(queue)
          /\ UNCHANGED <<on, key_delay, pc, it>>
      BY <1>7, <2>1, <3>2, <3>3, <3>4 DEF ProcessEvent_step, ExecEvent
    <3>6. held' \subseteq Acts /\ queue' \in Seq(Events) /\ GoodVars'
      BY <3>4, <3>5, PopGood
    <3>7. TypeOK' /\ Good(KB)'
      BY <1>t, <3>5, <3>6 DEF TypeOK, GoodVars, Good, KB
    <3>8. PassedNotDue'
      <4>1. it' = 1 /\ DOMAIN queue' \subseteq Nat \ {0}
        BY <3>2, <3>5, <3>6
      <4>2. QED
        BY <4>1 DEF PassedNotDue
    <3>9. QED
      BY <3>7, <3>8 DEF IInv
  <2>2. CASE ~(queue[it].wait <= 0)
    <3>1. it \in DOMAIN queue /\ pc = "process" /\ it' = it + 1
          /\ UNCHANGED <<on, queue, key_delay, held, pc>>
      BY <1>7, <2>2 DEF ProcessEvent_step
    <3>2. queue[it].wait > 0
      BY <1>t, <2>2, <3>1, QueuedFields DEF TypeOK
    <3>3. TypeOK' /\ Good(KB)'
      BY <1>t, <3>1, KeptGood
    <3>4. PassedNotDue'
      BY <1>t, <3>1, <3>2 DEF IInv, PassedNotDue, TypeOK
    <3>5. QED
      BY <3>3, <3>4 DEF IInv
  <2>3. QED
    BY <2>1, <2>2
<1>8. CASE ProcessEvent_end
  <2>1. /\ pc = "process" /\ it \notin DOMAIN queue /\ pc' = "script" /\ it' = 0
        /\ queue' = [i \in DOMAIN queue |-> [queue[i] EXCEPT !.wait = @ - 1]]
        /\ UNCHANGED <<on, key_delay, held>>
    BY <1>8 DEF ProcessEvent_end
  <2>2. queue \in Seq(Events) /\ DOMAIN queue = 1 .. Len(queue) /\ Len(queue) \in Nat
    BY <1>t DEF TypeOK
  <2>3. \A i \in DOMAIN queue : queue[i].wait > 0
    <3>1. it > 0 /\ it > Len(queue)
      BY <1>t, <2>1, <2>2 DEF IInv, PassedNotDue
    <3>2. QED
      BY <1>t, <2>1, <2>2, <3>1 DEF IInv, PassedNotDue
  <2>4. ASSUME NEW i \in DOMAIN queue
        PROVE  /\ queue'[i] \in Events
               /\ queue'[i].act = queue[i].act /\ queue'[i].down = queue[i].down
               /\ queue'[i].wait = queue[i].wait - 1
    <3>1. queue[i] \in Events /\ queue[i].wait > 0
      BY <2>2, <2>3, QueuedFields
    <3>2. queue'[i] = [queue[i] EXCEPT !.wait = queue[i].wait - 1]
      BY <2>1
    <3>3. ASSUME NEW e \in Events, e.wait > 0
          PROVE  /\ [e EXCEPT !.wait = e.wait - 1] \in Events
                 /\ [e EXCEPT !.wait = e.wait - 1].act = e.act
                 /\ [e EXCEPT !.wait = e.wait - 1].down = e.down
                 /\ [e EXCEPT !.wait = e.wait - 1].wait = e.wait - 1
      BY <3>3 DEF Events
    <3>4. QED
      BY <3>1, <3>2, <3>3
  <2>5. queue' \in Seq(Events) /\ Len(queue') = Len(queue) /\ DOMAIN queue' = DOMAIN queue
    <3>1. queue' = [i \in 1 .. Len(queue) |-> queue'[i]]
      BY <2>1, <2>2
    <3>2. \A i \in 1 .. Len(queue) : queue'[i] \in Events
      BY <2>2, <2>4
    <3>3. QED
      BY <2>2, <3>1, <3>2, IsASeq
  <2>6. \A j \in 0 .. Len(queue), n \in Acts : After(held', queue', j, n) <=> After(held, queue, j, n)
    <3> SUFFICES ASSUME NEW j \in 0 .. Len(queue), NEW n \in Acts
                 PROVE  After(held', queue', j, n) <=> After(held, queue, j, n)
      OBVIOUS
    <3>1. \A p \in 1 .. j : queue'[p].act = queue[p].act /\ queue'[p].down = queue[p].down
      BY <2>2, <2>4
    <3>2. \A p \in 1 .. j : \A r \in p + 1 .. j : r \in 1 .. j
      BY <2>2
    <3>3. held' = held
      BY <2>1
    <3> DEFINE q2 == queue'
               h2 == held'
    <3>4. h2 = held /\ \A p \in 1 .. j : q2[p].act = queue[p].act /\ q2[p].down = queue[p].down
      BY <3>1, <3>3
    <3> HIDE DEF q2, h2
    <3>5. After(h2, q2, j, n) <=> After(held, queue, j, n)
      BY <3>2, <3>4 DEF After
    <3>6. QED
      BY <3>5 DEF q2, h2
  <2>7. PrefixesOK(held', queue') /\ EndsInOn(held', queue', on')
    <3>1. PrefixesOK(held, queue) /\ EndsInOn(held, queue, on)
      BY <1>t DEF Good, KB
    <3>2. Len(queue) \in 0 .. Len(queue)
      BY <2>2
    <3>3. EndsInOn(held', queue', on')
      BY <2>1, <2>5, <2>6, <3>1, <3>2 DEF EndsInOn
    <3>4. PrefixesOK(held', queue')
      BY <2>5, <2>6, <3>1, OppositeFacts DEF PrefixesOK
    <3>5. QED
      BY <3>3, <3>4
  <2>8. Sorted(queue', key_delay')
    <3>1. Sorted(queue, key_delay) /\ \A i \in 1 .. Len(queue) : queue[i].wait \in Nat
      BY <1>t, <2>2, QueuedFields DEF Good, KB
    <3>2. \A i \in 1 .. Len(queue) : queue'[i].wait = queue[i].wait - 1
      BY <2>2, <2>4
    <3>3. \A i \in 1 .. Len(queue) : queue'[i].wait <= key_delay'
      BY <1>t, <2>1, <3>1, <3>2 DEF Sorted
    <3>4. \A i, j \in 1 .. Len(queue) : i <= j => queue'[i].wait <= queue'[j].wait
      BY <3>1, <3>2 DEF Sorted
    <3>5. QED
      BY <2>5, <3>3, <3>4 DEF Sorted
  <2>9. QED
    BY <1>t, <2>1, <2>5, <2>7, <2>8 DEF IInv, TypeOK, Good, KB, PassedNotDue
<1>9. CASE Clear_step
  <2>1. CASE queue = <<>>
    <3>1. ApplyKB(KB)
      BY <1>9, <2>1 DEF Clear_step, ApplyKB, KB
    <3>2. QED
      BY <1>9, <1>t, <2>1, <3>1, ApplyGood DEF Clear_step
  <2>2. CASE queue # <<>>
    <3>1. /\ ExecEvent(Head(queue)) /\ queue' = Tail(queue) /\ pc' = "clear"
          /\ UNCHANGED <<on, key_delay, it>>
      BY <1>9, <2>2 DEF Clear_step
    <3>2. held' \subseteq Acts /\ queue' \in Seq(Events) /\ GoodVars'
      BY <2>2, <3>1, PopGood
    <3>3. QED
      BY <1>t, <3>1, <3>2 DEF IInv, TypeOK, GoodVars, Good, KB, PassedNotDue
  <2>3. QED
    BY <2>1, <2>2
<1>10. CASE UNCHANGED vars
  <2>1. TypeOK' /\ Good(KB)'
    BY <1>10, <1>t, KeptGood DEF vars, TypeOK
  <2>2. PassedNotDue'
    BY <1>10 DEF IInv, vars, PassedNotDue
  <2>3. QED
    BY <2>1, <2>2 DEF IInv
<1>11. QED
  BY <1>1, <1>2, <1>3, <1>4, <1>5, <1>6, <1>7, <1>8, <1>9, <1>10
  DEF Next, Script, Frame, Loops

-----------------------------------------------------------------------------
\* The inductive invariant holds of every steady script.
LEMMA Invariance == SteadySpec => []IInv
<1>1. Init => IInv
  BY InitGood
<1>2. IInv /\ [Next /\ DelayKept]_vars => IInv'
  BY StepGood
<1>3. QED
  BY <1>1, <1>2, PTL DEF SteadySpec

\* The variables keep their types.
THEOREM TypeCorrect == SteadySpec => []TypeOK
<1>1. IInv => TypeOK
  BY DEF IInv
<1>2. QED
  BY <1>1, Invariance, PTL

\* The game never sees two opposite directions pressed, whatever keys the
\* script presses and however the game's sampling falls between the events.
THEOREM NeverOpposite == SteadySpec => []NoOppositeHeld
<1>1. IInv => NoOppositeHeld
  <2> SUFFICES ASSUME IInv, NEW n \in Acts, HasOpposite(n), n \in held
               PROVE  Opposite(n) \notin held
    BY DEF NoOppositeHeld
  <2>1. 0 \in 0 .. Len(queue)
    BY DEF IInv, TypeOK
  <2>2. \A m : After(held, queue, 0, m) <=> m \in held
    BY DEF After
  <2>3. QED
    BY <2>1, <2>2 DEF IInv, Good, KB, PrefixesOK
<1>2. QED
  BY <1>1, Invariance, PTL

\* When every event has been sent the game sees exactly the keys in on[].
THEOREM DrainedAgrees == SteadySpec => []DrainedMatches
<1>1. IInv => DrainedMatches
  <2> SUFFICES ASSUME IInv, queue = <<>>
               PROVE  held = {n \in Acts : on[n]}
    BY DEF DrainedMatches
  <2>1. Len(queue) = 0 /\ held \subseteq Acts
    BY DEF IInv, TypeOK
  <2>2. \A m : After(held, queue, 0, m) <=> m \in held
    BY DEF After
  <2>3. QED
    BY <2>1, <2>2 DEF IInv, Good, KB, EndsInOn
<1>2. QED
  BY <1>1, Invariance, PTL
=============================================================================
