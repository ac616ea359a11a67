-------------------------- MODULE SchedulerProofs --------------------------
(***************************************************************************)
(* The heap of the scheduler and what rests on it, for any number of tasks *)
(* and any sizes of days, batches and delays.                              *)
(***************************************************************************)
EXTENDS Scheduler, Iteration, FiniteSetTheorems, SequenceTheorems, TLAPS

-----------------------------------------------------------------------------
(* Heaps *)

TaskType == [deadline_ms : Nat, sequence : Nat, daily_spec : DailyTimes \cup {Once},
             heap_index : Nat]

\* What a task is, wherever it is put.
Entry(t) == [deadline_ms |-> t.deadline_ms, sequence |-> t.sequence,
             daily_spec |-> t.daily_spec]

Contents(h) == {Entry(h[i]) : i \in 1 .. Len(h)}

\* Tasks with different numbers, each of which knows its place.
Queue(h) ==
    /\ h \in Seq(TaskType)
    /\ \A i \in 1 .. Len(h) : h[i].heap_index = i
    /\ \A i, j \in 1 .. Len(h) : h[i].sequence = h[j].sequence => i = j

\* The task at i comes before the one at j.
Before(h, i, j) == task_before(h[i], h[j])

Sound(h) == \A i \in 1 .. Len(h) : i > 1 => Before(h, i \div 2, i)

\* Where a task is after the ones at i and j have changed places.
Swapped(i, j, x) == IF x = i THEN j ELSE IF x = j THEN i ELSE x

\* Tasks with different numbers are ordered, one way and not the other.
LEMMA Ordered ==
    ASSUME NEW h, Queue(h)
    PROVE  /\ \A i, j \in 1 .. Len(h) : i # j => Before(h, i, j) \/ Before(h, j, i)
           /\ \A i, j \in 1 .. Len(h) : ~ (Before(h, i, j) /\ Before(h, j, i))
           /\ \A i, j, k \in 1 .. Len(h) :
                 Before(h, i, j) /\ Before(h, j, k) => Before(h, i, k)
<1>1. \A i \in 1 .. Len(h) : h[i].deadline_ms \in Nat /\ h[i].sequence \in Nat
  <2> SUFFICES ASSUME NEW i \in 1 .. Len(h)
               PROVE  h[i].deadline_ms \in Nat /\ h[i].sequence \in Nat
    OBVIOUS
  <2>1. h[i] \in TaskType
    BY DEF Queue
  <2> QED
    BY <2>1 DEF TaskType
<1>2. \A i, j \in 1 .. Len(h) : h[i].sequence = h[j].sequence => i = j
  BY DEF Queue
<1> QED
  BY <1>1, <1>2 DEF Before, task_before

\* The order depends on what tasks are only.
LEMMA SameOrder ==
    ASSUME NEW t, NEW u, NEW v, NEW w, Entry(t) = Entry(v), Entry(u) = Entry(w)
    PROVE  task_before(t, u) <=> task_before(v, w)
<1>1. t.deadline_ms = v.deadline_ms /\ t.sequence = v.sequence
  BY DEF Entry
<1>2. u.deadline_ms = w.deadline_ms /\ u.sequence = w.sequence
  BY DEF Entry
<1> QED
  BY <1>1, <1>2 DEF task_before

\* g is h with the task t at i.
HasAt(g, h, i, t) ==
    /\ g \in Seq(TaskType)
    /\ Len(g) = Len(h)
    /\ Entry(g[i]) = Entry(t) /\ g[i].heap_index = i
    /\ \A x \in 1 .. Len(h) : x # i => g[x] = h[x]

\* A task that is put somewhere.
LEMMA PlacedThere ==
    ASSUME NEW h \in Seq(TaskType), NEW i \in 1 .. Len(h), NEW t \in TaskType
    PROVE  HasAt(Placed(h, i, t), h, i, t)
<1> DEFINE u == [t EXCEPT !.heap_index = i]
<1>1. u \in TaskType /\ Entry(u) = Entry(t) /\ u.heap_index = i
  <2>1. i \in Nat
    OBVIOUS
  <2>2. u \in TaskType /\ u.heap_index = i
    BY <2>1 DEF TaskType
  <2>3. /\ u.deadline_ms = t.deadline_ms /\ u.sequence = t.sequence
        /\ u.daily_spec = t.daily_spec
    BY DEF TaskType
  <2> QED
    BY <2>2, <2>3 DEF Entry
<1>2. Placed(h, i, t) = [h EXCEPT ![i] = u]
  BY DEF Placed
<1> HIDE DEF u
<1>3. /\ [h EXCEPT ![i] = u] \in Seq(TaskType)
      /\ Len([h EXCEPT ![i] = u]) = Len(h)
      /\ [h EXCEPT ![i] = u][i] = u
      /\ \A x \in 1 .. Len(h) : x # i => [h EXCEPT ![i] = u][x] = h[x]
  BY <1>1
<1> QED
  BY <1>1, <1>2, <1>3 DEF HasAt

\* Two tasks that change places.
LEMMA SwapTasks ==
    ASSUME NEW h, Queue(h), NEW i \in 1 .. Len(h), NEW j \in 1 .. Len(h), i # j
    PROVE  /\ Queue(swap_tasks(h, i, j))
           /\ Len(swap_tasks(h, i, j)) = Len(h)
           /\ Contents(swap_tasks(h, i, j)) = Contents(h)
           /\ \A x, y \in 1 .. Len(h) :
                 Before(swap_tasks(h, i, j), x, y)
                    <=> Before(h, Swapped(i, j, x), Swapped(i, j, y))
<1> DEFINE f == Placed(h, i, h[j])
           g == Placed(f, j, h[i])
<1>0. swap_tasks(h, i, j) = g
  BY DEF swap_tasks
<1>1. h \in Seq(TaskType) /\ h[i] \in TaskType /\ h[j] \in TaskType
  BY DEF Queue
<1>2. /\ f \in Seq(TaskType) /\ Len(f) = Len(h)
      /\ Entry(f[i]) = Entry(h[j]) /\ f[i].heap_index = i
      /\ \A x \in 1 .. Len(h) : x # i => f[x] = h[x]
  <2>1. HasAt(f, h, i, h[j])
    BY <1>1, PlacedThere
  <2> QED
    BY <2>1 DEF HasAt
<1> HIDE DEF f
<1>3. /\ g \in Seq(TaskType) /\ Len(g) = Len(h)
      /\ Entry(g[j]) = Entry(h[i]) /\ g[j].heap_index = j
      /\ \A x \in 1 .. Len(h) : x # j => g[x] = f[x]
  <2>1. HasAt(g, f, j, h[i])
    BY <1>1, <1>2, PlacedThere
  <2> QED
    BY <1>2, <2>1 DEF HasAt
<1> HIDE DEF g
<1>4. \A x \in 1 .. Len(h) : /\ Swapped(i, j, x) \in 1 .. Len(h)
                             /\ Swapped(i, j, Swapped(i, j, x)) = x
  BY DEF Swapped
<1>5. \A x \in 1 .. Len(h) : Entry(g[x]) = Entry(h[Swapped(i, j, x)])
  BY <1>2, <1>3 DEF Swapped
<1>6. \A x \in 1 .. Len(h) : g[x].heap_index = x
  BY <1>2, <1>3 DEF Queue
<1>7. \A x \in 1 .. Len(h) : g[x].sequence = h[Swapped(i, j, x)].sequence
  BY <1>5 DEF Entry
<1>8. ASSUME NEW x \in 1 .. Len(h), NEW y \in 1 .. Len(h), g[x].sequence = g[y].sequence
      PROVE  x = y
  <2>1. Swapped(i, j, x) = Swapped(i, j, y)
    BY <1>4, <1>7, <1>8 DEF Queue
  <2> QED
    BY <1>4, <2>1
<1>9. Queue(g)
  BY <1>3, <1>6, <1>8 DEF Queue
<1>10. Contents(g) = Contents(h)
  <2>1. \A x \in 1 .. Len(h) : Entry(h[x]) = Entry(g[Swapped(i, j, x)])
    BY <1>4, <1>5
  <2> QED
    BY <1>3, <1>4, <1>5, <2>1 DEF Contents
<1>11. \A x, y \in 1 .. Len(h) :
          Before(g, x, y) <=> Before(h, Swapped(i, j, x), Swapped(i, j, y))
  BY <1>5, SameOrder DEF Before
<1> QED
  BY <1>0, <1>3, <1>9, <1>10, <1>11

\* The parent of a task.
LEMMA Parent ==
    ASSUME NEW i \in Nat, i > 1
    PROVE  i \div 2 \in Nat /\ 1 <= i \div 2 /\ i \div 2 < i
OBVIOUS

\* The first task of a heap comes before all others.
LEMMA FirstIsLeast ==
    ASSUME NEW h, Queue(h), Sound(h), NEW i \in 1 .. Len(h), i # 1
    PROVE  Before(h, 1, i)
<1> DEFINE T == {n \in Nat : n \in 2 .. Len(h) /\ ~ Before(h, 1, n)}
<1>0. Len(h) \in Nat
  BY DEF Queue
<1> SUFFICES ASSUME T # {} PROVE FALSE
  BY <1>0
<1>1. PICK x \in T : \A y \in T : x <= y
  BY NatMin
<1>2. x \in 1 .. Len(h) /\ x > 1 /\ ~ Before(h, 1, x)
  BY <1>0
<1> DEFINE p == x \div 2
<1>3. p \in 1 .. Len(h) /\ p < x /\ 1 \in 1 .. Len(h)
  BY <1>0, <1>2, Parent
<1>4. Before(h, p, x)
  BY <1>2 DEF Sound
<1> HIDE DEF p
<1>5. CASE p = 1
  BY <1>2, <1>4, <1>5
<1>6. CASE p # 1
  <2>1. p \notin T
    BY <1>1, <1>3
  <2>2. Before(h, 1, p)
    BY <1>3, <1>6, <2>1
  <2> HIDE DEF T
  <2> QED
    BY <1>2, <1>3, <1>4, <2>2, Ordered
<1> QED
  BY <1>5, <1>6

-----------------------------------------------------------------------------
(* sift_up *)

\* A heap but for the task at x, which may come before its parent.
UpHeap(h, x) ==
    /\ \A i \in 1 .. Len(h) : i > 1 /\ i # x => Before(h, i \div 2, i)
    /\ \A i \in 1 .. Len(h) : x > 1 /\ i > 1 /\ i \div 2 = x => Before(h, x \div 2, i)

\* The states of the loop that works on the tasks of h.
Loops == [heap : Seq(TaskType), index : Nat]

Keeps(s, h) ==
    /\ Queue(s.heap) /\ Len(s.heap) = Len(h) /\ Contents(s.heap) = Contents(h)
    /\ s.index \in 1 .. Len(h)

UpLoops(h) == {s \in Loops : Keeps(s, h) /\ UpHeap(s.heap, s.index)}

UpDone(s) == s.index = 1 \/ ~ Before(s.heap, s.index, s.index \div 2)

\* A swap with the parent keeps all else in order.
LEMMA UpSwap ==
    ASSUME NEW h, Queue(h), NEW x \in 1 .. Len(h), x > 1, UpHeap(h, x),
           Before(h, x, x \div 2)
    PROVE  UpHeap(swap_tasks(h, x, x \div 2), x \div 2)
<1> DEFINE p == x \div 2
           g == swap_tasks(h, x, p)
<1>0. Len(h) \in Nat
  BY DEF Queue
<1>1. p \in 1 .. Len(h) /\ p < x
  BY <1>0, Parent
<1>2. /\ Len(g) = Len(h)
      /\ \A i, j \in 1 .. Len(h) :
            Before(g, i, j) <=> Before(h, Swapped(x, p, i), Swapped(x, p, j))
  BY <1>1, SwapTasks
<1> HIDE DEF g
<1>3. ASSUME NEW i \in 1 .. Len(h), i > 1
      PROVE  i \div 2 \in 1 .. Len(h) /\ i \div 2 < i
  BY <1>0, <1>3, Parent
<1>4. Before(h, x, p)
  OBVIOUS
<1>5. \A i \in 1 .. Len(h) : i > 1 /\ i # x => Before(h, i \div 2, i)
  BY DEF UpHeap
<1>6. \A i \in 1 .. Len(h) : i > 1 /\ i \div 2 = x => Before(h, p, i)
  BY DEF UpHeap
<1>7. x \div 2 = p
  OBVIOUS
<1> HIDE DEF p
<1>8. ASSUME NEW i \in 1 .. Len(h), i > 1, i # p
      PROVE  Before(g, i \div 2, i)
  <2> DEFINE q == i \div 2
  <2>1. q \in 1 .. Len(h) /\ q < i
    BY <1>3, <1>8
  <2>2. Before(g, q, i) <=> Before(h, Swapped(x, p, q), Swapped(x, p, i))
    BY <1>2, <2>1
  <2>3. CASE i = x
    <3>1. q = p /\ Swapped(x, p, q) = x /\ Swapped(x, p, i) = p
      BY <1>1, <1>7, <2>3 DEF Swapped
    <3> QED
      BY <1>4, <2>2, <3>1
  <2>4. CASE i # x /\ q = x
    <3>1. Swapped(x, p, q) = p /\ Swapped(x, p, i) = i
      BY <1>8, <2>4 DEF Swapped
    <3>2. Before(h, p, i)
      BY <1>6, <1>8, <2>4
    <3> QED
      BY <2>2, <3>1, <3>2
  <2>5. CASE i # x /\ q = p
    <3>1. Swapped(x, p, q) = x /\ Swapped(x, p, i) = i
      BY <1>8, <1>1, <2>5 DEF Swapped
    <3>2. Before(h, p, i)
      BY <1>5, <1>8, <2>5
    <3>3. Before(h, x, i)
      BY <1>1, <1>4, <3>2, Ordered
    <3> QED
      BY <2>2, <3>1, <3>3
  <2>6. CASE i # x /\ q # x /\ q # p
    <3>1. Swapped(x, p, q) = q /\ Swapped(x, p, i) = i
      BY <1>8, <2>6 DEF Swapped
    <3> QED
      BY <1>5, <1>8, <2>2, <2>6, <3>1
  <2> QED
    BY <2>3, <2>4, <2>5, <2>6
<1>9. ASSUME NEW i \in 1 .. Len(h), p > 1, i > 1, i \div 2 = p
      PROVE  Before(g, p \div 2, i)
  <2> DEFINE q == p \div 2
  <2>1. q \in 1 .. Len(h) /\ q < p /\ p < i
    BY <1>1, <1>3, <1>9
  <2>2. Before(h, q, p)
    BY <1>1, <1>5, <1>9
  <2> HIDE DEF q
  <2>3. Before(g, q, i) <=> Before(h, q, Swapped(x, p, i))
    BY <1>1, <1>2, <2>1 DEF Swapped
  <2>4. CASE i = x
    BY <2>2, <2>3, <2>4 DEF Swapped, q
  <2>5. CASE i # x
    <3>1. Before(h, p, i) /\ Swapped(x, p, i) = i
      BY <1>5, <1>9, <2>1, <2>5 DEF Swapped
    <3> QED
      BY <1>1, <2>1, <2>2, <2>3, <3>1, Ordered DEF q
  <2> QED
    BY <2>4, <2>5
<1> QED
  BY <1>2, <1>8, <1>9 DEF UpHeap, g, p

\* A turn of the loop.
LEMMA RaisedStep ==
    ASSUME NEW h, NEW s \in UpLoops(h)
    PROVE  /\ Raised(s) \in UpLoops(h)
           /\ UpDone(s) => Raised(s) = s
           /\ ~ UpDone(s) => Raised(s).index = s.index \div 2
<1> DEFINE x == s.index
           p == x \div 2
           g == swap_tasks(s.heap, x, p)
           r == [heap |-> g, index |-> p]
<1>0. /\ Queue(s.heap) /\ Len(s.heap) = Len(h) /\ Contents(s.heap) = Contents(h)
      /\ x \in 1 .. Len(h) /\ UpHeap(s.heap, x) /\ Len(h) \in Nat
  BY DEF UpLoops, Keeps, Queue
<1>1. CASE UpDone(s)
  <2>1. Raised(s) = s
    BY <1>1, <1>0 DEF UpDone, Raised, Before
  <2> QED
    BY <1>1, <2>1
<1>2. CASE ~ UpDone(s)
  <2>1. x > 1 /\ Before(s.heap, x, p)
    BY <1>0, <1>2 DEF UpDone
  <2>2. p \in 1 .. Len(h) /\ p # x
    BY <1>0, <2>1, Parent
  <2>3. Raised(s) = r
    BY <2>1 DEF Raised, Before
  <2>4. Queue(g) /\ Len(g) = Len(h) /\ Contents(g) = Contents(h)
    BY <1>0, <2>2, SwapTasks
  <2>5. UpHeap(g, p)
    BY <1>0, <2>1, UpSwap
  <2> HIDE DEF g, p
  <2>6. g \in Seq(TaskType) /\ p \in Nat
    BY <1>0, <2>2, <2>4 DEF Queue
  <2>7. r \in Loops /\ r.heap = g /\ r.index = p
    BY <2>6 DEF Loops
  <2> HIDE DEF r
  <2>8. r \in UpLoops(h)
    BY <2>2, <2>4, <2>5, <2>7 DEF UpLoops, Keeps
  <2> QED
    BY <1>2, <2>3, <2>7, <2>8 DEF p
<1> QED
  BY <1>1, <1>2

\* The loop, turn by turn.
Start(h, i) == [heap |-> h, index |-> i]

IsUpLoop(turn, h, i) ==
    /\ turn[0] = Start(h, i)
    /\ \A n \in Nat : turn[n] \in UpLoops(h)
    /\ \A n \in Nat : turn[n + 1] = Raised(turn[n])
    /\ sift_up(h, i) = turn[Len(h) \div 2].heap

\* sift_up is the heap after the last turn.
LEMMA SiftUpIsLoop ==
    ASSUME NEW h, NEW i, Start(h, i) \in UpLoops(h)
    PROVE  \E turn : IsUpLoop(turn, h, i)
<1> DEFINE S == UpLoops(h)
           step == [s \in S |-> Raised(s)]
           Eq(g) == g = [n \in Nat |-> IF n = 0 THEN Start(h, i) ELSE Raised(g[n - 1])]
           turn == CHOOSE g : Eq(g)
<1>1. Start(h, i) \in S /\ step \in [S -> S]
  BY RaisedStep
<1>2. sift_up(h, i) = turn[Len(h) \div 2].heap
  BY DEF sift_up, Start
<1>3. PICK f \in [Nat -> S] :
          \A n \in Nat : f[n] = IF n = 0 THEN Start(h, i) ELSE step[f[n - 1]]
  <2> HIDE DEF step, S
  <2> QED
    BY <1>1, Iterated
<1>4. Eq(turn)
  <2>1. \A n \in Nat : n # 0 => n - 1 \in Nat
    OBVIOUS
  <2>2. \A n \in Nat : f[n] = IF n = 0 THEN Start(h, i) ELSE Raised(f[n - 1])
    BY <1>3, <2>1
  <2>3. f = [n \in Nat |-> IF n = 0 THEN Start(h, i) ELSE Raised(f[n - 1])]
    BY <1>3, <2>2
  <2>4. Eq(f)
    BY <2>3
  <2> HIDE DEF Eq
  <2> QED
    BY <2>4
<1> HIDE DEF turn
<1>5. turn[0] = Start(h, i)
  BY <1>4
<1>6. ASSUME NEW n \in Nat
      PROVE  turn[n + 1] = Raised(turn[n])
  <2>1. n + 1 \in Nat /\ n + 1 # 0 /\ (n + 1) - 1 = n
    OBVIOUS
  <2> QED
    BY <1>4, <2>1
<1> DEFINE P == {n \in Nat : turn[n] \in UpLoops(h)}
<1>7. 0 \in P
  BY <1>1, <1>5
<1>8. ASSUME NEW n \in Nat, n \in P
      PROVE  n + 1 \in P
  BY <1>6, <1>8, RaisedStep
<1>9. \A n \in Nat : n \in P
  <2> HIDE DEF P
  <2> QED
    BY <1>7, <1>8, NatInd
<1>10. IsUpLoop(turn, h, i)
  BY <1>2, <1>5, <1>6, <1>9 DEF IsUpLoop
<1> QED
  BY <1>10

\* sift_up makes a heap of the same tasks, wherever the one that was out of place
\* ends up: the loop has ended after half as many turns as there are tasks.
LEMMA SiftUp ==
    ASSUME NEW h, Queue(h), NEW i \in 1 .. Len(h), UpHeap(h, i)
    PROVE  /\ Queue(sift_up(h, i)) /\ Sound(sift_up(h, i))
           /\ Len(sift_up(h, i)) = Len(h) /\ Contents(sift_up(h, i)) = Contents(h)
<1>0. Len(h) \in Nat /\ h \in Seq(TaskType)
  BY DEF Queue
<1>1. Start(h, i) \in UpLoops(h) /\ Start(h, i).index = i
  <2>1. Start(h, i) \in Loops /\ Start(h, i).heap = h /\ Start(h, i).index = i
    BY <1>0 DEF Loops, Start
  <2> QED
    BY <2>1 DEF UpLoops, Keeps
<1>2. PICK turn : IsUpLoop(turn, h, i)
  BY <1>1, SiftUpIsLoop
<1>3. \A n \in Nat : /\ turn[n] \in UpLoops(h) /\ turn[n + 1] = Raised(turn[n])
                     /\ turn[n].index \in Nat /\ turn[n].index >= 1
  <2>1. \A s \in UpLoops(h) : s.index \in Nat /\ s.index >= 1
    BY <1>0 DEF UpLoops, Keeps
  <2> QED
    BY <1>2, <2>1 DEF IsUpLoop
<1> DEFINE P == {n \in Nat : UpDone(turn[n]) \/ turn[n].index + 2 * n <= i}
<1>4. 0 \in P
  <2>1. turn[0].index = i
    BY <1>1, <1>2 DEF IsUpLoop
  <2>2. i + 2 * 0 <= i
    BY <1>0
  <2> QED
    BY <2>1, <2>2
<1>5. ASSUME NEW n \in Nat, n \in P
      PROVE  n + 1 \in P
  <2> DEFINE x == turn[n].index
             y == turn[n + 1].index
  <2>1. CASE UpDone(turn[n])
    <3>1. turn[n + 1] = turn[n]
      BY <1>3, <2>1, RaisedStep
    <3> QED
      BY <2>1, <3>1
  <2>2. CASE ~ UpDone(turn[n])
    <3>1. y = x \div 2 /\ x \in Nat /\ x >= 1 /\ x # 1
      BY <1>3, <2>2, RaisedStep DEF UpDone
    <3>2. x + 2 * n <= i
      BY <1>5, <2>2
    <3>3. y = 1 => UpDone(turn[n + 1])
      BY DEF UpDone
    <3> HIDE DEF x, y
    <3>4. y = 1 \/ y + 2 * (n + 1) <= i
      BY <3>1, <3>2
    <3> QED
      BY <3>3, <3>4 DEF y
  <2> QED
    BY <2>1, <2>2
<1>6. \A n \in Nat : n \in P
  <2> HIDE DEF P
  <2> QED
    BY <1>4, <1>5, NatInd
<1> DEFINE m == Len(h) \div 2
           s == turn[m]
<1>7. m \in Nat /\ 2 * m + 1 >= Len(h)
  BY <1>0
<1>8. UpDone(s)
  <2>1. UpDone(s) \/ s.index + 2 * m <= i
    BY <1>6, <1>7
  <2>2. s.index \in Nat /\ s.index >= 1
    BY <1>3, <1>7
  <2>3. s.index = 1 => UpDone(s)
    BY DEF UpDone
  <2> HIDE DEF s, m
  <2> QED
    BY <1>0, <1>7, <2>1, <2>2, <2>3
<1>9. s \in UpLoops(h) /\ sift_up(h, i) = s.heap
  BY <1>2, <1>3, <1>7 DEF IsUpLoop
<1> HIDE DEF s
<1>10. /\ Queue(s.heap) /\ Len(s.heap) = Len(h) /\ Contents(s.heap) = Contents(h)
       /\ s.index \in 1 .. Len(h) /\ UpHeap(s.heap, s.index)
  BY <1>9 DEF UpLoops, Keeps
<1>11. ASSUME NEW j \in 1 .. Len(h), j > 1
       PROVE  Before(s.heap, j \div 2, j)
  <2>1. CASE j # s.index
    BY <1>10, <1>11, <2>1 DEF UpHeap
  <2>2. CASE j = s.index
    <3>1. ~ Before(s.heap, j, j \div 2)
      BY <1>8, <1>11, <2>2 DEF UpDone
    <3>2. j \div 2 \in 1 .. Len(h) /\ j \div 2 # j
      BY <1>0, <1>11, Parent
    <3> QED
      BY <1>10, <3>1, <3>2, Ordered
  <2> QED
    BY <2>1, <2>2
<1> QED
  BY <1>9, <1>10, <1>11 DEF Sound

-----------------------------------------------------------------------------
(* sift_down *)

\* A heap but for the task at x, which may come after its children.
DownHeap(h, x) ==
    /\ \A i \in 1 .. Len(h) : i > 1 /\ i \div 2 # x => Before(h, i \div 2, i)
    /\ \A i \in 1 .. Len(h) : x > 1 /\ i > 1 /\ i \div 2 = x => Before(h, x \div 2, i)

DownLoops(h) == {s \in Loops : Keeps(s, h) /\ DownHeap(s.heap, s.index)}

DownDone(s) == Smallest(s.heap, s.index) = s.index

\* The first of a task and its children.
LEMMA SmallestIsFirst ==
    ASSUME NEW h, Queue(h), NEW x \in 1 .. Len(h)
    PROVE  /\ Smallest(h, x) \in 1 .. Len(h)
           /\ Smallest(h, x) # x =>
                 /\ Smallest(h, x) > 1 /\ Smallest(h, x) \div 2 = x
                 /\ Before(h, Smallest(h, x), x)
                 /\ Smallest(h, x) >= 2 * x
           /\ \A i \in 1 .. Len(h) :
                 i > 1 /\ i \div 2 = x /\ i # Smallest(h, x) => Before(h, Smallest(h, x), i)
<1> DEFINE l == 2 * x
           r == 2 * x + 1
           s == IF l <= Len(h) /\ Before(h, l, x) THEN l ELSE x
           c == IF r <= Len(h) /\ Before(h, r, s) THEN r ELSE s
<1>0. Len(h) \in Nat /\ x \in Nat /\ x >= 1 /\ x <= Len(h)
  BY DEF Queue
<1>1. Smallest(h, x) = c
  BY DEF Smallest, Before
<1>2. l \in Nat /\ r \in Nat /\ l > x /\ r > x /\ l >= 1 /\ r > l /\ r >= 1
  BY <1>0
<1>3. l \div 2 = x /\ r \div 2 = x
  BY <1>0
<1>4. \A i \in Nat : i \div 2 = x => i = l \/ i = r
  BY <1>0
<1>5. l <= Len(h) => l \in 1 .. Len(h)
  BY <1>0, <1>2
<1>6. r <= Len(h) => r \in 1 .. Len(h) /\ l \in 1 .. Len(h)
  BY <1>0, <1>2
<1>7. r >= 2 * x /\ l >= 2 * x /\ l > 1 /\ r > 1 /\ l # r
  BY <1>0
<1> HIDE DEF l, r
<1>8. s \in 1 .. Len(h) /\ (s = x \/ s = l)
  BY <1>5
<1>9. c \in 1 .. Len(h) /\ (c = x \/ c = l \/ c = r)
  BY <1>6, <1>8
<1>10. c # x => Before(h, c, x)
  <2>1. CASE c = r /\ c # s
    <3>1. Before(h, r, s) /\ r \in 1 .. Len(h)
      BY <1>6, <2>1
    <3>2. s # x => Before(h, s, x)
      OBVIOUS
    <3> HIDE DEF s, c
    <3> QED
      BY <1>8, <2>1, <3>1, <3>2, Ordered
  <2>2. CASE c = s
    BY <2>2
  <2> QED
    BY <2>1, <2>2
<1>11. ASSUME l <= Len(h), l # c
       PROVE  Before(h, c, l)
  <2>1. CASE s = l
    <3>1. c = r /\ Before(h, r, l) /\ r <= Len(h)
      BY <1>11, <2>1
    <3> QED
      BY <3>1
  <2>2. CASE s # l
    <3>1. s = x /\ ~ Before(h, l, x)
      BY <1>11, <2>2
    <3>2. Before(h, x, l)
      BY <1>2, <1>5, <1>11, <3>1, Ordered
    <3>3. c = x \/ (c = r /\ Before(h, r, x))
      BY <3>1
    <3> HIDE DEF c, s
    <3> QED
      BY <1>5, <1>9, <1>11, <3>2, <3>3, Ordered
  <2> QED
    BY <2>1, <2>2
<1>12. ASSUME r <= Len(h), r # c
       PROVE  Before(h, c, r)
  <2>1. c = s /\ ~ Before(h, r, s)
    BY <1>12
  <2> HIDE DEF c, s
  <2> QED
    BY <1>6, <1>8, <1>12, <2>1, Ordered
<1> HIDE DEF c
<1>13. ASSUME NEW i \in 1 .. Len(h), i > 1, i \div 2 = x, i # c
       PROVE  Before(h, c, i)
  <2>1. i \in Nat /\ i <= Len(h)
    BY <1>0
  <2>2. i = l \/ i = r
    BY <1>4, <1>13, <2>1
  <2> QED
    BY <1>11, <1>12, <1>13, <2>1, <2>2
<1>14. c # x => c > 1 /\ c \div 2 = x /\ c >= 2 * x
  BY <1>3, <1>7, <1>9
<1> QED
  BY <1>1, <1>9, <1>10, <1>13, <1>14

\* A swap with the first child keeps all else in order.
LEMMA DownSwap ==
    ASSUME NEW h, Queue(h), NEW x \in 1 .. Len(h), DownHeap(h, x), Smallest(h, x) # x
    PROVE  DownHeap(swap_tasks(h, x, Smallest(h, x)), Smallest(h, x))
<1> DEFINE c == Smallest(h, x)
           g == swap_tasks(h, x, c)
<1>0. Len(h) \in Nat /\ x \in Nat /\ x >= 1
  BY DEF Queue
<1>1. /\ c \in 1 .. Len(h) /\ c > 1 /\ c \div 2 = x /\ Before(h, c, x) /\ c # x
      /\ \A i \in 1 .. Len(h) : i > 1 /\ i \div 2 = x /\ i # c => Before(h, c, i)
  BY SmallestIsFirst
<1> HIDE DEF c
<1>2. /\ Len(g) = Len(h)
      /\ \A i, j \in 1 .. Len(h) :
            Before(g, i, j) <=> Before(h, Swapped(x, c, i), Swapped(x, c, j))
  BY <1>1, SwapTasks
<1> HIDE DEF g
<1>3. ASSUME NEW i \in 1 .. Len(h), i > 1
      PROVE  i \div 2 \in 1 .. Len(h) /\ i \div 2 < i
  BY <1>0, <1>3, Parent
<1>4. \A i \in 1 .. Len(h) : i > 1 /\ i \div 2 # x => Before(h, i \div 2, i)
  BY DEF DownHeap
<1>5. \A i \in 1 .. Len(h) : x > 1 /\ i > 1 /\ i \div 2 = x => Before(h, x \div 2, i)
  BY DEF DownHeap
<1>6. ASSUME NEW i \in 1 .. Len(h), i > 1, i \div 2 # c
      PROVE  Before(g, i \div 2, i)
  <2> DEFINE q == i \div 2
  <2>1. q \in 1 .. Len(h) /\ q < i /\ q # c
    BY <1>3, <1>6
  <2>2. Before(g, q, i) <=> Before(h, Swapped(x, c, q), Swapped(x, c, i))
    BY <1>2, <2>1
  <2>3. CASE i = c
    <3>1. Swapped(x, c, q) = c /\ Swapped(x, c, i) = x
      BY <1>1, <2>3 DEF Swapped
    <3> QED
      BY <1>1, <2>2, <3>1
  <2>4. CASE i # c /\ q = x
    <3>1. Swapped(x, c, q) = c /\ Swapped(x, c, i) = i
      BY <2>1, <2>4 DEF Swapped
    <3> QED
      BY <1>1, <1>6, <2>2, <2>4, <3>1
  <2>5. CASE i = x
    <3>1. Swapped(x, c, q) = q /\ Swapped(x, c, i) = c
      BY <2>1, <2>5 DEF Swapped
    <3>2. Before(h, x \div 2, c)
      BY <1>1, <1>5, <1>6, <2>5
    <3> QED
      BY <2>2, <2>5, <3>1, <3>2
  <2>6. CASE i # c /\ q # x /\ i # x
    <3>1. Swapped(x, c, q) = q /\ Swapped(x, c, i) = i
      BY <2>1, <2>6 DEF Swapped
    <3> QED
      BY <1>4, <1>6, <2>2, <2>6, <3>1
  <2> QED
    BY <2>3, <2>4, <2>5, <2>6
<1>7. ASSUME NEW i \in 1 .. Len(h), i > 1, i \div 2 = c
      PROVE  Before(g, c \div 2, i)
  <2>1. x < c /\ c < i
    BY <1>1, <1>3, <1>7
  <2>2. i # x /\ i # c /\ Swapped(x, c, x) = c /\ Swapped(x, c, i) = i
    BY <1>0, <1>1, <2>1 DEF Swapped
  <2>3. Before(h, c, i)
    BY <1>1, <1>4, <1>7
  <2> QED
    BY <1>1, <1>2, <2>2, <2>3
<1> QED
  BY <1>2, <1>6, <1>7 DEF DownHeap, g, c

\* A turn of the loop.
LEMMA LoweredStep ==
    ASSUME NEW h, NEW s \in DownLoops(h)
    PROVE  /\ Lowered(s) \in DownLoops(h)
           /\ DownDone(s) => Lowered(s) = s
           /\ ~ DownDone(s) => Lowered(s).index >= 2 * s.index
<1> DEFINE x == s.index
           c == Smallest(s.heap, x)
           g == swap_tasks(s.heap, x, c)
           r == [heap |-> g, index |-> c]
<1>0. /\ Queue(s.heap) /\ Len(s.heap) = Len(h) /\ Contents(s.heap) = Contents(h)
      /\ x \in 1 .. Len(h) /\ DownHeap(s.heap, x) /\ Len(h) \in Nat
  BY DEF DownLoops, Keeps, Queue
<1>1. CASE DownDone(s)
  <2>1. Lowered(s) = s
    BY <1>1 DEF DownDone, Lowered
  <2> QED
    BY <1>1, <2>1
<1>2. CASE ~ DownDone(s)
  <2>1. c # x
    BY <1>2 DEF DownDone
  <2>2. c \in 1 .. Len(h) /\ c >= 2 * x
    BY <1>0, <2>1, SmallestIsFirst
  <2>3. Lowered(s) = r
    BY <2>1 DEF Lowered
  <2>4. Queue(g) /\ Len(g) = Len(h) /\ Contents(g) = Contents(h)
    BY <1>0, <2>1, <2>2, SwapTasks
  <2>5. DownHeap(g, c)
    BY <1>0, <2>1, DownSwap
  <2> HIDE DEF g, c
  <2>6. g \in Seq(TaskType) /\ c \in Nat
    BY <1>0, <2>2, <2>4 DEF Queue
  <2>7. r \in Loops /\ r.heap = g /\ r.index = c
    BY <2>6 DEF Loops
  <2> HIDE DEF r
  <2>8. r \in DownLoops(h)
    BY <2>2, <2>4, <2>5, <2>7 DEF DownLoops, Keeps
  <2> QED
    BY <1>2, <2>2, <2>3, <2>7, <2>8
<1> QED
  BY <1>1, <1>2

\* The loop, turn by turn.
IsDownLoop(turn, h, i) ==
    /\ turn[0] = Start(h, i)
    /\ \A n \in Nat : turn[n] \in DownLoops(h)
    /\ \A n \in Nat : turn[n + 1] = Lowered(turn[n])
    /\ sift_down(h, i) = turn[Len(h) \div 2].heap

\* sift_down is the heap after the last turn.
LEMMA SiftDownIsLoop ==
    ASSUME NEW h, NEW i, Start(h, i) \in DownLoops(h)
    PROVE  \E turn : IsDownLoop(turn, h, i)
<1> DEFINE S == DownLoops(h)
           step == [s \in S |-> Lowered(s)]
           Eq(g) == g = [n \in Nat |-> IF n = 0 THEN Start(h, i) ELSE Lowered(g[n - 1])]
           turn == CHOOSE g : Eq(g)
<1>1. Start(h, i) \in S /\ step \in [S -> S]
  BY LoweredStep
<1>2. sift_down(h, i) = turn[Len(h) \div 2].heap
  BY DEF sift_down, Start
<1>3. PICK f \in [Nat -> S] :
          \A n \in Nat : f[n] = IF n = 0 THEN Start(h, i) ELSE step[f[n - 1]]
  <2> HIDE DEF step, S
  <2> QED
    BY <1>1, Iterated
<1>4. Eq(turn)
  <2>1. \A n \in Nat : n # 0 => n - 1 \in Nat
    OBVIOUS
  <2>2. \A n \in Nat : f[n] = IF n = 0 THEN Start(h, i) ELSE Lowered(f[n - 1])
    BY <1>3, <2>1
  <2>3. f = [n \in Nat |-> IF n = 0 THEN Start(h, i) ELSE Lowered(f[n - 1])]
    BY <1>3, <2>2
  <2>4. Eq(f)
    BY <2>3
  <2> HIDE DEF Eq
  <2> QED
    BY <2>4
<1> HIDE DEF turn
<1>5. turn[0] = Start(h, i)
  BY <1>4
<1>6. ASSUME NEW n \in Nat
      PROVE  turn[n + 1] = Lowered(turn[n])
  <2>1. n + 1 \in Nat /\ n + 1 # 0 /\ (n + 1) - 1 = n
    OBVIOUS
  <2> QED
    BY <1>4, <2>1
<1> DEFINE P == {n \in Nat : turn[n] \in DownLoops(h)}
<1>7. 0 \in P
  BY <1>1, <1>5
<1>8. ASSUME NEW n \in Nat, n \in P
      PROVE  n + 1 \in P
  BY <1>6, <1>8, LoweredStep
<1>9. \A n \in Nat : n \in P
  <2> HIDE DEF P
  <2> QED
    BY <1>7, <1>8, NatInd
<1>10. IsDownLoop(turn, h, i)
  BY <1>2, <1>5, <1>6, <1>9 DEF IsDownLoop
<1> QED
  BY <1>10

\* sift_down makes a heap of the same tasks, too.
LEMMA SiftDown ==
    ASSUME NEW h, Queue(h), NEW i \in 1 .. Len(h), DownHeap(h, i)
    PROVE  /\ Queue(sift_down(h, i)) /\ Sound(sift_down(h, i))
           /\ Len(sift_down(h, i)) = Len(h) /\ Contents(sift_down(h, i)) = Contents(h)
<1>0. Len(h) \in Nat /\ h \in Seq(TaskType)
  BY DEF Queue
<1>1. Start(h, i) \in DownLoops(h) /\ Start(h, i).index = i
  <2>1. Start(h, i) \in Loops /\ Start(h, i).heap = h /\ Start(h, i).index = i
    BY <1>0 DEF Loops, Start
  <2> QED
    BY <2>1 DEF DownLoops, Keeps
<1>2. PICK turn : IsDownLoop(turn, h, i)
  BY <1>1, SiftDownIsLoop
<1>3. \A n \in Nat : /\ turn[n] \in DownLoops(h) /\ turn[n + 1] = Lowered(turn[n])
                     /\ turn[n].index \in Nat /\ turn[n].index >= 1
  <2>1. \A s \in DownLoops(h) : s.index \in Nat /\ s.index >= 1
    BY <1>0 DEF DownLoops, Keeps
  <2> QED
    BY <1>2, <2>1 DEF IsDownLoop
<1> DEFINE P == {n \in Nat : DownDone(turn[n]) \/ turn[n].index >= n + 1}
<1>4. 0 \in P
  <2>1. turn[0].index = i
    BY <1>1, <1>2 DEF IsDownLoop
  <2>2. i >= 0 + 1
    BY <1>0
  <2> QED
    BY <2>1, <2>2
<1>5. ASSUME NEW n \in Nat, n \in P
      PROVE  n + 1 \in P
  <2> DEFINE x == turn[n].index
             y == turn[n + 1].index
  <2>1. CASE DownDone(turn[n])
    <3>1. turn[n + 1] = turn[n]
      BY <1>3, <2>1, LoweredStep
    <3> QED
      BY <2>1, <3>1
  <2>2. CASE ~ DownDone(turn[n])
    <3>1. y >= 2 * x
      BY <1>3, <2>2, LoweredStep
    <3>2. x >= n + 1
      BY <1>5, <2>2
    <3>3. x \in Nat /\ y \in Nat
      <4>1. n + 1 \in Nat
        OBVIOUS
      <4> QED
        BY <1>3, <4>1
    <3> HIDE DEF x, y
    <3>4. y >= (n + 1) + 1
      BY <3>1, <3>2, <3>3
    <3> QED
      BY <3>4 DEF y
  <2> QED
    BY <2>1, <2>2
<1>6. \A n \in Nat : n \in P
  <2> HIDE DEF P
  <2> QED
    BY <1>4, <1>5, NatInd
<1> DEFINE m == Len(h) \div 2
           s == turn[m]
<1>7. m \in Nat /\ 2 * m + 1 >= Len(h)
  BY <1>0
<1>8. s \in DownLoops(h) /\ sift_down(h, i) = s.heap
  BY <1>2, <1>3, <1>7 DEF IsDownLoop
<1>9. DownDone(s) \/ s.index >= m + 1
  BY <1>6, <1>7
<1> HIDE DEF s, m
<1>10. /\ Queue(s.heap) /\ Len(s.heap) = Len(h) /\ Contents(s.heap) = Contents(h)
       /\ s.index \in 1 .. Len(h) /\ DownHeap(s.heap, s.index)
  BY <1>8 DEF DownLoops, Keeps
<1>11. DownDone(s)
  <2> SUFFICES ASSUME ~ DownDone(s) PROVE FALSE
    OBVIOUS
  <2> DEFINE c == Smallest(s.heap, s.index)
  <2>1. c >= 2 * s.index /\ c \in 1 .. Len(h)
    BY <1>10, SmallestIsFirst DEF DownDone
  <2> HIDE DEF c
  <2> QED
    BY <1>0, <1>7, <1>9, <1>10, <2>1
<1>12. ASSUME NEW j \in 1 .. Len(h), j > 1
       PROVE  Before(s.heap, j \div 2, j)
  <2>1. CASE j \div 2 # s.index
    BY <1>10, <1>12, <2>1 DEF DownHeap
  <2>2. CASE j \div 2 = s.index
    <3>1. j # s.index
      BY <1>0, <1>12, <2>2, Parent
    <3> QED
      <4>1. Smallest(s.heap, s.index) = s.index
        BY <1>11 DEF DownDone
      <4>2. \A k \in 1 .. Len(s.heap) :
               (k > 1 /\ k \div 2 = s.index /\ k # s.index) => Before(s.heap, s.index, k)
        BY <1>10, <4>1, SmallestIsFirst
      <4> QED
        BY <1>10, <1>12, <2>2, <3>1, <4>2
  <2> QED
    BY <2>1, <2>2
<1> QED
  BY <1>8, <1>10, <1>12 DEF Sound

-----------------------------------------------------------------------------
(* Pushing, popping and removing *)

Heap(h) == Queue(h) /\ Sound(h)

\* heap_push adds the task, and nothing else changes.
LEMMA HeapPush ==
    ASSUME NEW h, Heap(h), NEW task \in TaskType,
           \A i \in 1 .. Len(h) : h[i].sequence # task.sequence
    PROVE  /\ Heap(heap_push(h, task))
           /\ Len(heap_push(h, task)) = Len(h) + 1
           /\ Contents(heap_push(h, task)) = Contents(h) \cup {Entry(task)}
<1> DEFINE n == Len(h) + 1
           t == [task EXCEPT !.heap_index = n]
           k == Append(h, t)
<1>0. h \in Seq(TaskType) /\ Len(h) \in Nat /\ n \in Nat /\ n \in 1 .. n
  BY DEF Heap, Queue
<1>1. t \in TaskType /\ Entry(t) = Entry(task) /\ t.sequence = task.sequence
      /\ t.heap_index = n
  BY <1>0 DEF TaskType, Entry
<1>2. heap_push(h, task) = sift_up(k, n)
  BY DEF heap_push
<1> HIDE DEF t
<1>3. /\ k \in Seq(TaskType) /\ Len(k) = n /\ k[n] = t
      /\ \A x \in 1 .. Len(h) : k[x] = h[x]
  BY <1>0, <1>1
<1> HIDE DEF k
<1>4. \A x \in 1 .. n : x # n => x \in 1 .. Len(h)
  BY <1>0
<1>5. Queue(k)
  <2>1. \A x \in 1 .. n : k[x].heap_index = x
    BY <1>1, <1>3, <1>4 DEF Heap, Queue
  <2>2. ASSUME NEW x \in 1 .. n, NEW y \in 1 .. n, k[x].sequence = k[y].sequence
        PROVE  x = y
    BY <1>1, <1>3, <1>4, <2>2 DEF Heap, Queue
  <2> QED
    BY <1>3, <2>1, <2>2 DEF Queue
<1>6. UpHeap(k, n)
  <2>1. ASSUME NEW i \in 1 .. n, i > 1
        PROVE  i \div 2 \in 1 .. Len(h) /\ i \div 2 # n
    BY <1>0, <2>1, Parent
  <2>2. ASSUME NEW i \in 1 .. n, i > 1, i # n
        PROVE  Before(k, i \div 2, i)
    BY <1>3, <1>4, <2>1, <2>2 DEF Heap, Sound, Before
  <2> QED
    BY <1>3, <2>1, <2>2 DEF UpHeap
<1>7. Contents(k) = Contents(h) \cup {Entry(task)}
  <2>1. \A x \in 1 .. Len(h) : x \in 1 .. n
    BY <1>0
  <2> QED
    BY <1>0, <1>1, <1>3, <1>4, <2>1 DEF Contents
<1>8. /\ Queue(sift_up(k, n)) /\ Sound(sift_up(k, n))
      /\ Len(sift_up(k, n)) = Len(k) /\ Contents(sift_up(k, n)) = Contents(k)
  BY <1>0, <1>3, <1>5, <1>6, SiftUp
<1> QED
  BY <1>2, <1>3, <1>7, <1>8 DEF Heap

\* The first m tasks.
LEMMA Front ==
    ASSUME NEW h \in Seq(TaskType), NEW m \in Nat, m <= Len(h)
    PROVE  /\ SubSeq(h, 1, m) \in Seq(TaskType)
           /\ Len(SubSeq(h, 1, m)) = m
           /\ \A x \in 1 .. m : SubSeq(h, 1, m)[x] = h[x]
OBVIOUS

\* The heap without its last task.
LEMMA ShortHeap ==
    ASSUME NEW h, Heap(h), h # <<>>
    PROVE  /\ Heap(Shortened(h))
           /\ Len(Shortened(h)) = Len(h) - 1
           /\ \A x \in 1 .. Len(h) - 1 : Shortened(h)[x] = h[x]
           /\ Contents(Shortened(h)) = Contents(h) \ {Entry(h[Len(h)])}
<1> DEFINE n == Len(h)
           k == Shortened(h)
<1>0. h \in Seq(TaskType) /\ n \in Nat /\ n >= 1 /\ n - 1 \in Nat
  BY DEF Heap, Queue
<1>1. k \in Seq(TaskType) /\ Len(k) = n - 1 /\ \A x \in 1 .. n - 1 : k[x] = h[x]
  <2>1. n - 1 <= n
    BY <1>0
  <2> QED
    BY <1>0, <2>1, Front DEF Shortened
<1> HIDE DEF k
<1>2. \A x \in 1 .. n - 1 : x \in 1 .. n /\ x # n
  BY <1>0
<1>3. \A x \in 1 .. n : x # n => x \in 1 .. n - 1
  BY <1>0
<1>4. n \in 1 .. n
  BY <1>0
<1> HIDE DEF n
<1>5. Queue(k)
  <2>1. \A x \in 1 .. n - 1 : k[x].heap_index = x
    BY <1>1, <1>2 DEF Heap, Queue, n
  <2>2. \A x, y \in 1 .. n : h[x].sequence = h[y].sequence => x = y
    BY DEF Heap, Queue, n
  <2>3. \A x, y \in 1 .. n - 1 : k[x].sequence = k[y].sequence => x = y
    BY <1>1, <1>2, <2>2
  <2> QED
    BY <1>1, <2>1, <2>3 DEF Queue
<1>6. Sound(k)
  <2> SUFFICES ASSUME NEW i \in 1 .. n - 1, i > 1
               PROVE  Before(k, i \div 2, i)
    BY <1>1 DEF Sound
  <2>1. i \div 2 \in 1 .. n - 1
    BY <1>0, Parent
  <2>2. Before(h, i \div 2, i)
    BY <1>2 DEF Heap, Sound, n
  <2> QED
    BY <1>1, <2>1, <2>2 DEF Before
<1>7. Contents(k) = Contents(h) \ {Entry(h[n])}
  <2>1. \A x \in 1 .. n - 1 : Entry(h[x]) # Entry(h[n])
    <3> SUFFICES ASSUME NEW x \in 1 .. n - 1, Entry(h[x]) = Entry(h[n])
                 PROVE  FALSE
      OBVIOUS
    <3>1. h[x].sequence = h[n].sequence
      BY DEF Entry
    <3> QED
      BY <1>2, <1>4, <3>1 DEF Heap, Queue, n
  <2>2. Contents(k) = {Entry(h[x]) : x \in 1 .. n - 1}
    BY <1>1 DEF Contents
  <2>3. Contents(h) = {Entry(h[x]) : x \in 1 .. n}
    BY DEF Contents, n
  <2> QED
    BY <1>2, <1>3, <2>1, <2>2, <2>3
<1> QED
  BY <1>1, <1>5, <1>6, <1>7 DEF Heap, n, k

\* The last task takes the place of another.
Vacated(h, i) == Placed(Shortened(h), i, h[Len(h)])

Moved(h, i, x) == IF x = i THEN Len(h) ELSE x

\* All other tasks stay, in the order they had.
LEMMA LastMoves ==
    ASSUME NEW h, Heap(h), NEW i \in 1 .. Len(h), i # Len(h)
    PROVE  /\ Queue(Vacated(h, i))
           /\ Len(Vacated(h, i)) = Len(h) - 1
           /\ Contents(Vacated(h, i)) = Contents(h) \ {Entry(h[i])}
           /\ \A x, y \in 1 .. Len(h) - 1 :
                 Before(Vacated(h, i), x, y) <=> Before(h, Moved(h, i, x), Moved(h, i, y))
<1> DEFINE n == Len(h)
           f == Shortened(h)
           k == Vacated(h, i)
<1>0. h \in Seq(TaskType) /\ n \in Nat /\ n >= 1 /\ n - 1 \in Nat /\ n \in 1 .. n
      /\ h # <<>> /\ i \in 1 .. n - 1 /\ h[n] \in TaskType
  BY DEF Heap, Queue
<1>1. f \in Seq(TaskType) /\ Len(f) = n - 1 /\ \A x \in 1 .. n - 1 : f[x] = h[x]
  BY <1>0, ShortHeap DEF Heap, Queue
<1>2. HasAt(k, f, i, h[n])
  BY <1>0, <1>1, PlacedThere DEF Vacated
<1> HIDE DEF f, k
<1>3. /\ k \in Seq(TaskType) /\ Len(k) = n - 1
      /\ Entry(k[i]) = Entry(h[n]) /\ k[i].heap_index = i
      /\ \A x \in 1 .. n - 1 : x # i => k[x] = h[x]
  BY <1>1, <1>2 DEF HasAt
<1>4. \A x \in 1 .. n - 1 : x \in 1 .. n /\ x # n
  BY <1>0
<1>5. \A x \in 1 .. n : x # n => x \in 1 .. n - 1
  BY <1>0
<1>6. \A x \in 1 .. n - 1 : /\ Moved(h, i, x) \in 1 .. n
                            /\ Entry(k[x]) = Entry(h[Moved(h, i, x)])
  BY <1>0, <1>3, <1>4 DEF Moved
<1>7. \A x, y \in 1 .. n - 1 : Moved(h, i, x) = Moved(h, i, y) => x = y
  BY <1>4 DEF Moved
<1>8. \A x \in 1 .. n : x # i => \E y \in 1 .. n - 1 : x = Moved(h, i, y)
  <2> SUFFICES ASSUME NEW x \in 1 .. n, x # i
               PROVE  \E y \in 1 .. n - 1 : x = Moved(h, i, y)
    OBVIOUS
  <2>1. CASE x = n
    BY <1>0, <2>1 DEF Moved
  <2>2. CASE x # n
    BY <1>5, <2>2 DEF Moved
  <2> QED
    BY <2>1, <2>2
<1>9. \A x \in 1 .. n - 1 : Moved(h, i, x) # i
  BY <1>0 DEF Moved
<1> HIDE DEF n
<1>10. Queue(k)
  <2>1. \A x \in 1 .. n - 1 : k[x].heap_index = x
    BY <1>3, <1>4 DEF Heap, Queue, n
  <2>2. \A x \in 1 .. n - 1 : k[x].sequence = h[Moved(h, i, x)].sequence
    BY <1>6 DEF Entry
  <2>3. ASSUME NEW x \in 1 .. n - 1, NEW y \in 1 .. n - 1, k[x].sequence = k[y].sequence
        PROVE  x = y
    <3>2. \A a, b \in 1 .. n : h[a].sequence = h[b].sequence => a = b
      BY DEF Heap, Queue, n
    <3>3. /\ Moved(h, i, x) \in 1 .. n /\ Moved(h, i, y) \in 1 .. n
          /\ h[Moved(h, i, x)].sequence = h[Moved(h, i, y)].sequence
      BY <1>6, <2>2, <2>3
    <3>1. Moved(h, i, x) = Moved(h, i, y)
      BY <3>2, <3>3
    <3> QED
      BY <1>7, <3>1
  <2> QED
    BY <1>3, <2>1, <2>3 DEF Queue
<1>11. Contents(k) = Contents(h) \ {Entry(h[i])}
  <2>1. \A x \in 1 .. n : x # i => Entry(h[x]) # Entry(h[i])
    <3> SUFFICES ASSUME NEW x \in 1 .. n, x # i, Entry(h[x]) = Entry(h[i])
                 PROVE  FALSE
      OBVIOUS
    <3>1. h[x].sequence = h[i].sequence
      BY DEF Entry
    <3> QED
      BY <3>1 DEF Heap, Queue, n
  <2>2. Contents(k) = {Entry(k[x]) : x \in 1 .. n - 1}
    BY <1>3 DEF Contents
  <2>3. Contents(h) = {Entry(h[x]) : x \in 1 .. n}
    BY DEF Contents, n
  <2>4. ASSUME NEW e \in Contents(k)
        PROVE  e \in Contents(h) \ {Entry(h[i])}
    <3>1. PICK x \in 1 .. n - 1 : e = Entry(k[x])
      BY <2>2
    <3>2. e = Entry(h[Moved(h, i, x)])
      BY <1>6, <3>1
    <3> QED
      BY <1>6, <1>9, <2>1, <2>3, <3>2
  <2>5. ASSUME NEW e \in Contents(h) \ {Entry(h[i])}
        PROVE  e \in Contents(k)
    <3>1. PICK x \in 1 .. n : e = Entry(h[x])
      BY <2>3
    <3>2. PICK y \in 1 .. n - 1 : x = Moved(h, i, y)
      BY <1>8, <2>5, <3>1
    <3> QED
      BY <1>6, <2>2, <3>1, <3>2
  <2> QED
    BY <2>4, <2>5
<1>12. \A x, y \in 1 .. n - 1 :
          Before(k, x, y) <=> Before(h, Moved(h, i, x), Moved(h, i, y))
  BY <1>6, SameOrder DEF Before
<1> QED
  BY <1>3, <1>10, <1>11, <1>12 DEF n, k

\* It goes up if it comes before its new parent ...
LEMMA VacatedUp ==
    ASSUME NEW h, Heap(h), NEW i \in 1 .. Len(h), i # Len(h), i > 1,
           Before(Vacated(h, i), i, i \div 2)
    PROVE  UpHeap(Vacated(h, i), i)
<1> DEFINE n == Len(h)
           k == Vacated(h, i)
           p == i \div 2
<1>0. n \in Nat /\ i \in 1 .. n - 1 /\ p \in 1 .. n - 1 /\ p < i
  BY Parent DEF Heap, Queue
<1>1. /\ Len(k) = n - 1
      /\ \A x, y \in 1 .. n - 1 :
            Before(k, x, y) <=> Before(h, Moved(h, i, x), Moved(h, i, y))
  BY LastMoves
<1>2. ASSUME NEW x \in 1 .. n - 1, x > 1
      PROVE  /\ x \div 2 \in 1 .. n - 1 /\ x \div 2 < x
             /\ x \in 1 .. n /\ x \div 2 \in 1 .. n /\ Before(h, x \div 2, x)
  <2>1. x \in Nat /\ x \in 1 .. n
    BY <1>0
  <2>2. x \div 2 \in 1 .. n - 1 /\ x \div 2 < x /\ x \div 2 \in 1 .. n
    BY <1>0, <1>2, <2>1, Parent
  <2> QED
    BY <1>2, <2>1, <2>2 DEF Heap, Sound
<1>3. Before(h, n, p)
  <2>1. Before(h, Moved(h, i, i), Moved(h, i, p))
    BY <1>0, <1>1
  <2>2. Moved(h, i, i) = n /\ Moved(h, i, p) = p
    BY <1>0 DEF Moved
  <2> QED
    BY <2>1, <2>2
<1>4. Before(h, p, i) /\ n \in 1 .. n /\ i \in 1 .. n /\ p \in 1 .. n
  BY <1>0, <1>2
<1> HIDE DEF k, n, p
<1>5. \A x, y, z \in 1 .. n : Before(h, x, y) /\ Before(h, y, z) => Before(h, x, z)
  BY Ordered DEF Heap, n
<1>6. ASSUME NEW x \in 1 .. n - 1, x > 1, x # i
      PROVE  Before(k, x \div 2, x)
  <2>1. CASE x \div 2 = i
    <3>1. Moved(h, i, x \div 2) = n /\ Moved(h, i, x) = x
      BY <1>6, <2>1 DEF Moved, n
    <3>2. Before(h, i, x)
      BY <1>2, <1>6, <2>1
    <3>3. Before(h, p, x)
      BY <1>2, <1>4, <1>5, <1>6, <3>2
    <3>4. Before(h, n, x)
      BY <1>2, <1>3, <1>4, <1>5, <1>6, <3>3
    <3> QED
      BY <1>1, <1>2, <1>6, <3>1, <3>4
  <2>2. CASE x \div 2 # i
    <3>1. Moved(h, i, x \div 2) = x \div 2 /\ Moved(h, i, x) = x
      BY <1>6, <2>2 DEF Moved
    <3> QED
      BY <1>1, <1>2, <1>6, <3>1
  <2> QED
    BY <2>1, <2>2
<1>7. ASSUME NEW x \in 1 .. n - 1, x > 1, x \div 2 = i
      PROVE  Before(k, p, x)
  <2>1. x # i /\ p # i
    BY <1>0, <1>2, <1>7
  <2>2. Moved(h, i, p) = p /\ Moved(h, i, x) = x
    BY <2>1 DEF Moved
  <2>3. Before(h, i, x)
    BY <1>2, <1>7
  <2>4. Before(h, p, x)
    BY <1>2, <1>4, <1>5, <1>7, <2>3
  <2> QED
    BY <1>0, <1>1, <2>2, <2>4
<1> QED
  BY <1>1, <1>6, <1>7 DEF UpHeap, k, n, p

\* ... and down otherwise.
LEMMA VacatedDown ==
    ASSUME NEW h, Heap(h), NEW i \in 1 .. Len(h), i # Len(h),
           i > 1 => ~ Before(Vacated(h, i), i, i \div 2)
    PROVE  DownHeap(Vacated(h, i), i)
<1> DEFINE n == Len(h)
           k == Vacated(h, i)
<1>0. n \in Nat /\ i \in 1 .. n - 1 /\ i \in 1 .. n
  BY DEF Heap, Queue
<1>1. /\ Len(k) = n - 1 /\ Queue(k)
      /\ \A x, y \in 1 .. n - 1 :
            Before(k, x, y) <=> Before(h, Moved(h, i, x), Moved(h, i, y))
  BY LastMoves
<1>2. ASSUME NEW x \in 1 .. n - 1, x > 1
      PROVE  /\ x \div 2 \in 1 .. n - 1 /\ x \div 2 < x
             /\ x \in 1 .. n /\ x \div 2 \in 1 .. n /\ Before(h, x \div 2, x)
  <2>1. x \in Nat /\ x \in 1 .. n
    BY <1>0
  <2>2. x \div 2 \in 1 .. n - 1 /\ x \div 2 < x /\ x \div 2 \in 1 .. n
    BY <1>0, <1>2, <2>1, Parent
  <2> QED
    BY <1>2, <2>1, <2>2 DEF Heap, Sound
<1> HIDE DEF k, n
<1>3. \A x, y, z \in 1 .. n : Before(h, x, y) /\ Before(h, y, z) => Before(h, x, z)
  BY Ordered DEF Heap, n
<1>4. ASSUME NEW x \in 1 .. n - 1, x > 1, x \div 2 # i
      PROVE  Before(k, x \div 2, x)
  <2>1. CASE x = i
    <3>1. ~ Before(k, x, x \div 2)
      BY <1>4, <2>1 DEF k
    <3>2. x \div 2 # x
      BY <1>2, <1>4
    <3> QED
      BY <1>1, <1>2, <1>4, <3>1, <3>2, Ordered
  <2>2. CASE x # i
    <3>1. Moved(h, i, x \div 2) = x \div 2 /\ Moved(h, i, x) = x
      BY <1>4, <2>2 DEF Moved
    <3> QED
      BY <1>1, <1>2, <1>4, <3>1
  <2> QED
    BY <2>1, <2>2
<1>5. ASSUME NEW x \in 1 .. n - 1, i > 1, x > 1, x \div 2 = i
      PROVE  Before(k, i \div 2, x)
  <2> DEFINE p == i \div 2
  <2>1. p \in 1 .. n - 1 /\ p \in 1 .. n /\ p < i /\ i < x /\ Before(h, p, i)
    BY <1>0, <1>2, <1>5
  <2>2. Before(h, i, x)
    BY <1>2, <1>5
  <2> HIDE DEF p
  <2>3. x # i /\ p # i
    BY <1>0, <2>1
  <2>4. Moved(h, i, p) = p /\ Moved(h, i, x) = x
    BY <2>3 DEF Moved
  <2>5. Before(h, p, x)
    BY <1>0, <1>2, <1>3, <1>5, <2>1, <2>2
  <2>6. Before(k, p, x)
    BY <1>1, <2>1, <2>4, <2>5
  <2> QED
    BY <2>6 DEF p
<1> QED
  BY <1>1, <1>4, <1>5 DEF DownHeap, k, n

\* heap_pop takes the first task out.
LEMMA HeapPop ==
    ASSUME NEW h, Heap(h), h # <<>>
    PROVE  /\ Heap(heap_pop(h))
           /\ Len(heap_pop(h)) = Len(h) - 1
           /\ Contents(heap_pop(h)) = Contents(h) \ {Entry(h[1])}
<1>0. h \in Seq(TaskType) /\ Len(h) \in Nat /\ Len(h) >= 1 /\ 1 \in 1 .. Len(h)
  BY DEF Heap, Queue
<1>1. CASE Len(h) = 1
  <2>0. Heap(Shortened(h)) /\ Len(Shortened(h)) = Len(h) - 1
        /\ Contents(Shortened(h)) = Contents(h) \ {Entry(h[Len(h)])}
    BY ShortHeap
  <2>1. Heap(Shortened(h)) /\ Len(Shortened(h)) = 0
        /\ Contents(Shortened(h)) = Contents(h) \ {Entry(h[1])}
    BY <1>1, <2>0
  <2>2. Shortened(h) = <<>>
    BY <2>1 DEF Heap, Queue
  <2>3. heap_pop(h) = <<>>
    BY <1>1 DEF heap_pop
  <2> QED
    BY <1>1, <2>1, <2>2, <2>3
<1>2. CASE Len(h) # 1
  <2> DEFINE k == Vacated(h, 1)
  <2>1. heap_pop(h) = sift_down(k, 1)
    BY <1>2 DEF heap_pop, Vacated
  <2>2. Queue(k) /\ Len(k) = Len(h) - 1 /\ Contents(k) = Contents(h) \ {Entry(h[1])}
    BY <1>0, <1>2, LastMoves
  <2>3. DownHeap(k, 1)
    <3>1. ~ (1 > 1)
      OBVIOUS
    <3> QED
      BY <1>0, <1>2, <3>1, VacatedDown
  <2>4. 1 \in 1 .. Len(k)
    BY <1>0, <1>2, <2>2
  <2> HIDE DEF k
  <2> QED
    BY <2>1, <2>2, <2>3, <2>4, SiftDown DEF Heap
<1> QED
  BY <1>1, <1>2

\* heap_remove takes a task out that is in the heap.
LEMMA HeapRemove ==
    ASSUME NEW h, Heap(h), NEW i \in 1 .. Len(h)
    PROVE  /\ Heap(heap_remove(h, h[i].sequence))
           /\ Len(heap_remove(h, h[i].sequence)) = Len(h) - 1
           /\ Contents(heap_remove(h, h[i].sequence)) = Contents(h) \ {Entry(h[i])}
<1> DEFINE number == h[i].sequence
           index == CHOOSE j \in DOMAIN h : h[j].sequence = number
           place == h[index].heap_index
           k == Vacated(h, i)
<1>0. h \in Seq(TaskType) /\ Len(h) \in Nat /\ DOMAIN h = 1 .. Len(h) /\ h # <<>>
  BY DEF Heap, Queue
<1>1. index = i
  <2>1. index \in 1 .. Len(h) /\ h[index].sequence = number
    BY <1>0
  <2> HIDE DEF index
  <2> QED
    BY <2>1 DEF Heap, Queue
<1>2. place = i
  BY <1>1 DEF Heap, Queue
<1>3. ~ (place \notin DOMAIN h \/ h[place].sequence # number)
  BY <1>0, <1>2
<1>4. CASE i = Len(h)
  <2>1. heap_remove(h, number) = Shortened(h)
    BY <1>2, <1>3, <1>4 DEF heap_remove
  <2> QED
    BY <1>0, <1>4, <2>1, ShortHeap
<1>5. CASE i # Len(h)
  <2>1. heap_remove(h, number) =
          IF i > 1 /\ Before(k, i, i \div 2) THEN sift_up(k, i) ELSE sift_down(k, i)
    BY <1>2, <1>3, <1>5 DEF heap_remove, Vacated, Before
  <2>2. Queue(k) /\ Len(k) = Len(h) - 1 /\ Contents(k) = Contents(h) \ {Entry(h[i])}
    BY <1>5, LastMoves
  <2>3. i \in 1 .. Len(k)
    <3>1. Len(h) \in Nat
      BY <1>0
    <3>2. i \in 1 .. Len(h) - 1
      BY <1>5, <3>1
    <3> QED
      BY <2>2, <3>2
  <2>4. CASE i > 1 /\ Before(k, i, i \div 2)
    <3>1. UpHeap(k, i)
      BY <1>5, <2>4, VacatedUp
    <3> HIDE DEF k
    <3> QED
      BY <2>1, <2>2, <2>3, <2>4, <3>1, SiftUp DEF Heap
  <2>5. CASE ~ (i > 1 /\ Before(k, i, i \div 2))
    <3>1. DownHeap(k, i)
      BY <1>5, <2>5, VacatedDown
    <3> HIDE DEF k
    <3> QED
      BY <2>1, <2>2, <2>3, <2>5, <3>1, SiftDown DEF Heap
  <2> QED
    BY <2>4, <2>5
<1> QED
  BY <1>4, <1>5

-----------------------------------------------------------------------------
(* The inductive invariant *)

\* Tasks are numbered, and a daily task is due at its time of some day.
Registers(e, n) ==
    /\ e.sequence \in 1 .. n
    /\ e.daily_spec # Once => \E d \in Nat : e.deadline_ms = d * Day + e.daily_spec

QueueInv ==
    /\ Heap(heap)
    /\ sequence \in Nat
    /\ \A e \in Contents(heap) : Registers(e, sequence)

\* A task is run when it is due, and not more of them than a callback may run.
LoopInv ==
    /\ phase \in {"idle", "drain", "action"}
    /\ tick.now \in Nat /\ tick.processed \in Nat
    /\ tick.processed <= MAX_TASKS_PER_TICK
    /\ phase = "action" => tick.processed < MAX_TASKS_PER_TICK
    /\ phase = "action" <=> running # {}
    /\ \A t, u \in running : t = u
    /\ \A t \in running : /\ t \in TaskType
                          /\ Registers(Entry(t), sequence)
                          /\ t.deadline_ms <= tick.now
    /\ phase # "idle" /\ ~ clock_set => tick.now <= clock

\* The timer waits only while the loop is free.
AlarmInv ==
    /\ timer \in {"none", "stopped", "armed", "closed"}
    /\ left \in Nat /\ left <= MAX_RECHECK_MS
    /\ clock \in Nat /\ clock <= MaxTime
    /\ clock_set \in BOOLEAN /\ disarmed \in BOOLEAN
    /\ phase # "idle" => timer = "stopped"
    /\ timer = "armed" => ~ disarmed

SchedulerInv == QueueInv /\ LoopInv /\ AlarmInv /\ WakesInTime

-----------------------------------------------------------------------------
(* Tasks and times *)

\* Days.
LEMMA DayOf ==
    ASSUME NEW d \in Nat, NEW spec \in DailyTimes
    PROVE  (d * Day + spec) \div Day = d /\ d * Day + spec \in Nat /\ spec \in Nat
BY SchedulerAssumption

\* Every time is on one day.
LEMMA Days ==
    ASSUME NEW now \in Nat
    PROVE  /\ now \div Day \in Nat
           /\ (now \div Day) * Day <= now
           /\ now < (now \div Day) * Day + Day
<1>1. Day \in Nat /\ Day > 0
  BY SchedulerAssumption
<1> QED
  BY <1>1

\* A later time is not on an earlier day.
LEMMA LaterDay ==
    ASSUME NEW a \in Nat, NEW b \in Nat, a <= b
    PROVE  a \div Day <= b \div Day
<1>1. Day \in Nat /\ Day > 0
  BY SchedulerAssumption
<1> QED
  BY <1>1

\* next_daily_deadline is the time of day of the task, on some day, and later.
LEMMA NextDailyIsLater ==
    ASSUME NEW spec \in DailyTimes, NEW now \in Nat
    PROVE  /\ NextDaily(spec, now) \in Nat
           /\ NextDaily(spec, now) > now
           /\ \E d \in Nat : NextDaily(spec, now) = d * Day + spec
<1> DEFINE d == now \div Day
<1>1. d \in Nat /\ d * Day <= now /\ now < d * Day + Day
  BY Days
<1>2. d + 1 \in Nat /\ (d + 1) * Day + spec = d * Day + spec + Day
  BY <1>1, SchedulerAssumption
<1>3. d * Day + spec \in Nat /\ spec \in Nat /\ Day \in Nat /\ d * Day \in Nat
  BY <1>1, SchedulerAssumption
<1>4. NextDaily(spec, now) = IF d * Day + spec <= now THEN d * Day + spec + Day
                             ELSE d * Day + spec
  BY DEF NextDaily
<1> DEFINE m == d * Day
<1>5. m + spec <= now => m + spec + Day > now
  <2> HIDE DEF m
  <2> QED
    BY <1>1, <1>3 DEF m
<1>6. CASE m + spec <= now
  <2>1. NextDaily(spec, now) = (d + 1) * Day + spec
    BY <1>2, <1>4, <1>6
  <2>2. NextDaily(spec, now) > now /\ NextDaily(spec, now) \in Nat
    BY <1>3, <1>4, <1>5, <1>6
  <2> QED
    BY <1>2, <2>1, <2>2
<1>7. CASE ~ (m + spec <= now)
  BY <1>1, <1>3, <1>4, <1>7
<1> QED
  BY <1>6, <1>7

\* A call of at or daily, and a daily task that has run, register such a task.
LEMMA NewTask ==
    ASSUME NEW n \in Nat, NEW deadline \in Nat, NEW spec \in DailyTimes \cup {Once},
           n = sequence,
           spec # Once => \E d \in Nat : deadline = d * Day + spec
    PROVE  /\ Task(deadline, spec) \in TaskType
           /\ Task(deadline, spec).sequence = n + 1
           /\ Registers(Entry(Task(deadline, spec)), n + 1)
           /\ Entry(Task(deadline, spec)).sequence = n + 1
<1> DEFINE t == Task(deadline, spec)
<1>1. /\ t.deadline_ms = deadline /\ t.sequence = n + 1 /\ t.daily_spec = spec
      /\ t \in TaskType
  BY DEF Task, TaskType
<1> HIDE DEF t
<1>2. /\ Entry(t).deadline_ms = deadline /\ Entry(t).sequence = n + 1
      /\ Entry(t).daily_spec = spec
  BY <1>1 DEF Entry
<1>3. n + 1 \in 1 .. n + 1
  OBVIOUS
<1> QED
  BY <1>1, <1>2, <1>3 DEF Registers, t

\* So do all calls that the model makes.
LEMMA NewTasksRegister ==
    ASSUME QueueInv, AlarmInv, NEW task \in NewTasks
    PROVE  /\ task \in TaskType /\ task.sequence = sequence + 1
           /\ Registers(Entry(task), sequence + 1)
           /\ Entry(task).sequence = sequence + 1
<1>1. sequence \in Nat /\ clock \in Nat
  BY DEF QueueInv, AlarmInv
<1>2. CASE \E d \in Deadlines : task = Task(d, Once)
  <2>1. PICK d \in Deadlines : task = Task(d, Once)
    BY <1>2
  <2>2. d \in Nat
    BY SchedulerAssumption
  <2> QED
    BY <1>1, <2>1, <2>2, NewTask
<1>3. CASE \E spec \in DailyTimes : task = Task(NextDaily(spec, clock), spec)
  <2>1. PICK spec \in DailyTimes : task = Task(NextDaily(spec, clock), spec)
    BY <1>3
  <2> QED
    BY <1>1, <2>1, NewTask, NextDailyIsLater
<1> QED
  BY <1>2, <1>3 DEF NewTasks

\* A heap with the same tasks has the same first task.
LEMMA SameFirst ==
    ASSUME NEW g, NEW h, Heap(g), Heap(h), Contents(g) = Contents(h), h # <<>>
    PROVE  g # <<>> /\ Entry(g[1]) = Entry(h[1])
<1>0. Len(h) \in Nat /\ Len(g) \in Nat /\ h \in Seq(TaskType) /\ g \in Seq(TaskType)
  BY DEF Heap, Queue
<1>1. 1 \in 1 .. Len(h)
  BY <1>0
<1>2. PICK j \in 1 .. Len(g) : Entry(h[1]) = Entry(g[j])
  BY <1>1 DEF Contents
<1>3. 1 \in 1 .. Len(g) /\ g # <<>>
  BY <1>0
<1>4. PICK i \in 1 .. Len(h) : Entry(g[1]) = Entry(h[i])
  BY <1>3 DEF Contents
<1>5. CASE i = 1
  BY <1>3, <1>4, <1>5
<1>6. CASE i # 1 /\ j # 1
  <2>1. Before(h, 1, i) /\ Before(g, 1, j)
    BY <1>6, FirstIsLeast DEF Heap
  <2>2. Before(h, i, 1)
    BY <1>2, <1>4, <2>1, SameOrder DEF Before
  <2> QED
    BY <1>1, <2>1, <2>2, Ordered DEF Heap
<1>7. CASE j = 1
  BY <1>2, <1>3, <1>7
<1> QED
  BY <1>5, <1>6, <1>7

-----------------------------------------------------------------------------
(* Steps: the queue *)

\* A new task has a number that no other has.
LEMMA Fresh ==
    ASSUME QueueInv, NEW task \in TaskType, task.sequence = sequence + 1
    PROVE  /\ \A i \in 1 .. Len(heap) : heap[i].sequence # task.sequence
           /\ Entry(task) \notin Contents(heap)
<1>1. \A e \in Contents(heap) : e.sequence # sequence + 1
  BY DEF QueueInv, Registers
<1>2. ASSUME NEW i \in 1 .. Len(heap)
      PROVE  heap[i].sequence # task.sequence
  <2>1. Entry(heap[i]) \in Contents(heap) /\ Entry(heap[i]).sequence = heap[i].sequence
    BY DEF Contents, Entry
  <2> QED
    BY <1>1, <2>1
<1>3. Entry(task).sequence = sequence + 1
  BY DEF Entry
<1> QED
  BY <1>1, <1>2, <1>3

\* Tasks stay registered as numbers go on.
LEMMA StillRegistered ==
    ASSUME NEW e, NEW n \in Nat, Registers(e, n)
    PROVE  Registers(e, n + 1)
BY DEF Registers

\* A push keeps the queue, and adds the task to it.
LEMMA PushStep ==
    ASSUME QueueInv, NEW task \in TaskType, task.sequence = sequence + 1,
           Registers(Entry(task), sequence + 1),
           heap' = heap_push(heap, task), sequence' = sequence + 1
    PROVE  /\ QueueInv'
           /\ heap' # <<>>
           /\ Contents(heap') = Contents(heap) \cup {Entry(task)}
<1>1. Heap(heap) /\ sequence \in Nat /\ \A e \in Contents(heap) : Registers(e, sequence)
  BY DEF QueueInv
<1>2. /\ Heap(heap') /\ Len(heap') = Len(heap) + 1
      /\ Contents(heap') = Contents(heap) \cup {Entry(task)}
  BY <1>1, Fresh, HeapPush
<1>3. \A e \in Contents(heap') : Registers(e, sequence + 1)
  BY <1>1, <1>2, StillRegistered
<1>4. heap' # <<>>
  <2>1. Len(heap) \in Nat /\ heap' \in Seq(TaskType)
    BY <1>1, <1>2 DEF Heap, Queue
  <2> QED
    BY <1>2, <2>1
<1>5. sequence' \in Nat /\ (\A e \in Contents(heap') : Registers(e, sequence'))
  BY <1>1, <1>3
<1> QED
  BY <1>2, <1>4, <1>5 DEF QueueInv

\* The rollback of enqueue: the heap may look different, but has the same tasks.
LEMMA RollBack ==
    ASSUME QueueInv, NEW task \in TaskType, task.sequence = sequence + 1,
           heap' = heap_remove(heap_push(heap, task), task.sequence),
           sequence' = sequence + 1
    PROVE  QueueInv' /\ Contents(heap') = Contents(heap)
<1> DEFINE k == heap_push(heap, task)
<1>1. Heap(heap) /\ sequence \in Nat /\ \A e \in Contents(heap) : Registers(e, sequence)
  BY DEF QueueInv
<1>2. Heap(k) /\ Contents(k) = Contents(heap) \cup {Entry(task)}
  BY <1>1, Fresh, HeapPush
<1>3. PICK i \in 1 .. Len(k) : Entry(task) = Entry(k[i])
  BY <1>2 DEF Contents
<1>4. heap' = heap_remove(k, task.sequence)
  OBVIOUS
<1> HIDE DEF k
<1>5. k[i].sequence = task.sequence
  BY <1>3 DEF Entry
<1>6. Heap(heap') /\ Contents(heap') = Contents(k) \ {Entry(k[i])}
  <2> DEFINE g == heap_remove(k, k[i].sequence)
  <2>1. Heap(g) /\ Contents(g) = Contents(k) \ {Entry(k[i])}
    BY <1>2, HeapRemove
  <2>2. heap' = g
    BY <1>4, <1>5
  <2> HIDE DEF g
  <2> QED
    BY <2>1, <2>2
<1>7. Contents(heap') = Contents(heap)
  BY <1>2, <1>3, <1>6, Fresh
<1>8. sequence' \in Nat /\ (\A e \in Contents(heap') : Registers(e, sequence'))
  BY <1>1, <1>7, StillRegistered
<1> QED
  BY <1>6, <1>7, <1>8 DEF QueueInv

\* The first task is taken.
LEMMA PopStep ==
    ASSUME QueueInv, heap # <<>>, heap' = heap_pop(heap), sequence' = sequence
    PROVE  QueueInv' /\ Contents(heap') = Contents(heap) \ {Entry(heap[1])}
<1>1. Heap(heap) /\ sequence \in Nat /\ \A e \in Contents(heap) : Registers(e, sequence)
  BY DEF QueueInv
<1>2. Heap(heap') /\ Contents(heap') = Contents(heap) \ {Entry(heap[1])}
  BY <1>1, HeapPop
<1>3. \A e \in Contents(heap') : Registers(e, sequence')
  BY <1>1, <1>2
<1> QED
  BY <1>1, <1>2, <1>3 DEF QueueInv

\* A daily task that is registered again.
LEMMA AgainRegistered ==
    ASSUME SchedulerInv, NEW t \in running, t.daily_spec # Once
    PROVE  /\ t.daily_spec \in DailyTimes
           /\ Task(NextDaily(t.daily_spec, clock), t.daily_spec) \in TaskType
           /\ Task(NextDaily(t.daily_spec, clock), t.daily_spec).sequence = sequence + 1
           /\ Registers(Entry(Task(NextDaily(t.daily_spec, clock), t.daily_spec)),
                        sequence + 1)
<1>1. t \in TaskType /\ clock \in Nat /\ sequence \in Nat
  BY DEF SchedulerInv, LoopInv, AlarmInv, QueueInv
<1>2. t.daily_spec \in DailyTimes
  BY <1>1 DEF TaskType
<1> QED
  BY <1>1, <1>2, NewTask, NextDailyIsLater

\* The queue after a step.
LEMMA QueueStep ==
    ASSUME SchedulerInv, [Next]_vars
    PROVE  QueueInv' /\ sequence' \in Nat /\ sequence' >= sequence
<1>0. QueueInv /\ AlarmInv /\ sequence \in Nat
  BY DEF SchedulerInv, QueueInv
<1>1. ASSUME NEW task \in NewTasks, Enqueue(task) \/ EnqueueInAction(task)
      PROVE  QueueInv' /\ sequence' = sequence + 1
  <2>1. /\ task \in TaskType /\ task.sequence = sequence + 1
        /\ Registers(Entry(task), sequence + 1)
    BY <1>0, NewTasksRegister
  <2>2. heap' = heap_push(heap, task) /\ sequence' = sequence + 1
    BY <1>1 DEF Enqueue, EnqueueInAction, MayCall
  <2> QED
    BY <1>0, <2>1, <2>2, PushStep
<1>2. ASSUME NEW task \in NewTasks, EnqueueFails(task)
      PROVE  QueueInv' /\ sequence' = sequence + 1
  <2>1. task \in TaskType /\ task.sequence = sequence + 1
    BY <1>0, NewTasksRegister
  <2>2. /\ heap' = heap_remove(heap_push(heap, task), task.sequence)
        /\ sequence' = sequence + 1
    BY <1>2 DEF EnqueueFails, MayCall
  <2> QED
    BY <1>0, <2>1, <2>2, RollBack
<1>3. CASE EnqueueRefused
  <2>1. heap' = heap /\ sequence' = sequence + 1
    BY <1>3 DEF EnqueueRefused, MayCall
  <2> QED
    BY <1>0, <2>1, StillRegistered DEF QueueInv
<1>4. CASE RunTask
  <2>1. heap # <<>> /\ heap' = heap_pop(heap) /\ sequence' = sequence
    BY <1>4 DEF RunTask, MoreDue
  <2> QED
    BY <1>0, <2>1, PopStep
<1>5. CASE EndDaily
  <2>1. PICK t \in running :
           /\ t.daily_spec # Once
           /\ heap' = heap_push(heap, Task(NextDaily(t.daily_spec, clock), t.daily_spec))
    BY <1>5 DEF EndDaily
  <2>2. sequence' = sequence + 1
    BY <1>5 DEF EndDaily
  <2> QED
    BY <1>0, <2>1, <2>2, AgainRegistered, PushStep
<1>6. CASE UNCHANGED queue
  BY <1>0, <1>6 DEF queue, QueueInv
<1>7. ASSUME Fire \/ EndOnce \/ EndDrain \/ DailyLost \/ DrainFails \/ Tick \/ SetClock
               \/ CloseTimer \/ UNCHANGED vars
      PROVE  UNCHANGED queue
  BY <1>7 DEF Fire, EndOnce, EndDrain, DailyLost, DrainFails, Tick, SetClock, CloseTimer,
     vars
<1> QED
  BY <1>0, <1>1, <1>2, <1>3, <1>4, <1>5, <1>6, <1>7 DEF Next, queue

-----------------------------------------------------------------------------
(* Steps: the callback *)

\* Running one task after the other.
LEMMA LoopStep ==
    ASSUME SchedulerInv, [Next]_vars
    PROVE  LoopInv'
<1>0. LoopInv /\ sequence \in Nat /\ sequence' \in Nat /\ sequence' >= sequence
      /\ clock \in Nat /\ MAX_TASKS_PER_TICK \in Nat
  BY QueueStep, SchedulerAssumption DEF SchedulerInv, QueueInv, AlarmInv
<1>1. \A e : Registers(e, sequence) => Registers(e, sequence')
  BY <1>0 DEF Registers
<1>2. CASE UNCHANGED <<loop, clock, clock_set>>
  BY <1>0, <1>1, <1>2 DEF LoopInv, loop
<1>3. CASE Fire
  <2>1. /\ phase = "idle" /\ phase' = "drain" /\ running' = running
        /\ tick' = [now |-> clock, processed |-> 0] /\ clock' = clock
    BY <1>3 DEF Fire
  <2>2. running = {}
    BY <1>0, <2>1 DEF LoopInv
  <2> QED
    BY <1>0, <2>1, <2>2 DEF LoopInv
<1>4. CASE RunTask
  <2>1. /\ phase = "drain" /\ phase' = "action" /\ running' = {heap[1]} /\ tick' = tick
        /\ heap # <<>> /\ heap[1].deadline_ms <= tick.now
        /\ tick.processed < MAX_TASKS_PER_TICK /\ clock' = clock /\ clock_set' = clock_set
        /\ sequence' = sequence
    BY <1>4 DEF RunTask, MoreDue, alarm
  <2>2. heap[1] \in TaskType /\ Registers(Entry(heap[1]), sequence)
    <3>1. heap \in Seq(TaskType) /\ \A e \in Contents(heap) : Registers(e, sequence)
      BY DEF SchedulerInv, QueueInv, Heap, Queue
    <3>2. 1 \in 1 .. Len(heap)
      BY <2>1, <3>1
    <3> QED
      BY <3>1, <3>2 DEF Contents
  <2> QED
    BY <1>0, <2>1, <2>2 DEF LoopInv
<1>5. CASE EndOnce \/ EndDaily
  <2>1. /\ running # {} /\ running' = {} /\ phase' = "drain"
        /\ tick' = [now |-> clock, processed |-> tick.processed + 1]
        /\ clock' = clock
    BY <1>5 DEF EndOnce, EndDaily, NextTurn
  <2>2. tick.processed \in Nat /\ tick.processed < MAX_TASKS_PER_TICK
    BY <1>0, <2>1 DEF LoopInv
  <2>3. /\ tick'.now = clock /\ tick'.processed = tick.processed + 1
        /\ tick'.processed \in Nat /\ tick'.processed <= MAX_TASKS_PER_TICK
    BY <1>0, <2>1, <2>2
  <2> QED
    BY <1>0, <2>1, <2>3 DEF LoopInv
<1>6. CASE EndDrain \/ DailyLost \/ DrainFails
  <2>1. running' = {} /\ phase' = "idle" /\ tick' = [now |-> 0, processed |-> 0]
    BY <1>6 DEF EndDrain, DailyLost, DrainFails, Leave, NoTick
  <2>2. tick'.now = 0 /\ tick'.processed = 0
    BY <2>1
  <2> QED
    BY <1>0, <2>1, <2>2 DEF LoopInv
<1>7. ASSUME NEW task \in NewTasks, EnqueueInAction(task)
      PROVE  UNCHANGED <<loop, clock, clock_set>>
  BY <1>7 DEF EnqueueInAction, alarm
<1>8. ASSUME NEW task \in NewTasks, Enqueue(task) \/ EnqueueFails(task)
      PROVE  LoopInv'
  <2>1. phase = "idle" /\ UNCHANGED <<loop, clock>>
    BY <1>8 DEF Enqueue, EnqueueFails, MayCall
  <2> QED
    BY <1>0, <1>1, <2>1 DEF LoopInv, loop
<1>9. CASE EnqueueRefused \/ CloseTimer
  BY <1>2, <1>9 DEF EnqueueRefused, CloseTimer, alarm
<1>10. CASE Tick
  <2>1. UNCHANGED <<loop, clock_set, queue>> /\ clock' = Min({clock + 1, MaxTime})
    BY <1>10 DEF Tick
  <2>2. clock' >= clock /\ clock' \in Nat
    <3>1. clock + 1 \in Int /\ MaxTime \in Int /\ clock <= MaxTime
      BY <1>0, SchedulerAssumption DEF SchedulerInv, AlarmInv
    <3>2. clock' = IF clock + 1 <= MaxTime THEN clock + 1 ELSE MaxTime
      BY <2>1, <3>1, MinOfTwo
    <3> QED
      BY <1>0, <3>1, <3>2
  <2>3. ASSUME phase # "idle", ~ clock_set
        PROVE  tick.now <= clock'
    <3>1. tick.now <= clock /\ tick.now \in Nat
      BY <1>0, <2>3 DEF LoopInv
    <3> QED
      BY <1>0, <2>2, <3>1
  <2> QED
    BY <1>0, <1>1, <2>1, <2>3 DEF LoopInv, loop
<1>11. CASE SetClock
  <2>1. UNCHANGED <<loop, queue>> /\ clock_set'
    BY <1>11 DEF SetClock
  <2> QED
    BY <1>0, <1>1, <2>1 DEF LoopInv, loop
<1>12. CASE UNCHANGED vars
  BY <1>2, <1>12 DEF vars, alarm
<1> QED
  BY <1>2, <1>3, <1>4, <1>5, <1>6, <1>7, <1>8, <1>9, <1>10, <1>11, <1>12 DEF Next

-----------------------------------------------------------------------------
(* Steps: the timer *)

\* arm_timer starts the timer for the first task: not later than its deadline, and
\* not later than MAX_RECHECK_MS.
LEMMA Armed ==
    ASSUME AlarmInv, NEW h, Heap(h), ArmStarts(h)
    PROVE  /\ h # <<>> /\ timer' = "armed" /\ clock_set' = FALSE /\ disarmed' = FALSE
           /\ left' \in Nat /\ left' <= MAX_RECHECK_MS
           /\ left' <= Max({h[1].deadline_ms - clock, 0})
<1>1. /\ h # <<>> /\ timer' = "armed" /\ clock_set' = FALSE /\ disarmed' = FALSE
      /\ \E lag \in 0 .. MaxLag : left' = Max({Delay(h) - lag, 0})
  BY DEF ArmStarts
<1> DEFINE remaining == h[1].deadline_ms - clock
           wait == Max({remaining, 0})
<1>2. remaining \in Int
  <2>1. h \in Seq(TaskType)
    BY DEF Heap, Queue
  <2>2. h[1] \in TaskType
    BY <1>1, <2>1
  <2>3. h[1].deadline_ms \in Nat
    BY <2>2 DEF TaskType
  <2> QED
    BY <2>3 DEF AlarmInv
<1>3. Delay(h) = Min({wait, MAX_RECHECK_MS})
  BY DEF Delay
<1> HIDE DEF remaining
<1>4. wait = IF remaining >= 0 THEN remaining ELSE 0
  BY <1>2, MaxOfTwo
<1>5. wait \in Nat
  BY <1>2, <1>4
<1> HIDE DEF wait
<1>6. MAX_RECHECK_MS \in Nat /\ MaxLag \in Nat
  BY SchedulerAssumption
<1>7. Delay(h) = IF wait <= MAX_RECHECK_MS THEN wait ELSE MAX_RECHECK_MS
  BY <1>3, <1>5, <1>6, MinOfTwo
<1>8. Delay(h) \in Nat /\ Delay(h) <= wait /\ Delay(h) <= MAX_RECHECK_MS
  BY <1>5, <1>6, <1>7
<1>9. PICK lag \in 0 .. MaxLag : left' = Max({Delay(h) - lag, 0})
  BY <1>1
<1>10. lag \in Nat
  BY <1>6
<1> DEFINE d == Delay(h)
<1>11. d \in Nat /\ d <= wait /\ d <= MAX_RECHECK_MS /\ left' = Max({d - lag, 0})
  BY <1>8, <1>9
<1> HIDE DEF d
<1>12. left' = IF d - lag >= 0 THEN d - lag ELSE 0
  BY <1>10, <1>11, MaxOfTwo
<1>13. left' \in Nat /\ left' <= MAX_RECHECK_MS /\ left' <= wait
  BY <1>5, <1>6, <1>10, <1>11, <1>12
<1> QED
  BY <1>1, <1>13 DEF wait, remaining

\* The timer once it is started.
LEMMA ArmedStep ==
    ASSUME AlarmInv, Heap(heap'), ArmStarts(heap'), clock' = clock, phase' = "idle"
    PROVE  AlarmInv' /\ WakesInTime'
<1>1. PICK h : h = heap'
  OBVIOUS
<1>2. /\ h # <<>> /\ timer' = "armed" /\ clock_set' = FALSE /\ disarmed' = FALSE
      /\ left' \in Nat /\ left' <= MAX_RECHECK_MS
      /\ left' <= Max({h[1].deadline_ms - clock, 0})
  BY <1>1, Armed
<1> QED
  BY <1>1, <1>2 DEF AlarmInv, WakesInTime

\* The timer at the end of a callback, started, left alone for want of tasks, or
\* not to be started.
LEMMA EndStep ==
    ASSUME SchedulerInv, phase # "idle", phase' = "idle", heap' = heap, clock' = clock,
           ArmStarts(heap) \/ ArmIdle(heap) \/ ArmFails(heap)
    PROVE  AlarmInv' /\ WakesInTime'
<1>0. AlarmInv /\ timer = "stopped" /\ Heap(heap)
  BY DEF SchedulerInv, AlarmInv, QueueInv
<1>1. CASE ArmStarts(heap)
  <2>1. Heap(heap') /\ ArmStarts(heap')
    BY <1>0, <1>1
  <2> QED
    BY <1>0, <2>1, ArmedStep
<1>2. CASE ArmIdle(heap)
  BY <1>0, <1>2, SchedulerAssumption DEF ArmIdle, AlarmInv, WakesInTime
<1>3. CASE ArmFails(heap)
  <2>1. timer' = "stopped" /\ left' = 0 /\ disarmed' = TRUE /\ clock_set' = clock_set
    BY <1>0, <1>3 DEF ArmFails
  <2> QED
    BY <1>0, <2>1, SchedulerAssumption DEF AlarmInv, WakesInTime
<1> QED
  BY <1>1, <1>2, <1>3

\* The rollback of enqueue leaves a timer that is running as it was: for the same
\* first task.
LEMMA RollBackAlarm ==
    ASSUME SchedulerInv, NEW task \in NewTasks, EnqueueFails(task)
    PROVE  AlarmInv' /\ WakesInTime'
<1>0. AlarmInv /\ QueueInv /\ WakesInTime /\ MAX_RECHECK_MS \in Nat
  BY SchedulerAssumption DEF SchedulerInv
<1>1. /\ phase = "idle" /\ phase' = "idle" /\ timer # "closed" /\ clock' = clock
      /\ heap' = heap_remove(heap_push(heap, task), task.sequence)
      /\ sequence' = sequence + 1
      /\ ArmFails(heap_push(heap, task))
  BY DEF EnqueueFails, MayCall, loop
<1>2. task \in TaskType /\ task.sequence = sequence + 1
  BY <1>0, NewTasksRegister
<1>3. QueueInv' /\ Contents(heap') = Contents(heap)
  BY <1>0, <1>1, <1>2, RollBack
<1>4. CASE timer = "armed" /\ timer' = timer /\ left' = left
  <2>1. disarmed' = FALSE /\ disarmed = FALSE /\ clock_set' = clock_set
    BY <1>0, <1>1, <1>4 DEF ArmFails, AlarmInv
  <2>2. AlarmInv'
    BY <1>0, <1>1, <1>4, <2>1 DEF AlarmInv
  <2>3. ASSUME heap' # <<>>
        PROVE  heap # <<>> /\ heap'[1].deadline_ms = heap[1].deadline_ms
    <3>1. Heap(heap) /\ Heap(heap')
      BY <1>0, <1>3 DEF QueueInv
    <3>2. heap # <<>> /\ Entry(heap[1]) = Entry(heap'[1])
      BY <1>3, <2>3, <3>1, SameFirst
    <3> QED
      BY <3>2 DEF Entry
  <2> QED
    BY <1>0, <1>1, <1>4, <2>1, <2>2, <2>3 DEF WakesInTime
<1>5. CASE timer' = "stopped" /\ left' = 0
  <2>1. disarmed' = TRUE /\ clock_set' = clock_set
    BY <1>1, <1>5 DEF ArmFails
  <2> QED
    BY <1>0, <1>1, <1>5, <2>1 DEF AlarmInv, WakesInTime
<1> QED
  BY <1>1, <1>4, <1>5 DEF ArmFails

\* Time passes for the timer as for the clock.
LEMMA TickStep ==
    ASSUME SchedulerInv, Tick
    PROVE  AlarmInv' /\ WakesInTime'
<1>0. /\ AlarmInv /\ WakesInTime /\ left \in Nat /\ clock \in Nat /\ clock <= MaxTime
      /\ MaxTime \in Nat /\ left <= MAX_RECHECK_MS /\ MAX_RECHECK_MS \in Nat
  BY SchedulerAssumption DEF SchedulerInv, AlarmInv
<1>1. /\ clock' = Min({clock + 1, MaxTime}) /\ left' = Max({left - 1, 0})
      /\ UNCHANGED <<heap, timer, clock_set, disarmed, phase>>
  BY DEF Tick, queue, loop
<1>2. clock' = IF clock + 1 <= MaxTime THEN clock + 1 ELSE MaxTime
  BY <1>0, <1>1, MinOfTwo
<1>3. left' = IF left - 1 >= 0 THEN left - 1 ELSE 0
  BY <1>0, <1>1, MaxOfTwo
<1>4. /\ clock' \in Nat /\ clock' <= MaxTime /\ clock' <= clock + 1
      /\ left' \in Nat /\ left' <= left /\ left' <= MAX_RECHECK_MS
      /\ left' = 0 \/ left' = left - 1
  BY <1>0, <1>2, <1>3
<1>5. AlarmInv'
  BY <1>0, <1>1, <1>4 DEF AlarmInv
<1>6. ASSUME heap # <<>>, left <= Max({heap[1].deadline_ms - clock, 0})
      PROVE  left' <= Max({heap[1].deadline_ms - clock', 0})
  <2> DEFINE d == heap[1].deadline_ms
  <2>1. d \in Nat
    <3>1. heap \in Seq(TaskType)
      BY DEF SchedulerInv, QueueInv, Heap, Queue
    <3>2. heap[1] \in TaskType
      BY <1>6, <3>1
    <3> QED
      BY <3>2 DEF TaskType
  <2> HIDE DEF d
  <2>2. Max({d - clock, 0}) = IF d - clock >= 0 THEN d - clock ELSE 0
    BY <1>0, <2>1, MaxOfTwo
  <2>3. PICK c \in Nat, l \in Nat : c = clock' /\ l = left'
    BY <1>4
  <2>4. c <= clock + 1 /\ l <= left /\ (l = 0 \/ l = left - 1)
    BY <1>4, <2>3
  <2>5. Max({d - c, 0}) = IF d - c >= 0 THEN d - c ELSE 0
    BY <2>1, MaxOfTwo
  <2>6. left <= Max({d - clock, 0})
    BY <1>6 DEF d
  <2>7. l <= Max({d - c, 0})
    BY <1>0, <2>1, <2>2, <2>4, <2>5, <2>6
  <2> QED
    BY <2>3, <2>7 DEF d
<1> QED
  BY <1>0, <1>1, <1>4, <1>5, <1>6 DEF WakesInTime

\* The timer after a step.
LEMMA AlarmStep ==
    ASSUME SchedulerInv, [Next]_vars
    PROVE  AlarmInv' /\ WakesInTime'
<1>0. AlarmInv /\ WakesInTime /\ LoopInv /\ MAX_RECHECK_MS \in Nat /\ MaxTime \in Nat
  BY SchedulerAssumption DEF SchedulerInv
<1>1. ASSUME NEW task \in NewTasks, Enqueue(task)
      PROVE  AlarmInv' /\ WakesInTime'
  <2>1. phase' = "idle" /\ clock' = clock /\ ArmStarts(heap')
    BY <1>1 DEF Enqueue, MayCall, loop
  <2>2. Heap(heap')
    BY QueueStep DEF QueueInv
  <2> QED
    BY <1>0, <2>1, <2>2, ArmedStep
<1>2. ASSUME NEW task \in NewTasks, EnqueueInAction(task)
      PROVE  AlarmInv' /\ WakesInTime'
  BY <1>0, <1>2 DEF EnqueueInAction, MayCall, alarm, loop, AlarmInv, WakesInTime
<1>3. CASE EnqueueRefused \/ UNCHANGED vars
  <2>1. UNCHANGED <<heap, alarm, loop, clock>>
    BY <1>3 DEF EnqueueRefused, vars, queue
  <2> QED
    BY <1>0, <2>1 DEF alarm, loop, AlarmInv, WakesInTime
<1>4. CASE Fire
  BY <1>0, <1>4 DEF Fire, AlarmInv, WakesInTime
<1>5. CASE RunTask \/ EndOnce \/ EndDaily
  <2>1. phase # "idle" /\ phase' # "idle" /\ UNCHANGED <<alarm, clock>>
    BY <1>0, <1>5 DEF RunTask, EndOnce, EndDaily, NextTurn, LoopInv
  <2> QED
    BY <1>0, <2>1 DEF alarm, AlarmInv, WakesInTime
<1>6. CASE EndDrain \/ DailyLost \/ DrainFails
  <2>1. /\ phase # "idle" /\ phase' = "idle" /\ heap' = heap /\ clock' = clock
        /\ ArmStarts(heap) \/ ArmIdle(heap) \/ ArmFails(heap)
    BY <1>0, <1>6 DEF EndDrain, DailyLost, DrainFails, Leave, LoopInv, queue
  <2> QED
    BY <2>1, EndStep
<1>7. CASE SetClock
  <2>1. /\ clock' \in 0 .. MaxTime /\ clock_set' = TRUE
        /\ UNCHANGED <<heap, timer, left, disarmed, phase>>
    BY <1>7 DEF SetClock, queue, loop
  <2>2. clock' \in Nat /\ clock' <= MaxTime
    BY <1>0, <2>1
  <2> QED
    BY <1>0, <2>1, <2>2 DEF AlarmInv, WakesInTime
<1>8. CASE CloseTimer
  BY <1>0, <1>8 DEF CloseTimer, AlarmInv, WakesInTime, loop
<1> QED
  BY <1>1, <1>2, <1>3, <1>4, <1>5, <1>6, <1>7, <1>8, RollBackAlarm, TickStep DEF Next

-----------------------------------------------------------------------------
(* Theorems *)

\* No task is registered at the start, and there is no timer.
LEMMA InitScheduler == Init => SchedulerInv
<1> SUFFICES ASSUME Init PROVE SchedulerInv
  OBVIOUS
<1>1. <<>> \in Seq(TaskType) /\ Len(<<>>) = 0
  OBVIOUS
<1>2. Heap(<<>>) /\ Contents(<<>>) = {}
  <2>1. 1 .. Len(<<>>) = {}
    BY <1>1
  <2> QED
    BY <1>1, <2>1 DEF Heap, Queue, Sound, Contents
<1>3. QueueInv
  BY <1>2 DEF Init, QueueInv
<1>4. LoopInv
  <2>1. NoTick.now = 0 /\ NoTick.processed = 0
    BY DEF NoTick
  <2> QED
    BY <2>1, SchedulerAssumption DEF Init, LoopInv
<1>5. AlarmInv
  <2>1. MAX_RECHECK_MS \in Nat /\ MaxTime \in Nat
    BY SchedulerAssumption
  <2>2. clock_set \in BOOLEAN /\ disarmed \in BOOLEAN /\ ~ disarmed
    BY DEF Init
  <2>3. /\ timer = "none" /\ phase = "idle"
        /\ left \in Nat /\ left <= MAX_RECHECK_MS /\ clock \in Nat /\ clock <= MaxTime
    BY <2>1 DEF Init
  <2> QED
    BY <2>2, <2>3 DEF AlarmInv
<1>6. WakesInTime
  BY DEF Init, WakesInTime
<1> QED
  BY <1>3, <1>4, <1>5, <1>6 DEF SchedulerInv

\* The heap, the callback and the timer together: what the others follow from.
THEOREM SchedulerInvariant == Spec => []SchedulerInv
<1>1. SchedulerInv /\ [Next]_vars => SchedulerInv'
  BY QueueStep, LoopStep, AlarmStep DEF SchedulerInv
<1> QED
  BY <1>1, InitScheduler, PTL DEF Spec

\* Tasks have deadlines and numbers, and on_timer never runs more tasks at once
\* than MAX_TASKS_PER_TICK, whatever their actions register.
THEOREM SchedulerTypes == Spec => []TypeOK
<1>1. SchedulerInv => TypeOK
  <2> SUFFICES ASSUME SchedulerInv PROVE TypeOK
    OBVIOUS
  <2>1. ASSUME NEW t \in Tasks \cup running
        PROVE  t \in TaskType /\ Entry(t).sequence \in 1 .. sequence
    <3>1. CASE t \in running
      BY <3>1 DEF SchedulerInv, LoopInv, Registers
    <3>2. CASE t \in Tasks
      <4>1. heap \in Seq(TaskType) /\ DOMAIN heap = 1 .. Len(heap)
        BY DEF SchedulerInv, QueueInv, Heap, Queue
      <4>2. PICK i \in 1 .. Len(heap) : t = heap[i]
        BY <3>2, <4>1 DEF Tasks
      <4>3. Entry(t) \in Contents(heap)
        BY <4>2 DEF Contents
      <4> QED
        BY <4>1, <4>2, <4>3 DEF SchedulerInv, QueueInv, Registers
    <3> QED
      BY <3>1, <3>2
  <2>2. ASSUME NEW t \in Tasks \cup running
        PROVE  /\ t.deadline_ms \in Nat /\ t.sequence \in 1 .. sequence
               /\ t.daily_spec \in DailyTimes \cup {Once}
    <3>1. t \in TaskType /\ Entry(t).sequence \in 1 .. sequence
      BY <2>1
    <3> QED
      BY <3>1 DEF TaskType, Entry
  <2>3. /\ left \in 0 .. MAX_RECHECK_MS /\ clock \in 0 .. MaxTime
        /\ timer \in {"none", "stopped", "armed", "closed"}
        /\ {clock_set, disarmed} \subseteq BOOLEAN
    BY SchedulerAssumption DEF SchedulerInv, AlarmInv
  <2>4. /\ tick.processed \in 0 .. MAX_TASKS_PER_TICK
        /\ phase \in {"idle", "drain", "action"}
        /\ phase = "action" <=> running # {}
    BY SchedulerAssumption DEF SchedulerInv, LoopInv
  <2> QED
    BY <2>2, <2>3, <2>4 DEF TypeOK
<1> QED
  BY <1>1, SchedulerInvariant, PTL

\* The heap is one after every push, pop and rollback: each task comes after its
\* parent and knows its place.
THEOREM HeapIsSound == Spec => []HeapSound
<1>1. SchedulerInv => HeapSound
  <2> SUFFICES ASSUME SchedulerInv PROVE HeapSound
    OBVIOUS
  <2>1. Queue(heap) /\ Sound(heap) /\ DOMAIN heap = 1 .. Len(heap)
    BY DEF SchedulerInv, QueueInv, Heap, Queue
  <2> QED
    BY <2>1 DEF HeapSound, Queue, Sound, Before
<1> QED
  BY <1>1, SchedulerInvariant, PTL

\* As long as the timer can be started, tasks that wait have one that will go off,
\* not later than the first deadline, or than MAX_RECHECK_MS once the clock is set.
THEOREM TasksWakeInTime == Spec => []WakesInTime
<1>1. SchedulerInv => WakesInTime
  BY DEF SchedulerInv
<1> QED
  BY <1>1, SchedulerInvariant, PTL

\* A daily task that has run is registered for a later day than the one it was due
\* on, however late it ran: on_timer asks for a time after now, and now is not
\* before the deadline unless the clock was set.
THEOREM DailyOncePerDay == Spec => OncePerDay
<1>1. ASSUME SchedulerInv, NEW t \in running, NEW u \in {heap'[i] : i \in DOMAIN heap'},
             EndDaily, u.sequence = sequence', ~ clock_set, [Next]_vars
      PROVE  u.deadline_ms \div Day > t.deadline_ms \div Day
  <2>1. PICK r \in running :
           /\ r.daily_spec # Once
           /\ heap' = heap_push(heap, Task(NextDaily(r.daily_spec, clock), r.daily_spec))
    BY <1>1 DEF EndDaily
  <2>2. /\ r = t /\ t \in TaskType /\ Registers(Entry(t), sequence)
        /\ t.deadline_ms <= tick.now /\ tick.now <= clock
        /\ clock \in Nat /\ tick.now \in Nat
    BY <1>1 DEF SchedulerInv, LoopInv, AlarmInv
  <2> DEFINE spec == t.daily_spec
             next == NextDaily(spec, clock)
             task == Task(next, spec)
  <2>3. /\ spec \in DailyTimes /\ task \in TaskType /\ task.sequence = sequence + 1
        /\ Registers(Entry(task), sequence + 1)
    BY <1>1, <2>1, <2>2, AgainRegistered
  <2>4. /\ QueueInv /\ sequence' = sequence + 1 /\ heap' = heap_push(heap, task)
        /\ sequence \in Nat
    BY <1>1, <2>1, <2>2 DEF SchedulerInv, EndDaily, QueueInv
  <2>5. QueueInv' /\ Contents(heap') = Contents(heap) \cup {Entry(task)}
    BY <2>3, <2>4, PushStep
  <2>6. Entry(u) \in Contents(heap')
    <3>1. DOMAIN heap' = 1 .. Len(heap')
      BY <2>5 DEF QueueInv, Heap, Queue
    <3> QED
      BY <1>1, <3>1 DEF Contents
  <2>7. Entry(u).sequence = sequence + 1
    BY <1>1, <2>4 DEF Entry
  <2>8. Entry(u) \notin Contents(heap)
    BY <2>4, <2>7 DEF QueueInv, Registers
  <2>9. Entry(u) = Entry(task)
    BY <2>5, <2>6, <2>8
  <2>10. u.deadline_ms = next
    <3>1. u.deadline_ms = task.deadline_ms
      BY <2>9 DEF Entry
    <3> QED
      BY <3>1 DEF Task
  <2>11. PICK d \in Nat : t.deadline_ms = d * Day + spec
    BY <2>1, <2>2 DEF Registers, Entry
  <2> HIDE DEF next, spec, task
  <2>12. /\ next \in Nat /\ next > clock
         /\ \E e \in Nat : next = e * Day + spec
    BY <2>2, <2>3, NextDailyIsLater DEF next
  <2>13. PICK e \in Nat : next = e * Day + spec
    BY <2>12
  <2>14. (d * Day + spec) \div Day = d /\ (e * Day + spec) \div Day = e
    BY <2>3, DayOf
  <2>15. t.deadline_ms \in Nat
    BY <2>2 DEF TaskType
  <2>16. t.deadline_ms < next
    BY <2>2, <2>12, <2>15
  <2>17. d <= e
    BY <2>11, <2>12, <2>13, <2>14, <2>15, <2>16, LaterDay
  <2>18. d # e
    BY <2>11, <2>12, <2>13, <2>15, <2>16
  <2> QED
    BY <2>10, <2>11, <2>13, <2>14, <2>17, <2>18
<1> DEFINE A == \A t \in running, u \in {heap'[i] : i \in DOMAIN heap'} :
                   (EndDaily /\ u.sequence = sequence' /\ ~clock_set)
                      => u.deadline_ms \div Day > t.deadline_ms \div Day
<1>2. SchedulerInv /\ [Next]_vars => [A]_vars
  <2>1. ASSUME SchedulerInv, [Next]_vars
        PROVE  A
    BY <1>1, <2>1
  <2> HIDE DEF A
  <2> QED
    BY <2>1
<1> HIDE DEF A
<1>3. Spec => [][A]_vars
  BY <1>2, SchedulerInvariant, PTL DEF Spec
<1> QED
  BY <1>3, PTL DEF OncePerDay, A

-----------------------------------------------------------------------------
(* The refinement of TaskQueue *)

\* What TaskQueue sees of the tasks that wait, and of the one that runs.
Waiting == {Key(t) : t \in Tasks}
Running == {Key(t) : t \in running}

Keys(h) == {Key(e) : e \in Contents(h)}

\* It depends on what the tasks are, not on their places in the heap.
LEMMA WaitingKeys ==
    ASSUME NEW h, Queue(h)
    PROVE  {Key(t) : t \in {h[i] : i \in DOMAIN h}} = Keys(h)
<1>1. DOMAIN h = 1 .. Len(h)
  BY DEF Queue
<1>2. \A t : Key(Entry(t)) = Key(t)
  BY DEF Key, Entry
<1> QED
  BY <1>1, <1>2 DEF Keys, Contents

\* So the queue of TaskQueue is that of the tasks in the heap ...
LEMMA WaitingIs ==
    ASSUME QueueInv
    PROVE  Waiting = Keys(heap)
BY WaitingKeys DEF QueueInv, Heap, Waiting, Tasks

\* ... before a step and after it.
LEMMA WaitingAfter ==
    ASSUME QueueInv'
    PROVE  Waiting' = Keys(heap')
<1>1. PICK h : h = heap'
  OBVIOUS
<1>2. Queue(h)
  BY <1>1 DEF QueueInv, Heap
<1>3. {Key(t) : t \in {h[i] : i \in DOMAIN h}} = Keys(h)
  BY <1>2, WaitingKeys
<1> QED
  BY <1>1, <1>3 DEF Waiting, Tasks

\* Each of them has a number that no task to come has.
LEMMA KeyNumbers ==
    ASSUME QueueInv
    PROVE  \A k \in Keys(heap) : k.sequence <= sequence /\ k.sequence \in Nat
<1>1. \A e \in Contents(heap) : e.sequence <= sequence /\ e.sequence \in Nat
  BY DEF QueueInv, Registers
<1>2. \A e : Key(e).sequence = e.sequence
  BY DEF Key
<1> QED
  BY <1>1, <1>2 DEF Keys

\* A push registers a task.
LEMMA PushRegisters ==
    ASSUME QueueInv, NEW task \in TaskType, task.sequence = sequence + 1,
           Registers(Entry(task), sequence + 1),
           heap' = heap_push(heap, task), sequence' = sequence + 1
    PROVE  Order!Registered
<1>1. QueueInv' /\ Contents(heap') = Contents(heap) \cup {Entry(task)}
  BY PushStep
<1>2. Waiting = Keys(heap)
  BY WaitingIs
<1>3. Waiting' = Keys(heap')
  BY <1>1, WaitingAfter
<1>4. Key(Entry(task)).sequence = sequence + 1
  BY DEF Key, Entry
<1> DEFINE k == Key(Entry(task))
<1>5. Waiting' = Waiting \cup {k}
  BY <1>1, <1>2, <1>3 DEF Keys
<1>6. \A u \in Waiting : u.sequence < k.sequence
  <2>1. sequence \in Nat
    BY DEF QueueInv
  <2> QED
    BY <1>2, <1>4, <2>1, KeyNumbers
<1> HIDE DEF k
<1> QED
  BY <1>5, <1>6 DEF Order!Registered, Waiting

\* The task that is taken is the first of those that wait.
LEMMA TakesFirst ==
    ASSUME SchedulerInv, RunTask
    PROVE  Order!TakeFirst
<1>0. /\ heap # <<>> /\ heap' = heap_pop(heap) /\ sequence' = sequence
      /\ running' = {heap[1]} /\ phase = "drain"
  BY DEF RunTask, MoreDue
<1>1. QueueInv /\ Heap(heap) /\ running = {} /\ heap \in Seq(TaskType)
  BY <1>0 DEF SchedulerInv, LoopInv, QueueInv, Heap, Queue
<1>2. QueueInv' /\ Contents(heap') = Contents(heap) \ {Entry(heap[1])}
  BY <1>0, <1>1, PopStep
<1>3. Waiting = Keys(heap)
  BY <1>1, WaitingIs
<1>4. Waiting' = Keys(heap')
  BY <1>2, WaitingAfter
<1>5. 1 \in 1 .. Len(heap)
  BY <1>0, <1>1
<1> DEFINE first == Key(heap[1])
<1>6. /\ Key(Entry(heap[1])) = first
      /\ first.deadline_ms = heap[1].deadline_ms /\ first.sequence = heap[1].sequence
  BY DEF Key, Entry
<1>7. first \in Waiting
  BY <1>3, <1>5, <1>6 DEF Keys, Contents
<1>8. ASSUME NEW k \in Waiting \ {first}
      PROVE  \/ first.deadline_ms < k.deadline_ms
             \/ first.deadline_ms = k.deadline_ms /\ first.sequence < k.sequence
  <2>1. PICK i \in 1 .. Len(heap) : k = Key(Entry(heap[i]))
    BY <1>3 DEF Keys, Contents
  <2>2. k.deadline_ms = heap[i].deadline_ms /\ k.sequence = heap[i].sequence
    BY <2>1 DEF Key, Entry
  <2>3. i # 1
    BY <1>6, <1>8, <2>1
  <2>4. Before(heap, 1, i)
    BY <1>1, <2>3, FirstIsLeast DEF Heap
  <2> QED
    BY <1>6, <2>2, <2>4 DEF Before, task_before
<1>9. Waiting' = Waiting \ {first}
  <2>1. ASSUME NEW e \in Contents(heap), Key(e) = first
        PROVE  e = Entry(heap[1])
    <3>1. PICK i \in 1 .. Len(heap) : e = Entry(heap[i])
      BY DEF Contents
    <3>2. heap[i].sequence = heap[1].sequence
      BY <1>6, <2>1, <3>1 DEF Key, Entry
    <3>3. i = 1
      BY <1>1, <1>5, <3>2 DEF Heap, Queue
    <3> QED
      BY <3>1, <3>3
  <2> HIDE DEF first
  <2> QED
    BY <1>2, <1>3, <1>4, <1>6, <2>1 DEF Keys
<1>10. Running = {} /\ Running' = {first}
  BY <1>0, <1>1 DEF Running
<1> HIDE DEF first
<1>11. /\ first \in Waiting
       /\ \A t \in Waiting \ {first} :
             \/ first.deadline_ms < t.deadline_ms
             \/ first.deadline_ms = t.deadline_ms /\ first.sequence < t.sequence
       /\ Running = {} /\ Running' = {first} /\ Waiting' = Waiting \ {first}
  BY <1>7, <1>8, <1>9, <1>10
<1> QED
  BY <1>11 DEF Order!TakeFirst, Waiting, Running

\* Every step of the scheduler is one of TaskQueue, or changes nothing there.
LEMMA OrderStep ==
    ASSUME SchedulerInv, [Next]_vars
    PROVE  [Order!Next]_Order!vars
<1>0. QueueInv /\ LoopInv /\ AlarmInv
  BY DEF SchedulerInv
<1>1. ASSUME UNCHANGED <<heap, running>>
      PROVE  UNCHANGED Order!vars
  BY <1>1 DEF Order!vars, Tasks, Key
<1>2. ASSUME NEW task \in NewTasks, Enqueue(task) \/ EnqueueInAction(task)
      PROVE  Order!Register
  <2>1. /\ task \in TaskType /\ task.sequence = sequence + 1
        /\ Registers(Entry(task), sequence + 1)
    BY <1>0, NewTasksRegister
  <2>2. heap' = heap_push(heap, task) /\ sequence' = sequence + 1 /\ running' = running
    BY <1>2 DEF Enqueue, EnqueueInAction, MayCall, loop
  <2>3. Order!Registered
    BY <1>0, <2>1, <2>2, PushRegisters
  <2> QED
    BY <2>2, <2>3 DEF Order!Register
<1>3. ASSUME NEW task \in NewTasks, EnqueueFails(task)
      PROVE  UNCHANGED Order!vars
  <2>1. task \in TaskType /\ task.sequence = sequence + 1
    BY <1>0, NewTasksRegister
  <2>2. /\ heap' = heap_remove(heap_push(heap, task), task.sequence)
        /\ sequence' = sequence + 1 /\ running' = running
    BY <1>3 DEF EnqueueFails, MayCall, loop
  <2>3. QueueInv' /\ Contents(heap') = Contents(heap)
    BY <1>0, <2>1, <2>2, RollBack
  <2>4. Waiting' = Keys(heap')
    BY <2>3, WaitingAfter
  <2>5. Waiting' = Waiting
    BY <1>0, <2>3, <2>4, WaitingIs DEF Keys
  <2> QED
    BY <2>2, <2>5 DEF Order!vars, Waiting
<1>4. CASE RunTask
  BY <1>4, TakesFirst DEF Order!Next
<1>5. ASSUME running # {}, running' = {}
      PROVE  Running # {} /\ Running' = {}
  <2>1. PICK t : t \in running
    BY <1>5
  <2>2. Key(t) \in Running
    BY <2>1 DEF Running
  <2>3. Running' = {}
    BY <1>5 DEF Running
  <2> QED
    BY <2>2, <2>3
<1>6. CASE EndDaily
  <2>1. PICK t \in running :
           /\ t.daily_spec # Once
           /\ heap' = heap_push(heap, Task(NextDaily(t.daily_spec, clock), t.daily_spec))
    BY <1>6 DEF EndDaily
  <2>2. sequence' = sequence + 1 /\ running' = {}
    BY <1>6 DEF EndDaily, NextTurn
  <2>3. Order!Registered
    BY <1>0, <2>1, <2>2, AgainRegistered, PushRegisters
  <2>4. Running # {} /\ Running' = {}
    BY <1>5, <2>1, <2>2
  <2> QED
    BY <2>3, <2>4 DEF Order!Next, Order!Done, Running
<1>7. CASE EndOnce \/ DailyLost
  <2>1. running # {} /\ running' = {} /\ heap' = heap
    BY <1>7 DEF EndOnce, DailyLost, NextTurn, Leave, queue
  <2>2. Running # {} /\ Running' = {} /\ Waiting' = Waiting
    BY <1>5, <2>1 DEF Waiting, Tasks
  <2> QED
    BY <2>2 DEF Order!Next, Order!Done, Running, Waiting
<1>8. CASE EndDrain \/ DrainFails
  <2>1. heap' = heap /\ running' = {} /\ phase = "drain"
    BY <1>8 DEF EndDrain, DrainFails, Leave, queue
  <2>2. running = {}
    BY <1>0, <2>1 DEF LoopInv
  <2> QED
    BY <1>1, <2>1, <2>2
<1>9. CASE EnqueueRefused \/ Fire \/ Tick \/ SetClock \/ CloseTimer \/ UNCHANGED vars
  <2>1. UNCHANGED <<heap, running>>
    BY <1>9 DEF EnqueueRefused, Fire, Tick, SetClock, CloseTimer, vars, queue, loop
  <2> QED
    BY <1>1, <2>1
<1> QED
  BY <1>2, <1>3, <1>4, <1>6, <1>7, <1>8, <1>9 DEF Next, Order!Next

\* Tasks are run in the order of their deadlines, and of their registration where
\* these are equal: the heap implements TaskQueue, whatever actions register while
\* it is drained and whichever calls are rolled back.
THEOREM RunsInOrder == Spec => InOrder
<1>1. Init => Order!Init
  <2> SUFFICES ASSUME Init PROVE Order!Init
    OBVIOUS
  <2>1. heap = <<>> /\ running = {}
    BY DEF Init
  <2>2. Tasks = {}
    BY <2>1 DEF Tasks
  <2> QED
    BY <2>1, <2>2 DEF Order!Init
<1> QED
  BY <1>1, SchedulerInvariant, OrderStep, PTL DEF Spec, InOrder, Order!Spec

=============================================================================
