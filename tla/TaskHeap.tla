------------------------------ MODULE TaskHeap ------------------------------
(***************************************************************************)
(* The binary heap of lua/service/scheduler.lua as operators: a heap is a  *)
(* sequence of tasks, records with the fields deadline_ms, sequence and    *)
(* heap_index (and whatever else the scheduler keeps in a task).           *)
(***************************************************************************)
EXTENDS Naturals, Sequences

\* Wrong: equal deadlines are not told apart.
BeforeByDeadline(left, right) == left.deadline_ms < right.deadline_ms

task_before(left, right) ==
    \/ left.deadline_ms < right.deadline_ms
    \/ left.deadline_ms = right.deadline_ms /\ left.sequence < right.sequence

\* Puts a task at a place, and tells the task.
Placed(h, i, task) == [h EXCEPT ![i] = [task EXCEPT !.heap_index = i]]

swap_tasks(h, i, j) == Placed(Placed(h, i, h[j]), j, h[i])

\* A turn of the loop of sift_up, with the task at s.index.
Raised(s) ==
    LET parent == s.index \div 2 IN
    IF s.index > 1 /\ task_before(s.heap[s.index], s.heap[parent])
      THEN [heap |-> swap_tasks(s.heap, s.index, parent), index |-> parent]
      ELSE s

\* From a leaf to the root there are at most Len(h) \div 2 turns.
sift_up(h, i) ==
    LET turn[n \in Nat] ==
          IF n = 0 THEN [heap |-> h, index |-> i] ELSE Raised(turn[n - 1])
    IN turn[Len(h) \div 2].heap

\* Wrong: the right child is not looked at.
SmallestLeft(h, i) ==
    IF 2 * i <= Len(h) /\ task_before(h[2 * i], h[i]) THEN 2 * i ELSE i

\* The first of a task and its children, as sift_down looks for it.
Smallest(h, i) ==
    LET left == 2 * i
        right == left + 1
        s == IF left <= Len(h) /\ task_before(h[left], h[i]) THEN left ELSE i IN
    IF right <= Len(h) /\ task_before(h[right], h[s]) THEN right ELSE s

\* A turn of the loop of sift_down.
Lowered(s) ==
    LET smallest == Smallest(s.heap, s.index) IN
    IF smallest = s.index THEN s
    ELSE [heap |-> swap_tasks(s.heap, s.index, smallest), index |-> smallest]

sift_down(h, i) ==
    LET turn[n \in Nat] ==
          IF n = 0 THEN [heap |-> h, index |-> i] ELSE Lowered(turn[n - 1])
    IN turn[Len(h) \div 2].heap

heap_push(h, task) ==
    LET last == Len(h) + 1 IN
    sift_up(Append(h, [task EXCEPT !.heap_index = last]), last)

Shortened(h) == SubSeq(h, 1, Len(h) - 1)

\* The heap without its first task.
heap_pop(h) ==
    IF Len(h) = 1 THEN <<>> ELSE sift_down(Placed(Shortened(h), 1, h[Len(h)]), 1)

\* The heap without the task of that number; the task knows its place.  A task
\* that is not where it says is left alone.
heap_remove(h, sequence) ==
    LET index == (CHOOSE i \in DOMAIN h : h[i].sequence = sequence)
        place == h[index].heap_index
        moved == Placed(Shortened(h), place, h[Len(h)]) IN
    CASE place \notin DOMAIN h \/ h[place].sequence # sequence -> h
      [] place = Len(h) -> Shortened(h)
      [] OTHER -> IF place > 1 /\ task_before(moved[place], moved[place \div 2])
                    THEN sift_up(moved, place)
                    ELSE sift_down(moved, place)

=============================================================================
