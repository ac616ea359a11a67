--------------------------- MODULE MailboxProofs ---------------------------
(***************************************************************************)
(* What TLC checks of Mailbox on small instances, proved for any number of *)
(* producers and messages, any initial capacity and any batch size: the    *)
(* ring stays well formed while several producers grow it, no wakeup is    *)
(* lost, no message is lost or doubled, and the mailbox implements the     *)
(* queue of module MessageQueue.                                           *)
(***************************************************************************)
EXTENDS Mailbox, SequenceTheorems, FiniteSetTheorems, TLAPS

\* The array has the size that capacity says, holds messages where it should,
\* and a deleted mailbox is empty.
RingInv ==
    IF consumer = "deleted"
    THEN count = 0
    ELSE /\ items \in [0 .. capacity - 1 -> Messages \cup {Empty}]
         /\ tail = Slot(count)
         /\ \A i \in 0 .. count - 1 : items[Slot(i)] \in Messages

\* A spare ring is twice as large as the capacity it was allocated for.
SpareInv ==
    \A p \in Producers :
        /\ pc[p] \in {"push", "alloc", "retry"} => msg[p] \in Messages
        /\ pc[p] \in {"alloc", "retry"} => seen[p] # 0
        /\ spare[p] = IF pc[p] = "retry" THEN 2 * seen[p] ELSE 0

\* Where the service thread can be.
PhaseInv ==
    /\ closed => state = "stopping"
    /\ state = "running" =>
          consumer \in {"kick", "idle", "recv", "pop", "report", "finish"}
    /\ consumer \in {"recv", "pop"} => processed < BatchSize
    /\ consumer = "deleted" => \A p \in Producers : pc[p] = "idle"

\* The claim on the wakeup is held as long as there are messages, and whoever
\* holds it passes it on.
WakeInv ==
    /\ (~closed /\ count > 0) => scheduled
    /\ (state = "running" /\ scheduled) =>
          \/ async
          \/ consumer \in {"kick", "recv", "pop"}
          \/ consumer \in {"report", "finish"} /\ processed = BatchSize
          \/ \E p \in Producers : pc[p] = "notify"

IInv == TypeOK /\ RingInv /\ SpareInv /\ PhaseInv /\ WakeInv

-----------------------------------------------------------------------------
(* Arithmetic of the ring *)

\* The remainder of a sum that passes the end of the ring at most once.
LEMMA ModOnce ==
    ASSUME NEW c \in Nat \ {0}, NEW a \in 0 .. c - 1, NEW i \in 0 .. c
    PROVE  /\ (a + i) % c = IF a + i < c THEN a + i ELSE a + i - c
           /\ (a + i) % c \in 0 .. c - 1
OBVIOUS

\* The slots of the queued messages lie in the ring.
LEMMA SlotValue ==
    ASSUME capacity \in Nat \ {0}, head \in 0 .. capacity - 1,
           NEW i \in 0 .. capacity
    PROVE  /\ Slot(i) = IF head + i < capacity THEN head + i
                                                 ELSE head + i - capacity
           /\ Slot(i) \in 0 .. capacity - 1
BY ModOnce DEF Slot

\* Two places in the queue are two slots.
LEMMA SlotDistinct ==
    ASSUME capacity \in Nat \ {0}, head \in 0 .. capacity - 1,
           NEW i \in 0 .. capacity - 1, NEW j \in 0 .. capacity - 1, i # j
    PROVE  Slot(i) # Slot(j)
<1>1. i \in 0 .. capacity /\ j \in 0 .. capacity
  OBVIOUS
<1> QED
  BY <1>1, SlotValue

\* The slot after the n-th is the (n+1)-st.
LEMMA SlotNext ==
    ASSUME capacity \in Nat \ {0}, head \in 0 .. capacity - 1,
           NEW n \in 0 .. capacity - 1
    PROVE  (Slot(n) + 1) % capacity = Slot(n + 1)
<1>1. n \in 0 .. capacity /\ n + 1 \in 0 .. capacity /\ 1 \in 0 .. capacity
  OBVIOUS
<1>2. /\ Slot(n) = IF head + n < capacity THEN head + n ELSE head + n - capacity
      /\ Slot(n) \in 0 .. capacity - 1
  BY <1>1, SlotValue
<1>3. Slot(n + 1) = IF head + (n + 1) < capacity THEN head + (n + 1)
                                        ELSE head + (n + 1) - capacity
  BY <1>1, SlotValue
<1>4. (Slot(n) + 1) % capacity =
        IF Slot(n) + 1 < capacity THEN Slot(n) + 1 ELSE Slot(n) + 1 - capacity
  BY <1>1, <1>2, ModOnce
<1> QED
  BY <1>2, <1>3, <1>4

\* Once the head has advanced, the i-th place is the slot of the next one.
LEMMA SlotPop ==
    ASSUME capacity \in Nat \ {0}, head \in 0 .. capacity - 1,
           NEW i \in 0 .. capacity - 1
    PROVE  (((head + 1) % capacity) + i) % capacity = Slot(i + 1)
<1> DEFINE h == (head + 1) % capacity
<1>1. 1 \in 0 .. capacity /\ i \in 0 .. capacity /\ i + 1 \in 0 .. capacity
  OBVIOUS
<1>2. h = (IF head + 1 < capacity THEN head + 1 ELSE head + 1 - capacity)
      /\ h \in 0 .. capacity - 1
  BY <1>1, ModOnce
<1>3. Slot(i + 1) = IF head + (i + 1) < capacity THEN head + (i + 1)
                                       ELSE head + (i + 1) - capacity
  BY <1>1, SlotValue
<1> HIDE DEF h
<1>4. (h + i) % capacity = IF h + i < capacity THEN h + i ELSE h + i - capacity
  BY <1>1, <1>2, ModOnce
<1>5. (h + i) % capacity = Slot(i + 1)
  BY <1>2, <1>3, <1>4
<1> QED
  BY <1>5 DEF h

-----------------------------------------------------------------------------
(* The inductive invariant *)

\* A new mailbox satisfies the invariant.
LEMMA InitInv == Init => IInv
<1> SUFFICES ASSUME Init PROVE IInv
  OBVIOUS
<1> USE MailboxAssumption DEF Init
<1>1. TypeOK
  <2>1. BoxType
    BY DEF BoxType
  <2>2. LocalsType
    BY DEF LocalsType
  <2>3. LoopType
    BY DEF LoopType
  <2>4. HistoryType
    BY DEF HistoryType
  <2>5. FlagType
    BY DEF FlagType
  <2> QED
    BY <2>1, <2>2, <2>3, <2>4, <2>5 DEF TypeOK
<1>2. RingInv
  <2>1. Slot(0) = 0
    BY SlotValue
  <2> QED
    BY <2>1 DEF RingInv, Unwritten
<1>3. SpareInv /\ PhaseInv /\ WakeInv
  BY DEF SpareInv, PhaseInv, WakeInv
<1> QED
  BY <1>1, <1>2, <1>3 DEF IInv

\* Types.  Only pushes, pops and the deletion change the ring.
LEMMA TypeStep ==
    ASSUME IInv, [Next]_vars
    PROVE  TypeOK'
<1> USE MailboxAssumption DEF IInv, TypeOK, vars, box, ring, report, locals,
        loop, history
<1>1. ASSUME NEW p \in Producers, NEW m \in Messages, Send(p, m)
      PROVE  TypeOK'
  BY <1>1 DEF Send, BoxType, FlagType, LocalsType, LoopType, HistoryType
<1>2. ASSUME NEW p \in Producers, PushClosed(p) \/ AllocateFails(p)
      PROVE  TypeOK'
  <2> USE <1>2 DEF PushClosed, AllocateFails, Refuse, Leave
  <2>1. msg[p] \in Messages
    BY DEF SpareInv
  <2>2. HistoryType'
    BY <2>1 DEF HistoryType
  <2>3. FlagType'
    BY DEF FlagType
  <2> QED
    BY <2>2, <2>3 DEF BoxType, LocalsType, LoopType
<1>3. ASSUME NEW p \in Producers, PushStore(p)
      PROVE  TypeOK'
  <2> USE <1>3 DEF PushStore, Claim, Leave, HasRoom
  <2>1. BoxType'
    <3>1. tail + 1 \in Nat /\ (tail + 1) % capacity \in 0 .. capacity - 1
      BY ModOnce DEF BoxType
    <3> QED
      BY <3>1 DEF BoxType
  <2>2. FlagType'
    BY DEF FlagType
  <2>3. LocalsType' /\ LoopType' /\ HistoryType'
    BY DEF LocalsType, LoopType, HistoryType
  <2> QED
    BY <2>1, <2>2, <2>3
<1>4. ASSUME NEW p \in Producers, PushGrow(p)
      PROVE  TypeOK'
  <2> USE <1>4 DEF PushGrow, Claim, Leave, HasRoom
  <2>1. BoxType'
    <3>1. /\ count = capacity /\ capacity * 2 \in Nat \ {0}
          /\ count \in 0 .. (capacity * 2) - 1 /\ 1 \in 0 .. capacity * 2
      BY DEF BoxType
    <3>2. (count + 1) % (capacity * 2) \in 0 .. (capacity * 2) - 1
      BY <3>1, ModOnce
    <3> QED
      BY <3>1, <3>2 DEF BoxType
  <2>2. FlagType'
    BY DEF FlagType
  <2>3. LocalsType' /\ LoopType' /\ HistoryType'
    BY DEF LocalsType, LoopType, HistoryType
  <2> QED
    BY <2>1, <2>2, <2>3
<1>5. ASSUME NEW p \in Producers, PushFull(p) \/ Allocate(p)
      PROVE  TypeOK'
  <2>1. LocalsType'
    BY <1>5 DEF PushFull, Allocate, LocalsType, BoxType
  <2> QED
    BY <1>5, <2>1 DEF PushFull, Allocate, BoxType, FlagType, LoopType, HistoryType
<1>6. ASSUME NEW p \in Producers, Notify(p)
      PROVE  TypeOK'
  <2>1. FlagType'
    BY <1>6 DEF Notify, FlagType
  <2> QED
    BY <1>6, <2>1 DEF Notify, BoxType, LocalsType, LoopType, HistoryType
<1>7. ASSUME TakeHead, consumer # "deleted"
      PROVE  BoxType' /\ HistoryType' /\ closed' = closed /\ scheduled' = scheduled
  <2> USE <1>7 DEF TakeHead
  <2>1. /\ head' \in 0 .. capacity' - 1 /\ count' \in 0 .. capacity'
        /\ tail' \in 0 .. capacity' - 1 /\ capacity' \in Nat \ {0}
    <3>1. (head + 1) % capacity \in 0 .. capacity - 1
      BY ModOnce DEF BoxType
    <3> QED
      BY <3>1 DEF BoxType
  <2>2. overload' \in Nat /\ overload_threshold' \in Nat
    BY DEF Raised, BoxType
  <2>3. items[head] \in Messages
    <3>1. Slot(0) = head /\ 0 \in 0 .. count - 1
      BY SlotValue DEF BoxType
    <3> QED
      BY <3>1 DEF RingInv
  <2>4. HistoryType'
    BY <2>3 DEF HistoryType
  <2> QED
    BY <2>1, <2>2, <2>4 DEF BoxType
<1>8. CASE PopMessage \/ DrainMessage
  <2>1. TakeHead /\ consumer # "deleted"
    BY <1>8 DEF PopMessage, DrainMessage
  <2>2. FlagType'
    BY <1>7, <1>8, <2>1 DEF PopMessage, DrainMessage, FlagType
  <2>3. LoopType' /\ LocalsType'
    BY <1>8 DEF PopMessage, DrainMessage, LoopType, LocalsType, PhaseInv
  <2> QED
    BY <1>7, <2>1, <2>2, <2>3
<1>9. CASE PopNothing \/ DrainEnd
  <2>1. FlagType'
    BY <1>9 DEF PopNothing, DrainEnd, EmptyPop, FlagType
  <2> QED
    BY <1>9, <2>1 DEF PopNothing, DrainEnd, EmptyPop, BoxType, LocalsType, LoopType,
       HistoryType
<1>10. CASE ReportOverload
  BY <1>10 DEF ReportOverload, BoxType, FlagType, LocalsType, LoopType, HistoryType
<1>11. CASE FinishBatch
  <2>1. FlagType'
    BY <1>11 DEF FinishBatch, FlagType
  <2> QED
    BY <1>11, <2>1 DEF FinishBatch, BoxType, LocalsType, LoopType, HistoryType
<1>12. CASE InitLoop \/ Run \/ Kick \/ Wake \/ Recv \/ Stop \/ Close \/ DrainBegin
  <2>1. FlagType'
    BY <1>12 DEF InitLoop, Run, Kick, Wake, Recv, Stop, Close, DrainBegin, FlagType
  <2>2. LoopType'
    BY <1>12 DEF InitLoop, Run, Kick, Wake, Recv, Stop, Close, DrainBegin, LoopType
  <2> QED
    BY <1>12, <2>1, <2>2 DEF InitLoop, Run, Kick, Wake, Recv, Stop, Close, DrainBegin,
       BoxType, LocalsType, HistoryType
<1>13. CASE Delete
  <2> USE <1>13 DEF Delete
  <2>1. Contents \in Seq(Messages)
    BY DEF Contents, RingInv, BoxType
  <2>2. HistoryType'
    BY <2>1 DEF HistoryType
  <2> QED
    BY <2>2 DEF BoxType, FlagType, LocalsType, LoopType
<1>14. CASE UNCHANGED vars
  BY <1>14 DEF BoxType, FlagType, LocalsType, LoopType, HistoryType
<1> QED
  BY <1>1, <1>2, <1>3, <1>4, <1>5, <1>6, <1>8, <1>9, <1>10, <1>11, <1>12, <1>13,
     <1>14 DEF Next, Return, Push, Consume, Done

\* The ring.  A store puts the message behind the last one, a growth copies
\* the queue to the front of an array twice as large, a pop advances the head.
LEMMA RingStep ==
    ASSUME IInv, [Next]_vars
    PROVE  RingInv'
<1> USE MailboxAssumption DEF IInv, TypeOK, BoxType
<1>1. ASSUME NEW p \in Producers, PushStore(p)
      PROVE  RingInv'
  <2> USE <1>1 DEF PushStore, HasRoom
  <2>1. /\ consumer # "deleted" /\ consumer' = consumer
        /\ msg[p] \in Messages
    BY DEF PhaseInv, SpareInv, loop
  <2>2. tail \in 0 .. capacity - 1 /\ tail = Slot(count)
        /\ items \in [0 .. capacity - 1 -> Messages \cup {Empty}]
    BY <2>1 DEF RingInv
  <2>3. \A i \in Nat : Slot(i)' = Slot(i)
    BY DEF Slot
  <2>4. tail' = Slot(count + 1)
    BY <2>2, SlotNext
  <2>5. ASSUME NEW i \in 0 .. count
        PROVE  items'[Slot(i)] \in Messages
    <3>1. CASE i = count
      BY <2>1, <2>2, <3>1
    <3>2. CASE i # count
      <4>1. Slot(i) # tail /\ Slot(i) \in 0 .. capacity - 1
        <5>1. /\ i \in 0 .. capacity - 1 /\ count \in 0 .. capacity - 1
              /\ i \in 0 .. capacity
          OBVIOUS
        <5> QED
          BY <2>2, <3>2, <5>1, SlotDistinct, SlotValue
      <4>2. items[Slot(i)] \in Messages
        BY <2>1, <3>2 DEF RingInv
      <4> QED
        BY <2>2, <4>1, <4>2
    <3> QED
      BY <3>1, <3>2
  <2>6. items' \in [0 .. capacity' - 1 -> Messages \cup {Empty}]
    BY <2>1, <2>2
  <2>7. tail' = Slot(count)'
    BY <2>4 DEF Slot
  <2>8. \A i \in 0 .. count' - 1 : items'[Slot(i)'] \in Messages
    BY <2>3, <2>5
  <2> QED
    BY <2>1, <2>6, <2>7, <2>8 DEF RingInv
<1>2. ASSUME NEW p \in Producers, PushGrow(p)
      PROVE  RingInv'
  <2> USE <1>2 DEF PushGrow, HasRoom
  <2>1. /\ consumer # "deleted" /\ consumer' = consumer
        /\ msg[p] \in Messages
    BY DEF PhaseInv, SpareInv, loop
  <2>2. count = capacity /\ spare[p] = capacity * 2
    BY DEF SpareOf, SpareInv, LocalsType
  <2>3. items' = [i \in 0 .. capacity * 2 - 1 |->
                    IF i = count THEN msg[p]
                    ELSE IF i < count THEN items[Slot(i)] ELSE Empty]
    BY <2>2 DEF Grown
  <2>4. \A i \in 0 .. count - 1 : items[Slot(i)] \in Messages
    BY <2>1 DEF RingInv
  <2>5. items' \in [0 .. capacity' - 1 -> Messages \cup {Empty}]
    <3> SUFFICES ASSUME NEW i \in 0 .. capacity * 2 - 1
                 PROVE  items'[i] \in Messages \cup {Empty}
      BY <2>2, <2>3
    <3> QED
      BY <2>1, <2>2, <2>3, <2>4
  <2>6. \A i \in 0 .. count : Slot(i)' = i
    <3> SUFFICES ASSUME NEW i \in 0 .. count PROVE (0 + i) % (capacity * 2) = i
      BY DEF Slot
    <3>1. capacity * 2 \in Nat \ {0} /\ 0 \in 0 .. capacity * 2 - 1
          /\ i \in 0 .. capacity * 2 /\ 0 + i < capacity * 2 /\ 0 + i = i
      BY <2>2
    <3> QED
      BY <3>1, ModOnce
  <2>7. tail' = Slot(count)'
    BY DEF Slot
  <2>8. \A i \in 0 .. count' - 1 : items'[Slot(i)'] \in Messages
    BY <2>1, <2>2, <2>3, <2>4, <2>6
  <2> QED
    BY <2>1, <2>5, <2>7, <2>8 DEF RingInv
<1>3. CASE PopMessage \/ DrainMessage
  <2> USE <1>3 DEF PopMessage, DrainMessage, TakeHead
  <2>1. consumer # "deleted" /\ consumer' # "deleted"
    BY DEF loop
  <2>2. \A i \in 0 .. count - 1 : Slot(i)' = Slot(i + 1)
    <3> SUFFICES ASSUME NEW i \in 0 .. count - 1 PROVE Slot(i)' = Slot(i + 1)
      OBVIOUS
    <3>1. (((head + 1) % capacity) + i) % capacity = Slot(i + 1)
      BY SlotPop
    <3> QED
      BY <3>1 DEF Slot
  <2>3. tail' = Slot(count)'
    <3>1. tail = Slot(count)
      BY <2>1 DEF RingInv
    <3>3. count - 1 \in 0 .. capacity - 1 /\ (count - 1) + 1 = count
      OBVIOUS
    <3>2. (((head + 1) % capacity) + (count - 1)) % capacity = Slot((count - 1) + 1)
      BY <3>3, SlotPop
    <3> QED
      BY <3>1, <3>2, <3>3 DEF Slot
  <2>4. \A i \in 0 .. count' - 1 : items'[Slot(i)'] \in Messages
    <3>1. \A j \in 0 .. count - 1 : items[Slot(j)] \in Messages
      BY <2>1 DEF RingInv
    <3>2. /\ items' = items /\ count' = count - 1 /\ count \in Nat
      OBVIOUS
    <3>3. ASSUME NEW i \in 0 .. count' - 1
          PROVE  i \in 0 .. count - 1 /\ i + 1 \in 0 .. count - 1
      BY <3>2
    <3> QED
      BY <2>2, <3>1, <3>2, <3>3
  <2> QED
    BY <2>1, <2>3, <2>4 DEF RingInv
<1>4. CASE Delete
  BY <1>4 DEF Delete, RingInv
<1>5. ASSUME UNCHANGED ring, consumer = "deleted" <=> consumer' = "deleted"
      PROVE  RingInv'
  BY <1>5 DEF RingInv, ring, Slot
<1>6. ASSUME NEW p \in Producers,
             \/ \E m \in Messages : Send(p, m)
             \/ PushClosed(p) \/ PushFull(p) \/ Allocate(p)
             \/ AllocateFails(p) \/ Notify(p)
      PROVE  RingInv'
  BY <1>5, <1>6 DEF Send, PushClosed, PushFull, Allocate, AllocateFails, Notify,
     Refuse, box, loop
<1>7. CASE \/ InitLoop \/ Run \/ Kick \/ Wake \/ Recv \/ PopNothing \/ ReportOverload
           \/ FinishBatch \/ Stop \/ Close \/ DrainBegin \/ DrainEnd
  BY <1>5, <1>7 DEF InitLoop, Run, Kick, Wake, Recv, PopNothing, EmptyPop,
     ReportOverload, FinishBatch, Stop, Close, DrainBegin, DrainEnd, box, loop
<1>8. CASE UNCHANGED vars
  BY <1>5, <1>8 DEF vars, box, loop
<1> QED
  BY <1>1, <1>2, <1>3, <1>4, <1>6, <1>7, <1>8 DEF Next, Return, Push, Consume, Done

\* The producers' locals: the capacity a spare ring was made for is kept with
\* it until the push that allocated it ends.
LEMMA SpareStep ==
    ASSUME IInv, [Next]_vars
    PROVE  SpareInv'
<1> USE DEF IInv, TypeOK, LocalsType, SpareInv
<1>1. ASSUME NEW p \in Producers, NEW m \in Messages, Send(p, m)
      PROVE  SpareInv'
  BY <1>1 DEF Send
<1>2. ASSUME NEW p \in Producers, PushClosed(p) \/ AllocateFails(p)
      PROVE  SpareInv'
  BY <1>2 DEF PushClosed, AllocateFails, Refuse, Leave
<1>3. ASSUME NEW p \in Producers, PushStore(p) \/ PushGrow(p)
      PROVE  SpareInv'
  BY <1>3 DEF PushStore, PushGrow, Claim, Leave
<1>4. ASSUME NEW p \in Producers, PushFull(p)
      PROVE  SpareInv'
  BY <1>4 DEF PushFull, BoxType
<1>5. ASSUME NEW p \in Producers, Allocate(p)
      PROVE  SpareInv'
  BY <1>5 DEF Allocate
<1>6. ASSUME NEW p \in Producers, Notify(p)
      PROVE  SpareInv'
  BY <1>6 DEF Notify
<1>7. CASE UNCHANGED locals
  BY <1>7 DEF locals
<1>8. CASE Consume \/ InitLoop \/ Stop \/ Close \/ Delete \/ UNCHANGED vars
  BY <1>7, <1>8 DEF Consume, Run, Kick, Wake, Recv, PopMessage, PopNothing,
     ReportOverload, FinishBatch, DrainBegin, DrainMessage, DrainEnd, InitLoop,
     Stop, Close, Delete, vars
<1> QED
  BY <1>1, <1>2, <1>3, <1>4, <1>5, <1>6, <1>8 DEF Next, Return, Push, Done

\* Where the threads are.
LEMMA PhaseStep ==
    ASSUME IInv, [Next]_vars
    PROVE  PhaseInv'
<1> USE MailboxAssumption DEF IInv, TypeOK, LocalsType, LoopType, PhaseInv, vars,
        box, locals, loop
<1>1. ASSUME NEW p \in Producers, (\E m \in Messages : Send(p, m)) \/ Return(p)
      PROVE  PhaseInv'
  BY <1>1 DEF Send, Return, Push, PushClosed, PushStore, PushGrow, PushFull,
     Allocate, AllocateFails, Notify, Refuse
<1>2. CASE InitLoop \/ Run \/ Kick
  BY <1>2 DEF InitLoop, Run, Kick
<1>3. CASE Wake \/ Recv
  BY <1>3 DEF Wake, Recv
<1>4. CASE PopMessage \/ PopNothing
  BY <1>4 DEF PopMessage, PopNothing, TakeHead, EmptyPop
<1>5. CASE ReportOverload \/ FinishBatch
  BY <1>5 DEF ReportOverload, FinishBatch
<1>6. CASE Stop \/ Close
  BY <1>6 DEF Stop, Close
<1>7. CASE DrainBegin \/ DrainMessage \/ DrainEnd
  BY <1>7 DEF DrainBegin, DrainMessage, DrainEnd, TakeHead, EmptyPop
<1>8. CASE Delete
  BY <1>8 DEF Delete
<1>9. CASE UNCHANGED vars
  BY <1>9
<1> QED
  BY <1>1, <1>2, <1>3, <1>4, <1>5, <1>6, <1>7, <1>8, <1>9 DEF Next, Consume, Done

\* The claim on the wakeup.
LEMMA WakeStep ==
    ASSUME IInv, [Next]_vars
    PROVE  WakeInv'
<1> USE MailboxAssumption DEF IInv, TypeOK, BoxType, FlagType, LocalsType, LoopType,
        PhaseInv, WakeInv, vars, box, ring, locals, loop
<1>1. ASSUME NEW p \in Producers,
             \/ \E m \in Messages : Send(p, m)
             \/ PushClosed(p) \/ PushFull(p) \/ Allocate(p) \/ AllocateFails(p)
      PROVE  WakeInv'
  BY <1>1 DEF Send, PushClosed, PushFull, Allocate, AllocateFails, Refuse, Leave
\* The first message stored since the last empty pop claims the wakeup.
<1>2. ASSUME NEW p \in Producers, PushStore(p) \/ PushGrow(p)
      PROVE  WakeInv'
  BY <1>2 DEF PushStore, PushGrow, Claim, Leave
\* A running service has an event loop to notify.
<1>3. ASSUME NEW p \in Producers, Notify(p)
      PROVE  WakeInv'
  BY <1>3 DEF Notify
<1>4. CASE InitLoop \/ Run \/ Kick \/ Wake \/ Recv
  BY <1>4 DEF InitLoop, Run, Kick, Wake, Recv
\* The batch goes on, is full, or has emptied the mailbox.
<1>5. CASE PopMessage \/ PopNothing
  BY <1>5 DEF PopMessage, PopNothing, TakeHead, EmptyPop
<1>6. CASE ReportOverload \/ FinishBatch
  BY <1>6 DEF ReportOverload, FinishBatch
<1>7. CASE Stop \/ Close
  BY <1>7 DEF Stop, Close
<1>8. CASE DrainBegin \/ DrainMessage \/ DrainEnd
  BY <1>8 DEF DrainBegin, DrainMessage, DrainEnd, TakeHead, EmptyPop
<1>9. CASE Delete
  BY <1>9 DEF Delete
<1>10. CASE UNCHANGED vars
  BY <1>10
<1> QED
  BY <1>1, <1>2, <1>3, <1>4, <1>5, <1>6, <1>7, <1>8, <1>9, <1>10
     DEF Next, Return, Push, Consume, Done

\* The invariant is inductive.
LEMMA Inductive == Spec => []IInv
<1>1. IInv /\ [Next]_vars => IInv'
  BY TypeStep, RingStep, SpareStep, PhaseStep, WakeStep DEF IInv
<1> QED
  BY InitInv, <1>1, PTL DEF Spec

-----------------------------------------------------------------------------
(* The theorems *)

\* Indices never leave the ring and the mailbox never holds more messages than
\* it has slots, for any number of concurrent producers that grow it.
THEOREM TypeCorrect == Spec => []TypeOK
<1>1. IInv => TypeOK
  BY DEF IInv
<1> QED
  BY Inductive, <1>1, PTL

\* grow_locked never installs an array of another size than capacity says, and
\* tail is always where the next message belongs.
THEOREM RingIsWellFormed == Spec => []RingWellFormed
<1>1. IInv => RingWellFormed
  BY DEF IInv, RingInv, RingWellFormed
<1> QED
  BY Inductive, <1>1, PTL

\* The consumer of a running service is never left asleep with messages.
THEOREM WakeupsAreNotLost == Spec => []NoLostWakeup
<1>1. IInv => NoLostWakeup
  BY DEF IInv, PhaseInv, WakeInv, NoLostWakeup
<1> QED
  BY Inductive, <1>1, PTL

\* What is queued is a sequence of messages.
LEMMA ContentsSeq ==
    ASSUME IInv
    PROVE  /\ Contents \in Seq(Messages)
           /\ Len(Contents) = count
           /\ DOMAIN Contents = 1 .. count
           /\ \A i \in 1 .. count : Contents[i] = items[Slot(i - 1)]
<1>1. \A i \in 1 .. count : items[Slot(i - 1)] \in Messages
  BY DEF IInv, TypeOK, BoxType, RingInv
<1> QED
  BY <1>1 DEF Contents, IInv, TypeOK, BoxType

\* A store, with or without growth, appends.
LEMMA StoreAppends ==
    ASSUME IInv, IInv', NEW p \in Producers, PushStore(p) \/ PushGrow(p)
    PROVE  Contents' = Append(Contents, msg[p])
<1> USE DEF IInv, TypeOK, BoxType
<1>1. count' = count + 1 /\ consumer # "deleted" /\ msg[p] \in Messages
  BY DEF PushStore, PushGrow, PhaseInv, SpareInv
<1>2. /\ Contents \in Seq(Messages) /\ Len(Contents) = count
      /\ \A i \in 1 .. count : Contents[i] = items[Slot(i - 1)]
  BY ContentsSeq
<1>3. ASSUME NEW i \in 1 .. count + 1
      PROVE  items'[Slot(i - 1)'] =
               IF i = count + 1 THEN msg[p] ELSE items[Slot(i - 1)]
  <2>1. CASE PushStore(p)
    <3> USE <2>1 DEF PushStore, HasRoom
    <3>1. /\ Slot(i - 1)' = Slot(i - 1) /\ tail = Slot(count)
          /\ items \in [0 .. capacity - 1 -> Messages \cup {Empty}]
      BY <1>1 DEF Slot, RingInv
    <3>2. /\ i - 1 \in 0 .. capacity - 1 /\ count \in 0 .. capacity - 1
          /\ i - 1 \in 0 .. capacity
      OBVIOUS
    <3>3. i # count + 1 => Slot(i - 1) # tail
      BY <3>1, <3>2, SlotDistinct
    <3>4. Slot(i - 1) \in 0 .. capacity - 1
      BY <3>2, SlotValue
    <3>5. items'[Slot(i - 1)] = IF Slot(i - 1) = tail THEN msg[p]
                                                     ELSE items[Slot(i - 1)]
      BY <3>1, <3>4
    <3>6. i = count + 1 => Slot(i - 1) = tail
      <4>1. (count + 1) - 1 = count
        OBVIOUS
      <4> QED
        BY <3>1, <4>1
    <3> QED
      BY <3>1, <3>3, <3>5, <3>6
  <2>2. CASE PushGrow(p)
    <3> USE <2>2 DEF PushGrow, HasRoom
    <3>1. count = capacity /\ spare[p] = capacity * 2
      BY DEF SpareOf, SpareInv, LocalsType
    <3>2. items' = [j \in 0 .. capacity * 2 - 1 |->
                      IF j = count THEN msg[p]
                      ELSE IF j < count THEN items[Slot(j)] ELSE Empty]
      BY <3>1 DEF Grown
    <3>3. /\ capacity * 2 \in Nat \ {0} /\ 0 \in 0 .. capacity * 2 - 1
          /\ i - 1 \in 0 .. capacity * 2 /\ 0 + (i - 1) = i - 1
          /\ 0 + (i - 1) < capacity * 2
      BY <3>1
    <3>4. (0 + (i - 1)) % (capacity * 2) = i - 1
      BY <3>3, ModOnce
    <3>5. Slot(i - 1)' = i - 1
      BY <3>4 DEF Slot
    <3>6. i - 1 \in 0 .. capacity * 2 - 1
      BY <3>1
    <3>7. CASE i = count + 1
      <4>1. i - 1 = count
        BY <3>7
      <4> QED
        BY ONLY <3>2, <3>5, <3>6, <3>7, <4>1
    <3>8. CASE i # count + 1
      <4>1. i - 1 < count /\ i - 1 # count
        BY <3>8
      <4> QED
        BY ONLY <3>2, <3>5, <3>6, <3>8, <4>1
    <3> QED
      BY <3>7, <3>8
  <2> QED
    BY <2>1, <2>2
<1>4. Contents' = [i \in 1 .. count + 1 |-> items'[Slot(i - 1)']]
  BY <1>1 DEF Contents, Slot
<1>5. Append(Contents, msg[p]) =
        [i \in 1 .. count + 1 |-> IF i = count + 1 THEN msg[p] ELSE Contents[i]]
  BY <1>1, <1>2
<1>6. ASSUME NEW i \in 1 .. count + 1
      PROVE  items'[Slot(i - 1)'] =
               IF i = count + 1 THEN msg[p] ELSE Contents[i]
  BY <1>2, <1>3
<1> QED
  BY ONLY <1>4, <1>5, <1>6

\* Tail as a function.
LEMMA TailProp ==
    ASSUME NEW S, NEW s \in Seq(S), s # <<>>
    PROVE  Tail(s) = [i \in 1 .. Len(s) - 1 |-> s[i + 1]]
<1>1. /\ Tail(s) \in Seq(S) /\ Len(Tail(s)) = Len(s) - 1
      /\ \A i \in 1 .. Len(Tail(s)) : Tail(s)[i] = s[i + 1]
  BY HeadTailProperties
<1>2. Tail(s) = [i \in 1 .. Len(s) - 1 |-> Tail(s)[i]]
  <2>1. \A t \in Seq(S) : t = [i \in 1 .. Len(t) |-> t[i]]
    OBVIOUS
  <2> QED
    BY ONLY <1>1, <2>1
<1> QED
  BY ONLY <1>1, <1>2

\* A pop takes the oldest message.
LEMMA PopTakesHead ==
    ASSUME IInv, consumer # "deleted", TakeHead
    PROVE  /\ Contents # <<>>
           /\ items[head] = Head(Contents)
           /\ Contents' = Tail(Contents)
<1> USE DEF IInv, TypeOK, BoxType, TakeHead
<1>1. /\ Contents \in Seq(Messages) /\ Len(Contents) = count
      /\ \A i \in 1 .. count : Contents[i] = items[Slot(i - 1)]
  BY ContentsSeq
<1>2. items[head] = Contents[1]
  <2>1. Slot(0) = head
    BY SlotValue
  <2> QED
    BY <1>1, <2>1
<1>3. ASSUME NEW i \in 1 .. count - 1
      PROVE  items'[Slot(i - 1)'] = Contents[i + 1]
  <2>1. i - 1 \in 0 .. capacity - 1 /\ (i - 1) + 1 = i /\ (i + 1) - 1 = i
    OBVIOUS
  <2>2. (((head + 1) % capacity) + (i - 1)) % capacity = Slot((i - 1) + 1)
    BY <2>1, SlotPop
  <2>3. Slot(i - 1)' = Slot(i)
    BY <2>1, <2>2 DEF Slot
  <2>4. Contents[i + 1] = items[Slot((i + 1) - 1)]
    BY <1>1
  <2> QED
    BY <2>1, <2>3, <2>4
<1>4. Contents' = [i \in 1 .. count - 1 |-> items'[Slot(i - 1)']]
  BY DEF Contents, Slot
<1>5. /\ Contents # <<>> /\ Head(Contents) = Contents[1]
      /\ Tail(Contents) = [i \in 1 .. count - 1 |-> Contents[i + 1]]
  <2>1. Contents # <<>>
    BY <1>1
  <2>2. Head(Contents) = Contents[1]
    BY <1>1
  <2>3. Tail(Contents) = [i \in 1 .. count - 1 |-> Contents[i + 1]]
    BY <1>1, <2>1, TailProp
  <2> QED
    BY <2>1, <2>2, <2>3
<1>6. Contents' = Tail(Contents)
  BY ONLY <1>3, <1>4, <1>5
<1> QED
  BY <1>2, <1>5, <1>6

-----------------------------------------------------------------------------
(* Refinement *)

\* A step of the mailbox is a step of the abstract queue, or leaves it alone.
LEMMA QueueStep ==
    ASSUME IInv, IInv', [Next]_vars
    PROVE  [Queue!Next]_Queue!vars
<1> USE DEF Queue!Next, Queue!vars
<1> DEFINE Same == UNCHANGED <<Contents, taken, closed>>
<1>1. ASSUME UNCHANGED <<ring, taken, closed>>
      PROVE  Same
  BY <1>1 DEF Contents, Slot, ring
<1>2. ASSUME NEW p \in Producers, NEW m \in Messages, Send(p, m)
      PROVE  Same
  BY <1>1, <1>2 DEF Send, box
<1>3. ASSUME NEW p \in Producers, PushStore(p) \/ PushGrow(p)
      PROVE  Queue!Accept(msg[p]) /\ msg[p] \in Messages
  <2>1. Contents' = Append(Contents, msg[p])
    BY <1>3, StoreAppends
  <2>2. ~closed /\ UNCHANGED <<taken, closed>>
    BY <1>3 DEF PushStore, PushGrow, history
  <2>3. msg[p] \in Messages
    BY <1>3 DEF PushStore, PushGrow, IInv, SpareInv
  <2> QED
    BY <2>1, <2>2, <2>3 DEF Queue!Accept
<1>4. ASSUME NEW p \in Producers,
             PushClosed(p) \/ PushFull(p) \/ Allocate(p) \/ AllocateFails(p)
                \/ Notify(p)
      PROVE  Same
  BY <1>1, <1>4 DEF PushClosed, PushFull, Allocate, AllocateFails, Notify,
                    Refuse, box, history
<1>5. ASSUME InitLoop \/ Run \/ Kick \/ Wake \/ Recv \/ ReportOverload
                \/ FinishBatch \/ Stop \/ DrainBegin
      PROVE  Same
  BY <1>1, <1>5 DEF InitLoop, Run, Kick, Wake, Recv, ReportOverload,
                    FinishBatch, Stop, DrainBegin, box, history
<1>6. ASSUME PopMessage \/ DrainMessage
      PROVE  Queue!Take
  <2>1. TakeHead /\ consumer # "deleted"
    BY <1>6 DEF PopMessage, DrainMessage
  <2>2. taken' = Append(taken, items[head]) /\ UNCHANGED closed
    BY <2>1 DEF TakeHead
  <2>3. /\ Contents # <<>> /\ items[head] = Head(Contents)
        /\ Contents' = Tail(Contents)
    BY <2>1, PopTakesHead
  <2> QED
    BY <2>2, <2>3 DEF Queue!Take
<1>7. ASSUME PopNothing \/ DrainEnd
      PROVE  Same
  BY <1>1, <1>7 DEF PopNothing, DrainEnd, EmptyPop, history
<1>8. ASSUME Close
      PROVE  Queue!Close
  BY <1>8 DEF Close, Queue!Close, Contents, Slot, ring, history
<1>9. ASSUME Delete
      PROVE  Queue!Dispose
  <2>1. closed' = TRUE /\ taken' = taken \o Contents /\ count' = 0
    BY <1>9 DEF Delete, IInv, TypeOK, FlagType
  <2>2. Contents' = <<>>
    BY <2>1 DEF Contents
  <2> QED
    BY <2>1, <2>2 DEF Queue!Dispose
<1>10. ASSUME UNCHANGED vars
      PROVE  Same
  BY <1>1, <1>10 DEF vars, box, history
<1> QED
  BY <1>2, <1>3, <1>4, <1>5, <1>6, <1>7, <1>8, <1>9, <1>10
     DEF Next, Return, Push, Consume, Done

\* The ring of mailbox.c, grown by any number of producers outside its lock
\* and popped in batches, is a first-in-first-out queue: it implements the
\* abstract queue whose contents are read off the ring.
THEOREM MailboxIsQueue == Spec => FirstInFirstOut
<1>1. Init => Queue!Init
  BY DEF Init, Queue!Init, Contents
<1> QED
  BY Inductive, <1>1, QueueStep, PTL DEF Spec, FirstInFirstOut, Queue!Spec

-----------------------------------------------------------------------------
(* No message is lost or doubled *)

\* The producers that hold a message, and the messages in the two sequences.
InHand == {p \in Producers : msg[p] # Empty}

Queued == {Contents[i] : i \in 1 .. count}

Taken == {taken[i] : i \in 1 .. Len(taken)}

\* A producer holds a message exactly while it is inside mailbox_try_push, and
\* a message that is in its hands is in nobody else's, and not given back.
HandInv ==
    /\ \A p \in Producers : msg[p] # Empty <=> pc[p] \in {"push", "alloc", "retry"}
    /\ \A p \in Producers : msg[p] \notin unsent \cup refused
    /\ \A p, q \in Producers : (p # q /\ msg[p] # Empty) => msg[p] # msg[q]
    /\ unsent \cap refused = {}

\* Every message is somewhere, and there are as many places as messages.
CoverInv ==
    unsent \cup refused \cup {msg[p] : p \in InHand} \cup Queued \cup Taken = Messages

CountInv ==
    Cardinality(unsent) + Cardinality(refused) + Cardinality(InHand) + count
        + Len(taken) = Cardinality(Messages)

PlaceInv == HandInv /\ CoverInv /\ CountInv

\* The steps that move no message.
Unmoved == UNCHANGED <<msg, Contents, count, unsent, refused, taken>>

\* The ways a message moves: into the hands of a producer, back to the caller,
\* into the queue, out of the queue.
Given(p, m) ==
    /\ pc[p] = "idle" /\ m \in unsent
    /\ pc' = [pc EXCEPT ![p] = "push"] /\ msg' = [msg EXCEPT ![p] = m]
    /\ unsent' = unsent \ {m}
    /\ UNCHANGED <<Contents, count, refused, taken>>

Released(p) ==
    /\ pc[p] \in {"push", "alloc", "retry"}
    /\ \E l \in {"idle", "notify"} : pc' = [pc EXCEPT ![p] = l]
    /\ msg' = [msg EXCEPT ![p] = Empty]
    /\ unsent' = unsent

Returned(p) ==
    /\ Released(p)
    /\ refused' = refused \cup {msg[p]}
    /\ UNCHANGED <<Contents, count, taken>>

Stored(p) ==
    /\ Released(p)
    /\ Contents' = Append(Contents, msg[p]) /\ count' = count + 1
    /\ UNCHANGED <<refused, taken>>

Popped ==
    /\ Contents # <<>> /\ Contents' = Tail(Contents) /\ count' = count - 1
    /\ taken' = Append(taken, Head(Contents))
    /\ UNCHANGED <<pc, msg, unsent, refused>>

Disposed ==
    /\ count' = 0
    /\ taken' = taken \o Contents
    /\ UNCHANGED <<pc, msg, unsent, refused>>

\* Between two of the labels of a push, or of none.
Waits ==
    \A p \in Producers :
        pc[p] \in {"push", "alloc", "retry"} <=> pc'[p] \in {"push", "alloc", "retry"}

\* Every step moves at most one message, or disposes of the queue.
LEMMA MoveCases ==
    ASSUME IInv, IInv', [Next]_vars
    PROVE  \/ \E p \in Producers : \E m \in Messages : Given(p, m)
           \/ \E p \in Producers : Returned(p) \/ Stored(p)
           \/ Popped
           \/ Disposed
           \/ Unmoved /\ Waits
<1>1. ASSUME UNCHANGED ring
      PROVE  UNCHANGED <<Contents, count>>
  BY <1>1 DEF Contents, Slot, ring
<1>2. ASSUME NEW p \in Producers, NEW m \in Messages, Send(p, m)
      PROVE  Given(p, m)
  BY <1>1, <1>2 DEF Send, Given, box
<1>3. ASSUME NEW p \in Producers, PushClosed(p) \/ AllocateFails(p)
      PROVE  Returned(p)
  BY <1>1, <1>3 DEF PushClosed, AllocateFails, Refuse, Leave, Returned, Released, box
<1>4. ASSUME NEW p \in Producers, PushStore(p) \/ PushGrow(p)
      PROVE  Stored(p)
  <2>1. Contents' = Append(Contents, msg[p])
    BY <1>4, StoreAppends
  <2> QED
    BY <1>4, <2>1 DEF PushStore, PushGrow, Claim, Leave, Stored, Released, history
<1>5. ASSUME NEW p \in Producers, PushFull(p) \/ Allocate(p) \/ Notify(p)
      PROVE  Unmoved /\ Waits
  <2>1. Unmoved
    BY <1>1, <1>5 DEF PushFull, Allocate, Notify, Unmoved, box, history
  <2>2. Waits
    BY <1>5 DEF PushFull, Allocate, Notify, Waits, IInv, TypeOK, LocalsType
  <2> QED
    BY <2>1, <2>2
<1>6. ASSUME InitLoop \/ Run \/ Kick \/ Wake \/ Recv \/ ReportOverload
                \/ FinishBatch \/ Stop \/ Close \/ DrainBegin \/ PopNothing
                \/ DrainEnd \/ UNCHANGED vars
      PROVE  Unmoved /\ Waits
  <2>1. UNCHANGED ring /\ UNCHANGED history /\ UNCHANGED locals
    BY <1>6 DEF InitLoop, Run, Kick, Wake, Recv, ReportOverload, FinishBatch, Stop,
       Close, DrainBegin, PopNothing, DrainEnd, EmptyPop, vars, box
  <2> QED
    BY <1>1, <2>1 DEF Unmoved, Waits, history, locals
<1>7. ASSUME PopMessage \/ DrainMessage
      PROVE  Popped
  <2>1. TakeHead /\ consumer # "deleted" /\ UNCHANGED locals
    BY <1>7 DEF PopMessage, DrainMessage
  <2>2. /\ Contents # <<>> /\ items[head] = Head(Contents)
        /\ Contents' = Tail(Contents)
    BY <2>1, PopTakesHead
  <2> QED
    BY <2>1, <2>2 DEF TakeHead, Popped, locals
<1>8. ASSUME Delete
      PROVE  Disposed
  BY <1>8 DEF Delete, Disposed, locals
<1> QED
  BY <1>2, <1>3, <1>4, <1>5, <1>6, <1>7, <1>8 DEF Next, Return, Push, Consume, Done

\* Who holds what.
LEMMA HandStep ==
    ASSUME IInv, IInv', HandInv, [Next]_vars
    PROVE  HandInv'
<1> USE MailboxAssumption DEF HandInv, IInv, TypeOK, LocalsType, HistoryType
<1>1. ASSUME NEW p \in Producers, NEW m \in Messages, Given(p, m)
      PROVE  HandInv'
  BY <1>1 DEF Given
<1>2. ASSUME NEW p \in Producers, Returned(p)
      PROVE  HandInv'
  BY <1>2 DEF Returned, Released
<1>3. ASSUME NEW p \in Producers, Stored(p)
      PROVE  HandInv'
  BY <1>3 DEF Stored, Released
<1>4. CASE Popped \/ Disposed
  BY <1>4 DEF Popped, Disposed
<1>5. CASE Unmoved /\ Waits
  BY <1>5 DEF Unmoved, Waits
<1> QED
  BY <1>1, <1>2, <1>3, <1>4, <1>5, MoveCases

\* Every message stays somewhere.
LEMMA CoverStep ==
    ASSUME IInv, IInv', HandInv, CoverInv, [Next]_vars
    PROVE  CoverInv'
<1> DEFINE Held == {msg[p] : p \in InHand}
<1>1. /\ Contents \in Seq(Messages) /\ Len(Contents) = count /\ count \in Nat
      /\ taken \in Seq(Messages)
      /\ msg \in [Producers -> Messages \cup {Empty}]
      /\ unsent \subseteq Messages
  BY ContentsSeq DEF IInv, TypeOK, BoxType, HistoryType, LocalsType
<1>2. ASSUME NEW p \in Producers, NEW m \in Messages, Given(p, m)
      PROVE  CoverInv'
  <2>1. msg[p] = Empty /\ unsent = unsent' \cup {m}
    BY <1>2 DEF Given, HandInv
  <2>2. Held' = Held \cup {m}
    BY <1>1, <1>2, <2>1, MailboxAssumption DEF Given, InHand
  <2>3. UNCHANGED <<Queued, Taken, refused>>
    BY <1>2 DEF Given, Queued, Taken
  <2> QED
    BY <2>1, <2>2, <2>3 DEF CoverInv
<1>3. ASSUME NEW p \in Producers, Released(p)
      PROVE  Held = Held' \cup {msg[p]}
  BY <1>1, <1>3 DEF Released, InHand, HandInv
<1>4. ASSUME NEW p \in Producers, Returned(p)
      PROVE  CoverInv'
  <2>1. UNCHANGED <<Queued, Taken>>
    BY <1>4 DEF Returned, Queued, Taken
  <2> QED
    BY <1>3, <1>4, <2>1 DEF CoverInv, Returned, Released
<1>5. ASSUME NEW p \in Producers, Stored(p)
      PROVE  CoverInv'
  <2>1. msg[p] \in Messages
    BY <1>5 DEF Stored, Released, IInv, SpareInv
  <2>2. Queued' = Queued \cup {msg[p]}
    <3>1. /\ \A i \in 1 .. count : Append(Contents, msg[p])[i] = Contents[i]
          /\ Append(Contents, msg[p])[count + 1] = msg[p]
      BY <1>1, <2>1
    <3>2. Queued' = {Append(Contents, msg[p])[i] : i \in 1 .. count + 1}
      BY <1>5 DEF Stored, Queued
    <3>3. 1 .. count + 1 = (1 .. count) \cup {count + 1}
      BY <1>1
    <3>4. Queued = {Append(Contents, msg[p])[i] : i \in 1 .. count}
      BY <3>1 DEF Queued
    <3>5. Queued' = Queued \cup {Append(Contents, msg[p])[count + 1]}
      BY <3>2, <3>3, <3>4
    <3> QED
      BY <3>1, <3>5
  <2>3. UNCHANGED <<Taken, refused, unsent>>
    BY <1>5 DEF Stored, Released, Taken
  <2>4. Released(p)
    BY <1>5 DEF Stored
  <2> QED
    BY <1>3, <2>2, <2>3, <2>4 DEF CoverInv
<1>6. CASE Popped
  <2>1. Queued = Queued' \cup {Head(Contents)}
    <3>1. count' = count - 1 /\ count > 0 /\ Head(Contents) = Contents[1]
      BY <1>1, <1>6 DEF Popped
    <3>2. \A i \in 1 .. count - 1 : Tail(Contents)[i] = Contents[i + 1]
      BY <1>1, <1>6, TailProp DEF Popped
    <3>3. Queued' = {Contents[i + 1] : i \in 1 .. count - 1}
      BY <1>6, <3>1, <3>2 DEF Popped, Queued
    <3>4. /\ \A i \in 2 .. count : i - 1 \in 1 .. count - 1 /\ (i - 1) + 1 = i
          /\ \A i \in 1 .. count - 1 : i + 1 \in 2 .. count
      BY <1>1
    <3>5. {Contents[i + 1] : i \in 1 .. count - 1} = {Contents[i] : i \in 2 .. count}
      <4>1. ASSUME NEW i \in 2 .. count
            PROVE  \E j \in 1 .. count - 1 : Contents[i] = Contents[j + 1]
        BY <3>4
      <4>2. ASSUME NEW i \in 1 .. count - 1
            PROVE  \E j \in 2 .. count : Contents[i + 1] = Contents[j]
        BY <3>4
      <4> QED
        BY <4>1, <4>2
    <3>6. 1 .. count = {1} \cup 2 .. count
      BY <1>1, <3>1
    <3> QED
      BY <3>1, <3>3, <3>5, <3>6 DEF Queued
  <2>2. Taken' = Taken \cup {Head(Contents)}
    <3> DEFINE h == Head(Contents)
    <3>1. h \in Messages /\ taken' = Append(taken, h)
      BY <1>1, <1>6 DEF Popped
    <3> HIDE DEF h
    <3>2. /\ Len(Append(taken, h)) = Len(taken) + 1
          /\ \A i \in 1 .. Len(taken) : Append(taken, h)[i] = taken[i]
          /\ Append(taken, h)[Len(taken) + 1] = h
      BY <1>1, <3>1
    <3>3. 1 .. Len(taken) + 1 = (1 .. Len(taken)) \cup {Len(taken) + 1}
      BY <1>1
    <3>4. Taken' = {Append(taken, h)[i] : i \in 1 .. Len(taken) + 1}
      BY <3>1, <3>2 DEF Taken
    <3>5. Taken' = Taken \cup {h}
      BY <3>2, <3>3, <3>4 DEF Taken
    <3> QED
      BY <3>5 DEF h
  <2>3. UNCHANGED <<msg, unsent, refused>> /\ Held' = Held
    BY <1>6 DEF Popped, InHand
  <2> QED
    BY <2>1, <2>2, <2>3 DEF CoverInv
<1>7. CASE Disposed
  <2>1. Queued' = {}
    BY <1>7 DEF Disposed, Queued
  <2>2. Taken' = Taken \cup Queued
    <3>1. /\ taken' = taken \o Contents
          /\ Len(taken \o Contents) = Len(taken) + count
          /\ \A i \in 1 .. Len(taken) : (taken \o Contents)[i] = taken[i]
          /\ \A i \in 1 .. count : (taken \o Contents)[Len(taken) + i] = Contents[i]
      BY <1>1, <1>7, ConcatProperties DEF Disposed
    <3>2. Taken' = {(taken \o Contents)[i] : i \in 1 .. Len(taken) + count}
      BY <3>1 DEF Taken
    <3>3. Len(taken) \in Nat
      BY <1>1
    <3>4. ASSUME NEW x
          PROVE  x \in Taken' <=> x \in Taken \cup Queued
      <4>1. ASSUME x \in Taken'
            PROVE  x \in Taken \cup Queued
        <5>1. PICK i \in 1 .. Len(taken) + count : x = (taken \o Contents)[i]
          BY <3>2, <4>1
        <5>2. CASE i <= Len(taken)
          BY <3>1, <3>3, <5>1, <5>2 DEF Taken
        <5>3. CASE i > Len(taken)
          <6>1. i - Len(taken) \in 1 .. count /\ Len(taken) + (i - Len(taken)) = i
            BY <1>1, <3>3, <5>3
          <6>2. x = Contents[i - Len(taken)]
            BY <3>1, <5>1, <6>1
          <6> QED
            BY <6>1, <6>2 DEF Queued
        <5> QED
          BY <3>3, <5>2, <5>3
      <4>2. ASSUME x \in Taken
            PROVE  x \in Taken'
        <5>1. PICK i \in 1 .. Len(taken) : x = taken[i]
          BY <4>2 DEF Taken
        <5>2. i \in 1 .. Len(taken) + count
          BY <1>1, <3>3
        <5> QED
          BY <3>1, <3>2, <5>1, <5>2
      <4>3. ASSUME x \in Queued
            PROVE  x \in Taken'
        <5>1. PICK i \in 1 .. count : x = Contents[i]
          BY <4>3 DEF Queued
        <5>2. Len(taken) + i \in 1 .. Len(taken) + count
          BY <1>1, <3>3
        <5> QED
          BY <3>1, <3>2, <5>1, <5>2
      <4> QED
        BY <4>1, <4>2, <4>3
    <3> QED
      BY <3>4
  <2>3. UNCHANGED <<msg, unsent, refused>> /\ Held' = Held
    BY <1>7 DEF Disposed, InHand
  <2> QED
    BY <2>1, <2>2, <2>3 DEF CoverInv
<1>8. CASE Unmoved
  BY <1>8 DEF Unmoved, CoverInv, InHand, Queued, Taken
<1> QED
  BY <1>2, <1>4, <1>5, <1>6, <1>7, <1>8, MoveCases

\* What one place gains, another loses.
LEMMA CountStep ==
    ASSUME IInv, IInv', HandInv, CountInv, [Next]_vars
    PROVE  CountInv'
<1>1. /\ Contents \in Seq(Messages) /\ Len(Contents) = count /\ count \in Nat
      /\ taken \in Seq(Messages) /\ Len(taken) \in Nat
      /\ msg \in [Producers -> Messages \cup {Empty}]
      /\ unsent \subseteq Messages /\ refused \subseteq Messages
  BY ContentsSeq DEF IInv, TypeOK, BoxType, HistoryType, LocalsType
<1>2. /\ IsFiniteSet(unsent) /\ IsFiniteSet(refused) /\ IsFiniteSet(InHand)
  <2>1. InHand \in SUBSET Producers
    BY DEF InHand
  <2> QED
    BY <1>1, <2>1, FS_Subset, FiniteAssumption
<1>3. /\ Cardinality(unsent) \in Nat /\ Cardinality(refused) \in Nat
      /\ Cardinality(InHand) \in Nat
  BY <1>2, FS_CardinalityType
<1>4. ASSUME NEW p \in Producers, NEW m \in Messages, Given(p, m)
      PROVE  CountInv'
  <2>1. p \notin InHand /\ InHand' = InHand \cup {p}
    BY <1>1, <1>4, MailboxAssumption DEF Given, InHand, HandInv
  <2>2. Cardinality(InHand') = Cardinality(InHand) + 1
    BY <1>2, <2>1, FS_AddElement
  <2>3. Cardinality(unsent') = Cardinality(unsent) - 1
    BY <1>2, <1>4, FS_RemoveElement DEF Given
  <2>4. UNCHANGED <<refused, count, taken>>
    BY <1>4 DEF Given
  <2> QED
    BY <1>1, <1>3, <2>2, <2>3, <2>4 DEF CountInv
<1>5. ASSUME NEW p \in Producers, Released(p)
      PROVE  Cardinality(InHand') = Cardinality(InHand) - 1
  <2>1. p \in InHand /\ InHand' = InHand \ {p}
    BY <1>1, <1>5 DEF Released, InHand, HandInv
  <2> QED
    BY <1>2, <2>1, FS_RemoveElement
<1>6. ASSUME NEW p \in Producers, Returned(p)
      PROVE  CountInv'
  <2>1. msg[p] \notin refused
    BY DEF HandInv
  <2>2. Cardinality(refused') = Cardinality(refused) + 1
    BY <1>2, <1>6, <2>1, FS_AddElement DEF Returned
  <2>3. UNCHANGED <<unsent, count, taken>> /\ Released(p)
    BY <1>6 DEF Returned, Released
  <2> QED
    BY <1>1, <1>3, <1>5, <2>2, <2>3 DEF CountInv
<1>7. ASSUME NEW p \in Producers, Stored(p)
      PROVE  CountInv'
  <2>1. UNCHANGED <<unsent, refused, taken>> /\ count' = count + 1 /\ Released(p)
    BY <1>7 DEF Stored, Released
  <2> QED
    BY <1>1, <1>3, <1>5, <2>1 DEF CountInv
<1>8. CASE Popped
  <2>1. UNCHANGED <<unsent, refused>> /\ InHand' = InHand /\ count' = count - 1
    BY <1>8 DEF Popped, InHand
  <2>2. Len(taken') = Len(taken) + 1
    BY <1>1, <1>8 DEF Popped
  <2> QED
    BY <1>1, <1>3, <2>1, <2>2 DEF CountInv
<1>9. CASE Disposed
  <2>1. UNCHANGED <<unsent, refused>> /\ InHand' = InHand /\ count' = 0
    BY <1>9 DEF Disposed, InHand
  <2>2. Len(taken') = Len(taken) + count
    BY <1>1, <1>9, ConcatProperties DEF Disposed
  <2> QED
    BY <1>1, <1>3, <2>1, <2>2 DEF CountInv
<1>10. CASE Unmoved
  BY <1>10 DEF Unmoved, CountInv, InHand
<1> QED
  BY <1>4, <1>6, <1>7, <1>8, <1>9, <1>10, MoveCases

\* A new mailbox has all messages still to be sent.
LEMMA InitPlaces == Init => PlaceInv
<1> SUFFICES ASSUME Init PROVE PlaceInv
  OBVIOUS
<1>1. HandInv
  BY MailboxAssumption DEF Init, HandInv
<1>2. InHand = {}
  BY DEF Init, InHand
<1>3. CoverInv
  BY <1>2 DEF Init, CoverInv, Queued, Taken
<1>4. CountInv
  <2>1. Cardinality({}) = 0 /\ Cardinality(Messages) \in Nat
    BY FS_EmptySet, FS_CardinalityType, FiniteAssumption
  <2> QED
    BY <1>2, <2>1 DEF Init, CountInv
<1> QED
  BY <1>1, <1>3, <1>4 DEF PlaceInv

\* Every message is in exactly one place at all times, through any number of
\* concurrent growths, refusals, closings, pops and the disposal at the end: no
\* payload is lost in mailbox.c, and none is owned twice.
THEOREM MessagesAreConserved == Spec => []Conserved
<1>1. IInv /\ PlaceInv /\ IInv' /\ [Next]_vars => PlaceInv'
  BY HandStep, CoverStep, CountStep DEF PlaceInv
<1>2. ASSUME IInv, PlaceInv
      PROVE  Conserved
  <2>1. /\ Contents \in Seq(Messages) /\ Len(Contents) = count /\ count \in Nat
        /\ \A i \in 1 .. count : Contents[i] \in Messages
    BY <1>2, ContentsSeq DEF IInv, TypeOK, BoxType
  <2>2. {i \in 1 .. count : Contents[i] \in Messages} = 1 .. count
    BY <2>1
  <2>3. Cardinality(1 .. count) = count
    BY <2>1, FS_Interval
  <2> QED
    BY <1>2, <2>2, <2>3 DEF Conserved, PlaceInv, CoverInv, CountInv, InHand, Queued,
       Taken
<1>3. IInv /\ PlaceInv => Conserved
  BY <1>2
<1> QED
  BY Inductive, InitPlaces, <1>1, <1>3, PTL DEF Spec

=============================================================================
