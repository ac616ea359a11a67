----------------------------- MODULE RpcProofs -----------------------------
(***************************************************************************)
(* What TLC checks of Rpc on small instances, proved for any number of     *)
(* services, requests and session numbers: however calls, handlers, timers *)
(* and stops interleave, a request is answered at most once, an answer     *)
(* resumes the coroutine that asked for it although session numbers are    *)
(* used again, and a caller that waits is owed an answer.                  *)
(***************************************************************************)
EXTENDS Rpc, SequenceTheorems, TLAPS

\* Some service has ended its loop by uv.stop.
Loose == \E s \in Services : returned[s]

\* The coroutine that made call r waits for it, unless its VM is closed.
IsAwaited(r) ==
    LET s  == sent[r].from
        co == suspended[s][sent[r].session] IN
    \/ Loose
    \/ phase[s] = "gone"
    \/ co # None /\ awaits[co] = r

\* What the phase of s says of its tables.
PhaseOK(s) ==
    /\ accepts[s] => \/ phase[s] \in {"starting", "running"}
                     \/ phase[s] = "stopping" /\ returned[s]
    /\ phase[s] \in {"none", "starting", "gone"} => answering[s] = {}
    /\ running_thread[s] # None =>
          \/ phase[s] \in {"running", "stopping"}
          \/ phase[s] = "notifying" /\ unnotified[s] = {} /\ returned[s]
    /\ phase[s] \in {"notifying", "gone"} => inbox[s] = <<>>
    /\ unnotified[s] # {} => phase[s] = "notifying"
    /\ unnotified[s] \subseteq answering[s]

\* A message in the mailbox of s.  A request is not handled yet and not
\* answered; an answer belongs to a call that s made and still waits for.
MessageOK(s, m) ==
    /\ m.id <= Len(sent)
    /\ m.session = sent[m.id].session
    /\ IF m.type = "request"
       THEN /\ sent[m.id].to = s /\ sent[m.id].from = m.from
            /\ answers[m.id] = 0
            /\ m.id \notin answering[s] /\ awaits[m.id] = None
       ELSE /\ sent[m.id].from = s /\ sent[m.id].to = m.from
            /\ answers[m.id] # 0
            /\ m.session > 0
    /\ m.session > 0 => IsAwaited(m.id)

\* A coroutine of s whose entries are not cleared.
AnsweringOK(s, r) ==
    /\ r <= Len(sent)
    /\ sent[r].to = s
    /\ \/ answers[r] = 0
       \/ answers[r] = 1 /\ phase[s] = "notifying" /\ r \notin unnotified[s]
    /\ answers[r] = 0 /\ sent[r].session > 0 => IsAwaited(r)

\* Coroutines that run or sleep wait for no answer.
RunnableOK(s) ==
    /\ running_thread[s] # None =>
          /\ running_thread[s] \in answering[s] \ asleep[s]
          /\ awaits[running_thread[s]] = None
    /\ asleep[s] \subseteq answering[s]
    /\ \A co \in asleep[s] : awaits[co] = None

\* The coroutine under session k of s waits for a call made with it.
SuspendedOK(s, k) ==
    suspended[s][k] # None =>
        /\ suspended[s][k] \in answering[s]
        /\ awaits[suspended[s][k]] \in 1 .. Len(sent)
        /\ sent[awaits[suspended[s][k]]].from = s
        /\ sent[awaits[suspended[s][k]]].session = k

\* A request that has been sent; one that has not.
SentOK(r) ==
    /\ answers[r] <= 1 \/ returned[sent[r].to]
    /\ r <= Len(sent) => (sent[r].session > 0 => sent[r].from \in Services)
    /\ r > Len(sent)  => answers[r] = 0 /\ awaits[r] = None

PhaseInv     == \A s \in Services : PhaseOK(s)
MessageInv   == \A s \in Services : \A i \in 1 .. Len(inbox[s]) :
                    MessageOK(s, inbox[s][i])
OrderInv     == \A s \in Services : \A i, j \in 1 .. Len(inbox[s]) :
                    inbox[s][i].id = inbox[s][j].id =>
                       i = j \/ (Loose /\ inbox[s][i].type # "request")
AnsweringInv == \A s \in Services : \A r \in answering[s] : AnsweringOK(s, r)
RunnableInv  == \A s \in Services : RunnableOK(s)
SuspendedInv == \A s \in Services : \A k \in Sessions : SuspendedOK(s, k)
SentInv      == \A r \in Requests : SentOK(r)

\* Every request is in one place: not sent, queued once, being answered, or
\* answered; and every session number in use belongs to one call.  When a loop
\* has ended by uv.stop, answers may be there twice and find nobody, or somebody
\* else.
IInv ==
    /\ TypeOK /\ PhaseInv /\ MessageInv /\ OrderInv /\ AnsweringInv
    /\ RunnableInv /\ SuspendedInv /\ SentInv /\ CallsOwed

-----------------------------------------------------------------------------
(* Queues, sessions and answers *)

\* nil is no request and no session.
LEMMA NoneApart == None \notin Requests /\ \A k \in Nat : k # None
BY RpcAssumption DEF Requests

\* A message put at the end leaves the others where they are.
LEMMA QueueAppend ==
    ASSUME NEW S, NEW q \in Seq(S), NEW m \in S
    PROVE  /\ Append(q, m) \in Seq(S)
           /\ Len(Append(q, m)) = Len(q) + 1
           /\ \A i \in 1 .. Len(q) : Append(q, m)[i] = q[i]
           /\ Append(q, m)[Len(q) + 1] = m
OBVIOUS

\* A message taken from the front moves the others up.
LEMMA QueueTail ==
    ASSUME NEW S, NEW q \in Seq(S), q # <<>>
    PROVE  /\ Head(q) = q[1] /\ Head(q) \in S
           /\ Tail(q) \in Seq(S)
           /\ Len(q) \in Nat \ {0}
           /\ Len(Tail(q)) = Len(q) - 1
           /\ \A i \in 1 .. Len(q) - 1 : Tail(q)[i] = q[i + 1]
BY HeadTailProperties, EmptySeq

\* A request that has been sent has a record.
LEMMA SentType ==
    ASSUME TypeOK, NEW r \in Requests, r <= Len(sent)
    PROVE  /\ r \in 1 .. Len(sent)
           /\ sent[r] \in [from : Services \cup {Host}, to : Services,
                           session : 0 .. MaxSession]
<1>1. r \in 1 .. Len(sent)
  BY DEF TypeOK, Requests
<1> QED
  BY <1>1, ElementOfSeq DEF TypeOK

\* Sessions wrap to 1.
LEMMA SessionRange ==
    ASSUME TypeOK, NEW s \in Services, NEW n \in 0 .. MaxSession
    PROVE  NthSession(s, n) \in Sessions
<1>1. next_session_id[s] \in Sessions
  BY DEF TypeOK
<1> QED
  BY <1>1, RpcAssumption DEF NthSession, Sessions

\* The call that the coroutine under session k of s waits for.
AwaitedCall(s, k, q) ==
    /\ q = awaits[suspended[s][k]]
    /\ q <= Len(sent)
    /\ sent[q].from = s /\ sent[q].session = k /\ sent[q].to \in Services

\* A suspended coroutine waits for a call its service made.
LEMMA SuspendedCall ==
    ASSUME IInv, NEW s \in Services, NEW k \in Sessions, suspended[s][k] # None
    PROVE  \E q \in Requests : AwaitedCall(s, k, q)
<1>1. SuspendedOK(s, k) /\ TypeOK /\ suspended[s][k] \in Requests
  BY DEF IInv, SuspendedInv, TypeOK
<1>2. awaits[suspended[s][k]] \in Requests
  BY <1>1, NoneApart DEF SuspendedOK, TypeOK, Requests
<1> QED
  BY <1>1, <1>2, SentType DEF SuspendedOK, AwaitedCall

\* No two messages, in whatever mailboxes, have the same id.
LEMMA OneMessage ==
    ASSUME IInv, NEW s \in Services, NEW t \in Services,
           NEW i \in 1 .. Len(inbox[s]), NEW j \in 1 .. Len(inbox[t]),
           inbox[s][i].id = inbox[t][j].id
    PROVE  s = t /\ (i = j \/ (Loose /\ inbox[s][i].type # "request"))
<1>1. MessageOK(s, inbox[s][i]) /\ MessageOK(t, inbox[t][j])
  BY DEF IInv, MessageInv
<1>2. s = t
  BY <1>1 DEF MessageOK
<1> QED
  BY <1>2 DEF IInv, OrderInv

\* Once the answer to r is on its way or lost, starting from the given
\* mailboxes: it is the last message of its caller, which accepts it.
AnswerEffect(boxes, r) ==
    /\ inbox' \in [Services -> Seq(Messages)]
    /\ answers' \in [Requests -> Nat]
    /\ answers'[r] \in {answers[r], answers[r] + 1}
    /\ lost' \subseteq Requests /\ lost \subseteq lost'
    /\ \A q \in Requests \ {r} : answers'[q] = answers[q]
    /\ \A t \in Services : accepts[t] \/ inbox'[t] = boxes[t]
    /\ \A t \in Services : \A i \in 1 .. Len(boxes[t]) :
          i \in 1 .. Len(inbox'[t]) /\ inbox'[t][i] = boxes[t][i]
    /\ \A t \in Services : \A i \in 1 .. Len(inbox'[t]) :
          \/ i \in 1 .. Len(boxes[t])
          \/ /\ i = Len(boxes[t]) + 1
             /\ t = sent[r].from
             /\ inbox'[t][i] = Answer(r)
             /\ answers'[r] # 0
             /\ sent[r].session > 0
             /\ accepts[t]
    /\ WantsAnswer(r) /\ accepts[sent[r].from] =>
          r \in lost' \/
          \E i \in 1 .. Len(inbox'[sent[r].from]) :
             inbox'[sent[r].from][i] = Answer(r)

\* That is what send_response and its likes do.
LEMMA AnswerSent ==
    ASSUME TypeOK, NEW boxes \in [Services -> Seq(Messages)],
           NEW r \in Requests, r <= Len(sent), SentOK(r), SendAnswer(boxes, r)
    PROVE  AnswerEffect(boxes, r)
<1>1. /\ sent[r] \in [from : Services \cup {Host}, to : Services,
                      session : 0 .. MaxSession]
      /\ answers \in [Requests -> Nat] /\ lost \subseteq Requests
  BY SentType DEF TypeOK
<1>2. CASE /\ WantsAnswer(r) /\ accepts[sent[r].from]
           /\ inbox' = [boxes EXCEPT ![sent[r].from] = Append(@, Answer(r))]
           /\ answers' = [answers EXCEPT ![r] = @ + 1]
           /\ lost' = lost
  <2> DEFINE c == sent[r].from
             q == Append(boxes[c], Answer(r))
  <2>1. c \in Services /\ sent[r].session > 0
    BY <1>2 DEF SentOK, WantsAnswer
  <2>2. Answer(r) \in Messages
    BY <1>1 DEF Answer, Messages
  <2>3. /\ inbox' = [boxes EXCEPT ![c] = q]
        /\ answers' = [answers EXCEPT ![r] = answers[r] + 1]
    BY <1>2
  <2>4. \A t \in Services : boxes[t] \in Seq(Messages) /\ Len(boxes[t]) \in Nat
    BY LenProperties
  <2>5. /\ q \in Seq(Messages)
        /\ Len(q) = Len(boxes[c]) + 1
        /\ \A i \in 1 .. Len(boxes[c]) : q[i] = boxes[c][i]
        /\ q[Len(boxes[c]) + 1] = Answer(r)
    BY <2>1, <2>2, <2>4, QueueAppend
  <2> HIDE DEF q
  <2>6. /\ answers' \in [Requests -> Nat] /\ answers'[r] = answers[r] + 1
        /\ answers'[r] # 0
        /\ \A p \in Requests \ {r} : answers'[p] = answers[p]
    BY <1>1, <2>3
  <2>7. inbox'[c] = q /\ \A t \in Services \ {c} : inbox'[t] = boxes[t]
    BY <2>1, <2>3
  <2>8. inbox' \in [Services -> Seq(Messages)]
    BY <2>3, <2>5
  <2>9. \A t \in Services : \A i \in 1 .. Len(boxes[t]) :
          i \in 1 .. Len(inbox'[t]) /\ inbox'[t][i] = boxes[t][i]
    BY <2>1, <2>4, <2>5, <2>7
  <2>10. \A t \in Services : \A i \in 1 .. Len(inbox'[t]) :
           \/ i \in 1 .. Len(boxes[t])
           \/ i = Len(boxes[t]) + 1 /\ t = c /\ inbox'[t][i] = Answer(r)
    BY <2>1, <2>4, <2>5, <2>7
  <2>11. Len(boxes[c]) + 1 \in 1 .. Len(inbox'[c])
    BY <2>1, <2>4, <2>5, <2>7
  <2>12. \A t \in Services : accepts[t] \/ inbox'[t] = boxes[t]
    BY <1>2, <2>7
  <2>13. inbox'[c][Len(boxes[c]) + 1] = Answer(r)
    BY <2>5, <2>7
  <2>14. accepts[c] /\ lost' = lost
    BY <1>2
  <2> QED
    BY <1>1, <2>1, <2>6, <2>8, <2>9, <2>10, <2>11, <2>12, <2>13, <2>14 DEF AnswerEffect
<1>3. CASE /\ inbox' = boxes /\ answers' = answers
           /\ lost' \in {lost, lost \cup {r}}
           /\ WantsAnswer(r) /\ accepts[sent[r].from] => r \in lost'
  BY <1>1, <1>3 DEF AnswerEffect
<1> QED
  BY <1>2, <1>3 DEF SendAnswer, replies

-----------------------------------------------------------------------------
(* Sending an answer: the part that Finish, Drain and ReplyPending share *)

\* Nothing of r is left in the given mailboxes but earlier answers, and they keep
\* all other messages; the tables keep all other requests.
Settles(boxes, r) ==
    /\ \A t \in Services : boxes[t] \in Seq(Messages)
    /\ \A t \in Services : \A i \in 1 .. Len(boxes[t]) :
          /\ boxes[t][i].id = r => Loose /\ boxes[t][i].type # "request"
          /\ MessageOK(t, boxes[t][i])
    /\ \A t \in Services : \A i, j \in 1 .. Len(boxes[t]) :
          boxes[t][i].id = boxes[t][j].id =>
             i = j \/ (Loose /\ boxes[t][i].type # "request")
    /\ \A t \in Services : \A i \in 1 .. Len(inbox[t]) :
          inbox[t][i].id # r =>
             \E j \in 1 .. Len(boxes[t]) : boxes[t][j] = inbox[t][i]
    /\ suspended' = suspended /\ awaits' = awaits
    /\ sent' = sent /\ accepts' = accepts /\ returned' = returned
    /\ \A t \in Services :
          /\ phase'[t] = phase[t] \/ (phase[t] = "stopping" /\ phase'[t] = "draining")
          /\ answering'[t] \ {r} = answering[t] \ {r}
          /\ unnotified'[t] \ {r} = unnotified[t] \ {r}

\* A call that is awaited stays so.
LEMMA StaysAwaited ==
    ASSUME TypeOK, NEW r \in Requests, r <= Len(sent), sent[r].session > 0, SentOK(r),
           sent' = sent, suspended' = suspended, awaits' = awaits,
           \A t \in Services : returned[t] => returned'[t],
           \A t \in Services : phase[t] = "gone" => phase'[t] = "gone",
           IsAwaited(r)
    PROVE  IsAwaited(r)'
BY DEF IsAwaited, SentOK, Loose

\* Messages stay in order.
LEMMA SettledMessages ==
    ASSUME IInv, NEW boxes, NEW r \in Requests,
           Settles(boxes, r), AnswerEffect(boxes, r),
           r <= Len(sent), sent[r].session > 0 => IsAwaited(r),
           \A t \in Services : answering'[t] \subseteq answering[t]
    PROVE  MessageInv' /\ OrderInv'
<1>1. TypeOK /\ (\A q \in Requests : SentOK(q))
  BY DEF IInv, SentInv
<1>2. \A t \in Services : phase[t] = "gone" => phase'[t] = "gone"
  BY DEF Settles
<1>3. ASSUME NEW t \in Services, NEW i \in 1 .. Len(inbox'[t])
      PROVE  IF i \in 1 .. Len(boxes[t])
             THEN /\ inbox'[t][i] = boxes[t][i]
                  /\ boxes[t][i] \in Messages
                  /\ boxes[t][i].id = r => Loose /\ boxes[t][i].type # "request"
                  /\ MessageOK(t, boxes[t][i])
             ELSE /\ i = Len(boxes[t]) + 1
                  /\ inbox'[t][i] = Answer(r)
                  /\ inbox'[t][i].id = r /\ inbox'[t][i].type # "request"
                  /\ t = sent[r].from /\ answers'[r] # 0 /\ sent[r].session > 0
  BY <1>3, ElementOfSeq DEF Settles, AnswerEffect, Answer
<1>4. ASSUME NEW t \in Services, NEW i \in 1 .. Len(inbox'[t])
      PROVE  MessageOK(t, inbox[t][i])'
  <2>1. CASE i \in 1 .. Len(boxes[t])
    <3> DEFINE m == boxes[t][i]
    <3>1. /\ inbox'[t][i] = m /\ m \in Messages /\ MessageOK(t, m)
          /\ m.id = r => m.type # "request"
      BY <1>3, <2>1
    <3> HIDE DEF m
    <3>2. m.id \in Requests /\ answers[m.id] \in Nat
      BY <1>1, <3>1 DEF Messages, TypeOK
    <3>3. PICK q \in Requests : q = m.id
      BY <3>2
    <3>4. m.session > 0 => IsAwaited(q)'
      BY <1>1, <1>2, <3>1, <3>3, StaysAwaited DEF MessageOK, Settles
    <3>5. CASE q = r
      BY <3>1, <3>2, <3>3, <3>4, <3>5 DEF MessageOK, Settles, AnswerEffect
    <3>6. CASE q # r
      <4>1. answers'[m.id] = answers[m.id]
        BY <3>3, <3>6 DEF AnswerEffect
      <4> QED
        BY <3>1, <3>3, <3>4, <4>1 DEF MessageOK, Settles
    <3> QED
      BY <3>5, <3>6
  <2>2. CASE i \notin 1 .. Len(boxes[t])
    <3>1. inbox'[t][i] = Answer(r) /\ t = sent[r].from
          /\ answers'[r] # 0 /\ sent[r].session > 0
      BY <1>3, <2>2
    <3>2. IsAwaited(r)'
      BY <1>1, <1>2, <3>1, StaysAwaited DEF Settles
    <3> QED
      BY <3>1, <3>2 DEF MessageOK, Answer, Settles
  <2> QED
    BY <2>1, <2>2
<1>5. Loose' = Loose
  BY DEF Settles, Loose
<1>6. ASSUME NEW t \in Services, NEW i \in 1 .. Len(inbox'[t]),
             NEW j \in 1 .. Len(inbox'[t]), inbox'[t][i].id = inbox'[t][j].id
      PROVE  i = j \/ (Loose /\ inbox'[t][i].type # "request")
  <2>1. CASE i \in 1 .. Len(boxes[t]) /\ j \in 1 .. Len(boxes[t])
    BY <1>3, <1>6, <2>1 DEF Settles
  <2>2. CASE i \notin 1 .. Len(boxes[t]) \/ j \notin 1 .. Len(boxes[t])
    BY <1>3, <1>6, <2>2
  <2> QED
    BY <2>1, <2>2
<1> QED
  BY <1>4, <1>5, <1>6 DEF MessageInv, OrderInv

\* The caller under session k of s is owed an answer, or has lost it.
Owed(s, k) == IsOwed(s, k) \/ awaits[suspended[s][k]] \in lost

\* A caller is still owed an answer if what it was owed is left alone.
LEMMA StaysOwed ==
    ASSUME IInv, NEW s \in Services, NEW k \in Sessions, NEW q \in Requests,
           AwaitedCall(s, k, q), Owed(s, k), lost \subseteq lost',
           suspended'[s][k] = suspended[s][k], awaits'[suspended[s][k]] = q,
           sent'[q] = sent[q],
           \A u \in Services : \A i \in 1 .. Len(inbox[u]) :
              inbox[u][i].id = q =>
                 \E j \in 1 .. Len(inbox'[u]) : inbox'[u][j] = inbox[u][i],
           LET to == sent[q].to IN
           /\ phase'[to] = "gone" => phase[to] \in {"notifying", "gone"}
           /\ (q \in answering[to] /\ phase[to] \in {"running", "stopping", "draining"})
                 => \/ q \in answering'[to]
                       /\ phase'[to] \in {"running", "stopping", "draining"}
                    \/ q \in unnotified'[to]
           /\ q \in unnotified[to] => q \in unnotified'[to]
    PROVE  Owed(s, k)'
<1>1. /\ q = awaits[suspended[s][k]] /\ q <= Len(sent)
      /\ sent[q].from = s /\ sent[q].session = k /\ sent[q].to \in Services
  BY DEF AwaitedCall
<1>2. PICK to \in Services : to = sent[q].to
  BY <1>1
<1>3. awaits'[suspended'[s][k]] = q /\ sent'[q].to = to
  BY <1>1, <1>2
<1>4. CASE InInbox(to, Request(q, s, k)) /\ phase[to] # "gone"
  <2>1. PICK i \in 1 .. Len(inbox[to]) : inbox[to][i] = Request(q, s, k)
    BY <1>4 DEF InInbox
  <2>2. inbox[to][i].id = q
    BY <2>1 DEF Request
  <2>3. InInbox(to, Request(q, s, k))'
    BY <2>1, <2>2 DEF InInbox, Request
  <2>4. inbox[to] # <<>>
    BY <2>1
  <2>5. phase'[to] # "gone"
    BY <1>2, <1>4, <2>4 DEF IInv, PhaseInv, PhaseOK
  <2> QED
    BY <1>3, <2>3, <2>5 DEF Owed, IsOwed
<1>5. CASE q \in answering[to] /\ phase[to] \in {"running", "stopping", "draining"}
  BY <1>2, <1>3, <1>5 DEF Owed, IsOwed
<1>6. CASE q \in unnotified[to]
  BY <1>2, <1>3, <1>6 DEF Owed, IsOwed
<1>7. CASE InInbox(s, Answer(q))
  <2>1. PICK i \in 1 .. Len(inbox[s]) : inbox[s][i] = Answer(q)
    BY <1>7 DEF InInbox
  <2>2. inbox[s][i].id = q
    BY <2>1 DEF Answer
  <2>3. InInbox(s, Answer(q))'
    BY <2>1, <2>2 DEF InInbox, Answer
  <2> QED
    BY <1>3, <2>3 DEF Owed, IsOwed, Answer
<1>8. CASE q \in lost
  BY <1>3, <1>8 DEF Owed
<1> QED
  BY <1>1, <1>2, <1>4, <1>5, <1>6, <1>7, <1>8 DEF Owed, IsOwed

\* Whoever waits is still owed an answer, the caller of r included.
LEMMA SettledOwed ==
    ASSUME IInv, NEW boxes, NEW r \in Requests,
           Settles(boxes, r), AnswerEffect(boxes, r)
    PROVE  CallsOwed'
<1> SUFFICES ASSUME NEW s \in Services, NEW k \in Sessions,
                    suspended'[s][k] # None, accepts'[s]
             PROVE  Owed(s, k)'
  BY DEF CallsOwed, Owed
<1>1. /\ suspended' = suspended /\ awaits' = awaits
      /\ sent' = sent /\ accepts' = accepts
  BY DEF Settles
<1>2. Owed(s, k) /\ SuspendedOK(s, k) /\ TypeOK
  BY <1>1 DEF IInv, CallsOwed, Owed, SuspendedInv
<1>3. PICK q \in Requests : AwaitedCall(s, k, q)
  BY <1>1, SuspendedCall
<1>4. /\ q = awaits[suspended[s][k]] /\ q <= Len(sent)
      /\ sent[q].from = s /\ sent[q].session = k /\ sent[q].to \in Services
  BY <1>3 DEF AwaitedCall
<1>5. CASE q = r
  <2>1. WantsAnswer(r) /\ accepts[sent[r].from]
    BY <1>1, <1>4, <1>5 DEF WantsAnswer, Sessions
  <2>2. r \in lost' \/ \E i \in 1 .. Len(inbox'[s]) : inbox'[s][i] = Answer(r)
    BY <1>4, <1>5, <2>1 DEF AnswerEffect
  <2> QED
    BY <1>1, <1>4, <1>5, <2>2 DEF Owed, IsOwed, InInbox, Answer
<1>6. CASE q # r
  <2>1. ASSUME NEW u \in Services, NEW i \in 1 .. Len(inbox[u]), inbox[u][i].id = q
        PROVE  \E j \in 1 .. Len(inbox'[u]) : inbox'[u][j] = inbox[u][i]
    <3>1. PICK j \in 1 .. Len(boxes[u]) : boxes[u][j] = inbox[u][i]
      BY <1>6, <2>1 DEF Settles
    <3>2. j \in 1 .. Len(inbox'[u]) /\ inbox'[u][j] = boxes[u][j]
      BY DEF AnswerEffect
    <3> QED
      BY <3>1, <3>2
  <2>2. /\ phase'[sent[q].to] = "gone" => phase[sent[q].to] = "gone"
        /\ q \in answering[sent[q].to] => q \in answering'[sent[q].to]
        /\ q \in unnotified[sent[q].to] => q \in unnotified'[sent[q].to]
        /\ phase[sent[q].to] \in {"running", "stopping", "draining"} =>
              phase'[sent[q].to] \in {"running", "stopping", "draining"}
    <3>1. PICK to \in Services : to = sent[q].to
      BY <1>4
    <3>2. /\ phase'[to] = phase[to] \/ (phase[to] = "stopping" /\ phase'[to] = "draining")
          /\ answering'[to] \ {r} = answering[to] \ {r}
          /\ unnotified'[to] \ {r} = unnotified[to] \ {r}
      BY DEF Settles
    <3> QED
      BY <1>6, <3>1, <3>2
  <2>3. /\ suspended'[s][k] = suspended[s][k] /\ awaits'[suspended[s][k]] = q
        /\ sent'[q] = sent[q] /\ lost \subseteq lost'
    BY <1>1, <1>4 DEF AnswerEffect
  <2> QED
    BY <1>2, <1>3, <2>1, <2>2, <2>3, StaysOwed
<1> QED
  BY <1>5, <1>6

\* The history of r.
LEMMA SettledSent ==
    ASSUME IInv, NEW boxes, NEW r \in Requests,
           Settles(boxes, r), AnswerEffect(boxes, r), r <= Len(sent),
           answers'[r] = answers[r] \/ answers[r] = 0 \/ returned[sent[r].to]
    PROVE  SentInv'
<1> SUFFICES ASSUME NEW q \in Requests PROVE SentOK(q)'
  BY DEF SentInv
<1>1. SentOK(q) /\ Len(sent) \in Nat /\ q \in Nat /\ answers[q] \in Nat
  BY DEF IInv, SentInv, TypeOK, Requests
<1>2. IF q = r THEN \/ answers'[q] = answers[q] \/ answers'[q] \in {0, 1}
                    \/ returned[sent[q].to]
              ELSE answers'[q] = answers[q]
  BY DEF AnswerEffect
<1> QED
  BY <1>1, <1>2 DEF SentOK, Settles

\* Coroutines that are left have not answered, unless they are being notified.
LEMMA SettledAnswering ==
    ASSUME IInv, NEW boxes, NEW r \in Requests,
           Settles(boxes, r), AnswerEffect(boxes, r),
           \A t \in Services :
              r \in answering'[t] =>
                 /\ phase'[t] = "notifying" /\ r \notin unnotified'[t]
                 /\ r \in answering[t]
                 /\ answers'[r] = answers[r] \/ answers[r] = 0,
           sent[r].session > 0 => IsAwaited(r)
    PROVE  AnsweringInv'
<1> SUFFICES ASSUME NEW t \in Services, NEW q \in answering'[t]
             PROVE  AnsweringOK(t, q)'
  BY DEF AnsweringInv
<1>1. q \in answering[t]
  BY DEF Settles
<1>2. AnsweringOK(t, q) /\ TypeOK /\ q \in Requests /\ SentOK(q)
  BY <1>1 DEF IInv, AnsweringInv, TypeOK, SentInv
<1>3. \A u \in Services : phase[u] = "gone" => phase'[u] = "gone"
  BY DEF Settles
<1>4. sent[q].session > 0 /\ IsAwaited(q) => IsAwaited(q)'
  BY <1>2, <1>3, StaysAwaited DEF Settles, AnsweringOK
<1>5. CASE q = r
  <2>1. answers'[q] \in {0, 1}
    BY <1>2, <1>5 DEF AnsweringOK, AnswerEffect
  <2> QED
    BY <1>2, <1>4, <1>5, <2>1 DEF AnsweringOK, Settles
<1>6. CASE q # r
  <2>1. answers'[q] = answers[q]
    BY <1>2, <1>6 DEF AnswerEffect
  <2> QED
    BY <1>2, <1>4, <1>6, <2>1 DEF AnsweringOK, Settles
<1> QED
  BY <1>5, <1>6

-----------------------------------------------------------------------------
(* The steps *)

\* A handler returns: its coroutine goes and its answer is on its way.
LEMMA FinishStep ==
    ASSUME IInv, NEW s \in Services, Finish(s)
    PROVE  IInv'
<1>1. PICK co \in Requests : co = running_thread[s]
  BY DEF Finish, IInv, TypeOK
<1>2. /\ co # None
      /\ answering' = [answering EXCEPT ![s] = answering[s] \ {co}]
      /\ running_thread' = [running_thread EXCEPT ![s] = None]
      /\ phase' = phase /\ accepts' = accepts /\ next_session_id' = next_session_id
      /\ suspended' = suspended /\ awaits' = awaits
      /\ asleep' = asleep /\ unnotified' = unnotified /\ sent' = sent
      /\ returned' = returned
  BY <1>1 DEF Finish, tables, ending
<1>3. SendAnswer(inbox, co)
  BY <1>1 DEF Finish
<1>4. TypeOK
  BY DEF IInv
<1>5. co \in answering[s] \ asleep[s] /\ awaits[co] = None
  BY <1>1, <1>2 DEF IInv, RunnableInv, RunnableOK
<1>6. /\ phase[s] \in {"running", "stopping"} \/ (phase[s] = "notifying" /\ returned[s])
      /\ unnotified[s] = {} /\ AnsweringOK(s, co) /\ SentOK(co)
  BY <1>1, <1>2, <1>5 DEF IInv, PhaseInv, PhaseOK, AnsweringInv, SentInv
<1>7. /\ co <= Len(sent) /\ sent[co].to = s
      /\ answers[co] = 0 \/ returned[s]
      /\ sent[co].session > 0 => IsAwaited(co)
  BY <1>6 DEF AnsweringOK, IsAwaited, Loose
<1>8. AnswerEffect(inbox, co)
  BY <1>3, <1>4, <1>6, <1>7, AnswerSent DEF TypeOK
<1>9. /\ \A t \in Services : answering'[t] \subseteq answering[t]
      /\ \A t \in Services : answering'[t] \ {co} = answering[t] \ {co}
      /\ \A t \in Services : co \notin answering'[t]
  BY <1>2, <1>4, <1>5, <1>7 DEF TypeOK, IInv, AnsweringInv, AnsweringOK
<1>10. Settles(inbox, co)
  <2>1. ASSUME NEW t \in Services, NEW i \in 1 .. Len(inbox[t])
        PROVE  /\ inbox[t][i].id = co => Loose /\ inbox[t][i].type # "request"
               /\ MessageOK(t, inbox[t][i])
    BY <1>5, <1>7 DEF IInv, MessageInv, MessageOK, Loose
  <2> QED
    BY <1>2, <1>4, <1>9, <2>1 DEF Settles, IInv, OrderInv, TypeOK
<1>11. TypeOK'
  BY <1>2, <1>4, <1>8 DEF TypeOK, AnswerEffect
<1>12. PhaseInv'
  <2> SUFFICES ASSUME NEW t \in Services PROVE PhaseOK(t)'
    BY DEF PhaseInv
  <2>1. PhaseOK(t)
    BY DEF IInv, PhaseInv
  <2>2. inbox[t] = inbox'[t] \/ accepts[t]
    BY <1>8 DEF AnswerEffect
  <2>3. /\ answering'[t] \subseteq answering[t]
        /\ t # s => answering'[t] = answering[t]
        /\ running_thread'[t] # None => running_thread[t] # None
    BY <1>2, <1>4 DEF TypeOK
  <2> QED
    BY <1>2, <1>6, <2>1, <2>2, <2>3, NoneApart DEF PhaseOK
<1>13. MessageInv' /\ OrderInv' /\ SentInv' /\ CallsOwed' /\ AnsweringInv'
  BY <1>7, <1>8, <1>9, <1>10, SettledMessages, SettledSent, SettledOwed, SettledAnswering
<1>14. RunnableInv'
  BY <1>1, <1>2, <1>4, <1>5 DEF IInv, RunnableInv, RunnableOK, TypeOK
<1>15. SuspendedInv'
  BY <1>2, <1>4, <1>5, NoneApart DEF IInv, SuspendedInv, SuspendedOK, TypeOK
<1> QED
  BY <1>11, <1>12, <1>13, <1>14, <1>15 DEF IInv

\* reply_pending answers a coroutine that has not; its entries stay.
LEMMA ReplyPendingStep ==
    ASSUME IInv, NEW s \in Services, ReplyPending(s)
    PROVE  IInv'
<1>1. PICK co \in unnotified[s] :
         /\ SendAnswer(inbox, co)
         /\ unnotified' = [unnotified EXCEPT ![s] = unnotified[s] \ {co}]
  BY DEF ReplyPending
<1>2. /\ answering' = answering /\ running_thread' = running_thread
      /\ phase' = phase /\ accepts' = accepts /\ next_session_id' = next_session_id
      /\ suspended' = suspended /\ awaits' = awaits
      /\ asleep' = asleep /\ sent' = sent /\ returned' = returned
  BY DEF ReplyPending, tables, coroutines
<1>3. TypeOK /\ co \in Requests
  BY DEF IInv, TypeOK
<1>4. phase[s] = "notifying" /\ co \in answering[s] /\ running_thread[s] = None
  BY DEF IInv, PhaseInv, PhaseOK
<1>5. AnsweringOK(s, co) /\ SentOK(co)
  BY <1>3, <1>4 DEF IInv, AnsweringInv, SentInv
<1>6. /\ co <= Len(sent) /\ sent[co].to = s /\ answers[co] = 0
      /\ sent[co].session > 0 => IsAwaited(co)
  BY <1>5 DEF AnsweringOK
<1>7. AnswerEffect(inbox, co)
  BY <1>1, <1>3, <1>5, <1>6, AnswerSent DEF TypeOK
<1>8. \A t \in Services :
         /\ unnotified'[t] \ {co} = unnotified[t] \ {co}
         /\ unnotified'[t] \subseteq unnotified[t]
  BY <1>1, <1>3 DEF TypeOK
<1>9. \A t \in Services :
         co \in answering'[t] =>
            /\ phase'[t] = "notifying" /\ co \notin unnotified'[t]
            /\ co \in answering[t]
  BY <1>1, <1>2, <1>3, <1>4, <1>6 DEF TypeOK, IInv, AnsweringInv, AnsweringOK
<1>10. Settles(inbox, co)
  <2>1. ASSUME NEW t \in Services, NEW i \in 1 .. Len(inbox[t])
        PROVE  inbox[t][i].id # co /\ MessageOK(t, inbox[t][i])
    BY <1>4, <1>6 DEF IInv, MessageInv, MessageOK
  <2> QED
    BY <1>2, <1>3, <1>8, <2>1 DEF Settles, IInv, OrderInv, TypeOK
<1>11. TypeOK'
  BY <1>1, <1>2, <1>3, <1>7 DEF TypeOK, AnswerEffect
<1>12. PhaseInv'
  <2> SUFFICES ASSUME NEW t \in Services PROVE PhaseOK(t)'
    BY DEF PhaseInv
  <2>1. PhaseOK(t)
    BY DEF IInv, PhaseInv
  <2>2. inbox[t] = inbox'[t] \/ accepts[t]
    BY <1>7 DEF AnswerEffect
  <2> QED
    BY <1>1, <1>2, <1>4, <1>8, <2>1, <2>2 DEF PhaseOK
<1>13. MessageInv' /\ OrderInv' /\ SentInv' /\ CallsOwed' /\ AnsweringInv'
  BY <1>2, <1>3, <1>6, <1>7, <1>9, <1>10,
     SettledMessages, SettledSent, SettledOwed, SettledAnswering
<1>14. RunnableInv' /\ SuspendedInv'
  BY <1>2 DEF IInv, RunnableInv, RunnableOK, SuspendedInv, SuspendedOK
<1> QED
  BY <1>11, <1>12, <1>13, <1>14 DEF IInv

\* What is left once the first message of s is taken.
HeadTaken(rest, s) ==
    /\ rest \in [Services -> Seq(Messages)]
    /\ \A t \in Services : t # s => rest[t] = inbox[t]
    /\ Head(inbox[s]) \in Messages
    /\ MessageOK(s, Head(inbox[s]))
    /\ \A t \in Services : \A i \in 1 .. Len(rest[t]) :
          /\ MessageOK(t, rest[t][i])
          /\ rest[t][i].id = Head(inbox[s]).id =>
                /\ Loose /\ rest[t][i].type # "request"
                /\ Head(inbox[s]).type # "request"
    /\ \A t \in Services : \A i, j \in 1 .. Len(rest[t]) :
          rest[t][i].id = rest[t][j].id =>
             i = j \/ (Loose /\ rest[t][i].type # "request")
    /\ \A t \in Services : \A i \in 1 .. Len(inbox[t]) :
          inbox[t][i].id # Head(inbox[s]).id =>
             \E j \in 1 .. Len(rest[t]) : rest[t][j] = inbox[t][i]

\* Taking the first message leaves the others in order.
LEMMA TakeHead ==
    ASSUME IInv, NEW s \in Services, inbox[s] # <<>>, NEW rest,
           rest = [inbox EXCEPT ![s] = Tail(inbox[s])]
    PROVE  HeadTaken(rest, s)
<1> DEFINE q == inbox[s]
<1>1. inbox \in [Services -> Seq(Messages)]
  BY DEF IInv, TypeOK
<1>2. /\ Head(q) = q[1] /\ Head(q) \in Messages
      /\ Tail(q) \in Seq(Messages)
      /\ Len(q) \in Nat \ {0}
      /\ Len(Tail(q)) = Len(q) - 1
      /\ \A i \in 1 .. Len(q) - 1 : Tail(q)[i] = q[i + 1]
  BY <1>1, QueueTail
<1>3. rest \in [Services -> Seq(Messages)] /\ rest[s] = Tail(q)
      /\ \A t \in Services : t # s => rest[t] = inbox[t]
  BY <1>1, <1>2
<1>4. ASSUME NEW i \in 1 .. Len(rest[s])
      PROVE  i + 1 \in 1 .. Len(q) /\ rest[s][i] = q[i + 1] /\ i + 1 # 1
  BY <1>2, <1>3
<1>5. 1 \in 1 .. Len(q) /\ MessageOK(s, Head(q))
  BY <1>2 DEF IInv, MessageInv
<1>6. ASSUME NEW t \in Services, NEW i \in 1 .. Len(rest[t])
      PROVE  /\ MessageOK(t, rest[t][i])
             /\ rest[t][i].id = Head(q).id =>
                   Loose /\ rest[t][i].type # "request" /\ Head(q).type # "request"
  <2>1. CASE t = s
    <3>1. /\ MessageOK(t, q[i + 1])
          /\ q[i + 1].id = q[1].id =>
                Loose /\ q[i + 1].type # "request" /\ q[1].type # "request"
      BY <1>4, <1>5, <2>1 DEF IInv, MessageInv, OrderInv
    <3> QED
      BY <1>2, <1>4, <2>1, <3>1
  <2>2. CASE t # s
    <3>1. i \in 1 .. Len(inbox[t]) /\ rest[t][i] = inbox[t][i]
      BY <1>3, <2>2
    <3>2. inbox[t][i].id # q[1].id
      BY <1>5, <2>2, <3>1, OneMessage
    <3> QED
      BY <1>2, <3>1, <3>2 DEF IInv, MessageInv
  <2> QED
    BY <2>1, <2>2
<1>7. ASSUME NEW t \in Services, NEW i \in 1 .. Len(rest[t]), NEW j \in 1 .. Len(rest[t]),
             rest[t][i].id = rest[t][j].id
      PROVE  i = j \/ (Loose /\ rest[t][i].type # "request")
  <2>1. CASE t = s
    <3>1. i + 1 = j + 1 \/ (Loose /\ rest[t][i].type # "request")
      BY <1>4, <1>7, <2>1 DEF IInv, OrderInv
    <3> QED
      BY <1>2, <1>3, <2>1, <3>1
  <2>2. CASE t # s
    BY <1>3, <1>7, <2>2 DEF IInv, OrderInv
  <2> QED
    BY <2>1, <2>2
<1>8. ASSUME NEW t \in Services, NEW i \in 1 .. Len(inbox[t]), inbox[t][i].id # Head(q).id
      PROVE  \E j \in 1 .. Len(rest[t]) : rest[t][j] = inbox[t][i]
  <2>1. CASE t = s
    <3>1. i # 1 /\ i - 1 \in 1 .. Len(q) - 1
      BY <1>2, <1>8, <2>1
    <3>2. Tail(q)[i - 1] = q[i]
      BY <1>2, <3>1
    <3> QED
      BY <1>2, <1>3, <2>1, <3>1, <3>2
  <2>2. CASE t # s
    BY <1>3, <2>2
  <2> QED
    BY <2>1, <2>2
<1> QED
  BY <1>2, <1>3, <1>5, <1>6, <1>7, <1>8 DEF HeadTaken

\* The drain answers a request, and drops an answer that came too late.
LEMMA DrainStep ==
    ASSUME IInv, NEW s \in Services, Drain(s)
    PROVE  IInv'
<1> DEFINE m == Head(inbox[s])
           rest == [inbox EXCEPT ![s] = Tail(inbox[s])]
<1>1. /\ phase[s] \in {"stopping", "draining"} /\ ~accepts[s]
      /\ running_thread[s] = None
      /\ inbox[s] # <<>>
      /\ phase' = [phase EXCEPT ![s] = "draining"]
      /\ accepts' = accepts /\ next_session_id' = next_session_id
      /\ suspended' = suspended /\ awaits' = awaits
      /\ answering' = answering /\ running_thread' = running_thread
      /\ asleep' = asleep /\ unnotified' = unnotified /\ sent' = sent
      /\ returned' = returned
  BY DEF Drain, tables, coroutines, ending
<1>2. IF m.type = "request" THEN SendAnswer(rest, m.id)
                            ELSE inbox' = rest /\ answers' = answers /\ lost' = lost
  BY DEF Drain, replies
<1>3. TypeOK
  BY DEF IInv
<1>4. HeadTaken(rest, s)
  BY <1>1, TakeHead
<1> HIDE DEF rest
<1>5. PICK r \in Requests : r = m.id
  BY <1>4 DEF HeadTaken, Messages
<1>6. MessageOK(s, m) /\ SentOK(r) /\ rest \in [Services -> Seq(Messages)]
  BY <1>4 DEF HeadTaken, IInv, SentInv
<1>7. /\ r <= Len(sent) /\ m.session = sent[r].session
      /\ sent[r].session > 0 => IsAwaited(r)
  BY <1>5, <1>6 DEF MessageOK
<1>8. ~accepts[s]
  BY <1>1
<1>9. AnswerEffect(rest, r)
  <2>1. CASE m.type = "request"
    <3>1. answers[r] = 0 /\ SendAnswer(rest, r)
      BY <1>2, <1>5, <1>6, <2>1 DEF MessageOK
    <3> QED
      BY <1>3, <1>6, <1>7, <3>1, AnswerSent
  <2>2. CASE m.type # "request"
    <3>1. sent[r].from = s
      BY <1>5, <1>6, <2>2 DEF MessageOK
    <3>2. inbox' = rest /\ answers' = answers /\ lost' = lost
      BY <1>2, <2>2
    <3> QED
      BY <1>3, <1>6, <1>8, <3>1, <3>2 DEF AnswerEffect, TypeOK
  <2> QED
    BY <2>1, <2>2
<1>10. \A t \in Services : phase'[t] = IF t = s THEN "draining" ELSE phase[t]
  BY <1>1, <1>3 DEF TypeOK
<1>11. Settles(rest, r)
  BY <1>1, <1>4, <1>5, <1>10 DEF Settles, HeadTaken
<1>12. ASSUME NEW t \in Services, r \in answering'[t]
       PROVE  /\ phase'[t] = "notifying" /\ r \notin unnotified'[t]
              /\ r \in answering[t] /\ answers'[r] = answers[r]
  <2>1. AnsweringOK(t, r)
    BY <1>1, <1>12 DEF IInv, AnsweringInv
  <2>2. m.type # "request"
    BY <1>1, <1>5, <1>6, <1>12, <2>1 DEF MessageOK, AnsweringOK
  <2>3. answers[r] # 0 /\ answers'[r] = answers[r]
    BY <1>2, <1>5, <1>6, <2>2 DEF MessageOK
  <2> QED
    BY <1>1, <1>10, <1>12, <2>1, <2>3 DEF AnsweringOK
<1>13. TypeOK'
  BY <1>1, <1>3, <1>9 DEF TypeOK, AnswerEffect
<1>14. PhaseInv'
  <2> SUFFICES ASSUME NEW t \in Services PROVE PhaseOK(t)'
    BY DEF PhaseInv
  <2>1. PhaseOK(t)
    BY DEF IInv, PhaseInv
  <2>2. inbox[t] = inbox'[t] \/ accepts[t] \/ t = s
    BY <1>4, <1>9 DEF AnswerEffect, HeadTaken
  <2> QED
    BY <1>1, <1>8, <1>10, <2>1, <2>2 DEF PhaseOK
<1>15. answers'[r] = answers[r] \/ answers[r] = 0
  BY <1>2, <1>5, <1>6 DEF MessageOK
<1>16. MessageInv' /\ OrderInv' /\ SentInv' /\ CallsOwed' /\ AnsweringInv'
  BY <1>1, <1>7, <1>9, <1>11, <1>12, <1>15,
     SettledMessages, SettledSent, SettledOwed, SettledAnswering
<1>17. RunnableInv' /\ SuspendedInv'
  BY <1>1 DEF IInv, RunnableInv, RunnableOK, SuspendedInv, SuspendedOK
<1> QED
  BY <1>13, <1>14, <1>16, <1>17 DEF IInv

\* The dispatcher takes a request: its coroutine runs.
LEMMA HandleRequestStep ==
    ASSUME IInv, NEW s \in Services, HandleRequest(s)
    PROVE  IInv'
<1>1. /\ phase[s] = "running" /\ running_thread[s] = None /\ inbox[s] # <<>>
      /\ Head(inbox[s]).type = "request"
      /\ inbox' = [inbox EXCEPT ![s] = Tail(inbox[s])]
  BY DEF HandleRequest, Receive
<1>2. /\ phase' = phase /\ accepts' = accepts /\ next_session_id' = next_session_id
      /\ suspended' = suspended /\ awaits' = awaits /\ answers' = answers
      /\ asleep' = asleep /\ unnotified' = unnotified /\ sent' = sent
      /\ returned' = returned /\ lost' = lost
  BY DEF HandleRequest, tables, ending, replies
<1>3. TypeOK
  BY DEF IInv
<1>4. HeadTaken(inbox', s)
  BY <1>1, TakeHead
<1>5. PICK r \in Requests : r = Head(inbox[s]).id
  BY <1>4 DEF HeadTaken, Messages
<1>6. /\ r <= Len(sent) /\ sent[r].to = s /\ answers[r] = 0
      /\ r \notin answering[s] /\ awaits[r] = None
      /\ sent[r].session > 0 => IsAwaited(r)
  BY <1>1, <1>4, <1>5 DEF HeadTaken, MessageOK
<1>7. /\ running_thread' = [running_thread EXCEPT ![s] = r]
      /\ answering' = [answering EXCEPT ![s] = answering[s] \cup {r}]
  BY <1>5 DEF HandleRequest
<1>8. \A t \in Services :
         /\ answering'[t] = IF t = s THEN answering[t] \cup {r} ELSE answering[t]
         /\ running_thread'[t] = IF t = s THEN r ELSE running_thread[t]
  BY <1>3, <1>7 DEF TypeOK
<1>9. TypeOK'
  BY <1>2, <1>3, <1>4, <1>7 DEF TypeOK, HeadTaken
<1>10. PhaseInv'
  <2> SUFFICES ASSUME NEW t \in Services PROVE PhaseOK(t)'
    BY DEF PhaseInv
  <2>1. PhaseOK(t) /\ (t # s => inbox'[t] = inbox[t])
    BY <1>4 DEF IInv, PhaseInv, HeadTaken
  <2> QED
    BY <1>1, <1>2, <1>8, <2>1 DEF PhaseOK
<1>11. MessageInv' /\ OrderInv'
  <2>1. ASSUME NEW t \in Services, NEW i \in 1 .. Len(inbox'[t])
        PROVE  MessageOK(t, inbox[t][i])'
    <3>1. PICK m \in Messages : m = inbox'[t][i]
      BY <1>4, ElementOfSeq DEF HeadTaken
    <3>2. MessageOK(t, m) /\ m.id # r
      BY <1>1, <1>4, <1>5, <3>1 DEF HeadTaken
    <3>3. MessageOK(t, m)'
      BY <1>2, <1>8, <3>2 DEF MessageOK, IsAwaited, Loose
    <3> QED
      BY <3>1, <3>3 DEF MessageOK
  <2> QED
    BY <1>2, <1>4, <2>1 DEF MessageInv, OrderInv, HeadTaken, Loose
<1>12. AnsweringInv'
  <2> SUFFICES ASSUME NEW t \in Services, NEW q \in answering'[t]
               PROVE  AnsweringOK(t, q)'
    BY DEF AnsweringInv
  <2>1. CASE q \in answering[t]
    BY <1>2, <2>1 DEF IInv, AnsweringInv, AnsweringOK, IsAwaited, Loose
  <2>2. CASE q \notin answering[t]
    <3>1. q = r /\ t = s
      <4>1. CASE t = s
        BY <1>8, <2>2, <4>1
      <4>2. CASE t # s
        BY <1>8, <2>2, <4>2
      <4> QED
        BY <4>1, <4>2
    <3> QED
      BY <1>2, <1>6, <3>1 DEF AnsweringOK, IsAwaited, Loose
  <2> QED
    BY <2>1, <2>2
<1>13. RunnableInv'
  <2> SUFFICES ASSUME NEW t \in Services PROVE RunnableOK(t)'
    BY DEF RunnableInv
  <2>1. RunnableOK(t)
    BY DEF IInv, RunnableInv
  <2> QED
    BY <1>2, <1>6, <1>8, <2>1 DEF RunnableOK
<1>14. SuspendedInv' /\ SentInv'
  <2>1. ASSUME NEW t \in Services, NEW k \in Sessions
        PROVE  SuspendedOK(t, k)'
    <3>1. SuspendedOK(t, k) /\ answering[t] \subseteq answering'[t]
      BY <1>8 DEF IInv, SuspendedInv
    <3> QED
      BY <1>2, <3>1 DEF SuspendedOK
  <2>2. SentInv'
    BY <1>2 DEF IInv, SentInv, SentOK
  <2> QED
    BY <2>1, <2>2 DEF SuspendedInv
<1>15. CallsOwed'
  <2> SUFFICES ASSUME NEW t \in Services, NEW k \in Sessions,
                      suspended'[t][k] # None, accepts'[t]
               PROVE  Owed(t, k)'
    BY DEF CallsOwed, Owed
  <2>1. PICK q \in Requests : AwaitedCall(t, k, q)
    BY <1>2, SuspendedCall
  <2>2. Owed(t, k) /\ q = awaits[suspended[t][k]] /\ sent[q].to \in Services
    BY <1>2, <2>1 DEF IInv, CallsOwed, Owed, AwaitedCall
  <2>3. CASE q = r
    <3>1. r \in answering'[s] /\ phase'[s] = "running"
      BY <1>1, <1>2, <1>8
    <3> QED
      BY <1>2, <1>6, <2>2, <2>3, <3>1 DEF Owed, IsOwed
  <2>4. CASE q # r
    <3>1. \A u \in Services : \A i \in 1 .. Len(inbox[u]) :
             inbox[u][i].id = q =>
                \E j \in 1 .. Len(inbox'[u]) : inbox'[u][j] = inbox[u][i]
      BY <1>4, <1>5, <2>4 DEF HeadTaken
    <3> QED
      BY <1>2, <1>8, <2>1, <2>2, <3>1, StaysOwed
  <2> QED
    BY <2>3, <2>4
<1> QED
  BY <1>9, <1>10, <1>11, <1>12, <1>13, <1>14, <1>15 DEF IInv

\* The dispatcher takes an answer: the coroutine that made the call runs.
LEMMA HandleAnswerStep ==
    ASSUME IInv, NEW s \in Services, HandleAnswer(s)
    PROVE  IInv'
<1>1. /\ phase[s] = "running" /\ running_thread[s] = None /\ inbox[s] # <<>>
      /\ Head(inbox[s]).type # "request"
      /\ inbox' = [inbox EXCEPT ![s] = Tail(inbox[s])]
  BY DEF HandleAnswer, Receive
<1>2. /\ phase' = phase /\ accepts' = accepts /\ next_session_id' = next_session_id
      /\ answering' = answering /\ answers' = answers
      /\ asleep' = asleep /\ unnotified' = unnotified /\ sent' = sent
      /\ returned' = returned /\ lost' = lost
  BY DEF HandleAnswer, ending, replies
<1>3. TypeOK
  BY DEF IInv
<1>4. HeadTaken(inbox', s)
  BY <1>1, TakeHead
<1>5. PICK r \in Requests : r = Head(inbox[s]).id
  BY <1>4 DEF HeadTaken, Messages
<1>6. PICK k \in 0 .. MaxSession : k = Head(inbox[s]).session
  BY <1>4 DEF HeadTaken, Messages
<1>7. /\ r <= Len(sent) /\ sent[r].from = s /\ sent[r].session = k
      /\ answers[r] # 0 /\ k > 0 /\ IsAwaited(r)
  BY <1>1, <1>4, <1>5, <1>6 DEF HeadTaken, MessageOK
<1>8. k \in Sessions
  BY <1>7, RpcAssumption DEF Sessions
<1>9. PICK co \in Requests \cup {None} :
         /\ co = suspended[s][k]
         /\ Loose \/ (co # None /\ awaits[co] = r)
  BY <1>1, <1>3, <1>7, <1>8 DEF IsAwaited, TypeOK
<1>10. /\ running_thread' = [running_thread EXCEPT ![s] = co]
       /\ suspended' = [suspended EXCEPT ![s][k] = None]
       /\ awaits' = IF co = None THEN awaits ELSE [awaits EXCEPT ![co] = None]
  BY <1>6, <1>9 DEF HandleAnswer
<1>11. /\ co # None => /\ co \in answering[s] /\ awaits[co] \in 1 .. Len(sent)
                       /\ sent[awaits[co]].from = s /\ sent[awaits[co]].session = k
       /\ \A t \in Services : \A j \in Sessions :
             suspended'[t][j] = IF t = s /\ j = k THEN None ELSE suspended[t][j]
       /\ \A c \in Requests : awaits'[c] = IF c = co THEN None ELSE awaits[c]
       /\ \A t \in Services :
             running_thread'[t] = IF t = s THEN co ELSE running_thread[t]
       /\ r # None
  BY <1>3, <1>8, <1>9, <1>10, NoneApart DEF TypeOK, IInv, SuspendedInv, SuspendedOK
<1>12. TypeOK'
  BY <1>2, <1>3, <1>4, <1>8, <1>10 DEF TypeOK, HeadTaken
<1>13. PhaseInv'
  <2> SUFFICES ASSUME NEW t \in Services PROVE PhaseOK(t)'
    BY DEF PhaseInv
  <2>1. PhaseOK(t) /\ (t # s => inbox'[t] = inbox[t])
    BY <1>4 DEF IInv, PhaseInv, HeadTaken
  <2> QED
    BY <1>1, <1>2, <1>11, <2>1 DEF PhaseOK
<1>14. ASSUME NEW q \in Requests, q # r \/ Loose, q <= Len(sent), sent[q].session > 0,
              IsAwaited(q)
       PROVE  IsAwaited(q)'
  <2>1. PICK t \in Services : t = sent[q].from
    BY <1>14 DEF IInv, SentInv, SentOK
  <2>2. PICK j \in Sessions : j = sent[q].session
    BY <1>3, <1>14, SentType, RpcAssumption DEF Sessions
  <2>3. CASE Loose \/ phase[t] = "gone"
    BY <1>2, <2>1, <2>3 DEF IsAwaited, Loose
  <2>4. CASE ~Loose /\ phase[t] # "gone"
    <3>1. PICK c \in Requests : c = suspended[t][j] /\ awaits[c] = q /\ c # None
      <4>1. suspended[t][j] \in Requests \cup {None}
        BY <1>3 DEF TypeOK
      <4>2. suspended[t][j] # None /\ awaits[suspended[t][j]] = q
        BY <1>14, <2>1, <2>2, <2>4 DEF IsAwaited
      <4> QED
        BY <4>1, <4>2
    <3>2. c # co /\ ~(t = s /\ j = k)
      BY <1>9, <1>14, <2>4, <3>1
    <3>3. suspended'[t][j] = c /\ awaits'[c] = q
      BY <1>11, <3>1, <3>2
    <3> QED
      BY <1>2, <2>1, <2>2, <3>1, <3>3 DEF IsAwaited
  <2> QED
    BY <2>3, <2>4
<1>15. MessageInv' /\ OrderInv'
  <2>1. ASSUME NEW t \in Services, NEW i \in 1 .. Len(inbox'[t])
        PROVE  MessageOK(t, inbox[t][i])'
    <3>1. PICK m \in Messages : m = inbox'[t][i]
      BY <1>4, ElementOfSeq DEF HeadTaken
    <3>2. PICK q \in Requests : q = m.id
      BY DEF Messages
    <3>3. MessageOK(t, m) /\ (q # r \/ Loose)
      BY <1>4, <1>5, <3>1, <3>2 DEF HeadTaken
    <3>4. m.session > 0 => IsAwaited(q)'
      BY <1>14, <3>2, <3>3 DEF MessageOK
    <3>5. awaits[q] = None => awaits'[q] = None
      BY <1>11
    <3> QED
      BY <1>2, <3>1, <3>2, <3>3, <3>4, <3>5 DEF MessageOK
  <2> QED
    BY <1>2, <1>4, <2>1 DEF MessageInv, OrderInv, HeadTaken, Loose
<1>16. AnsweringInv'
  <2> SUFFICES ASSUME NEW t \in Services, NEW q \in answering[t]
               PROVE  AnsweringOK(t, q)'
    BY <1>2 DEF AnsweringInv
  <2>1. AnsweringOK(t, q) /\ q \in Requests
    BY <1>3 DEF IInv, AnsweringInv, TypeOK
  <2>2. answers[q] = 0 /\ sent[q].session > 0 => IsAwaited(q)'
    BY <1>7, <1>14, <2>1 DEF AnsweringOK
  <2> QED
    BY <1>2, <2>1, <2>2 DEF AnsweringOK
<1>17. RunnableInv'
  <2> SUFFICES ASSUME NEW t \in Services PROVE RunnableOK(t)'
    BY DEF RunnableInv
  <2>1. RunnableOK(t) /\ asleep[t] \subseteq Requests /\ answering[t] \subseteq Requests
    BY <1>3 DEF IInv, RunnableInv, TypeOK
  <2>2. t = s => co \notin asleep[t]
    BY <1>2, <1>3, <1>11, <2>1, NoneApart DEF RunnableOK, TypeOK, Requests
  <2> QED
    BY <1>2, <1>9, <1>11, <2>1, <2>2 DEF RunnableOK
<1>18. SuspendedInv'
  <2> SUFFICES ASSUME NEW t \in Services, NEW j \in Sessions, suspended'[t][j] # None
               PROVE  SuspendedOK(t, j)'
    BY DEF SuspendedInv, SuspendedOK
  <2>1. suspended'[t][j] = suspended[t][j] /\ ~(t = s /\ j = k)
    BY <1>11
  <2>2. SuspendedOK(t, j) /\ suspended[t][j] \in Requests
    BY <1>3, <2>1 DEF IInv, SuspendedInv, TypeOK
  <2>3. suspended[t][j] # co
    BY <1>11, <2>1, <2>2 DEF SuspendedOK
  <2> QED
    BY <1>2, <1>11, <2>1, <2>2, <2>3 DEF SuspendedOK
<1>19. SentInv'
  BY <1>2, <1>11 DEF IInv, SentInv, SentOK
<1>20. CallsOwed'
  <2> SUFFICES ASSUME NEW t \in Services, NEW j \in Sessions,
                      suspended'[t][j] # None, accepts'[t]
               PROVE  Owed(t, j)'
    BY DEF CallsOwed, Owed
  <2>1. suspended'[t][j] = suspended[t][j] /\ ~(t = s /\ j = k)
    BY <1>11
  <2>2. PICK q \in Requests : AwaitedCall(t, j, q)
    BY <2>1, SuspendedCall
  <2>3. /\ Owed(t, j) /\ q = awaits[suspended[t][j]] /\ sent[q].to \in Services
        /\ sent[q].from = t /\ sent[q].session = j /\ suspended[t][j] \in Requests
    BY <1>2, <1>3, <2>1, <2>2 DEF IInv, CallsOwed, Owed, AwaitedCall, TypeOK
  <2>4. q # r /\ awaits'[suspended[t][j]] = q
    BY <1>7, <1>11, <2>1, <2>3
  <2>5. \A u \in Services : \A i \in 1 .. Len(inbox[u]) :
           inbox[u][i].id = q =>
              \E n \in 1 .. Len(inbox'[u]) : inbox'[u][n] = inbox[u][i]
    <3>1. ASSUME NEW u \in Services, NEW i \in 1 .. Len(inbox[u]), inbox[u][i].id # r
          PROVE  \E n \in 1 .. Len(inbox'[u]) : inbox'[u][n] = inbox[u][i]
      BY <1>4, <1>5, <3>1 DEF HeadTaken
    <3> QED
      BY <2>4, <3>1
  <2>6. /\ suspended'[t][j] = suspended[t][j] /\ sent'[q] = sent[q] /\ lost' = lost
        /\ phase' = phase /\ answering' = answering /\ unnotified' = unnotified
    BY <1>2, <2>1
  <2> QED
    BY <2>2, <2>3, <2>4, <2>5, <2>6, StaysOwed
<1> QED
  BY <1>12, <1>13, <1>15, <1>16, <1>17, <1>18, <1>19, <1>20 DEF IInv

-----------------------------------------------------------------------------
(* Sending a request *)

\* Once request n is sent: it is the last message of its receiver.
PostEffect(from, to, k, n) ==
    /\ n \in Requests
    /\ n = Len(sent) + 1
    /\ inbox' \in [Services -> Seq(Messages)]
    /\ sent' \in Seq([from : Services \cup {Host}, to : Services,
                      session : 0 .. MaxSession])
    /\ Len(sent') = n
    /\ sent'[n] = [from |-> from, to |-> to, session |-> k]
    /\ \A q \in 1 .. Len(sent) : sent'[q] = sent[q]
    /\ \A t \in Services : t # to => inbox'[t] = inbox[t]
    /\ \A t \in Services : \A i \in 1 .. Len(inbox[t]) :
          i \in 1 .. Len(inbox'[t]) /\ inbox'[t][i] = inbox[t][i]
    /\ \A i \in 1 .. Len(inbox'[to]) :
          i \in 1 .. Len(inbox[to])
             \/ (i = Len(inbox[to]) + 1 /\ inbox'[to][i] = Request(n, from, k))
    /\ \E i \in 1 .. Len(inbox'[to]) : inbox'[to][i] = Request(n, from, k)

\* _send_message of a request puts it there.
LEMMA RequestPosted ==
    ASSUME TypeOK, Len(sent) < MaxRequests,
           NEW from \in Services \cup {Host}, NEW to \in Services,
           NEW k \in 0 .. MaxSession, Post(from, to, k)
    PROVE  PostEffect(from, to, k, Len(sent) + 1)
<1> DEFINE n == Len(sent) + 1
           e == [from |-> from, to |-> to, session |-> k]
           q == Append(inbox[to], Request(n, from, k))
           S == [from : Services \cup {Host}, to : Services, session : 0 .. MaxSession]
<1>1. sent' = Append(sent, e) /\ inbox' = [inbox EXCEPT ![to] = q]
  BY DEF Post
<1>2. sent \in Seq(S) /\ Len(sent) \in Nat /\ e \in S /\ n \in Requests
  BY RpcAssumption DEF TypeOK, Requests
<1>3. Request(n, from, k) \in Messages
  BY <1>2 DEF Request, Messages
<1>4. /\ inbox \in [Services -> Seq(Messages)]
      /\ \A t \in Services : inbox[t] \in Seq(Messages) /\ Len(inbox[t]) \in Nat
  BY LenProperties DEF TypeOK
<1>5. /\ sent' \in Seq(S) /\ Len(sent') = n /\ sent'[n] = e
      /\ \A r \in 1 .. Len(sent) : sent'[r] = sent[r]
  BY <1>1, <1>2, QueueAppend
<1>6. /\ q \in Seq(Messages) /\ Len(q) = Len(inbox[to]) + 1
      /\ \A i \in 1 .. Len(inbox[to]) : q[i] = inbox[to][i]
      /\ q[Len(inbox[to]) + 1] = Request(n, from, k)
  BY <1>3, <1>4, QueueAppend
<1> HIDE DEF n, e, q, S
<1>7. /\ inbox' \in [Services -> Seq(Messages)] /\ inbox'[to] = q
      /\ \A t \in Services : t # to => inbox'[t] = inbox[t]
  BY <1>1, <1>4, <1>6
<1>8. ASSUME NEW t \in Services, NEW i \in 1 .. Len(inbox[t])
      PROVE  i \in 1 .. Len(inbox'[t]) /\ inbox'[t][i] = inbox[t][i]
  <2>1. CASE t = to
    <3>1. Len(inbox'[t]) = Len(inbox[t]) + 1 /\ Len(inbox[t]) \in Nat
      BY <1>4, <1>6, <1>7, <2>1
    <3> QED
      BY <1>6, <1>7, <2>1, <3>1
  <2>2. CASE t # to
    BY <1>7, <2>2
  <2> QED
    BY <2>1, <2>2
<1>9. /\ \A i \in 1 .. Len(inbox'[to]) :
            i \in 1 .. Len(inbox[to])
               \/ (i = Len(inbox[to]) + 1 /\ inbox'[to][i] = Request(n, from, k))
      /\ Len(inbox[to]) + 1 \in 1 .. Len(inbox'[to])
  <2>1. Len(inbox'[to]) = Len(inbox[to]) + 1 /\ Len(inbox[to]) \in Nat
    BY <1>4, <1>6, <1>7
  <2>2. ASSUME NEW i \in 1 .. Len(inbox'[to])
        PROVE  i \in 1 .. Len(inbox[to])
                  \/ (i = Len(inbox[to]) + 1 /\ inbox'[to][i] = Request(n, from, k))
    <3>1. CASE i \in 1 .. Len(inbox[to])
      BY <3>1
    <3>2. CASE i = Len(inbox[to]) + 1
      BY <1>6, <1>7, <3>2
    <3> QED
      BY <2>1, <3>1, <3>2
  <2>3. Len(inbox[to]) + 1 \in 1 .. Len(inbox'[to])
    BY <2>1
  <2> QED
    BY <2>2, <2>3
<1>10. \E i \in 1 .. Len(inbox'[to]) : inbox'[to][i] = Request(n, from, k)
  BY <1>6, <1>7, <1>9
<1>11. n = Len(sent) + 1
  BY DEF n
<1>12. PostEffect(from, to, k, n)
  BY <1>2, <1>5, <1>7, <1>8, <1>9, <1>10, <1>11 DEF PostEffect, S, e
<1> QED
  BY <1>12 DEF n

\* The types of what it changes.
LEMMA PostedTypes ==
    ASSUME NEW from, NEW to, NEW k, NEW n, PostEffect(from, to, k, n)
    PROVE  /\ inbox' \in [Services -> Seq(Messages)]
           /\ sent' \in Seq([from : Services \cup {Host}, to : Services,
                             session : 0 .. MaxSession])
           /\ Len(sent') <= MaxRequests
BY RpcAssumption DEF PostEffect, Requests

\* Old messages stay in order, and the new one is in order if its caller waits.
LEMMA PostedMessages ==
    ASSUME IInv, NEW from, NEW to \in Services, NEW k \in 0 .. MaxSession,
           NEW n, PostEffect(from, to, k, n),
           answers' = answers, answering' = answering, returned' = returned,
           awaits'[n] = None,
           \A q \in Requests : awaits[q] = None /\ q \notin answering[sent[q].to]
                                  => awaits'[q] = None,
           \A q \in Requests : q <= Len(sent) /\ sent[q].session > 0 /\ IsAwaited(q)
                                  => IsAwaited(q)',
           k > 0 => IsAwaited(n)'
    PROVE  MessageInv' /\ OrderInv'
<1>1. TypeOK /\ inbox \in [Services -> Seq(Messages)] /\ Len(sent) \in Nat
  BY DEF IInv, TypeOK
<1>2. /\ n \in Requests /\ n = Len(sent) + 1 /\ Len(sent') = n
      /\ sent'[n] = [from |-> from, to |-> to, session |-> k]
      /\ \A q \in 1 .. Len(sent) : sent'[q] = sent[q]
  BY DEF PostEffect
<1>3. ASSUME NEW t \in Services, NEW i \in 1 .. Len(inbox[t])
      PROVE  inbox[t][i] \in Messages /\ inbox[t][i].id # n /\ MessageOK(t, inbox[t][i])
  <2>1. inbox[t][i] \in Messages /\ MessageOK(t, inbox[t][i])
    BY <1>1, ElementOfSeq DEF IInv, MessageInv
  <2>2. inbox[t][i].id \in Nat
    BY <2>1 DEF Messages, Requests
  <2> QED
    BY <1>1, <1>2, <2>1, <2>2 DEF MessageOK
<1>4. ASSUME NEW t \in Services, NEW i \in 1 .. Len(inbox'[t])
      PROVE  IF i \in 1 .. Len(inbox[t])
             THEN inbox'[t][i] = inbox[t][i]
             ELSE i = Len(inbox[t]) + 1 /\ t = to /\ inbox'[t][i] = Request(n, from, k)
  BY <1>4 DEF PostEffect
<1>5. ASSUME NEW t \in Services, NEW i \in 1 .. Len(inbox'[t])
      PROVE  MessageOK(t, inbox[t][i])'
  <2>1. CASE i \in 1 .. Len(inbox[t])
    <3>1. PICK m \in Messages : m = inbox[t][i] /\ m = inbox'[t][i]
      BY <1>3, <1>4, <2>1
    <3>2. PICK q \in Requests : q = m.id
      BY DEF Messages
    <3>3. MessageOK(t, m)
      BY <1>3, <2>1, <3>1
    <3>4. q <= Len(sent) /\ q \in 1 .. Len(sent) /\ sent'[q] = sent[q]
      BY <1>1, <1>2, <3>2, <3>3, SentType DEF MessageOK
    <3>5. m.session > 0 => IsAwaited(q)'
      BY <3>2, <3>3, <3>4 DEF MessageOK
    <3>6. m.type = "request" => awaits'[q] = None
      BY <3>2, <3>3 DEF MessageOK
    <3>7. q <= Len(sent')
      BY <1>1, <1>2, <3>4
    <3> QED
      BY <3>1, <3>2, <3>3, <3>4, <3>5, <3>6, <3>7 DEF MessageOK
  <2>2. CASE i \notin 1 .. Len(inbox[t])
    <3>1. inbox'[t][i] = Request(n, from, k) /\ t = to
      BY <1>4, <2>2
    <3>2. n \notin answering[to] /\ answers[n] = 0 /\ n <= Len(sent')
      BY <1>1, <1>2 DEF IInv, AnsweringInv, AnsweringOK, SentInv, SentOK
    <3> QED
      BY <1>2, <3>1, <3>2 DEF MessageOK, Request
  <2> QED
    BY <2>1, <2>2
<1>6. ASSUME NEW t \in Services, NEW i \in 1 .. Len(inbox'[t]),
             NEW j \in 1 .. Len(inbox'[t]), inbox'[t][i].id = inbox'[t][j].id
      PROVE  i = j \/ (Loose /\ inbox'[t][i].type # "request")
  <2>1. CASE i \in 1 .. Len(inbox[t]) /\ j \in 1 .. Len(inbox[t])
    BY <1>4, <1>6, <2>1 DEF IInv, OrderInv
  <2>2. CASE i \notin 1 .. Len(inbox[t]) \/ j \notin 1 .. Len(inbox[t])
    BY <1>3, <1>4, <1>6, <2>2 DEF Request
  <2> QED
    BY <2>1, <2>2
<1> QED
  BY <1>5, <1>6 DEF MessageInv, OrderInv, Loose

\* A request that nobody waits for comes in.
LEMMA InjectStep ==
    ASSUME IInv, NEW s \in Services, Inject(s)
    PROVE  IInv'
<1>1. /\ phase' = phase /\ accepts' = accepts /\ next_session_id' = next_session_id
      /\ suspended' = suspended /\ awaits' = awaits /\ answers' = answers
      /\ answering' = answering /\ running_thread' = running_thread
      /\ asleep' = asleep /\ unnotified' = unnotified
      /\ returned' = returned /\ lost' = lost
      /\ accepts[s] /\ Len(sent) < MaxRequests /\ Post(Host, s, 0)
  BY DEF Inject, tables, coroutines, ending, replies
<1>2. TypeOK /\ Len(sent) \in Nat
  BY DEF IInv, TypeOK
<1>3. PICK n \in Requests : n = Len(sent) + 1 /\ PostEffect(Host, s, 0, n)
  <2>1. PostEffect(Host, s, 0, Len(sent) + 1)
    BY <1>1, <1>2, RequestPosted, RpcAssumption
  <2> QED
    BY <2>1 DEF PostEffect
<1>4. /\ Len(sent') = n /\ sent'[n].session = 0
      /\ \A q \in 1 .. Len(sent) : sent'[q] = sent[q]
  BY <1>3 DEF PostEffect
<1>5. ASSUME NEW q \in Requests, q <= Len(sent)
      PROVE  sent'[q] = sent[q] /\ q <= Len(sent')
  BY <1>2, <1>3, <1>4, <1>5, SentType
<1>6. ASSUME NEW q \in Requests, q <= Len(sent), IsAwaited(q)
      PROVE  IsAwaited(q)'
  BY <1>1, <1>5, <1>6 DEF IsAwaited, Loose
<1>7. TypeOK'
  BY <1>1, <1>2, <1>3, PostedTypes DEF TypeOK
<1>8. PhaseInv'
  <2> SUFFICES ASSUME NEW t \in Services PROVE PhaseOK(t)'
    BY DEF PhaseInv
  <2>1. PhaseOK(t) /\ (inbox'[t] = inbox[t] \/ accepts[t])
    BY <1>1, <1>3 DEF IInv, PhaseInv, PostEffect
  <2> QED
    BY <1>1, <2>1 DEF PhaseOK
<1>9. awaits[n] = None
  BY <1>2, <1>3 DEF IInv, SentInv, SentOK
<1>10. MessageInv' /\ OrderInv'
  BY <1>1, <1>3, <1>6, <1>9, PostedMessages, RpcAssumption
<1>11. AnsweringInv'
  <2> SUFFICES ASSUME NEW t \in Services, NEW q \in answering[t]
               PROVE  AnsweringOK(t, q)'
    BY <1>1 DEF AnsweringInv
  <2>1. AnsweringOK(t, q) /\ q \in Requests /\ q <= Len(sent)
    BY <1>2 DEF IInv, AnsweringInv, TypeOK, AnsweringOK
  <2> QED
    BY <1>1, <1>5, <1>6, <2>1 DEF AnsweringOK
<1>12. RunnableInv'
  BY <1>1 DEF IInv, RunnableInv, RunnableOK
<1>13. SuspendedInv'
  <2> SUFFICES ASSUME NEW t \in Services, NEW k \in Sessions, suspended[t][k] # None
               PROVE  SuspendedOK(t, k)'
    BY <1>1 DEF SuspendedInv, SuspendedOK
  <2>1. SuspendedOK(t, k)
    BY DEF IInv, SuspendedInv
  <2> QED
    BY <1>1, <1>2, <1>3, <1>4, <2>1 DEF SuspendedOK
<1>14. SentInv'
  <2> SUFFICES ASSUME NEW q \in Requests PROVE SentOK(q)'
    BY DEF SentInv
  <2>1. SentOK(q) /\ q \in Nat
    BY DEF IInv, SentInv, Requests
  <2> QED
    BY <1>1, <1>2, <1>3, <1>4, <1>5, <2>1 DEF SentOK
<1>15. CallsOwed'
  <2> SUFFICES ASSUME NEW t \in Services, NEW k \in Sessions,
                      suspended'[t][k] # None, accepts'[t]
               PROVE  Owed(t, k)'
    BY DEF CallsOwed, Owed
  <2>1. PICK q \in Requests : AwaitedCall(t, k, q)
    BY <1>1, SuspendedCall
  <2>2. /\ Owed(t, k) /\ q = awaits[suspended[t][k]] /\ sent[q].to \in Services
        /\ sent'[q] = sent[q]
    BY <1>1, <1>5, <2>1 DEF IInv, CallsOwed, Owed, AwaitedCall
  <2>3. \A u \in Services : \A i \in 1 .. Len(inbox[u]) :
           \E j \in 1 .. Len(inbox'[u]) : inbox'[u][j] = inbox[u][i]
    BY <1>3 DEF PostEffect
  <2> QED
    BY <1>1, <2>1, <2>2, <2>3, StaysOwed
<1> QED
  BY <1>7, <1>8, <1>10, <1>11, <1>12, <1>13, <1>14, <1>15 DEF IInv

\* A call: the coroutine waits under a session number that no other uses.
LEMMA CallAcceptedStep ==
    ASSUME IInv, NEW s \in Services, NEW to \in Services, CallAccepted(s, to)
    PROVE  IInv'
<1>1. /\ phase' = phase /\ accepts' = accepts /\ answers' = answers
      /\ answering' = answering /\ asleep' = asleep /\ unnotified' = unnotified
      /\ returned' = returned /\ lost' = lost
      /\ running_thread' = [running_thread EXCEPT ![s] = None]
      /\ accepts[to] /\ Len(sent) < MaxRequests /\ running_thread[s] # None
  BY DEF CallAccepted, ending, replies
<1>2. TypeOK /\ Len(sent) \in Nat
  BY DEF IInv, TypeOK
<1>3. PICK co \in Requests : co = running_thread[s]
  BY <1>1, <1>2 DEF TypeOK
<1>4. PICK x \in Skips(s) :
         /\ next_session_id' = [next_session_id EXCEPT ![s] = NthSession(s, x + 1)]
         /\ Post(s, to, NthSession(s, x))
         /\ suspended' = [suspended EXCEPT ![s][NthSession(s, x)] = co]
         /\ awaits' = [awaits EXCEPT ![co] = Len(sent) + 1]
  BY <1>3 DEF CallAccepted
<1>5. x \in 0 .. MaxSession /\ x + 1 \in 0 .. MaxSession
      /\ suspended[s][NthSession(s, x)] = None
  BY RpcAssumption DEF Skips
<1>6. NthSession(s, x) \in Sessions /\ NthSession(s, x + 1) \in Sessions
  BY <1>2, <1>5, SessionRange
<1>7. PICK k \in Sessions : k = NthSession(s, x)
  BY <1>6
<1>8. PICK n \in Requests : n = Len(sent) + 1 /\ PostEffect(s, to, k, n)
  <2>1. k \in 0 .. MaxSession
    BY DEF Sessions
  <2>2. PostEffect(s, to, k, Len(sent) + 1)
    BY <1>1, <1>2, <1>4, <1>7, <2>1, RequestPosted
  <2> QED
    BY <2>2 DEF PostEffect
<1>9. /\ Len(sent') = n /\ sent'[n] = [from |-> s, to |-> to, session |-> k]
      /\ \A q \in 1 .. Len(sent) : sent'[q] = sent[q]
  BY <1>8 DEF PostEffect
<1>10. ASSUME NEW q \in Requests, q <= Len(sent)
       PROVE  sent'[q] = sent[q] /\ q <= Len(sent') /\ q # n
  BY <1>2, <1>8, <1>9, <1>10, SentType
<1>11. /\ co \in answering[s] \ asleep[s] /\ awaits[co] = None /\ co <= Len(sent)
       /\ sent[co].to = s
  BY <1>1, <1>3 DEF IInv, RunnableInv, RunnableOK, AnsweringInv, AnsweringOK
<1>12. /\ \A t \in Services : \A j \in Sessions :
             suspended'[t][j] = IF t = s /\ j = k THEN co ELSE suspended[t][j]
       /\ \A c \in Requests : awaits'[c] = IF c = co THEN n ELSE awaits[c]
       /\ \A t \in Services :
             running_thread'[t] = IF t = s THEN None ELSE running_thread[t]
       /\ suspended[s][k] = None
  BY <1>1, <1>2, <1>4, <1>5, <1>7, <1>8 DEF TypeOK
<1>13. awaits[n] = None /\ co # n /\ awaits'[n] = None
  BY <1>2, <1>8, <1>10, <1>11, <1>12 DEF IInv, SentInv, SentOK
<1>14. ASSUME NEW q \in Requests, q <= Len(sent), sent[q].session > 0, IsAwaited(q)
       PROVE  IsAwaited(q)'
  <2>1. PICK t \in Services : t = sent[q].from
    BY <1>14 DEF IInv, SentInv, SentOK
  <2>2. PICK j \in Sessions : j = sent[q].session
    BY <1>2, <1>14, SentType, RpcAssumption DEF Sessions
  <2>3. sent'[q] = sent[q]
    BY <1>10, <1>14
  <2>4. CASE Loose \/ phase[t] = "gone"
    BY <1>1, <2>1, <2>3, <2>4 DEF IsAwaited, Loose
  <2>5. CASE ~Loose /\ phase[t] # "gone"
    <3>1. PICK c \in Requests : c = suspended[t][j] /\ awaits[c] = q /\ c # None
      <4>1. suspended[t][j] \in Requests \cup {None}
        BY <1>2 DEF TypeOK
      <4>2. suspended[t][j] # None /\ awaits[suspended[t][j]] = q
        BY <1>14, <2>1, <2>2, <2>5 DEF IsAwaited
      <4> QED
        BY <4>1, <4>2
    <3>2. c # co /\ ~(t = s /\ j = k)
      BY <1>11, <1>12, <3>1, NoneApart
    <3>3. suspended'[t][j] = c /\ awaits'[c] = q
      BY <1>12, <3>1, <3>2
    <3> QED
      BY <2>1, <2>2, <2>3, <3>1, <3>3 DEF IsAwaited
  <2> QED
    BY <2>4, <2>5
<1>15. IsAwaited(n)'
  BY <1>9, <1>12, NoneApart DEF IsAwaited
<1>16. TypeOK'
  <2>1. /\ running_thread' \in [Services -> Requests \cup {None}]
        /\ next_session_id' \in [Services -> Sessions]
        /\ suspended' \in [Services -> [Sessions -> Requests \cup {None}]]
        /\ awaits' \in [Requests -> Requests \cup {None}]
    BY <1>1, <1>2, <1>4, <1>6, <1>7, <1>8 DEF TypeOK
  <2> QED
    BY <1>1, <1>2, <1>8, <2>1, PostedTypes DEF TypeOK
<1>17. PhaseInv'
  <2> SUFFICES ASSUME NEW t \in Services PROVE PhaseOK(t)'
    BY DEF PhaseInv
  <2>1. PhaseOK(t) /\ (inbox'[t] = inbox[t] \/ accepts[t])
    BY <1>1, <1>8 DEF IInv, PhaseInv, PostEffect
  <2> QED
    BY <1>1, <1>12, <2>1 DEF PhaseOK
<1>18. MessageInv' /\ OrderInv'
  <2>1. ASSUME NEW q \in Requests, awaits[q] = None, q \notin answering[sent[q].to]
        PROVE  awaits'[q] = None
    BY <1>11, <1>12, <2>1
  <2>2. k \in 0 .. MaxSession
    BY DEF Sessions
  <2> QED
    BY <1>1, <1>8, <1>13, <1>14, <1>15, <2>1, <2>2, PostedMessages
<1>19. AnsweringInv'
  <2> SUFFICES ASSUME NEW t \in Services, NEW q \in answering[t]
               PROVE  AnsweringOK(t, q)'
    BY <1>1 DEF AnsweringInv
  <2>1. AnsweringOK(t, q) /\ q \in Requests /\ q <= Len(sent)
    BY <1>2 DEF IInv, AnsweringInv, TypeOK, AnsweringOK
  <2> QED
    BY <1>1, <1>10, <1>14, <2>1 DEF AnsweringOK
<1>20. RunnableInv'
  <2> SUFFICES ASSUME NEW t \in Services PROVE RunnableOK(t)'
    BY DEF RunnableInv
  <2>1. /\ RunnableOK(t) /\ asleep[t] \subseteq Requests
        /\ running_thread[t] # None => running_thread[t] \in Requests
    BY <1>2 DEF IInv, RunnableInv, TypeOK
  <2>2. co \notin asleep[t] /\ (t # s => running_thread[t] # co)
    <3>1. co \in answering[t] => t = s
      BY <1>11 DEF IInv, AnsweringInv, AnsweringOK
    <3> QED
      BY <1>3, <1>11, <2>1, <3>1, NoneApart DEF RunnableOK
  <2> QED
    BY <1>1, <1>12, <2>1, <2>2 DEF RunnableOK
<1>21. SuspendedInv'
  <2> SUFFICES ASSUME NEW t \in Services, NEW j \in Sessions, suspended'[t][j] # None
               PROVE  SuspendedOK(t, j)'
    BY DEF SuspendedInv, SuspendedOK
  <2>1. CASE t = s /\ j = k
    BY <1>1, <1>8, <1>9, <1>11, <1>12, <2>1 DEF SuspendedOK, Requests
  <2>2. CASE ~(t = s /\ j = k)
    <3>1. PICK q \in Requests : AwaitedCall(t, j, q)
      BY <1>12, <2>2, SuspendedCall
    <3>4. suspended'[t][j] = suspended[t][j]
      BY <1>12, <2>2
    <3>5. suspended[t][j] \in answering[t] /\ suspended[t][j] \in Requests
      BY <1>2, <3>4 DEF IInv, SuspendedInv, SuspendedOK, TypeOK
    <3>6. awaits[suspended[t][j]] # None
      BY <3>1, NoneApart DEF AwaitedCall
    <3>2. /\ suspended'[t][j] = suspended[t][j] /\ suspended[t][j] \in answering[t]
          /\ suspended[t][j] \in Requests /\ suspended[t][j] # co
      BY <1>11, <3>4, <3>5, <3>6
    <3>3. q \in 1 .. Len(sent')
      BY <1>2, <1>8, <1>9, <3>1 DEF AwaitedCall, Requests
    <3> QED
      BY <1>1, <1>10, <1>12, <3>1, <3>2, <3>3 DEF SuspendedOK, AwaitedCall
  <2> QED
    BY <2>1, <2>2
<1>22. SentInv'
  <2> SUFFICES ASSUME NEW q \in Requests PROVE SentOK(q)'
    BY DEF SentInv
  <2>1. SentOK(q) /\ q \in Nat
    BY DEF IInv, SentInv, Requests
  <2>2. CASE q <= Len(sent)
    BY <1>1, <1>2, <1>8, <1>9, <1>10, <2>1, <2>2 DEF SentOK
  <2>3. CASE q > Len(sent)
    BY <1>1, <1>2, <1>8, <1>9, <1>11, <1>12, <2>1, <2>3 DEF SentOK
  <2> QED
    BY <1>2, <2>1, <2>2, <2>3
<1>23. CallsOwed'
  <2> SUFFICES ASSUME NEW t \in Services, NEW j \in Sessions,
                      suspended'[t][j] # None, accepts'[t]
               PROVE  Owed(t, j)'
    BY DEF CallsOwed, Owed
  <2>1. CASE t = s /\ j = k
    <3>1. PICK i \in 1 .. Len(inbox'[to]) : inbox'[to][i] = Request(n, s, k)
      BY <1>8 DEF PostEffect
    <3>2. InInbox(to, Request(n, s, k))'
      BY <3>1 DEF InInbox, Request
    <3>3. phase'[to] # "gone"
      BY <1>1 DEF IInv, PhaseInv, PhaseOK
    <3>4. awaits'[suspended'[s][k]] = n /\ sent'[n].to = to
      BY <1>9, <1>12
    <3> QED
      BY <2>1, <3>2, <3>3, <3>4 DEF Owed, IsOwed
  <2>2. CASE ~(t = s /\ j = k)
    <3>1. suspended'[t][j] = suspended[t][j]
      BY <1>12, <2>2
    <3>2. PICK q \in Requests : AwaitedCall(t, j, q)
      BY <3>1, SuspendedCall
    <3>3. /\ Owed(t, j) /\ q = awaits[suspended[t][j]] /\ sent[q].to \in Services
          /\ sent'[q] = sent[q] /\ suspended[t][j] \in Requests
      <4>1. Owed(t, j)
        BY <1>1, <3>1 DEF IInv, CallsOwed, Owed
      <4>2. suspended[t][j] \in Requests
        BY <1>2, <3>1 DEF TypeOK
      <4> QED
        BY <1>10, <3>2, <4>1, <4>2 DEF AwaitedCall
    <3>4. awaits'[suspended[t][j]] = q
      BY <1>11, <1>12, <3>3, NoneApart
    <3>5. \A u \in Services : \A i \in 1 .. Len(inbox[u]) :
             \E m \in 1 .. Len(inbox'[u]) : inbox'[u][m] = inbox[u][i]
      BY <1>8 DEF PostEffect
    <3> QED
      BY <1>1, <3>1, <3>2, <3>3, <3>4, <3>5, StaysOwed
  <2> QED
    BY <2>1, <2>2
<1> QED
  BY <1>16, <1>17, <1>18, <1>19, <1>20, <1>21, <1>22, <1>23 DEF IInv

-----------------------------------------------------------------------------
(* Steps that move no message and end no coroutine *)

\* Nothing that was sent or awaited changes.
Calm ==
    /\ inbox' = inbox /\ suspended' = suspended /\ answering' = answering
    /\ sent' = sent /\ awaits' = awaits /\ answers' = answers /\ lost' = lost
    /\ \A t \in Services : returned[t] => returned'[t]

\* Messages, sessions and the history stay in order.
LEMMA CalmStep ==
    ASSUME IInv, Calm,
           \A t \in Services : phase[t] = "gone" => phase'[t] = "gone"
    PROVE  MessageInv' /\ OrderInv' /\ SuspendedInv' /\ SentInv'
<1>1. MessageInv'
  <2> SUFFICES ASSUME NEW t \in Services, NEW i \in 1 .. Len(inbox[t])
               PROVE  MessageOK(t, inbox[t][i])'
    BY DEF MessageInv, Calm
  <2>1. PICK m \in Messages : m = inbox[t][i]
    BY ElementOfSeq DEF IInv, TypeOK
  <2>2. PICK q \in Requests : q = m.id
    BY DEF Messages
  <2>3. MessageOK(t, m) /\ SentOK(q) /\ TypeOK
    BY <2>1 DEF IInv, MessageInv, SentInv
  <2>4. m.session > 0 => IsAwaited(q)'
    BY <2>2, <2>3, StaysAwaited DEF MessageOK, Calm
  <2> QED
    BY <2>1, <2>2, <2>3, <2>4 DEF MessageOK, Calm
<1>2. OrderInv' /\ SuspendedInv'
  BY DEF Calm, IInv, OrderInv, Loose, SuspendedInv, SuspendedOK
<1>3. SentInv'
  <2> SUFFICES ASSUME NEW q \in Requests PROVE SentOK(q)'
    BY DEF SentInv
  <2>1. SentOK(q) /\ TypeOK /\ q \in Nat
    BY DEF IInv, SentInv, Requests
  <2>2. Len(sent) \in Nat
    BY <2>1 DEF TypeOK
  <2>3. CASE q <= Len(sent)
    <3>1. sent[q].to \in Services
      BY <2>3, SentType DEF IInv
    <3> QED
      BY <2>1, <2>3, <2>2, <3>1 DEF SentOK, Calm
  <2>4. CASE q > Len(sent)
    BY <2>1, <2>4, <2>2 DEF SentOK, Calm
  <2> QED
    BY <2>1, <2>3, <2>4, <2>2
<1> QED
  BY <1>1, <1>2, <1>3

\* The coroutines of a service that does not come to its end.
LEMMA CalmAnswering ==
    ASSUME IInv, Calm, unnotified' = unnotified,
           \A t \in Services :
              phase'[t] = phase[t] \/ (phase[t] # "notifying" /\ phase[t] # "gone")
    PROVE  AnsweringInv'
<1> SUFFICES ASSUME NEW t \in Services, NEW q \in answering[t]
             PROVE  AnsweringOK(t, q)'
  BY DEF AnsweringInv, Calm
<1>1. AnsweringOK(t, q) /\ q \in Requests /\ SentOK(q) /\ TypeOK
  BY DEF IInv, AnsweringInv, TypeOK, SentInv
<1>2. \A u \in Services : phase[u] = "gone" => phase'[u] = "gone"
  OBVIOUS
<1>3. answers[q] = 0 /\ sent[q].session > 0 => IsAwaited(q)'
  BY <1>1, <1>2, StaysAwaited DEF Calm, AnsweringOK
<1> QED
  BY <1>1, <1>3 DEF AnsweringOK, Calm

\* Callers that are not done with.
LEMMA CalmOwed ==
    ASSUME IInv, Calm,
           \A t \in Services : accepts'[t] => accepts[t] \/ answering[t] = {},
           \A t \in Services :
              /\ phase'[t] = "gone" => phase[t] \in {"notifying", "gone"}
              /\ unnotified[t] \subseteq unnotified'[t]
              /\ phase[t] \in {"running", "stopping", "draining"} =>
                    \/ phase'[t] \in {"running", "stopping", "draining"}
                    \/ unnotified'[t] = answering[t]
    PROVE  CallsOwed'
<1> SUFFICES ASSUME NEW t \in Services, NEW k \in Sessions,
                    suspended'[t][k] # None, accepts'[t]
             PROVE  Owed(t, k)'
  BY DEF CallsOwed, Owed
<1>1. suspended' = suspended /\ awaits' = awaits /\ sent' = sent
      /\ inbox' = inbox /\ answering' = answering /\ lost' = lost
  BY DEF Calm
<1>2. PICK q \in Requests : AwaitedCall(t, k, q)
  BY <1>1, SuspendedCall
<1>3. Owed(t, k) /\ q = awaits[suspended[t][k]] /\ sent[q].to \in Services
  <2>1. accepts[t]
    BY <1>1 DEF IInv, SuspendedInv, SuspendedOK
  <2> QED
    BY <1>1, <1>2, <2>1 DEF IInv, CallsOwed, Owed, AwaitedCall
<1> QED
  BY <1>1, <1>2, <1>3, StaysOwed

\* A call that is refused only uses up a session number.
LEMMA CallRefusedStep ==
    ASSUME IInv, NEW s \in Services, CallRefused(s)
    PROVE  IInv'
<1>1. /\ Calm /\ phase' = phase /\ accepts' = accepts /\ unnotified' = unnotified
      /\ running_thread' = running_thread /\ asleep' = asleep
      /\ inbox' = inbox /\ answering' = answering /\ returned' = returned
  BY DEF CallRefused, Calm, coroutines, ending, replies
<1>2. PICK x \in Skips(s) :
         next_session_id' = [next_session_id EXCEPT ![s] = NthSession(s, x + 1)]
  BY DEF CallRefused
<1>3. TypeOK /\ x + 1 \in 0 .. MaxSession
  BY RpcAssumption DEF IInv, Skips
<1>4. NthSession(s, x + 1) \in Sessions
  BY <1>3, SessionRange
<1>5. TypeOK'
  BY <1>1, <1>2, <1>3, <1>4 DEF TypeOK, Calm
<1>6. PhaseInv' /\ RunnableInv'
  BY <1>1 DEF IInv, PhaseInv, PhaseOK, RunnableInv, RunnableOK, Calm
<1> QED
  BY <1>1, <1>5, <1>6, CalmStep, CalmAnswering, CalmOwed DEF IInv

\* A coroutine goes to sleep.
LEMMA SleepStep ==
    ASSUME IInv, NEW s \in Services, Sleep(s)
    PROVE  IInv'
<1>1. /\ Calm /\ phase' = phase /\ accepts' = accepts /\ unnotified' = unnotified
      /\ returned' = returned
      /\ next_session_id' = next_session_id /\ running_thread[s] # None
      /\ asleep' = [asleep EXCEPT ![s] = asleep[s] \cup {running_thread[s]}]
      /\ running_thread' = [running_thread EXCEPT ![s] = None]
  BY DEF Sleep, Calm, tables, ending, replies
<1>2. TypeOK
  BY DEF IInv
<1>3. TypeOK'
  BY <1>1, <1>2 DEF TypeOK, Calm
<1>4. \A t \in Services :
         /\ asleep'[t] = IF t = s THEN asleep[t] \cup {running_thread[t]} ELSE asleep[t]
         /\ running_thread'[t] = IF t = s THEN None ELSE running_thread[t]
  BY <1>1, <1>2 DEF TypeOK
<1>5. PhaseInv'
  BY <1>1, <1>4 DEF IInv, PhaseInv, PhaseOK, Calm
<1>6. RunnableInv'
  <2> SUFFICES ASSUME NEW t \in Services PROVE RunnableOK(t)'
    BY DEF RunnableInv
  <2>1. RunnableOK(t)
    BY DEF IInv, RunnableInv
  <2>2. CASE t = s
    BY <1>1, <1>4, <2>1, <2>2 DEF RunnableOK, Calm
  <2>3. CASE t # s
    BY <1>1, <1>4, <2>1, <2>3 DEF RunnableOK, Calm
  <2> QED
    BY <2>2, <2>3
<1> QED
  BY <1>1, <1>3, <1>5, <1>6, CalmStep, CalmAnswering, CalmOwed DEF IInv

\* A timer wakes a coroutine up.
LEMMA WakeUpStep ==
    ASSUME IInv, NEW s \in Services, WakeUp(s)
    PROVE  IInv'
<1>1. /\ Calm /\ phase' = phase /\ accepts' = accepts /\ unnotified' = unnotified
      /\ next_session_id' = next_session_id /\ returned' = returned
      /\ \/ phase[s] \in {"running", "stopping"}
         \/ phase[s] = "notifying" /\ unnotified[s] = {} /\ returned[s]
  BY DEF WakeUp, Calm, tables, ending, replies
<1>2. PICK co \in asleep[s] :
         /\ asleep' = [asleep EXCEPT ![s] = asleep[s] \ {co}]
         /\ running_thread' = [running_thread EXCEPT ![s] = co]
  BY DEF WakeUp
<1>3. TypeOK
  BY DEF IInv
<1>4. TypeOK'
  BY <1>1, <1>2, <1>3 DEF TypeOK, Calm
<1>5. \A t \in Services :
         /\ asleep'[t] = IF t = s THEN asleep[t] \ {co} ELSE asleep[t]
         /\ running_thread'[t] = IF t = s THEN co ELSE running_thread[t]
  BY <1>2, <1>3 DEF TypeOK
<1>6. PhaseInv'
  BY <1>1, <1>5 DEF IInv, PhaseInv, PhaseOK, Calm
<1>7. RunnableInv'
  <2> SUFFICES ASSUME NEW t \in Services PROVE RunnableOK(t)'
    BY DEF RunnableInv
  <2>1. RunnableOK(t)
    BY DEF IInv, RunnableInv
  <2>2. CASE t = s
    <3>1. /\ awaits' = awaits /\ answering' = answering
          /\ asleep'[t] = asleep[t] \ {co} /\ running_thread'[t] = co /\ co \in asleep[t]
      BY <1>1, <1>5, <2>2 DEF Calm
    <3> QED
      BY <2>1, <3>1 DEF RunnableOK
  <2>3. CASE t # s
    BY <1>1, <1>5, <2>1, <2>3 DEF RunnableOK, Calm
  <2> QED
    BY <2>2, <2>3
<1> QED
  BY <1>1, <1>4, <1>6, <1>7, CalmStep, CalmAnswering, CalmOwed DEF IInv

\* A service is created, starts, closes its mailbox, leaves RUNNING; its loop ends.
LEMMA StartStopStep ==
    ASSUME IInv, NEW s \in Services,
           Create(s) \/ Start(s) \/ StopAccepting(s) \/ StopRunning(s) \/ LoopReturns(s)
    PROVE  IInv'
<1>1. TypeOK
  BY DEF IInv
<1>2. /\ inbox' = inbox /\ suspended' = suspended /\ answering' = answering
      /\ sent' = sent /\ awaits' = awaits /\ answers' = answers /\ lost' = lost
      /\ unnotified' = unnotified /\ running_thread' = running_thread
      /\ asleep' = asleep /\ next_session_id' = next_session_id
  BY DEF Create, Start, StopAccepting, StopRunning, LoopReturns, tables, coroutines,
         ending, replies
<1>3. /\ phase' \in [Services -> {"none", "starting", "running", "stopping", "draining",
                                  "notifying", "gone"}]
      /\ accepts' \in [Services -> BOOLEAN]
      /\ returned' \in [Services -> BOOLEAN]
  BY <1>1 DEF Create, Start, StopAccepting, StopRunning, LoopReturns, ending, TypeOK
<1>4. ASSUME NEW t \in Services
      PROVE  /\ returned[t] => returned'[t]
             /\ \/ /\ phase'[t] = phase[t] /\ (accepts'[t] => accepts[t])
                \/ phase[t] = "none" /\ phase'[t] = "starting"
                \/ /\ accepts'[t] => accepts[t]
                   /\ phase[t] = "starting" /\ phase'[t] = "running"
                \/ /\ phase[t] \in {"starting", "running", "stopping"}
                   /\ phase'[t] = "stopping"
                   /\ accepts'[t] => accepts[t] /\ returned'[t]
  BY <1>1 DEF Create, Start, StopAccepting, StopRunning, LoopReturns, ending, TypeOK
<1>5. Calm
  BY <1>2, <1>4 DEF Calm
<1>6. TypeOK'
  BY <1>1, <1>2, <1>3 DEF TypeOK
<1>7. PhaseInv'
  <2> SUFFICES ASSUME NEW t \in Services PROVE PhaseOK(t)'
    BY DEF PhaseInv
  <2>1. PhaseOK(t)
    BY DEF IInv, PhaseInv
  <2> QED
    BY <1>2, <1>4, <2>1 DEF PhaseOK
<1>8. RunnableInv'
  BY <1>2 DEF IInv, RunnableInv, RunnableOK
<1>9. \A t \in Services :
         /\ phase[t] = "gone" => phase'[t] = "gone"
         /\ phase'[t] = phase[t] \/ (phase[t] # "notifying" /\ phase[t] # "gone")
         /\ phase'[t] = "gone" => phase[t] \in {"notifying", "gone"}
         /\ phase[t] \in {"running", "stopping", "draining"} =>
               phase'[t] \in {"running", "stopping", "draining"}
  BY <1>4
<1>10. MessageInv' /\ OrderInv' /\ SuspendedInv' /\ SentInv' /\ AnsweringInv'
  BY <1>2, <1>5, <1>9, CalmStep, CalmAnswering
<1>11. \A t \in Services : accepts'[t] => accepts[t] \/ answering[t] = {}
  BY <1>4 DEF IInv, PhaseInv, PhaseOK
<1>12. CallsOwed'
  BY <1>2, <1>5, <1>9, <1>11, CalmOwed
<1> QED
  BY <1>6, <1>7, <1>8, <1>10, <1>12 DEF IInv

\* The dispatcher is told of the stop: every coroutine left is to be answered.
LEMMA NotifyStopStep ==
    ASSUME IInv, NEW s \in Services, NotifyStop(s)
    PROVE  IInv'
<1>1. /\ Calm /\ accepts' = accepts /\ running_thread' = running_thread
      /\ asleep' = asleep /\ next_session_id' = next_session_id
      /\ phase[s] \in {"stopping", "draining"} /\ ~accepts[s] /\ returned' = returned
      /\ running_thread[s] = None /\ inbox[s] = <<>>
      /\ phase' = [phase EXCEPT ![s] = "notifying"]
      /\ unnotified' = [unnotified EXCEPT ![s] = answering[s]]
  BY DEF NotifyStop, Calm, tables, coroutines, replies
<1>2. TypeOK
  BY DEF IInv
<1>3. TypeOK'
  BY <1>1, <1>2 DEF TypeOK, Calm
<1>4. \A t \in Services :
         /\ phase'[t] = IF t = s THEN "notifying" ELSE phase[t]
         /\ unnotified'[t] = IF t = s THEN answering[t] ELSE unnotified[t]
  BY <1>1, <1>2 DEF TypeOK
<1>5. unnotified[s] = {}
  BY <1>1 DEF IInv, PhaseInv, PhaseOK
<1>6. PhaseInv'
  <2> SUFFICES ASSUME NEW t \in Services PROVE PhaseOK(t)'
    BY DEF PhaseInv
  <2>1. PhaseOK(t)
    BY DEF IInv, PhaseInv
  <2>2. CASE t = s
    BY <1>1, <1>4, <2>1, <2>2 DEF PhaseOK, Calm
  <2>3. CASE t # s
    BY <1>1, <1>4, <2>1, <2>3 DEF PhaseOK, Calm
  <2> QED
    BY <2>2, <2>3
<1>7. RunnableInv'
  BY <1>1 DEF IInv, RunnableInv, RunnableOK, Calm
<1>8. \A t \in Services : phase[t] = "gone" => phase'[t] = "gone"
  BY <1>1, <1>4
<1>9. AnsweringInv'
  <2> SUFFICES ASSUME NEW t \in Services, NEW q \in answering[t]
               PROVE  AnsweringOK(t, q)'
    BY <1>1 DEF AnsweringInv, Calm
  <2>1. AnsweringOK(t, q) /\ q \in Requests /\ SentOK(q)
    BY <1>2 DEF IInv, AnsweringInv, TypeOK, SentInv
  <2>2. answers[q] = 0 /\ sent[q].session > 0 => IsAwaited(q)'
    BY <1>1, <1>2, <1>8, <2>1, StaysAwaited DEF Calm, AnsweringOK
  <2> QED
    BY <1>1, <1>4, <2>1, <2>2 DEF AnsweringOK, Calm
<1>10. CallsOwed'
  <2>1. \A t \in Services :
           /\ phase'[t] = "gone" => phase[t] \in {"notifying", "gone"}
           /\ unnotified[t] \subseteq unnotified'[t]
           /\ phase[t] \in {"running", "stopping", "draining"} =>
                 \/ phase'[t] \in {"running", "stopping", "draining"}
                 \/ unnotified'[t] = answering[t]
    BY <1>1, <1>4, <1>5
  <2> QED
    BY <1>1, <2>1, CalmOwed
<1> QED
  BY <1>1, <1>3, <1>6, <1>7, <1>8, <1>9, <1>10, CalmStep DEF IInv

\* The VM is closed: its coroutines and the calls they made are gone.
LEMMA ExitStep ==
    ASSUME IInv, NEW s \in Services, Exit(s)
    PROVE  IInv'
<1>1. /\ phase[s] = "notifying" /\ unnotified[s] = {} /\ running_thread[s] = None
      /\ phase' = [phase EXCEPT ![s] = "gone"]
      /\ suspended' = [suspended EXCEPT ![s] = [k \in Sessions |-> None]]
      /\ answering' = [answering EXCEPT ![s] = {}]
      /\ asleep' = [asleep EXCEPT ![s] = {}]
      /\ accepts' = accepts /\ inbox' = inbox /\ next_session_id' = next_session_id
      /\ running_thread' = running_thread /\ unnotified' = unnotified
      /\ sent' = sent /\ awaits' = awaits /\ answers' = answers
      /\ returned' = returned /\ lost' = lost
  BY DEF Exit, ending, replies
<1>2. TypeOK
  BY DEF IInv
<1>3. TypeOK'
  BY <1>1, <1>2 DEF TypeOK
<1>4. /\ \A t \in Services :
            /\ phase'[t] = IF t = s THEN "gone" ELSE phase[t]
            /\ answering'[t] = IF t = s THEN {} ELSE answering[t]
            /\ asleep'[t] = IF t = s THEN {} ELSE asleep[t]
      /\ \A t \in Services : \A k \in Sessions :
            suspended'[t][k] = IF t = s THEN None ELSE suspended[t][k]
  BY <1>1, <1>2 DEF TypeOK
<1>5. PhaseInv'
  <2> SUFFICES ASSUME NEW t \in Services PROVE PhaseOK(t)'
    BY DEF PhaseInv
  <2>1. PhaseOK(t)
    BY DEF IInv, PhaseInv
  <2>2. CASE t = s
    BY <1>1, <1>4, <2>1, <2>2 DEF PhaseOK
  <2>3. CASE t # s
    BY <1>1, <1>4, <2>1, <2>3 DEF PhaseOK
  <2> QED
    BY <2>2, <2>3
<1>6. ASSUME NEW q \in Requests, q <= Len(sent), sent[q].session > 0, IsAwaited(q)
      PROVE  IsAwaited(q)'
  <2>1. PICK t \in Services : t = sent[q].from
    BY <1>6 DEF IInv, SentInv, SentOK
  <2>2. PICK k \in Sessions : k = sent[q].session
    BY <1>2, <1>6, SentType, RpcAssumption DEF Sessions
  <2>3. CASE t = s
    BY <1>1, <1>4, <2>1, <2>3 DEF IsAwaited, Loose
  <2>4. CASE t # s
    BY <1>1, <1>4, <1>6, <2>1, <2>2, <2>4 DEF IsAwaited, Loose
  <2> QED
    BY <2>3, <2>4
<1>7. MessageInv' /\ OrderInv'
  <2>1. ASSUME NEW t \in Services, NEW i \in 1 .. Len(inbox[t])
        PROVE  MessageOK(t, inbox[t][i])'
    <3>1. PICK m \in Messages : m = inbox[t][i]
      BY <1>2, ElementOfSeq DEF TypeOK
    <3>2. PICK q \in Requests : q = m.id
      BY DEF Messages
    <3>3. MessageOK(t, m)
      BY <3>1 DEF IInv, MessageInv
    <3>4. m.session > 0 => IsAwaited(q)'
      BY <1>6, <3>2, <3>3 DEF MessageOK
    <3>5. m.id \notin answering[t] => m.id \notin answering'[t]
      BY <1>4
    <3> QED
      BY <1>1, <3>1, <3>2, <3>3, <3>4, <3>5 DEF MessageOK
  <2> QED
    BY <1>1, <2>1 DEF MessageInv, OrderInv, IInv, Loose
<1>8. AnsweringInv'
  <2> SUFFICES ASSUME NEW t \in Services, NEW q \in answering'[t]
               PROVE  AnsweringOK(t, q)'
    BY DEF AnsweringInv
  <2>1. t # s /\ q \in answering[t]
    BY <1>4
  <2>2. AnsweringOK(t, q) /\ q \in Requests
    BY <1>2, <2>1 DEF IInv, AnsweringInv, TypeOK
  <2>3. answers[q] = 0 /\ sent[q].session > 0 => IsAwaited(q)'
    BY <1>6, <2>2 DEF AnsweringOK
  <2> QED
    BY <1>1, <1>4, <2>1, <2>2, <2>3 DEF AnsweringOK
<1>9. RunnableInv'
  <2> SUFFICES ASSUME NEW t \in Services PROVE RunnableOK(t)'
    BY DEF RunnableInv
  <2>1. RunnableOK(t) /\ (t = s => running_thread[t] = None)
    BY <1>1 DEF IInv, RunnableInv, PhaseInv, PhaseOK
  <2>2. CASE t = s
    BY <1>1, <1>4, <2>1, <2>2 DEF RunnableOK
  <2>3. CASE t # s
    BY <1>1, <1>4, <2>1, <2>3 DEF RunnableOK
  <2> QED
    BY <2>2, <2>3
<1>10. SuspendedInv' /\ SentInv'
  BY <1>1, <1>4 DEF IInv, SuspendedInv, SuspendedOK, SentInv, SentOK
<1>11. CallsOwed'
  <2> SUFFICES ASSUME NEW t \in Services, NEW k \in Sessions,
                      suspended'[t][k] # None, accepts'[t]
               PROVE  Owed(t, k)'
    BY DEF CallsOwed, Owed
  <2>1. t # s /\ suspended'[t][k] = suspended[t][k]
    BY <1>4
  <2>2. PICK q \in Requests : AwaitedCall(t, k, q)
    BY <2>1, SuspendedCall
  <2>3. Owed(t, k) /\ q = awaits[suspended[t][k]] /\ sent[q].to \in Services
    BY <1>1, <2>1, <2>2 DEF IInv, CallsOwed, Owed, AwaitedCall
  <2>4. LET to == sent[q].to IN
        /\ phase'[to] = "gone" => phase[to] \in {"notifying", "gone"}
        /\ (q \in answering[to] /\ phase[to] \in {"running", "stopping", "draining"}) =>
              q \in answering'[to] /\ phase'[to] \in {"running", "stopping", "draining"}
        /\ q \in unnotified[to] => q \in unnotified'[to]
    BY <1>1, <1>4, <2>3
  <2> QED
    BY <1>1, <2>1, <2>2, <2>3, <2>4, StaysOwed
<1> QED
  BY <1>3, <1>5, <1>7, <1>8, <1>9, <1>10, <1>11 DEF IInv

-----------------------------------------------------------------------------
(* The theorems *)

\* The invariant holds initially ...
LEMMA InitInv == Init => IInv
<1> SUFFICES ASSUME Init PROVE IInv
  OBVIOUS
<1>1. TypeOK
  BY RpcAssumption, EmptySeq DEF Init, TypeOK, Sessions
<1>2. MessageInv /\ OrderInv
  BY DEF Init, MessageInv, OrderInv
<1>3. PhaseInv /\ AnsweringInv /\ RunnableInv
  BY DEF Init, PhaseInv, PhaseOK, AnsweringInv, RunnableInv, RunnableOK
<1>4. SuspendedInv /\ CallsOwed
  BY DEF Init, SuspendedInv, SuspendedOK, CallsOwed
<1>5. SentInv
  BY RpcAssumption DEF Init, SentInv, SentOK, Requests
<1> QED
  BY <1>1, <1>2, <1>3, <1>4, <1>5 DEF IInv

\* ... and every step preserves it.
LEMMA NextInv == IInv /\ [Next]_vars => IInv'
<1> SUFFICES ASSUME IInv, [Next]_vars PROVE IInv'
  OBVIOUS
<1>1. CASE UNCHANGED vars
  <2>1. /\ Calm /\ phase' = phase /\ accepts' = accepts /\ unnotified' = unnotified
        /\ running_thread' = running_thread /\ asleep' = asleep
        /\ next_session_id' = next_session_id /\ returned' = returned
    BY <1>1 DEF vars, tables, coroutines, ending, replies, Calm
  <2>2. TypeOK' /\ PhaseInv' /\ RunnableInv'
    BY <2>1 DEF IInv, Calm, TypeOK, PhaseInv, PhaseOK, RunnableInv, RunnableOK
  <2> QED
    BY <2>1, <2>2, CalmStep, CalmAnswering, CalmOwed DEF IInv
<1>2. ASSUME NEW s \in Services, Proceed(s)
      PROVE  IInv'
  BY <1>2, HandleRequestStep, HandleAnswerStep, WakeUpStep, StartStopStep, DrainStep,
     NotifyStopStep, ReplyPendingStep, ExitStep DEF Proceed
<1>3. ASSUME NEW s \in Services, NEW to \in Services,
             CallAccepted(s, to)
      PROVE  IInv'
  BY <1>3, CallAcceptedStep
<1>4. ASSUME NEW s \in Services,
             \/ Create(s) \/ Inject(s) \/ Start(s) \/ StopAccepting(s)
             \/ LoopReturns(s) \/ Finish(s) \/ Sleep(s) \/ CallRefused(s)
      PROVE  IInv'
  BY <1>4, InjectStep, StartStopStep, FinishStep, SleepStep, CallRefusedStep
<1> QED
  BY <1>1, <1>2, <1>3, <1>4 DEF Next

\* The invariant holds.
THEOREM RpcInvariant == Spec => []IInv
BY InitInv, NextInv, PTL DEF Spec

\* Every variable keeps its type; a session number wraps to 1 (allocate_session).
THEOREM RpcTypeOK == Spec => []TypeOK
<1>1. IInv => TypeOK
  BY DEF IInv
<1> QED
  BY <1>1, RpcInvariant, PTL

\* A request is answered at most once, by its handler, by the drain or by
\* reply_pending, whenever its service is stopped; the service that received it may
\* answer again only when its own loop has ended by uv.stop (service.c:649).
THEOREM RpcAnsweredOnce == Spec => []AnsweredOnce
<1>1. ASSUME IInv PROVE AnsweredOnce
  <2> SUFFICES ASSUME NEW r \in 1 .. Len(sent)
               PROVE  answers[r] <= 1 \/ returned[sent[r].to]
    BY DEF AnsweredOnce
  <2>1. r \in Requests
    BY <1>1, RpcAssumption DEF IInv, TypeOK, Requests
  <2> QED
    BY <1>1, <2>1 DEF IInv, SentInv, SentOK
<1> QED
  BY <1>1, RpcInvariant, PTL

\* As long as no loop has ended by uv.stop, an answer finds under its session the
\* coroutine that asked for it, although session numbers are used again.
THEOREM RpcAnswersMatch == Spec => []AnswersMatch
<1>1. ASSUME IInv PROVE AnswersMatch
  <2> SUFFICES ASSUME ~Loose,
                      NEW s \in Services, NEW i \in 1 .. Len(inbox[s]),
                      inbox[s][i].type # "request"
               PROVE  /\ suspended[s][inbox[s][i].session] # None
                      /\ awaits[suspended[s][inbox[s][i].session]] = inbox[s][i].id
    BY DEF AnswersMatch, Loose
  <2>1. MessageOK(s, inbox[s][i])
    BY <1>1 DEF IInv, MessageInv
  <2>2. phase[s] # "gone"
    BY <1>1 DEF IInv, PhaseInv, PhaseOK
  <2> QED
    BY <2>1, <2>2 DEF MessageOK, IsAwaited
<1> QED
  BY <1>1, RpcInvariant, PTL

\* A caller that waits and accepts messages is owed an answer by someone, whoever
\* has been stopped, unless the answer was sent and refused for want of memory
\* (service.lua:260-271).
THEOREM RpcCallsOwed == Spec => []CallsOwed
<1>1. IInv => CallsOwed
  BY DEF IInv
<1> QED
  BY <1>1, RpcInvariant, PTL

=============================================================================
