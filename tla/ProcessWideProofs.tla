------------------------- MODULE ProcessWideProofs -------------------------
(***************************************************************************)
(* What TLC checks of the logger on small buffers, proved for a buffer of  *)
(* any size and any threads, calls and messages: no record is longer than  *)
(* the buffer, a record has all of its message or the mark that it was     *)
(* cut, the lines of a record for journald have their priority, records of *)
(* several threads do not interleave, and the environment does not undo    *)
(* what a program has chosen.  Then, what the luv loader promises.         *)
(***************************************************************************)
EXTENDS ProcessWide, Iteration, FiniteSetTheorems, SequenceTheorems, TLAPS

\* The bytes of records, and what leaves room for the newline.
Byte == {"c", "n", "h", "f", "<", "p", ">", "."}

Short == {b \in Seq(Byte) : Len(b) <= LOG_LINE_MAX - 1}

-----------------------------------------------------------------------------
(* The buffer *)

\* The first m bytes of a text.
LEMMA FirstBytes ==
    ASSUME NEW s \in Seq(Byte), NEW m \in Nat, m <= Len(s)
    PROVE  SubSeq(s, 1, m) \in Seq(Byte) /\ Len(SubSeq(s, 1, m)) = m
OBVIOUS

\* As many of them as there are, up to n.
LEMMA Beginning ==
    ASSUME NEW s \in Seq(Byte), NEW n \in Nat, NEW m, m = Min({Len(s), n})
    PROVE  /\ SubSeq(s, 1, m) \in Seq(Byte)
           /\ Len(SubSeq(s, 1, m)) = m
           /\ m \in Nat /\ m <= n /\ m <= Len(s)
<1>1. Len(s) \in Nat
  OBVIOUS
<1>2. m = IF Len(s) <= n THEN Len(s) ELSE n
  BY <1>1, MinOfTwo
<1>3. m \in Nat /\ m <= n /\ m <= Len(s)
  BY <1>1, <1>2
<1> QED
  BY ONLY <1>3, s \in Seq(Byte), FirstBytes

\* append never fills the last byte, and takes nothing away.
LEMMA AppendFits ==
    ASSUME NEW buf \in Short, NEW s \in Seq(Byte)
    PROVE  /\ append(buf, s) \in Short
           /\ Len(buf) <= Len(append(buf, s))
           /\ Len(append(buf, s)) <= Len(buf) + Len(s)
<1> DEFINE n == LOG_LINE_MAX - 1 - Len(buf)
           m == Min({Len(s), n})
           t == SubSeq(s, 1, m)
<1>1. n \in Nat /\ Len(buf) \in Nat /\ buf \in Seq(Byte) /\ Len(s) \in Nat
  BY LogAssumption DEF Short
<1>2. t \in Seq(Byte) /\ Len(t) \in Nat /\ Len(t) <= n /\ Len(t) <= Len(s)
  <2> HIDE DEF n
  <2> QED
    BY <1>1, Beginning
<1> HIDE DEF t
<1>3. buf \o t \in Seq(Byte) /\ Len(buf \o t) = Len(buf) + Len(t)
  BY <1>1, <1>2
<1>4. append(buf, s) = buf \o t
  BY DEF append, t
<1> QED
  BY <1>1, <1>2, <1>3, <1>4, LogAssumption DEF Short

\* A run of one byte.
LEMMA ManyFits ==
    ASSUME NEW b \in Byte, NEW n \in Nat
    PROVE  Many(b, n) \in Seq(Byte) /\ Len(Many(b, n)) = n
BY DEF Many

\* Head and location leave room.
LEMMA LocatedFits ==
    ASSUME NEW fmt, NEW file \in Nat
    PROVE  Located(Header(fmt), file) \in Short
<1> DEFINE h == Header(fmt)
<1>1. LOG_LINE_MAX \in Nat /\ HeadSize \in Nat /\ HeadSize + 6 < LOG_LINE_MAX
  BY LogAssumption
<1>2. h \in Seq(Byte) /\ Len(h) \in Nat /\ Len(h) <= LOG_LINE_MAX - 2
  <2>1. CASE fmt = "journal"
    <3>1. /\ <<>> \in Seq(Byte) /\ Len(<<>>) = 0
          /\ Prefix \in Seq(Byte) /\ Len(Prefix) = 3
      BY DEF Prefix, Byte
    <3>2. <<>> \in Short
      BY <1>1, <3>1 DEF Short
    <3>3. h = append(<<>>, Prefix)
      BY <2>1 DEF Header
    <3> HIDE DEF h
    <3>4. h \in Short /\ Len(h) <= Len(<<>>) + Len(Prefix)
      BY ONLY <3>1, <3>2, <3>3, AppendFits
    <3> QED
      BY <1>1, <3>1, <3>4 DEF Short
  <2>2. CASE fmt # "journal"
    <3>1. h = Many("h", HeadSize) /\ "h" \in Byte
      BY <2>2 DEF Header, Byte
    <3> QED
      BY <1>1, <3>1, ManyFits
  <2> QED
    BY <2>1, <2>2
<1> HIDE DEF h
<1>3. CASE file = 0
  BY <1>1, <1>2, <1>3 DEF Located, Short, h
<1>4. CASE file # 0
  <2> DEFINE m == Min({file, LOG_LINE_MAX - 2 - Len(h)})
  <2>1. m \in Nat /\ m <= LOG_LINE_MAX - 2 - Len(h)
    BY <1>1, <1>2, MinOfTwo
  <2> HIDE DEF m
  <2>2. Many("f", m) \in Seq(Byte) /\ Len(Many("f", m)) = m
    BY <2>1, ManyFits DEF Byte
  <2>3. h \o Many("f", m) \in Seq(Byte) /\ Len(h \o Many("f", m)) = Len(h) + m
    BY <1>2, <2>2
  <2>4. Located(h, file) = h \o Many("f", m)
    BY <1>4 DEF Located, m
  <2>5. Located(h, file) \in Short
    BY <1>1, <1>2, <2>1, <2>3, <2>4 DEF Short
  <2> QED
    BY <2>5 DEF h
<1> QED
  BY <1>3, <1>4

\* The states of the loop over the lines of a message.
Turns(msg) == [buf : Short, p : 0 .. Len(msg), cut : BOOLEAN]

\* Before the first turn.
FirstTurn(buf) == [buf |-> buf, p |-> 0, cut |-> FALSE]

\* A turn of the loop keeps to the buffer and to the message.
LEMMA NextLineFits ==
    ASSUME NEW msg \in Seq(Byte), NEW fmt, NEW s \in Turns(msg)
    PROVE  NextLine(s, msg, fmt) \in Turns(msg)
<1> DEFINE newlines == {i \in s.p + 1 .. Len(msg) : msg[i] = "n"}
           last == IF newlines = {} THEN Len(msg) ELSE Min(newlines)
           b == append(s.buf, SubSeq(msg, s.p + 1, last))
           more == newlines # {} /\ last < Len(msg)
           c == Continued(b, fmt, more)
<1>1. /\ s.buf \in Short /\ s.p \in 0 .. Len(msg) /\ s.cut \in BOOLEAN
      /\ Len(msg) \in Nat
  BY DEF Turns
<1>2. last \in 0 .. Len(msg)
  <2>1. newlines \in SUBSET Nat
    BY <1>1
  <2>2. newlines # {} => Min(newlines) \in newlines
    BY <2>1, MinOfSet
  <2> QED
    BY <1>1, <2>2
<1> HIDE DEF last, newlines
<1>3. SubSeq(msg, s.p + 1, last) \in Seq(Byte)
  BY <1>1, <1>2
<1>4. b \in Short
  BY <1>1, <1>3, AppendFits
<1> HIDE DEF b
<1>5. c.buf \in Short /\ c.cut \in BOOLEAN
  <2>1. Prefix \in Seq(Byte)
    BY DEF Prefix, Byte
  <2>2. append(b, Prefix) \in Short
    BY <1>4, <2>1, AppendFits
  <2>3. CASE fmt = "journal" /\ more
    <3>1. /\ c.buf = append(b, Prefix)
          /\ c.cut = (Len(append(b, Prefix)) - Len(b) < Len(Prefix))
      BY <2>3 DEF Continued
    <3> HIDE DEF c
    <3>2. c.cut \in BOOLEAN
      BY ONLY <3>1
    <3> QED
      BY <2>2, <3>1, <3>2
  <2>4. CASE ~(fmt = "journal" /\ more)
    BY <1>4, <2>4 DEF Continued
  <2> QED
    BY <2>3, <2>4
<1> HIDE DEF c
<1>6. NextLine(s, msg, fmt) =
        CASE s.p = Len(msg) \/ s.cut -> s
          [] ~(s.p = Len(msg) \/ s.cut) /\ Len(b) - Len(s.buf) < last - s.p ->
               [buf |-> b, p |-> last, cut |-> TRUE]
          [] OTHER -> [buf |-> c.buf, p |-> last, cut |-> c.cut]
  BY DEF NextLine, newlines, last, b, c, more
<1>7. /\ [buf |-> b, p |-> last, cut |-> TRUE] \in Turns(msg)
      /\ [buf |-> c.buf, p |-> last, cut |-> c.cut] \in Turns(msg)
  BY <1>2, <1>4, <1>5 DEF Turns
<1> QED
  BY <1>6, <1>7

\* What the loop does: turn[n] is its state after n turns.
IsLoop(turn, buf, msg, fmt) ==
    /\ turn[0] = FirstTurn(buf)
    /\ \A n \in Nat : turn[n] \in Turns(msg)
    /\ \A n \in Nat : turn[n + 1] = NextLine(turn[n], msg, fmt)
    /\ Lines(buf, msg, fmt) = turn[Len(msg)]

\* Lines is the last of the turns of the loop.
LEMMA LinesIsLoop ==
    ASSUME NEW buf, NEW msg, NEW fmt,
           FirstTurn(buf) \in Turns(msg),
           \A s \in Turns(msg) : NextLine(s, msg, fmt) \in Turns(msg)
    PROVE  \E turn : IsLoop(turn, buf, msg, fmt)
<1> DEFINE S == Turns(msg)
           step == [s \in S |-> NextLine(s, msg, fmt)]
           Eq(g) == g = [n \in Nat |-> IF n = 0 THEN FirstTurn(buf)
                                       ELSE NextLine(g[n - 1], msg, fmt)]
           turn == CHOOSE g : Eq(g)
<1>1. FirstTurn(buf) \in S /\ step \in [S -> S]
  OBVIOUS
<1>2. Lines(buf, msg, fmt) = turn[Len(msg)]
  BY DEF Lines, FirstTurn
<1>3. PICK f \in [Nat -> S] :
          \A n \in Nat : f[n] = IF n = 0 THEN FirstTurn(buf) ELSE step[f[n - 1]]
  <2> HIDE DEF step, S
  <2> QED
    BY <1>1, Iterated
<1>4. Eq(turn)
  <2>1. \A n \in Nat : n # 0 => n - 1 \in Nat
    OBVIOUS
  <2>2. \A n \in Nat : f[n] = IF n = 0 THEN FirstTurn(buf) ELSE NextLine(f[n - 1], msg, fmt)
    BY <1>3, <2>1
  <2>3. f = [n \in Nat |-> IF n = 0 THEN FirstTurn(buf) ELSE NextLine(f[n - 1], msg, fmt)]
    BY <1>3, <2>2
  <2>4. Eq(f)
    BY <2>3
  <2> HIDE DEF Eq
  <2> QED
    BY <2>4
<1> HIDE DEF turn
<1>5. turn[0] = FirstTurn(buf)
  BY <1>4
<1>6. ASSUME NEW n \in Nat
      PROVE  turn[n + 1] = NextLine(turn[n], msg, fmt)
  <2>1. n + 1 \in Nat /\ n + 1 # 0 /\ (n + 1) - 1 = n
    OBVIOUS
  <2> QED
    BY <1>4, <2>1
<1> DEFINE P == {n \in Nat : turn[n] \in Turns(msg)}
<1>7. 0 \in P
  BY <1>1, <1>5
<1>8. ASSUME NEW n \in Nat, n \in P
      PROVE  n + 1 \in P
  BY <1>6, <1>8
<1>9. \A n \in Nat : n \in P
  <2> HIDE DEF P
  <2> QED
    BY <1>7, <1>8, NatInd
<1>10. IsLoop(turn, buf, msg, fmt)
  BY <1>2, <1>5, <1>6, <1>9 DEF IsLoop
<1> QED
  BY <1>10

\* So does the whole loop.
LEMMA LinesFit ==
    ASSUME NEW buf \in Short, NEW msg \in Seq(Byte), NEW fmt
    PROVE  Lines(buf, msg, fmt) \in Turns(msg)
<1>1. FirstTurn(buf) \in Turns(msg)
  BY DEF Turns, FirstTurn
<1>2. \A s \in Turns(msg) : NextLine(s, msg, fmt) \in Turns(msg)
  BY NextLineFits
<1>3. PICK turn : IsLoop(turn, buf, msg, fmt)
  BY <1>1, <1>2, LinesIsLoop
<1>4. Len(msg) \in Nat
  OBVIOUS
<1> QED
  BY <1>3, <1>4 DEF IsLoop

\* A record fits into the buffer, its newline included.
LEMMA EmitFits ==
    ASSUME NEW fmt, NEW file \in Nat, NEW msg \in Seq({"c", "n"})
    PROVE  emit(fmt, file, msg) \in Seq(Byte) /\ Len(emit(fmt, file, msg)) <= LOG_LINE_MAX
<1> DEFINE message == SubSeq(msg, 1, Min({Len(msg), LOG_LINE_MAX - 1}))
           body == Lines(Located(Header(fmt), file), message, fmt)
           cut == body.cut \/ Len(msg) >= LOG_LINE_MAX
           short == SubSeq(body.buf, 1,
                           Min({Len(body.buf), LOG_LINE_MAX - 1 - Len(Truncated)}))
<1>1. LOG_LINE_MAX \in Nat /\ LOG_LINE_MAX > 6 /\ LOG_LINE_MAX - 1 \in Nat
  BY LogAssumption
<1>2. message \in Seq(Byte)
  <2>1. msg \in Seq(Byte)
    <3>1. {"c", "n"} \subseteq Byte
      BY DEF Byte
    <3> QED
      BY <3>1
  <2> QED
    BY <1>1, <2>1, Beginning
<1> HIDE DEF message
<1>3. body \in Turns(message)
  BY <1>2, LocatedFits, LinesFit
<1> HIDE DEF body
<1>4. body.buf \in Short /\ body.buf \in Seq(Byte)
  BY <1>3 DEF Turns, Short
<1>5. Truncated \in Seq(Byte) /\ Len(Truncated) = 3
  BY DEF Truncated, Byte
<1>6. short \in Short
  <2>1. LOG_LINE_MAX - 1 - Len(Truncated) \in Nat
    BY <1>1, <1>5
  <2>2. /\ short \in Seq(Byte)
        /\ Len(short) <= LOG_LINE_MAX - 1 - Len(Truncated) /\ Len(short) \in Nat
    BY <1>4, <2>1, Beginning
  <2> HIDE DEF short
  <2> QED
    BY <1>1, <1>5, <2>2 DEF Short
<1> HIDE DEF short, cut
<1>7. Marked(body.buf, cut) \in Short
  <2>1. append(short, Truncated) \in Short
    BY <1>5, <1>6, AppendFits
  <2> QED
    BY <1>4, <2>1 DEF Marked, short
<1> DEFINE marked == Marked(body.buf, cut)
<1>8. emit(fmt, file, msg) = Append(marked, "n")
  BY DEF emit, message, body, cut
<1> HIDE DEF marked
<1>9. marked \in Seq(Byte) /\ Len(marked) <= LOG_LINE_MAX - 1 /\ Len(marked) \in Nat
  BY <1>7 DEF Short, marked
<1>10. Append(marked, "n") \in Seq(Byte) /\ Len(Append(marked, "n")) = Len(marked) + 1
  BY <1>9 DEF Byte
<1> QED
  BY <1>1, <1>8, <1>9, <1>10

-----------------------------------------------------------------------------
(* What a record has *)

Text == {"c", "n"}

\* A byte after two texts.
LEMMA AppendLast ==
    ASSUME NEW a \in Seq(Text), NEW b \in Seq(Text), NEW x \in Text
    PROVE  Append(a \o b, x) = a \o Append(b, x)
<1> DEFINE l == Append(a \o b, x)
           r == a \o Append(b, x)
<1>1. l \in Seq(Text) /\ r \in Seq(Text) /\ Len(l) = Len(r)
  OBVIOUS
<1>2. \A i \in 1 .. Len(l) : l[i] = r[i]
  OBVIOUS
<1> HIDE DEF l, r
<1>3. l = r
  BY ONLY <1>1, <1>2, SeqEqual
<1> QED
  BY <1>3 DEF l, r

\* What Without does: kept[n] is what it has kept of the first n bytes.
IsKept(kept, bytes) ==
    /\ kept[0] = <<>>
    /\ \A n \in Nat : kept[n] \in Seq(Text)
    /\ \A n \in Nat :
         kept[n + 1] = IF bytes[n + 1] \in Text THEN Append(kept[n], bytes[n + 1])
                       ELSE kept[n]
    /\ Without(bytes) = kept[Len(bytes)]

\* Without takes byte by byte.
LEMMA WithoutIsLoop ==
    ASSUME NEW bytes
    PROVE  \E kept : IsKept(kept, bytes)
<1> DEFINE S == Seq(Text)
           One(n, k) == IF bytes[n] \in Text THEN Append(k, bytes[n]) ELSE k
           step == [n \in Nat |-> [k \in S |-> One(n, k)]]
           Eq(g) == g = [n \in Nat |-> IF n = 0 THEN <<>>
                                       ELSE IF bytes[n] \in Text
                                       THEN Append(g[n - 1], bytes[n])
                                       ELSE g[n - 1]]
           kept == CHOOSE g : Eq(g)
<1>1. <<>> \in S
  OBVIOUS
<1>2. step \in [Nat -> [S -> S]]
  <2>1. ASSUME NEW n \in Nat, NEW k \in S
        PROVE  One(n, k) \in S
    OBVIOUS
  <2> HIDE DEF One, S
  <2> QED
    BY <2>1
<1>3. Without(bytes) = kept[Len(bytes)]
  BY DEF Without, Text
<1>4. PICK f \in [Nat -> S] :
          \A n \in Nat : f[n] = IF n = 0 THEN <<>> ELSE step[n][f[n - 1]]
  <2> HIDE DEF step, S
  <2> QED
    BY <1>1, <1>2, IteratedAt
<1>5. Eq(kept)
  <2>1. ASSUME NEW n \in Nat
        PROVE  f[n] = IF n = 0 THEN <<>>
                      ELSE IF bytes[n] \in Text THEN Append(f[n - 1], bytes[n])
                      ELSE f[n - 1]
    <3>1. CASE n = 0
      BY <1>4, <3>1
    <3>2. CASE n # 0
      <4>1. n - 1 \in Nat /\ f[n - 1] \in S
        BY <3>2
      <4> HIDE DEF S
      <4>2. step[n][f[n - 1]] = One(n, f[n - 1])
        BY <4>1
      <4> QED
        BY <1>4, <3>2, <4>2
    <3> QED
      BY <3>1, <3>2
  <2>2. Eq(f)
    BY <2>1
  <2> HIDE DEF Eq
  <2> QED
    BY <2>2
<1> HIDE DEF kept
<1>6. kept[0] = <<>>
  BY <1>5
<1>7. ASSUME NEW n \in Nat
      PROVE  kept[n + 1] = IF bytes[n + 1] \in Text THEN Append(kept[n], bytes[n + 1])
                           ELSE kept[n]
  <2>1. n + 1 \in Nat /\ n + 1 # 0 /\ (n + 1) - 1 = n
    OBVIOUS
  <2> QED
    BY <1>5, <2>1
<1> DEFINE P == {n \in Nat : kept[n] \in Seq(Text)}
<1>8. 0 \in P
  <2>1. <<>> \in Seq(Text)
    OBVIOUS
  <2> QED
    BY ONLY <1>6, <2>1
<1>9. ASSUME NEW n \in Nat, n \in P
      PROVE  n + 1 \in P
  <2>1. n + 1 \in Nat /\ kept[n] \in Seq(Text)
    BY ONLY <1>9
  <2>2. bytes[n + 1] \in Text => Append(kept[n], bytes[n + 1]) \in Seq(Text)
    BY ONLY <2>1
  <2> QED
    BY ONLY <1>7, <2>1, <2>2
<1>10. \A n \in Nat : n \in P
  <2> HIDE DEF P
  <2> QED
    BY <1>8, <1>9, NatInd
<1>11. IsKept(kept, bytes)
  BY <1>3, <1>6, <1>7, <1>10 DEF IsKept
<1> QED
  BY <1>11

\* One byte more.
LEMMA WithoutAppend ==
    ASSUME NEW buf \in Seq(Byte), NEW x \in Byte
    PROVE  /\ Without(buf) \in Seq(Text)
           /\ Without(Append(buf, x)) =
                IF x \in Text THEN Append(Without(buf), x) ELSE Without(buf)
<1> DEFINE more == Append(buf, x)
           n == Len(buf)
<1>1. PICK f : IsKept(f, buf)
  BY WithoutIsLoop
<1>2. PICK g : IsKept(g, more)
  BY WithoutIsLoop
<1>3. /\ n \in Nat /\ more \in Seq(Byte) /\ Len(more) = n + 1 /\ more[n + 1] = x
      /\ \A i \in 1 .. n : more[i] = buf[i]
  OBVIOUS
<1> HIDE DEF more, n
<1> DEFINE P == {i \in Nat : i <= n => f[i] = g[i]}
<1>4. 0 \in P
  BY <1>1, <1>2 DEF IsKept
<1>5. ASSUME NEW i \in Nat, i \in P
      PROVE  i + 1 \in P
  <2> SUFFICES ASSUME i + 1 <= n PROVE f[i + 1] = g[i + 1]
    OBVIOUS
  <2>1. f[i] = g[i] /\ more[i + 1] = buf[i + 1]
    BY <1>3, <1>5
  <2> QED
    BY <1>1, <1>2, <2>1 DEF IsKept
<1>6. \A i \in Nat : i \in P
  <2> HIDE DEF P
  <2> QED
    BY <1>4, <1>5, NatInd
<1>7. f[n] = g[n]
  BY <1>3, <1>6
<1>8. Without(buf) = f[n] /\ f[n] \in Seq(Text)
  BY <1>1, <1>3 DEF IsKept, n
<1>9. Without(more) = g[n + 1]
  BY <1>2, <1>3 DEF IsKept
<1>10. g[n + 1] = IF x \in Text THEN Append(g[n], x) ELSE g[n]
  BY <1>2, <1>3 DEF IsKept
<1> QED
  BY <1>7, <1>8, <1>9, <1>10 DEF more

\* The empty sequence has nothing.
LEMMA WithoutNothing == Without(<<>>) = <<>>
<1>1. PICK f : IsKept(f, <<>>)
  BY WithoutIsLoop
<1>2. Len(<<>>) = 0
  OBVIOUS
<1> QED
  BY <1>1, <1>2 DEF IsKept

\* Text that is added is kept, the rest is not.
LEMMA WithoutAdded ==
    ASSUME NEW buf \in Seq(Byte), NEW s \in Seq(Byte)
    PROVE  /\ (\A i \in 1 .. Len(s) : s[i] \in Text) => Without(buf \o s) = Without(buf) \o s
           /\ (\A i \in 1 .. Len(s) : s[i] \notin Text) => Without(buf \o s) = Without(buf)
<1> DEFINE first(n) == SubSeq(s, 1, n)
           T == \A i \in 1 .. Len(s) : s[i] \in Text
           N == \A i \in 1 .. Len(s) : s[i] \notin Text
           Holds(n) == /\ T => Without(buf \o first(n)) = Without(buf) \o first(n)
                       /\ N => Without(buf \o first(n)) = Without(buf)
           P == {n \in Nat : n <= Len(s) => Holds(n)}
<1>0. Len(s) \in Nat /\ Without(buf) \in Seq(Text)
  <2>1. "c" \in Byte
    BY DEF Byte
  <2> QED
    BY <2>1, WithoutAppend
<1> DEFINE w == Without(buf)
<1>1. 0 \in P
  <2>1. first(0) = <<>> /\ buf \o <<>> = buf
    OBVIOUS
  <2>2. w \o <<>> = w
    <3> HIDE DEF w
    <3> QED
      BY <1>0 DEF w
  <2> QED
    BY <2>1, <2>2
<1>2. ASSUME NEW n \in Nat, n \in P
      PROVE  n + 1 \in P
  <2> SUFFICES ASSUME n + 1 <= Len(s) PROVE Holds(n + 1)
    OBVIOUS
  <2> DEFINE b == buf \o first(n)
             x == s[n + 1]
  <2>1. /\ first(n) \in Seq(Byte) /\ x \in Byte
        /\ b \in Seq(Byte)
    BY <1>0
  <2>2. first(n + 1) = Append(first(n), x)
    BY <1>0
  <2>3. buf \o Append(first(n), x) = Append(b, x)
    <3> HIDE DEF x, first
    <3> QED
      BY <2>1 DEF b
  <2>4. Without(Append(b, x)) = IF x \in Text THEN Append(Without(b), x) ELSE Without(b)
    <3> HIDE DEF b, x
    <3> QED
      BY <2>1, WithoutAppend
  <2>5. Holds(n)
    BY <1>0, <1>2
  <2>6. ASSUME T PROVE Without(b) = w \o first(n) /\ first(n) \in Seq(Text) /\ x \in Text
    <3>1. Without(b) = w \o first(n)
      BY <2>5, <2>6
    <3>2. \A i \in 1 .. n : s[i] \in Text
      BY <1>0, <2>6
    <3> QED
      BY <1>0, <2>6, <3>1, <3>2
  <2>7. ASSUME T PROVE Append(w \o first(n), x) = w \o Append(first(n), x)
    <3>1. w \in Seq(Text) /\ first(n) \in Seq(Text) /\ x \in Text
      BY <1>0, <2>6, <2>7
    <3> HIDE DEF w, x, first
    <3> QED
      BY ONLY <3>1, AppendLast
  <2>8. ASSUME N PROVE Without(b) = w /\ x \notin Text
    BY <1>0, <2>5, <2>8
  <2> HIDE DEF b, x, w
  <2> QED
    BY <2>2, <2>3, <2>4, <2>6, <2>7, <2>8 DEF w
<1>3. \A n \in Nat : n \in P
  <2> HIDE DEF P
  <2> QED
    BY <1>1, <1>2, NatInd
<1>4. Holds(Len(s))
  BY <1>0, <1>3
<1>5. first(Len(s)) = s
  OBVIOUS
<1> QED
  BY <1>4, <1>5

\* append adds the first bytes of s, all of them unless the buffer is full then.
LEMMA AppendIs ==
    ASSUME NEW buf \in Short, NEW s \in Seq(Byte)
    PROVE  LET b == append(buf, s)
               k == Len(b) - Len(buf)
           IN /\ k \in 0 .. Len(s)
              /\ b = buf \o SubSeq(s, 1, k)
              /\ \A i \in 1 .. Len(buf) : b[i] = buf[i]
              /\ \A i \in 1 .. k : b[Len(buf) + i] = s[i]
              /\ k = Len(s) => b = buf \o s
              /\ k < Len(s) => Len(b) = LOG_LINE_MAX - 1
<1> DEFINE n == LOG_LINE_MAX - 1 - Len(buf)
           m == Min({Len(s), n})
           t == SubSeq(s, 1, m)
           b == append(buf, s)
<1>1. n \in Nat /\ Len(buf) \in Nat /\ buf \in Seq(Byte) /\ Len(s) \in Nat
  BY LogAssumption DEF Short
<1>2. t \in Seq(Byte) /\ Len(t) = m /\ m \in Nat /\ m <= n /\ m <= Len(s)
  <2> HIDE DEF n
  <2> QED
    BY <1>1, Beginning
<1>3. m = IF Len(s) <= n THEN Len(s) ELSE n
  <2> HIDE DEF n
  <2> QED
    BY <1>1, MinOfTwo
<1>4. \A i \in 1 .. m : t[i] = s[i]
  <2> HIDE DEF m
  <2> QED
    BY <1>1, <1>2
<1>5. m = Len(s) => t = s
  <2> HIDE DEF m
  <2> QED
    BY <1>1, <1>2
<1>6. b = buf \o t
  BY DEF append
<1> HIDE DEF t, m, b
<1>7. Len(b) = Len(buf) + m
  <2>1. Len(buf \o t) = Len(buf) + Len(t)
    BY ONLY <1>1, <1>2
  <2> QED
    BY ONLY <1>2, <1>6, <2>1
<1>8. Len(b) - Len(buf) = m
  BY <1>1, <1>2, <1>7
<1>9. /\ \A i \in 1 .. Len(buf) : b[i] = buf[i]
      /\ \A i \in 1 .. m : b[Len(buf) + i] = s[i]
  <2>1. /\ \A i \in 1 .. Len(buf) : (buf \o t)[i] = buf[i]
        /\ \A i \in 1 .. Len(t) : (buf \o t)[Len(buf) + i] = t[i]
    BY ONLY <1>1, <1>2
  <2> QED
    BY <1>2, <1>4, <1>6, <2>1
<1>10. m < Len(s) => Len(b) = LOG_LINE_MAX - 1
  BY <1>1, <1>2, <1>3, <1>7, LogAssumption
<1> QED
  BY <1>1, <1>2, <1>5, <1>6, <1>8, <1>9, <1>10 DEF b, t

\* What a turn does when the message goes on: it takes the bytes up to last, the
\* next newline or the end of the message.
LineTaken(s, msg, fmt, last) ==
    LET b == append(s.buf, SubSeq(msg, s.p + 1, last))
        c == Continued(b, fmt, msg[last] = "n" /\ last < Len(msg))
    IN /\ \A i \in s.p + 1 .. last - 1 : msg[i] # "n"
       /\ msg[last] # "n" => last = Len(msg)
       /\ NextLine(s, msg, fmt) =
            IF Len(b) - Len(s.buf) < last - s.p THEN [buf |-> b, p |-> last, cut |-> TRUE]
            ELSE [buf |-> c.buf, p |-> last, cut |-> c.cut]

\* Every turn does it.
LEMMA NextLineTakes ==
    ASSUME NEW msg \in Seq(Text), NEW fmt, NEW s \in Turns(msg), ~ s.cut, s.p # Len(msg)
    PROVE  \E last \in s.p + 1 .. Len(msg) : LineTaken(s, msg, fmt, last)
<1> DEFINE newlines == {i \in s.p + 1 .. Len(msg) : msg[i] = "n"}
           last == IF newlines = {} THEN Len(msg) ELSE Min(newlines)
           b == append(s.buf, SubSeq(msg, s.p + 1, last))
           more == newlines # {} /\ last < Len(msg)
           c == Continued(b, fmt, more)
<1>1. s.p \in 0 .. Len(msg) /\ s.cut \in BOOLEAN /\ Len(msg) \in Nat
  BY DEF Turns
<1>2. /\ newlines \in SUBSET Nat
      /\ newlines # {} => Min(newlines) \in newlines /\ \A y \in newlines : Min(newlines) <= y
  <2>1. newlines \in SUBSET Nat
    BY <1>1
  <2> HIDE DEF newlines
  <2> QED
    BY <2>1, MinOfSet
<1>3. /\ last \in s.p + 1 .. Len(msg)
      /\ newlines = {} => last = Len(msg)
      /\ newlines # {} => msg[last] = "n"
      /\ \A i \in s.p + 1 .. last - 1 : msg[i] # "n"
  <2>1. CASE newlines = {}
    <3>1. \A i \in s.p + 1 .. Len(msg) : msg[i] # "n"
      BY <2>1
    <3> QED
      BY <1>1, <2>1, <3>1
  <2>2. CASE newlines # {}
    <3>1. last \in newlines /\ \A y \in newlines : last <= y
      BY <1>2, <2>2
    <3> HIDE DEF last
    <3> QED
      BY <1>1, <2>2, <3>1
  <2> QED
    BY <2>1, <2>2
<1>4. more = (msg[last] = "n" /\ last < Len(msg))
  <2> HIDE DEF last, newlines
  <2> QED
    BY <1>1, <1>3
<1>5. NextLine(s, msg, fmt) =
        CASE s.p = Len(msg) \/ s.cut -> s
          [] ~(s.p = Len(msg) \/ s.cut) /\ Len(b) - Len(s.buf) < last - s.p ->
               [buf |-> b, p |-> last, cut |-> TRUE]
          [] OTHER -> [buf |-> c.buf, p |-> last, cut |-> c.cut]
  BY DEF NextLine
<1> HIDE DEF newlines, last, more
<1>6. msg[last] # "n" => last = Len(msg)
  BY <1>3
<1>7. NextLine(s, msg, fmt) =
        IF Len(b) - Len(s.buf) < last - s.p THEN [buf |-> b, p |-> last, cut |-> TRUE]
        ELSE [buf |-> c.buf, p |-> last, cut |-> c.cut]
  <2> HIDE DEF b, c
  <2> QED
    BY <1>5
<1>8. c = Continued(b, fmt, msg[last] = "n" /\ last < Len(msg))
  BY <1>4
<1>9. LineTaken(s, msg, fmt, last)
  <2> HIDE DEF c
  <2> QED
    BY <1>3, <1>6, <1>7, <1>8 DEF LineTaken
<1> QED
  BY <1>3, <1>9

\* A part of a text.
LEMMA Part ==
    ASSUME NEW msg \in Seq(Text), NEW p \in Nat, NEW q \in Nat, p <= q, q <= Len(msg)
    PROVE  LET b == SubSeq(msg, p + 1, q)
           IN /\ b \in Seq(Text) /\ Len(b) = q - p
              /\ \A i \in 1 .. q - p : b[i] = msg[p + i]
OBVIOUS

\* The beginning of a text, and what comes after it.
LEMMA Joined ==
    ASSUME NEW msg \in Seq(Text), NEW p \in Nat, NEW q \in Nat, p <= q, q <= Len(msg)
    PROVE  SubSeq(msg, 1, p) \o SubSeq(msg, p + 1, q) = SubSeq(msg, 1, q)
<1> DEFINE a == SubSeq(msg, 1, p)
           b == SubSeq(msg, p + 1, q)
           c == SubSeq(msg, 1, q)
<1>1. /\ a \in Seq(Text) /\ Len(a) = p
      /\ b \in Seq(Text) /\ Len(b) = q - p
      /\ c \in Seq(Text) /\ Len(c) = q
  OBVIOUS
<1>2. /\ \A i \in 1 .. p : a[i] = msg[i]
      /\ \A i \in 1 .. q - p : b[i] = msg[p + i]
      /\ \A i \in 1 .. q : c[i] = msg[i]
  OBVIOUS
<1> HIDE DEF a, b, c
<1>3. a \o b \in Seq(Text) /\ Len(a \o b) = Len(a) + Len(b)
  BY ONLY <1>1, ConcatProperties
<1>4. Len(a \o b) = q
  BY ONLY <1>1, <1>3, p \in Nat, q \in Nat
<1>5. ASSUME NEW i \in 1 .. q
      PROVE  (a \o b)[i] = c[i]
  <2>1. (a \o b)[i] = IF i <= p THEN a[i] ELSE b[i - p]
    BY ONLY <1>1, p \in Nat, q \in Nat, i \in 1 .. q
  <2>2. CASE i <= p
    BY <1>2, <2>1, <2>2
  <2>3. CASE ~(i <= p)
    <3>1. i - p \in 1 .. q - p /\ p + (i - p) = i
      BY <2>3
    <3> QED
      BY <1>2, <2>1, <2>3, <3>1
  <2> QED
    BY <2>2, <2>3
<1>6. a \o b = c
  <2> DEFINE ab == a \o b
  <2>1. Len(ab) = Len(c) /\ \A i \in 1 .. Len(ab) : ab[i] = c[i]
    BY <1>1, <1>4, <1>5
  <2>2. ab \in Seq(Text) /\ c \in Seq(Text)
    BY <1>1, <1>3
  <2> HIDE DEF ab
  <2>3. ab = c
    BY ONLY <2>1, <2>2, SeqEqual
  <2> QED
    BY <2>3 DEF ab
<1> QED
  BY <1>6 DEF a, b, c

\* As long as nothing was cut, the buffer has the message as far as it was taken.
TextInv(s, msg) == ~ s.cut => Without(s.buf) = SubSeq(msg, 1, s.p)

\* A turn keeps the message, and takes at least a byte of it.
LEMMA NextLineText ==
    ASSUME NEW msg \in Seq(Text), NEW fmt, NEW s \in Turns(msg), TextInv(s, msg)
    PROVE  /\ TextInv(NextLine(s, msg, fmt), msg)
           /\ \/ NextLine(s, msg, fmt).cut
              \/ NextLine(s, msg, fmt).p = Len(msg)
              \/ NextLine(s, msg, fmt).p > s.p
<1>0. /\ s.buf \in Short /\ s.p \in 0 .. Len(msg) /\ s.cut \in BOOLEAN
      /\ Len(msg) \in Nat /\ s.buf \in Seq(Byte)
  BY DEF Turns, Short
<1>1. CASE s.p = Len(msg) \/ s.cut
  <2>1. NextLine(s, msg, fmt) = s
    BY <1>1 DEF NextLine
  <2> QED
    BY <1>1, <2>1
<1>2. CASE s.p # Len(msg) /\ ~ s.cut
  <2>1. PICK last \in s.p + 1 .. Len(msg) : LineTaken(s, msg, fmt, last)
    BY <1>2, NextLineTakes
  <2> DEFINE chunk == SubSeq(msg, s.p + 1, last)
             b == append(s.buf, chunk)
             more == msg[last] = "n" /\ last < Len(msg)
             c == Continued(b, fmt, more)
             k == Len(b) - Len(s.buf)
             d == append(b, Prefix)
  <2>2. NextLine(s, msg, fmt) =
            IF k < last - s.p THEN [buf |-> b, p |-> last, cut |-> TRUE]
            ELSE [buf |-> c.buf, p |-> last, cut |-> c.cut]
    BY <2>1 DEF LineTaken
  <2>3. NextLine(s, msg, fmt).p = last /\ last \in Nat /\ last > s.p /\ last <= Len(msg)
    <3> HIDE DEF b, c, k
    <3> QED
      BY <1>0, <2>2
  <2>4. /\ chunk \in Seq(Text) /\ Len(chunk) = last - s.p
        /\ \A i \in 1 .. Len(chunk) : chunk[i] \in Text
    <3>1. s.p \in Nat /\ s.p <= last
      BY <1>0, <2>3
    <3>2. chunk \in Seq(Text) /\ Len(chunk) = last - s.p
      BY ONLY <2>3, <3>1, msg \in Seq(Text), Part
    <3> HIDE DEF chunk
    <3> QED
      BY <3>2
  <2>5. chunk \in Seq(Byte)
    <3>1. Text \subseteq Byte
      BY DEF Text, Byte
    <3> HIDE DEF chunk
    <3> QED
      BY <2>4, <3>1
  <2>6. SubSeq(msg, 1, s.p) \o chunk = SubSeq(msg, 1, last)
    <3>1. s.p \in Nat /\ s.p <= last
      BY <1>0, <2>3
    <3> QED
      BY ONLY <2>3, <3>1, msg \in Seq(Text), Joined
  <2> HIDE DEF chunk
  <2>7. b \in Short /\ b \in Seq(Byte) /\ Len(b) \in Nat
    BY <1>0, <2>5, AppendFits DEF Short
  <2>8. k \in 0 .. Len(chunk) /\ (k = Len(chunk) => b = s.buf \o chunk)
    BY <1>0, <2>5, AppendIs
  <2> HIDE DEF b, k
  <2>9. ASSUME ~ NextLine(s, msg, fmt).cut
        PROVE  Without(NextLine(s, msg, fmt).buf) = SubSeq(msg, 1, last)
    <3>1. k = Len(chunk) /\ NextLine(s, msg, fmt).buf = c.buf /\ ~ c.cut
      <4> HIDE DEF c
      <4> QED
        BY <1>0, <2>2, <2>3, <2>4, <2>8, <2>9
    <3>2. Without(b) = SubSeq(msg, 1, last)
      <4>1. Without(s.buf \o chunk) = Without(s.buf) \o chunk
        BY <1>0, <2>4, <2>5, WithoutAdded
      <4>2. Without(s.buf) = SubSeq(msg, 1, s.p)
        BY <1>2 DEF TextInv
      <4> QED
        BY <2>6, <2>8, <3>1, <4>1, <4>2
    <3>3. more \in BOOLEAN
      OBVIOUS
    <3> HIDE DEF more, c
    <3>4. /\ (fmt = "journal" /\ more) => c.buf = d /\ c.cut = (Len(d) - Len(b) < 3)
          /\ ~(fmt = "journal" /\ more) => c.buf = b
      <4>1. Len(Prefix) = 3
        BY DEF Prefix
      <4>2. CASE fmt = "journal" /\ more
        BY ONLY <4>1, <4>2 DEF c, Continued
      <4>3. CASE ~(fmt = "journal" /\ more)
        BY ONLY <4>3 DEF c, Continued
      <4> QED
        BY ONLY <4>2, <4>3
    <3>5. CASE fmt = "journal" /\ more
      <4>1. /\ Prefix \in Seq(Byte) /\ Len(Prefix) = 3
            /\ \A i \in 1 .. Len(Prefix) : Prefix[i] \notin Text
        BY DEF Prefix, Byte, Text
      <4>2. Len(d) - Len(b) \in 0 .. 3 /\ (Len(d) - Len(b) = 3 => d = b \o Prefix)
        BY <2>7, <4>1, AppendIs
      <4> HIDE DEF d
      <4>3. d = b \o Prefix
        <5>1. ~(Len(d) - Len(b) < 3)
          BY ONLY <3>1, <3>4, <3>5, Zenon
        <5> QED
          BY ONLY <4>2, <5>1
      <4>4. Without(b \o Prefix) = Without(b)
        BY <2>7, <4>1, WithoutAdded
      <4> QED
        BY <3>1, <3>2, <3>4, <3>5, <4>3, <4>4
    <3>6. CASE ~(fmt = "journal" /\ more)
      BY <3>1, <3>2, <3>4, <3>6
    <3> QED
      BY <3>5, <3>6
  <2> QED
    BY <2>3, <2>9 DEF TextInv
<1> QED
  BY <1>0, <1>1, <1>2

\* The priority comes after the first i bytes.
PrefixAt(buf, i) ==
    i + 3 <= Len(buf) /\ buf[i + 1] = "<" /\ buf[i + 2] = "p" /\ buf[i + 3] = ">"

\* At most the beginning of the priority comes after place i.
Partial(buf, i) == \A j \in i + 1 .. Len(buf) : buf[j] \in {"<", "p"}

\* Every line begins with the priority, but for the last, if there was no room for
\* it, or if nothing comes after its newline.
LineInv(s, msg) ==
    /\ PrefixAt(s.buf, 0)
    /\ \A i \in 1 .. Len(s.buf) : s.buf[i] = "n" =>
         \/ PrefixAt(s.buf, i)
         \/ /\ s.cut \/ (s.p = Len(msg) /\ i = Len(s.buf))
            /\ Partial(s.buf, i)

\* What is added does not disturb the lines before it.
LEMMA PrefixStays ==
    ASSUME NEW buf \in Seq(Byte), NEW b \in Seq(Byte), Len(buf) <= Len(b),
           \A i \in 1 .. Len(buf) : b[i] = buf[i],
           NEW i \in Nat, PrefixAt(buf, i)
    PROVE  PrefixAt(b, i)
BY DEF PrefixAt

\* Of a record in journal format every turn leaves the lines in order.
LEMMA NextLineLines ==
    ASSUME NEW msg \in Seq(Text), NEW s \in Turns(msg), LineInv(s, msg)
    PROVE  LineInv(NextLine(s, msg, "journal"), msg)
<1> DEFINE new == NextLine(s, msg, "journal")
<1> SUFFICES LineInv(new, msg)
  OBVIOUS
<1>0. /\ s.buf \in Short /\ s.p \in 0 .. Len(msg) /\ s.cut \in BOOLEAN
      /\ Len(msg) \in Nat /\ s.buf \in Seq(Byte) /\ Len(s.buf) \in Nat
  BY DEF Turns, Short
<1>1. CASE s.p = Len(msg) \/ s.cut
  <2>1. new = s
    BY <1>1 DEF NextLine
  <2> QED
    BY <2>1
<1>2. CASE s.p # Len(msg) /\ ~ s.cut
  <2>1. PICK last \in s.p + 1 .. Len(msg) : LineTaken(s, msg, "journal", last)
    BY <1>2, NextLineTakes
  <2> DEFINE chunk == SubSeq(msg, s.p + 1, last)
             b == append(s.buf, chunk)
             more == msg[last] = "n" /\ last < Len(msg)
             c == Continued(b, "journal", more)
             k == Len(b) - Len(s.buf)
             d == append(b, Prefix)
             n == last - s.p
  <2>2. new = IF k < n THEN [buf |-> b, p |-> last, cut |-> TRUE]
              ELSE [buf |-> c.buf, p |-> last, cut |-> c.cut]
    BY <2>1 DEF LineTaken
  <2>3. /\ last \in Nat /\ last > s.p /\ last <= Len(msg) /\ n \in Nat /\ n > 0
        /\ s.p \in Nat /\ s.p + n = last
    BY <1>0
  <2>4. chunk \in Seq(Text) /\ Len(chunk) = n
    BY <2>3, Part
  <2>4a. \A i \in 1 .. n : chunk[i] = msg[s.p + i]
    BY <2>3, Part
  <2>5. chunk \in Seq(Byte)
    <3>1. Text \subseteq Byte
      BY DEF Text, Byte
    <3> HIDE DEF chunk
    <3> QED
      BY <2>4, <3>1
  <2> HIDE DEF chunk, n
  <2>5a. \A i \in 1 .. n - 1 : chunk[i] # "n"
    <3> SUFFICES ASSUME NEW i \in 1 .. n - 1 PROVE chunk[i] # "n"
      OBVIOUS
    <3>1. s.p + i \in s.p + 1 .. last - 1 /\ i \in 1 .. n
      BY <2>3
    <3>2. msg[s.p + i] # "n"
      BY <2>1, <3>1 DEF LineTaken
    <3> QED
      BY <2>4a, <3>1, <3>2
  <2>6. b \in Short /\ b \in Seq(Byte) /\ Len(b) \in Nat
    BY <1>0, <2>5, AppendFits DEF Short
  <2>7. /\ k \in 0 .. n
        /\ \A i \in 1 .. Len(s.buf) : b[i] = s.buf[i]
        /\ \A i \in 1 .. k : b[Len(s.buf) + i] = chunk[i]
    BY <1>0, <2>4, <2>5, AppendIs
  <2>7a. Len(b) = Len(s.buf) + k /\ Len(s.buf) <= Len(b)
    BY <1>0, <2>6, <2>7
  <2> HIDE DEF b, k
  \* What was there is in order.
  <2>8. PrefixAt(b, 0)
    <3>1. PrefixAt(s.buf, 0)
      BY DEF LineInv
    <3>2. 0 \in Nat
      OBVIOUS
    <3> QED
      BY ONLY <1>0, <2>6, <2>7, <2>7a, <3>1, <3>2, PrefixStays
  <2>9. ASSUME NEW i \in 1 .. Len(s.buf), s.buf[i] = "n"
        PROVE  PrefixAt(b, i)
    <3>1. PrefixAt(s.buf, i)
      BY <1>2, <2>9 DEF LineInv
    <3>2. i \in Nat
      BY <1>0
    <3> QED
      BY ONLY <1>0, <2>6, <2>7, <2>7a, <3>1, <3>2, PrefixStays
  \* The new bytes have a newline at most at their end.
  <2>10. ASSUME NEW i \in 1 .. Len(b), b[i] = "n"
         PROVE  PrefixAt(b, i) \/ (i = Len(b) /\ k = n /\ msg[last] = "n")
    <3>1. CASE i <= Len(s.buf)
      <4>1. i \in 1 .. Len(s.buf) /\ s.buf[i] = "n"
        BY <1>0, <2>7, <2>10, <3>1
      <4> QED
        BY <2>9, <4>1
    <3>2. CASE i > Len(s.buf)
      <4>1. /\ i - Len(s.buf) \in 1 .. k
            /\ Len(s.buf) + (i - Len(s.buf)) = i
        BY <1>0, <2>7, <2>7a, <3>2
      <4>2. chunk[i - Len(s.buf)] = "n"
        BY <2>7, <2>10, <4>1
      <4>3. i - Len(s.buf) \in 1 .. n /\ ~(i - Len(s.buf) \in 1 .. n - 1)
        BY <2>3, <2>5a, <2>7, <4>1, <4>2
      <4>4. i - Len(s.buf) = n
        BY <1>0, <2>3, <4>3
      <4>5. i = Len(b) /\ k = n
        <5>1. k \in Nat /\ k <= n /\ n <= k
          BY <2>3, <2>7, <4>1, <4>4
        <5>2. k = n
          BY <2>3, <5>1
        <5> QED
          BY <1>0, <2>3, <2>7a, <4>4, <5>2
      <4>6. msg[last] = "n"
        <5>1. n \in 1 .. n
          BY ONLY <2>3
        <5> QED
          BY ONLY <2>3, <2>4a, <4>2, <4>4, <5>1
      <4> QED
        BY <4>5, <4>6
    <3> QED
      BY <1>0, <2>6, <3>1, <3>2
  <2>11. CASE k < n
    <3>1. new.buf = b /\ new.cut
      <4> HIDE DEF c
      <4> QED
        BY <2>2, <2>11
    <3>2. \A i \in 1 .. Len(b) : b[i] = "n" => PrefixAt(b, i)
      BY <2>3, <2>7, <2>10, <2>11
    <3> HIDE DEF new
    <3> QED
      BY <2>8, <3>1, <3>2 DEF LineInv
  <2>12. CASE ~(k < n)
    <3>1. new.buf = c.buf /\ new.cut = c.cut /\ new.p = last
      <4> HIDE DEF c
      <4> QED
        BY <2>2, <2>12
    <3>2. more \in BOOLEAN
      OBVIOUS
    <3> HIDE DEF c
    <3>3. /\ more => c.buf = d /\ c.cut = (Len(d) - Len(b) < 3)
          /\ ~ more => c.buf = b /\ c.cut = FALSE
      <4>1. Len(Prefix) = 3
        BY DEF Prefix
      <4> HIDE DEF more
      <4>2. CASE more
        BY ONLY <4>1, <4>2 DEF c, Continued
      <4>3. CASE ~ more
        BY ONLY <4>3 DEF c, Continued
      <4> QED
        BY ONLY <4>2, <4>3
    <3> HIDE DEF new
    <3>4. CASE ~ more
      <4>1. \A i \in 1 .. Len(b) : b[i] = "n" =>
               PrefixAt(b, i) \/ (i = Len(b) /\ last = Len(msg))
        BY <2>3, <2>10, <3>4
      <4>2. Partial(b, Len(b))
        BY <2>6 DEF Partial
      <4>3. new.buf = b /\ new.p = last
        BY <3>1, <3>3, <3>4
      <4> QED
        BY <2>8, <4>1, <4>2, <4>3 DEF LineInv
    <3>5. CASE more
      <4> DEFINE q == Len(d) - Len(b)
      <4>1. /\ Prefix \in Seq(Byte) /\ Len(Prefix) = 3
            /\ Prefix[1] = "<" /\ Prefix[2] = "p" /\ Prefix[3] = ">"
        BY DEF Prefix, Byte
      <4>2. /\ q \in 0 .. 3
            /\ \A i \in 1 .. Len(b) : d[i] = b[i]
            /\ \A i \in 1 .. q : d[Len(b) + i] = Prefix[i]
        BY <2>6, <4>1, AppendIs
      <4>3. d \in Seq(Byte) /\ Len(d) \in Nat /\ Len(d) = Len(b) + q
        <5>1. d \in Short
          BY <2>6, <4>1, AppendFits
        <5>2. d \in Seq(Byte) /\ Len(d) \in Nat
          BY <5>1 DEF Short
        <5> QED
          BY <2>6, <5>2
      <4> HIDE DEF d, q
      <4>4. ASSUME NEW i \in Nat, PrefixAt(b, i)
            PROVE  PrefixAt(d, i)
        <5>1. Len(b) <= Len(d)
          BY ONLY <2>6, <4>2, <4>3
        <5> QED
          BY ONLY <2>6, <4>2, <4>3, <4>4, <5>1, i \in Nat, PrefixStays
      <4>5. q = 3 => PrefixAt(d, Len(b))
        <5> SUFFICES ASSUME q = 3 PROVE PrefixAt(d, Len(b))
          OBVIOUS
        <5>1. d[Len(b) + 1] = "<" /\ d[Len(b) + 2] = "p" /\ d[Len(b) + 3] = ">"
          BY <4>1, <4>2
        <5> QED
          BY <2>6, <4>3, <5>1 DEF PrefixAt
      <4>6. \A i \in 1 .. Len(d) : i > Len(b) => d[i] # "n"
        <5> SUFFICES ASSUME NEW i \in 1 .. Len(d), i > Len(b) PROVE d[i] # "n"
          OBVIOUS
        <5>1. i - Len(b) \in 1 .. q /\ Len(b) + (i - Len(b)) = i
          BY <2>6, <4>2, <4>3
        <5>2. d[i] = Prefix[i - Len(b)]
          BY <4>2, <5>1
        <5>3. i - Len(b) \in {1, 2, 3}
          BY <4>2, <5>1
        <5> QED
          BY <4>1, <5>2, <5>3
      <4>7. q < 3 => Partial(d, Len(b))
        <5> SUFFICES ASSUME q < 3, NEW j \in Len(b) + 1 .. Len(d)
                     PROVE  d[j] \in {"<", "p"}
          BY DEF Partial
        <5>1. j - Len(b) \in 1 .. q /\ Len(b) + (j - Len(b)) = j
          BY <2>6, <4>2, <4>3
        <5>2. d[j] = Prefix[j - Len(b)]
          BY <4>2, <5>1
        <5>3. j - Len(b) \in {1, 2}
          BY <4>2, <5>1
        <5> QED
          BY <4>1, <5>2, <5>3
      <4>8. new.buf = d
        BY <3>1, <3>3, <3>5
      <4>9. q = 3 \/ (q < 3 /\ new.cut)
        <5>1. new.cut = (q < 3)
          BY <3>1, <3>3, <3>5 DEF q
        <5>2. q < 3 \/ q = 3
          BY <4>2
        <5> QED
          BY <5>1, <5>2, Zenon
      <4>10. ASSUME NEW i \in 1 .. Len(d), d[i] = "n"
             PROVE  PrefixAt(d, i) \/ (new.cut /\ Partial(d, i))
        <5>1. i \in 1 .. Len(b) /\ b[i] = "n" /\ i \in Nat
          BY <2>6, <4>2, <4>3, <4>6, <4>10
        <5>2. PrefixAt(b, i) \/ i = Len(b)
          BY <2>10, <5>1
        <5> QED
          BY <4>4, <4>5, <4>7, <4>9, <5>1, <5>2
      <4>11. PrefixAt(d, 0)
        BY <2>8, <4>4
      <4> QED
        BY <4>8, <4>10, <4>11 DEF LineInv
    <3> QED
      BY <3>4, <3>5
  <2> QED
    BY <2>11, <2>12
<1> QED
  BY <1>0, <1>1, <1>2

\* The whole loop: all of the message, or something was cut; lines in order.
LEMMA LinesHold ==
    ASSUME NEW buf \in Short, NEW msg \in Seq(Text), NEW fmt,
           Without(buf) = <<>>
    PROVE  LET body == Lines(buf, msg, fmt)
           IN /\ body \in Turns(msg)
              /\ ~ body.cut => Without(body.buf) = msg
              /\ fmt = "journal" /\ LineInv(FirstTurn(buf), msg) => LineInv(body, msg)
              /\ ~ body.cut => body.p = Len(msg)
<1>0. msg \in Seq(Byte) /\ Len(msg) \in Nat
  <2>1. Text \subseteq Byte
    BY DEF Text, Byte
  <2> QED
    BY <2>1
<1>1. FirstTurn(buf) \in Turns(msg)
  BY <1>0 DEF Turns, FirstTurn
<1>2. \A s \in Turns(msg) : NextLine(s, msg, fmt) \in Turns(msg)
  BY <1>0, NextLineFits
<1>3. PICK turn : IsLoop(turn, buf, msg, fmt)
  BY <1>1, <1>2, LinesIsLoop
<1>4. /\ turn[0] = FirstTurn(buf)
      /\ \A n \in Nat : turn[n] \in Turns(msg) /\ turn[n + 1] = NextLine(turn[n], msg, fmt)
      /\ Lines(buf, msg, fmt) = turn[Len(msg)]
  BY <1>3 DEF IsLoop
<1>4a. \A s \in Turns(msg) : s.p \in Nat /\ s.p <= Len(msg) /\ s.cut \in BOOLEAN
  BY <1>0 DEF Turns
<1> DEFINE Far(n) == turn[n].cut \/ turn[n].p = Len(msg) \/ turn[n].p >= n
           P == {n \in Nat : TextInv(turn[n], msg) /\ Far(n)}
           J == fmt = "journal" /\ LineInv(FirstTurn(buf), msg)
           Q == {n \in Nat : J => LineInv(turn[n], msg)}
<1>5. 0 \in P
  <2>1. SubSeq(msg, 1, 0) = <<>>
    OBVIOUS
  <2>2. TextInv(turn[0], msg)
    BY <1>4, <2>1 DEF TextInv, FirstTurn
  <2>3. Far(0)
    BY <1>4 DEF FirstTurn
  <2> QED
    BY <2>2, <2>3
<1>6. ASSUME NEW n \in Nat, n \in P
      PROVE  n + 1 \in P
  <2> DEFINE s == turn[n]
             t == turn[n + 1]
  <2>1. s \in Turns(msg) /\ t \in Turns(msg) /\ t = NextLine(s, msg, fmt)
    BY <1>4
  <2>2. TextInv(s, msg) /\ (s.cut \/ s.p = Len(msg) \/ s.p >= n)
    BY <1>6
  <2> HIDE DEF s, t
  <2>3. TextInv(t, msg) /\ (t.cut \/ t.p = Len(msg) \/ t.p > s.p)
    BY <2>1, <2>2, NextLineText
  <2>4. s.cut => t = s
    BY <2>1 DEF NextLine
  <2>5. t.cut \/ t.p = Len(msg) \/ t.p >= n + 1
    <3>1. CASE s.cut
      BY <2>4, <3>1
    <3>2. CASE ~ s.cut
      <4>1. s.p \in Nat /\ t.p \in Nat /\ s.p <= Len(msg) /\ t.p <= Len(msg)
        BY <1>4a, <2>1
      <4> QED
        BY <1>0, <2>2, <2>3, <3>2, <4>1
    <3> QED
      BY <3>1, <3>2
  <2>6. TextInv(turn[n + 1], msg) /\ Far(n + 1) /\ n + 1 \in Nat
    BY <2>3, <2>5 DEF t
  <2> QED
    BY <2>6
<1>7. \A n \in Nat : n \in P
  <2> HIDE DEF P
  <2> QED
    BY <1>5, <1>6, NatInd
<1>8. 0 \in Q
  BY <1>4
<1>9. ASSUME NEW n \in Nat, n \in Q
      PROVE  n + 1 \in Q
  <2> SUFFICES ASSUME J PROVE LineInv(turn[n + 1], msg)
    OBVIOUS
  <2>1. LineInv(turn[n], msg)
    BY <1>9
  <2>2. turn[n] \in Turns(msg) /\ turn[n + 1] = NextLine(turn[n], msg, "journal")
    BY <1>4
  <2> QED
    BY <2>1, <2>2, NextLineLines
<1>10. \A n \in Nat : n \in Q
  <2> HIDE DEF Q
  <2> QED
    BY <1>8, <1>9, NatInd
<1> DEFINE body == turn[Len(msg)]
<1>11. body \in Turns(msg) /\ TextInv(body, msg) /\ (J => LineInv(body, msg))
  BY <1>0, <1>4, <1>7, <1>10
<1>12. body.cut \/ body.p = Len(msg)
  <2>1. Far(Len(msg))
    BY <1>0, <1>7
  <2>2. body.p \in Nat /\ body.p <= Len(msg)
    BY <1>4a, <1>11
  <2> QED
    BY <1>0, <2>1, <2>2
<1>13. ~ body.cut => Without(body.buf) = msg
  <2>1. SubSeq(msg, 1, Len(msg)) = msg
    OBVIOUS
  <2> QED
    BY <1>11, <1>12, <2>1 DEF TextInv
<1> QED
  BY <1>4, <1>11, <1>12, <1>13

\* Head and location are no part of the message; in journal format the head is the
\* priority.
LEMMA LocatedClean ==
    ASSUME NEW fmt, NEW file \in Nat
    PROVE  LET b == Located(Header(fmt), file)
           IN /\ b \in Short /\ Without(b) = <<>>
              /\ \A i \in 1 .. Len(b) : b[i] # "n"
              /\ fmt = "journal" => PrefixAt(b, 0)
<1> DEFINE h == Header(fmt)
           b == Located(h, file)
<1>1. LOG_LINE_MAX \in Nat /\ HeadSize \in Nat /\ HeadSize + 6 < LOG_LINE_MAX
  BY LogAssumption
<1>2. /\ h \in Seq(Byte) /\ Len(h) \in Nat
      /\ \A i \in 1 .. Len(h) : h[i] \notin Text
      /\ fmt = "journal" => h = Prefix
  <2>1. CASE fmt = "journal"
    <3>1. /\ Prefix \in Seq(Byte) /\ Len(Prefix) = 3
          /\ \A i \in 1 .. 3 : Prefix[i] \notin Text
      BY DEF Prefix, Byte, Text
    <3>2. <<>> \in Short /\ Len(<<>>) = 0
      BY <1>1 DEF Short
    <3>3. h = append(<<>>, Prefix)
      BY <2>1 DEF Header
    <3> HIDE DEF h
    <3>4. /\ Len(h) - 0 \in 0 .. 3
          /\ Len(h) - 0 = 3 => h = <<>> \o Prefix
          /\ Len(h) - 0 < 3 => Len(h) = LOG_LINE_MAX - 1
      BY ONLY <3>1, <3>2, <3>3, AppendIs
    <3>5. Len(h) = 3 /\ h = <<>> \o Prefix
      <4>1. h \in Short
        BY <3>1, <3>2, <3>3, AppendFits
      <4>2. Len(h) \in Nat
        BY <4>1 DEF Short
      <4>3. LOG_LINE_MAX - 1 > 3 /\ Len(h) - 0 = Len(h)
        BY ONLY <1>1, <4>2
      <4>4. Len(h) = 3
        BY ONLY <1>1, <3>4, <4>2, <4>3
      <4> QED
        BY ONLY <3>4, <4>3, <4>4
    <3>6. <<>> \o Prefix = Prefix
      BY <3>1
    <3> QED
      BY <3>1, <3>5, <3>6
  <2>2. CASE fmt # "journal"
    <3>1. h = Many("h", HeadSize) /\ "h" \in Byte /\ "h" \notin Text
      BY <2>2 DEF Header, Byte, Text
    <3>2. \A i \in 1 .. HeadSize : Many("h", HeadSize)[i] = "h"
      BY <1>1 DEF Many
    <3> QED
      BY <1>1, <2>2, <3>1, <3>2, ManyFits
  <2> QED
    BY <2>1, <2>2
<1> HIDE DEF h
<1>3. /\ b \in Short /\ b \in Seq(Byte) /\ Len(b) \in Nat /\ Len(h) <= Len(b)
      /\ \A i \in 1 .. Len(b) : b[i] \notin Text
      /\ \A i \in 1 .. Len(h) : b[i] = h[i]
  <2>0. b \in Short /\ b \in Seq(Byte) /\ Len(b) \in Nat
    BY LocatedFits DEF h, Short
  <2>1. CASE file = 0
    <3>1. b = h
      BY <2>1 DEF Located
    <3> QED
      BY <1>2, <2>0, <3>1
  <2>2. CASE file # 0
    <3> DEFINE m == Min({file, LOG_LINE_MAX - 2 - Len(h)})
               f == Many("f", m)
    <3>1. b = h \o f
      BY <2>2 DEF Located
    <3>2. m \in Nat
      <4>1. Len(h) <= LOG_LINE_MAX - 2
        <5>1. CASE fmt = "journal"
          <6>1. Len(Prefix) = 3
            BY DEF Prefix
          <6>2. Len(h) = 3
            BY ONLY <1>2, <5>1, <6>1
          <6> QED
            BY ONLY <1>1, <6>2
        <5>2. CASE fmt # "journal"
          <6>1. h = Many("h", HeadSize) /\ "h" \in Byte
            BY <5>2 DEF Header, h, Byte
          <6>2. Len(h) = HeadSize
            BY <1>1, <6>1, ManyFits
          <6> QED
            BY <1>1, <6>2
        <5> QED
          BY <5>1, <5>2
      <4> QED
        BY <1>1, <1>2, <4>1, MinOfTwo
    <3> HIDE DEF m
    <3>3. "f" \in Byte /\ "f" \notin Text
      BY DEF Byte, Text
    <3>4. f \in Seq(Byte) /\ Len(f) = m /\ \A i \in 1 .. m : f[i] = "f"
      <4>1. \A i \in 1 .. m : f[i] = "f"
        BY <3>2 DEF Many
      <4> QED
        BY <3>2, <3>3, <4>1, ManyFits
    <3> HIDE DEF f, b
    <3>5. /\ Len(h \o f) = Len(h) + m
          /\ \A i \in 1 .. Len(h) + m : (h \o f)[i] = IF i <= Len(h) THEN h[i] ELSE f[i - Len(h)]
      BY ONLY <1>2, <3>2, <3>4
    <3>6. ASSUME NEW i \in 1 .. Len(h) + m
          PROVE  b[i] \notin Text
      <4>1. CASE i <= Len(h)
        BY <1>2, <3>1, <3>2, <3>5, <4>1
      <4>2. CASE ~(i <= Len(h))
        <5>1. i - Len(h) \in 1 .. m
          BY <1>2, <3>2, <4>2
        <5> QED
          BY <3>1, <3>3, <3>4, <3>5, <4>2, <5>1
      <4> QED
        BY <4>1, <4>2
    <3>7. \A i \in 1 .. Len(h) : b[i] = h[i]
      BY <1>2, <3>1, <3>2, <3>5
    <3> QED
      BY <1>2, <2>0, <3>1, <3>2, <3>5, <3>6, <3>7
  <2> QED
    BY <2>1, <2>2
<1> HIDE DEF b
<1>4. Without(b) = <<>>
  <2>1. <<>> \in Seq(Byte) /\ <<>> \o b = b
    BY <1>3
  <2> QED
    BY <1>3, <2>1, WithoutAdded, WithoutNothing
<1>5. fmt = "journal" => PrefixAt(b, 0)
  <2> SUFFICES ASSUME fmt = "journal" PROVE PrefixAt(b, 0)
    OBVIOUS
  <2>1. h = Prefix /\ Len(Prefix) = 3 /\ Prefix[1] = "<" /\ Prefix[2] = "p" /\ Prefix[3] = ">"
    BY <1>2 DEF Prefix
  <2>2. b[1] = "<" /\ b[2] = "p" /\ b[3] = ">" /\ 3 <= Len(b)
    BY <1>3, <2>1
  <2> QED
    BY <2>2 DEF PrefixAt
<1>6. \A i \in 1 .. Len(b) : b[i] # "n"
  BY <1>3 DEF Text
<1> QED
  BY <1>3, <1>4, <1>5, <1>6 DEF b, h

\* Two texts.
LEMMA Concat ==
    ASSUME NEW a \in Seq(Byte), NEW c \in Seq(Byte)
    PROVE  /\ a \o c \in Seq(Byte) /\ Len(a \o c) = Len(a) + Len(c)
           /\ \A i \in 1 .. Len(a) : (a \o c)[i] = a[i]
           /\ \A i \in 1 .. Len(c) : (a \o c)[Len(a) + i] = c[i]
OBVIOUS

\* And a text with a byte more.
LEMMA AppendByte ==
    ASSUME NEW a \in Seq(Byte), NEW x \in Byte
    PROVE  /\ Append(a, x) \in Seq(Byte) /\ Len(Append(a, x)) = Len(a) + 1
           /\ Append(a, x)[Len(a) + 1] = x
           /\ \A i \in 1 .. Len(a) : Append(a, x)[i] = a[i]
OBVIOUS

\* A record that was cut ends with the mark.
LEMMA MarkedEnds ==
    ASSUME NEW a \in Seq(Byte)
    PROVE  LET b == Append(a \o Truncated, "n")
           IN /\ b \in Seq(Byte) /\ Len(b) = Len(a) + 4
              /\ \A i \in 1 .. Len(a) : b[i] = a[i]
              /\ \A i \in Len(a) + 1 .. Len(a) + 3 : b[i] # "n"
              /\ IsSuffix(Append(Truncated, "n"), b)
<1> DEFINE b == Append(a \o Truncated, "n")
           n == Len(a)
<1>1. Truncated \in Seq(Byte) /\ Len(Truncated) = 3 /\ "n" \in Byte /\ n \in Nat
  BY DEF Truncated, Byte
<1>2. Truncated[1] = "." /\ Truncated[2] = "." /\ Truncated[3] = "."
  BY DEF Truncated
<1>3. a \o Truncated \in Seq(Byte) /\ Len(a \o Truncated) = n + 3
  <2>1. a \o Truncated \in Seq(Byte) /\ Len(a \o Truncated) = Len(a) + Len(Truncated)
    BY <1>1, Concat
  <2> QED
    BY ONLY <1>1, <2>1
<1>4. /\ \A i \in 1 .. n : (a \o Truncated)[i] = a[i]
      /\ \A i \in 1 .. 3 : (a \o Truncated)[n + i] = Truncated[i]
  <2>1. /\ \A i \in 1 .. n : (a \o Truncated)[i] = a[i]
        /\ \A i \in 1 .. Len(Truncated) : (a \o Truncated)[n + i] = Truncated[i]
    BY <1>1, Concat
  <2> QED
    BY <1>1, <2>1
<1>5. b \in Seq(Byte) /\ Len(b) = n + 4 /\ b[n + 4] = "n"
      /\ \A i \in 1 .. n + 3 : b[i] = (a \o Truncated)[i]
  <2> DEFINE at3 == a \o Truncated
  <2>1. at3 \in Seq(Byte) /\ Len(at3) = n + 3
    BY <1>3
  <2> HIDE DEF at3, n
  <2> QED
    BY ONLY <1>1, <2>1 DEF at3
<1>6. b[n + 1] = "." /\ b[n + 2] = "." /\ b[n + 3] = "."
  <2>1. n + 1 \in 1 .. n + 3 /\ n + 2 \in 1 .. n + 3 /\ n + 3 \in 1 .. n + 3
    BY <1>1
  <2> QED
    BY <1>2, <1>4, <1>5, <2>1
<1> HIDE DEF b, n
<1>7. \A i \in n + 1 .. n + 3 : b[i] # "n"
  <2> SUFFICES ASSUME NEW i \in n + 1 .. n + 3 PROVE b[i] # "n"
    OBVIOUS
  <2>1. i = n + 1 \/ i = n + 2 \/ i = n + 3
    BY <1>1
  <2> QED
    BY <1>6, <2>1
<1>8. \A i \in 1 .. n : b[i] = a[i]
  <2> SUFFICES ASSUME NEW i \in 1 .. n PROVE b[i] = a[i]
    OBVIOUS
  <2>1. i \in 1 .. n + 3
    BY <1>1
  <2> QED
    BY ONLY <1>4, <1>5, <2>1, i \in 1 .. n
<1>9. IsSuffix(Append(Truncated, "n"), b)
  <2> DEFINE c == Append(Truncated, "n")
             rc == Reverse(c)
             rb == Reverse(b)
  <2>2. Len(c) = 4 /\ c[1] = "." /\ c[2] = "." /\ c[3] = "." /\ c[4] = "n"
    <3>1. /\ Len(c) = Len(Truncated) + 1 /\ c[Len(Truncated) + 1] = "n"
          /\ \A i \in 1 .. Len(Truncated) : c[i] = Truncated[i]
      BY <1>1, AppendByte
    <3> HIDE DEF c
    <3>2. Len(c) = 4 /\ c[4] = "n" /\ \A i \in 1 .. 3 : c[i] = Truncated[i]
      BY ONLY <1>1, <3>1
    <3> QED
      BY <1>2, <3>2
  <2> HIDE DEF c
  <2>3. /\ rc = [i \in 1 .. 4 |-> c[(4 - i) + 1]]
        /\ rb = [i \in 1 .. n + 4 |-> b[((n + 4) - i) + 1]]
    BY <1>5, <2>2 DEF Reverse
  <2> HIDE DEF rc, rb
  <2>4. rc \in Seq({".", "n"}) /\ Len(rc) = 4
    <3>1. \A i \in 1 .. 4 : c[(4 - i) + 1] \in {".", "n"}
      <4> SUFFICES ASSUME NEW i \in 1 .. 4 PROVE c[(4 - i) + 1] \in {".", "n"}
        OBVIOUS
      <4>1. (4 - i) + 1 \in {1, 2, 3, 4}
        OBVIOUS
      <4> QED
        BY <2>2, <4>1
    <3> QED
      BY <2>3, <3>1
  <2>5. rb \in Seq(Byte) /\ Len(rb) = n + 4
    <3>1. \A i \in 1 .. n + 4 : ((n + 4) - i) + 1 \in 1 .. n + 4
      BY <1>1
    <3>2. \A i \in 1 .. n + 4 : b[((n + 4) - i) + 1] \in Byte
      BY <1>5, <3>1
    <3> QED
      BY <1>1, <2>3, <3>2
  <2>6. ASSUME NEW i \in 1 .. 4
        PROVE  rc[i] = rb[i]
    <3>1. i \in 1 .. n + 4 /\ ((n + 4) - i) + 1 = n + ((4 - i) + 1)
      BY <1>1
    <3>2. (4 - i) + 1 \in {1, 2, 3, 4}
      OBVIOUS
    <3>3. \A j \in {1, 2, 3, 4} : c[j] = b[n + j]
      BY <1>5, <1>6, <2>2
    <3> QED
      BY <2>3, <3>1, <3>2, <3>3
  <2>7. SubSeq(rc, 1, 4) = SubSeq(rb, 1, 4)
    <3> DEFINE x == SubSeq(rc, 1, 4)
               y == SubSeq(rb, 1, 4)
    <3>1. x = [i \in 1 .. 4 |-> rc[i]]
      BY <2>4
    <3>2. y = [i \in 1 .. 4 |-> rb[i]]
      BY <1>1, <2>5
    <3> QED
      BY <2>6, <3>1, <3>2
  <2>8. IsPrefix(rc, rb)
    BY <1>1, <2>4, <2>5, <2>7 DEF IsPrefix
  <2> QED
    BY <2>8 DEF IsSuffix, rc, rb, c
<1> QED
  BY <1>5, <1>7, <1>8, <1>9 DEF b, n

\* The priority as the properties say it.
LEMMA PrefixedIs ==
    ASSUME NEW b \in Seq(Byte), NEW i \in Nat, PrefixAt(b, i)
    PROVE  Prefixed(b, i)
<1> DEFINE r == SubSeq(b, i + 1, Len(b))
<1>1. /\ i + 3 <= Len(b) /\ Len(b) \in Nat
      /\ b[i + 1] = "<" /\ b[i + 2] = "p" /\ b[i + 3] = ">"
  BY DEF PrefixAt
<1>2. /\ r \in Seq(Byte) /\ Len(r) = Len(b) - i
      /\ \A j \in 1 .. Len(b) - i : r[j] = b[i + j]
  BY <1>1
<1> HIDE DEF r
<1>3. Len(Prefix) = 3 /\ Prefix[1] = "<" /\ Prefix[2] = "p" /\ Prefix[3] = ">"
  BY DEF Prefix
<1>4. SubSeq(Prefix, 1, 3) = SubSeq(r, 1, 3)
  <2>1. r[1] = "<" /\ r[2] = "p" /\ r[3] = ">" /\ 3 <= Len(r) /\ Len(r) \in Nat
    <3>1. 1 \in 1 .. Len(b) - i /\ 2 \in 1 .. Len(b) - i /\ 3 \in 1 .. Len(b) - i
      BY <1>1
    <3> QED
      BY <1>1, <1>2, <3>1
  <2>2. SubSeq(Prefix, 1, 3) = [j \in 1 .. 3 |-> Prefix[j]]
    <3>1. Prefix \in Seq(Byte)
      BY DEF Prefix, Byte
    <3> QED
      BY ONLY <1>3, <3>1
  <2>3. SubSeq(r, 1, 3) = [j \in 1 .. 3 |-> r[j]]
    BY ONLY <1>2, <2>1
  <2>4. \A j \in 1 .. 3 : Prefix[j] = r[j]
    <3>1. \A j \in 1 .. 3 : j \in {1, 2, 3}
      OBVIOUS
    <3> QED
      BY ONLY <1>3, <2>1, <3>1
  <2> QED
    BY ONLY <2>2, <2>3, <2>4
<1>5. 3 <= Len(r)
  BY <1>1, <1>2
<1> QED
  BY <1>3, <1>4, <1>5 DEF Prefixed, IsPrefix, r

\* What the properties say of one record.
Shown(msg, bytes) ==
    \/ Without(bytes) = Append(msg, "n")
    \/ IsSuffix(Append(Truncated, "n"), bytes)

InLines(bytes) ==
    \A i \in LineStarts(bytes) :
        \/ Prefixed(bytes, i)
        \/ OnlyMark(bytes, i)

\* The mark takes the place of what it must.
LEMMA MarkedIs ==
    ASSUME NEW buf \in Short
    PROVE  \E m \in Nat :
             /\ m <= Len(buf) /\ (m = Len(buf) \/ m = LOG_LINE_MAX - 4)
             /\ SubSeq(buf, 1, m) \in Seq(Byte) /\ Len(SubSeq(buf, 1, m)) = m
             /\ Marked(buf, TRUE) = SubSeq(buf, 1, m) \o Truncated
<1>1. LOG_LINE_MAX \in Nat /\ LOG_LINE_MAX > 6 /\ LOG_LINE_MAX - 4 \in Nat
  BY LogAssumption
<1>2. Truncated \in Seq(Byte) /\ Len(Truncated) = 3
  BY DEF Truncated, Byte
<1>3. buf \in Seq(Byte) /\ Len(buf) \in Nat
  BY DEF Short
<1> DEFINE m == Min({Len(buf), LOG_LINE_MAX - 1 - Len(Truncated)})
           a == SubSeq(buf, 1, m)
<1>4. LOG_LINE_MAX - 1 - Len(Truncated) = LOG_LINE_MAX - 4
  BY <1>1, <1>2
<1>5. m \in Nat /\ m <= Len(buf) /\ m <= LOG_LINE_MAX - 4 /\ (m = Len(buf) \/ m = LOG_LINE_MAX - 4)
  BY <1>1, <1>3, <1>4, MinOfTwo
<1>6. Marked(buf, TRUE) = append(a, Truncated)
  BY DEF Marked
<1> HIDE DEF m
<1>7. a \in Seq(Byte) /\ Len(a) = m
  BY <1>3, <1>5, FirstBytes
<1> HIDE DEF a
<1>8. a \in Short
  BY <1>1, <1>5, <1>7 DEF Short
<1> DEFINE b == append(a, Truncated)
<1>9. /\ Len(b) - Len(a) \in 0 .. 3
      /\ Len(b) - Len(a) = 3 => b = a \o Truncated
      /\ Len(b) - Len(a) < 3 => Len(b) = LOG_LINE_MAX - 1
  BY <1>2, <1>8, AppendIs
<1> HIDE DEF b
<1>10. Len(b) - Len(a) = 3
  <2>1. CASE Len(b) = LOG_LINE_MAX - 1
    BY <1>1, <1>5, <1>7, <1>9, <2>1
  <2>2. CASE Len(b) # LOG_LINE_MAX - 1
    BY <1>9, <2>2
  <2> QED
    BY <2>1, <2>2
<1> QED
  BY <1>5, <1>6, <1>7, <1>9, <1>10 DEF a, b

\* A record that was cut has its lines in order.
LEMMA CutInLines ==
    ASSUME NEW msg \in Seq(Text), NEW s \in Turns(msg), LineInv(s, msg)
    PROVE  InLines(Append(Marked(s.buf, TRUE), "n"))
<1> DEFINE buf == s.buf
<1>1. buf \in Short /\ buf \in Seq(Byte) /\ Len(buf) \in Nat
  BY DEF Turns, Short
<1>2. PICK m \in Nat :
             /\ m <= Len(buf) /\ (m = Len(buf) \/ m = LOG_LINE_MAX - 4)
             /\ SubSeq(buf, 1, m) \in Seq(Byte) /\ Len(SubSeq(buf, 1, m)) = m
             /\ Marked(buf, TRUE) = SubSeq(buf, 1, m) \o Truncated
  BY <1>1, MarkedIs
<1> DEFINE a == SubSeq(buf, 1, m)
           b == Append(a \o Truncated, "n")
<1>3. \A i \in 1 .. m : a[i] = buf[i]
  BY <1>1, <1>2
<1>4. a \in Seq(Byte) /\ Len(a) = m /\ m <= Len(buf)
  BY <1>2
<1> HIDE DEF a
<1>5. /\ b \in Seq(Byte) /\ Len(b) = m + 4
      /\ \A i \in 1 .. m : b[i] = a[i]
      /\ \A i \in m + 1 .. m + 3 : b[i] # "n"
      /\ IsSuffix(Append(Truncated, "n"), b)
  BY <1>4, MarkedEnds
<1> HIDE DEF b
<1>6. LineStarts(b) \subseteq 0 .. m /\ \A i \in LineStarts(b) : i # 0 => buf[i] = "n"
  <2> SUFFICES ASSUME NEW i \in LineStarts(b), i # 0
               PROVE  i \in 0 .. m /\ buf[i] = "n"
    BY DEF LineStarts
  <2>1. i \in 1 .. (m + 4) - 2 /\ b[i] = "n"
    BY <1>5 DEF LineStarts
  <2>2. i \in 1 .. m
    BY <1>5, <2>1
  <2> QED
    BY <1>3, <1>5, <2>1, <2>2
<1>7. PrefixAt(buf, 0) /\ m >= 3
  <2>1. PrefixAt(buf, 0)
    BY DEF LineInv
  <2>2. 3 <= Len(buf)
    BY <1>1, <2>1 DEF PrefixAt
  <2> QED
    BY <1>2, <2>1, <2>2, LogAssumption
<1>8. ASSUME NEW i \in 0 .. m, PrefixAt(buf, i), i + 3 <= m
      PROVE  Prefixed(b, i)
  <2>1. i + 1 \in 1 .. m /\ i + 2 \in 1 .. m /\ i + 3 \in 1 .. m
    BY <1>8
  <2>2. b[i + 1] = buf[i + 1] /\ b[i + 2] = buf[i + 2] /\ b[i + 3] = buf[i + 3]
    BY <1>3, <1>5, <2>1
  <2>3. PrefixAt(b, i)
    BY <1>5, <1>8, <2>2 DEF PrefixAt
  <2> QED
    BY <1>5, <2>3, PrefixedIs
<1>9. ASSUME NEW i \in LineStarts(b)
      PROVE  Prefixed(b, i) \/ OnlyMark(b, i)
  <2>0. i \in 0 .. m
    BY <1>6
  <2>1. CASE PrefixAt(buf, i) /\ i + 3 <= m
    BY <1>8, <2>0, <2>1
  <2>2. CASE ~(PrefixAt(buf, i) /\ i + 3 <= m)
    <3>1. i # 0
      BY <1>7, <2>2
    <3>2. i \in 1 .. Len(buf) /\ buf[i] = "n"
      BY <1>2, <1>6, <2>0, <3>1
    <3>3. ASSUME NEW j \in i + 1 .. m
          PROVE  buf[j] \in {"<", "p"}
      <4>1. j \in i + 1 .. Len(buf)
        BY <1>2, <2>0
      <4>2. CASE PrefixAt(buf, i)
        <5>1. i + 3 > m
          BY <2>0, <2>2, <4>2
        <5>2. j = i + 1 \/ j = i + 2
          BY <2>0, <5>1
        <5> QED
          BY <4>2, <5>2 DEF PrefixAt
      <4>3. CASE ~ PrefixAt(buf, i)
        <5>1. Partial(buf, i)
          BY <3>2, <4>3 DEF LineInv
        <5> QED
          BY <4>1, <5>1 DEF Partial
      <4> QED
        BY <4>2, <4>3
    <3>4. ASSUME NEW j \in i + 1 .. Len(b) - 4
          PROVE  b[j] \in {"<", "p"}
      <4>1. j \in i + 1 .. m /\ j \in 1 .. m
        BY <1>5, <2>0
      <4>2. b[j] = buf[j]
        BY <1>3, <1>5, <4>1
      <4> QED
        BY <3>3, <4>1, <4>2
    <3> QED
      BY <1>5, <3>4 DEF OnlyMark
  <2> QED
    BY <2>1, <2>2
<1>10. InLines(b)
  BY <1>5, <1>9 DEF InLines
<1> QED
  BY <1>2, <1>10 DEF a, b

\* So has one that has all of its message.
LEMMA UncutInLines ==
    ASSUME NEW msg \in Seq(Text), NEW s \in Turns(msg), LineInv(s, msg), ~ s.cut
    PROVE  InLines(Append(s.buf, "n"))
<1> DEFINE buf == s.buf
           b == Append(buf, "n")
<1>1. buf \in Seq(Byte) /\ Len(buf) \in Nat
  BY DEF Turns, Short
<1>2. /\ b \in Seq(Byte) /\ Len(b) = Len(buf) + 1
      /\ \A i \in 1 .. Len(buf) : b[i] = buf[i]
  <2>1. "n" \in Byte
    BY DEF Byte
  <2> HIDE DEF buf
  <2> QED
    BY <1>1, <2>1, AppendByte
<1> HIDE DEF b
<1>3. ASSUME NEW i \in LineStarts(b)
      PROVE  i \in Nat /\ PrefixAt(buf, i)
  <2>1. CASE i = 0
    BY <2>1 DEF LineInv
  <2>2. CASE i # 0
    <3>1. i \in 1 .. (Len(buf) + 1) - 2 /\ b[i] = "n"
      BY <1>2, <2>2 DEF LineStarts
    <3>2. i \in 1 .. Len(buf) /\ i # Len(buf)
      BY <1>1, <3>1
    <3>3. buf[i] = "n"
      BY <1>2, <3>1, <3>2
    <3> QED
      BY <3>2, <3>3 DEF LineInv
  <2> QED
    BY <2>1, <2>2
<1>4. ASSUME NEW i \in LineStarts(b)
      PROVE  Prefixed(b, i)
  <2>1. i \in Nat /\ PrefixAt(buf, i)
    BY <1>3
  <2>2. Len(buf) <= Len(b)
    BY <1>1, <1>2
  <2>3. PrefixAt(b, i)
    <3> HIDE DEF buf
    <3> QED
      BY <1>1, <1>2, <2>1, <2>2, PrefixStays
  <2> QED
    BY <1>2, <2>1, <2>3, PrefixedIs
<1>5. InLines(b)
  BY <1>4 DEF InLines
<1> QED
  BY <1>5 DEF b

\* What emit puts together, for any message, location and format.
LEMMA EmitHolds ==
    ASSUME NEW fmt, NEW file \in Nat, NEW msg \in Seq(Text)
    PROVE  /\ Shown(msg, emit(fmt, file, msg))
           /\ fmt = "journal" => InLines(emit(fmt, file, msg))
<1> DEFINE m == Min({Len(msg), LOG_LINE_MAX - 1})
           message == SubSeq(msg, 1, m)
           start == Located(Header(fmt), file)
           body == Lines(start, message, fmt)
           cut == body.cut \/ Len(msg) >= LOG_LINE_MAX
           bytes == emit(fmt, file, msg)
<1>1. LOG_LINE_MAX \in Nat /\ LOG_LINE_MAX - 1 \in Nat /\ Len(msg) \in Nat
  BY LogAssumption
<1>2. m \in Nat /\ m <= Len(msg) /\ (Len(msg) < LOG_LINE_MAX => m = Len(msg))
  BY <1>1, MinOfTwo
<1>3. bytes = Append(Marked(body.buf, cut), "n")
  BY DEF emit
<1> HIDE DEF m
<1>4. message \in Seq(Text) /\ (m = Len(msg) => message = msg)
  BY <1>1, <1>2
<1>5. /\ start \in Short /\ Without(start) = <<>>
      /\ \A i \in 1 .. Len(start) : start[i] # "n"
      /\ fmt = "journal" => PrefixAt(start, 0)
  BY LocatedClean
<1> HIDE DEF message, start
<1>6. fmt = "journal" => LineInv(FirstTurn(start), message)
  BY <1>5 DEF LineInv, FirstTurn
<1>7. /\ body \in Turns(message)
      /\ ~ body.cut => Without(body.buf) = message
      /\ fmt = "journal" => LineInv(body, message)
  BY <1>4, <1>5, <1>6, LinesHold
<1> HIDE DEF body, bytes
<1>8. body.buf \in Short /\ body.buf \in Seq(Byte) /\ body.cut \in BOOLEAN
  BY <1>7 DEF Turns, Short
<1>9. CASE cut
  <2>1. bytes = Append(Marked(body.buf, TRUE), "n")
    <3>1. cut = TRUE
      BY <1>8, <1>9
    <3> HIDE DEF cut
    <3> QED
      BY <1>3, <3>1
  <2>2. PICK k \in Nat :
             /\ SubSeq(body.buf, 1, k) \in Seq(Byte)
             /\ Marked(body.buf, TRUE) = SubSeq(body.buf, 1, k) \o Truncated
    BY <1>8, MarkedIs
  <2>3. IsSuffix(Append(Truncated, "n"), bytes)
    BY <2>1, <2>2, MarkedEnds
  <2>4. fmt = "journal" => InLines(bytes)
    BY <1>4, <1>7, <2>1, CutInLines
  <2> QED
    BY <2>3, <2>4 DEF Shown, bytes
<1>10. CASE ~ cut
  <2>1. ~ body.cut /\ Len(msg) < LOG_LINE_MAX
    BY <1>1, <1>10
  <2>2. bytes = Append(body.buf, "n")
    <3>1. Marked(body.buf, cut) = body.buf
      BY <1>10 DEF Marked
    <3> QED
      BY <1>3, <3>1
  <2>3. Without(body.buf) = msg
    BY <1>2, <1>4, <1>7, <2>1
  <2>4. Without(bytes) = Append(msg, "n")
    <3>1. "n" \in Byte /\ "n" \in Text
      BY DEF Byte, Text
    <3> QED
      BY <1>8, <2>2, <2>3, <3>1, WithoutAppend
  <2>5. fmt = "journal" => InLines(bytes)
    BY <1>4, <1>7, <2>1, <2>2, UncutInLines
  <2> QED
    BY <2>4, <2>5 DEF Shown, bytes
<1> QED
  BY <1>9, <1>10

-----------------------------------------------------------------------------
(* The inductive invariant *)

Initializing == {"defaults", "warn", "write_warning"}
Initialized == {"called", "set_format", "log_write", "emit", "write"}

Whole == {b \in Seq(Byte) : Len(b) <= LOG_LINE_MAX}

SettingType ==
    /\ level \in DOMAIN Rank /\ format \in {"text", "journal"}
    /\ once \in {"todo", "running", "done"}
    /\ chosen \in [level : DOMAIN Rank \cup {None}, format : {"text", "journal", None}]

ThreadType ==
    /\ pc \in [Threads -> {"idle", "init"} \cup Initializing \cup Initialized]
    /\ call \in [Threads -> Configs \cup Records \cup {[op |-> None]}]
    /\ made \in [Threads -> Nat] /\ warnings \in [Threads -> Nat]
    /\ record \in [Threads -> [format : {"text", "journal", None},
                               msg : Seq({"c", "n"}), bytes : Whole]]
    /\ rest \in [Threads -> Whole]

\* The arguments of a call, while it goes on, are those of its kind.
CallInv ==
    \A t \in Threads :
        /\ pc[t] # "idle" => call[t] \in Configs \cup Records
        /\ pc[t] = "set_format" => call[t] \in Configs
        /\ pc[t] \in {"log_write", "emit"} => call[t] \in Records

\* A record is written as a whole, or not at all.
WriteInv ==
    /\ \A t \in Threads : rest[t] \in {<<>>, record[t].bytes}
    /\ out \in Seq([id : Threads \X Nat \X Nat, left : {0}])

\* One thread initializes; the others are past it only when it has ended, and
\* before that no program has chosen anything.
OnceInv ==
    /\ once # "done" => chosen = [level |-> None, format |-> None]
    /\ \A t \in Threads : pc[t] \in Initializing => once = "running"
    /\ \A t \in Threads : pc[t] \in Initialized => once = "done"
    /\ \A t, u \in Threads :
         (pc[t] \in Initializing /\ pc[u] \in Initializing) => t = u

LogInv ==
    /\ SettingType /\ ThreadType /\ CallInv /\ WriteInv /\ OnceInv
    /\ SettingStays

\* The levels there are.
LEMMA RankDomain == DOMAIN Rank = {"debug", "info", "warn", "error", "off"}
BY DEF Rank

\* Nothing has been written or chosen at the start.
LEMMA InitLogInv == Init => LogInv
<1> SUFFICES ASSUME Init PROVE LogInv
  OBVIOUS
<1> USE DEF Init, LogInit, None
<1>1. SettingType /\ OnceInv /\ SettingStays
  BY RankDomain DEF SettingType, OnceInv, SettingStays, Initializing, Initialized
<1>2. CallInv
  BY DEF CallInv
<1>3. /\ <<>> \in Seq(Byte) /\ <<>> \in Whole /\ <<>> \in Seq({"c", "n"})
      /\ <<>> \in Seq([id : Threads \X Nat \X Nat, left : {0}])
  BY LogAssumption DEF Whole
<1>4. ThreadType
  BY <1>3 DEF ThreadType, NoRecord
<1>5. WriteInv
  BY <1>3 DEF WriteInv
<1> QED
  BY <1>1, <1>2, <1>4, <1>5 DEF LogInv

\* A step of ProcessWide is a step of the logger, the beginning of a call, or
\* leaves the logger alone.
LEMMA LogCases ==
    ASSUME [Next]_vars
    PROVE  \/ \E t \in Threads : LogStep(t)
           \/ \E t \in Threads : \E c \in Configs \cup Records : Begin(t, c)
           \/ UNCHANGED logVars
<1>1. ASSUME NEW t \in Threads, ReportFailure(t)
      PROVE  \E c \in Configs \cup Records : Begin(t, c)
  <2> DEFINE c == [op |-> "write", level |-> "error", file |-> 2, msg |-> <<"c">>]
  <2>1. c \in Records
    <3>1. <<"c">> \in Seq({"c", "n"}) /\ "error" \in DOMAIN Rank
      BY RankDomain
    <3> QED
      BY <3>1 DEF Records
  <2>2. Begin(t, c)
    BY <1>1 DEF ReportFailure
  <2> QED
    BY <2>1, <2>2
<1>2. ASSUME NEW t \in Threads, Call(t)
      PROVE  \E c \in Configs \cup Records : Begin(t, c)
  BY <1>2, CallsAssumption DEF Call
<1>3. ASSUME NEW t \in Threads, Load(t)
      PROVE  UNCHANGED logVars
  BY <1>3 DEF Load
<1>4. ASSUME UNCHANGED vars
      PROVE  UNCHANGED logVars
  BY <1>4 DEF vars
<1> QED
  BY <1>1, <1>2, <1>3, <1>4 DEF Next, Done

\* The settings are valid, and stay what a program chose: only the thread that
\* initializes stores defaults, and then nothing has been chosen yet.
LEMMA SettingStep ==
    ASSUME LogInv, [Next]_vars
    PROVE  SettingType' /\ SettingStays'
<1> USE DEF LogInv, SettingType, SettingStays
<1>1. CASE UNCHANGED settings
  BY <1>1 DEF settings
<1>2. ASSUME NEW t \in Threads,
             OncePassed(t) \/ Warn(t) \/ LuaEnabled(t) \/ LogWrite(t) \/ LogEmit(t)
                \/ WriteFails(t) \/ (\E n \in 1 .. Len(rest[t]) : WriteSome(t, n))
                \/ (\E c \in Configs \cup Records : Begin(t, c))
      PROVE  UNCHANGED settings
  BY <1>2 DEF OncePassed, Warn, LuaEnabled, LogWrite, LogEmit, WriteFails, WriteSome,
     Begin
<1>3. ASSUME NEW t \in Threads, OnceRuns(t) \/ OnceDone(t)
      PROVE  SettingType' /\ SettingStays'
  BY <1>3 DEF OnceRuns, OnceDone
<1>4. ASSUME NEW t \in Threads, StoreDefaults(t)
      PROVE  SettingType' /\ SettingStays'
  <2>1. chosen = [level |-> None, format |-> None] /\ chosen' = chosen
        /\ once' = once
    BY <1>4 DEF StoreDefaults, OnceInv, Initializing
  <2>2. format' \in {"text", "journal"}
    BY <1>4 DEF StoreDefaults, log_parse_format, parse_name
  <2>3. level' \in DOMAIN Rank
    BY <1>4 DEF StoreDefaults, log_parse_level, parse_name
  <2> QED
    BY <2>1, <2>2, <2>3
<1>5. ASSUME NEW t \in Threads, SetLevel(t)
      PROVE  SettingType' /\ SettingStays'
  <2>1. call[t] \in Configs
    BY <1>5 DEF SetLevel, CallInv, Configs, Records
  <2>2. call[t].level \in DOMAIN Rank \cup {None}
    BY <2>1 DEF Configs
  <2>3. CASE call[t].level = None
    BY <1>5, <2>3 DEF SetLevel
  <2>4. CASE call[t].level # None
    BY <1>5, <2>2, <2>4 DEF SetLevel
  <2> QED
    BY <2>3, <2>4
<1>6. ASSUME NEW t \in Threads, SetFormat(t)
      PROVE  SettingType' /\ SettingStays'
  <2>1. call[t].format \in {"text", "journal", None}
    BY <1>6 DEF SetFormat, CallInv, Configs
  <2>2. CASE call[t].format = None
    BY <1>6, <2>2 DEF SetFormat
  <2>3. CASE call[t].format # None
    BY <1>6, <2>1, <2>3 DEF SetFormat
  <2> QED
    BY <2>2, <2>3
<1>7. CASE UNCHANGED logVars
  BY <1>1, <1>7 DEF logVars
<1> QED
  BY <1>1, <1>2, <1>3, <1>4, <1>5, <1>6, <1>7, LogCases DEF LogStep

\* pthread_once.
LEMMA OnceStep ==
    ASSUME LogInv, [Next]_vars
    PROVE  OnceInv'
<1> USE DEF LogInv, OnceInv, ThreadType, SettingType, Initializing, Initialized, Goto,
        settings
<1>1. ASSUME NEW t \in Threads, NEW c, Begin(t, c)
      PROVE  OnceInv'
  BY <1>1 DEF Begin
<1>2. ASSUME NEW t \in Threads, OnceRuns(t)
      PROVE  OnceInv'
  BY <1>2 DEF OnceRuns
<1>3. ASSUME NEW t \in Threads, OncePassed(t)
      PROVE  OnceInv'
  BY <1>3 DEF OncePassed
<1>4. ASSUME NEW t \in Threads, StoreDefaults(t)
      PROVE  OnceInv'
  BY <1>4 DEF StoreDefaults
<1>5. ASSUME NEW t \in Threads, Warn(t)
      PROVE  OnceInv'
  BY <1>5 DEF Warn
<1>6. ASSUME NEW t \in Threads, OnceDone(t)
      PROVE  OnceInv'
  BY <1>6 DEF OnceDone
<1>7. ASSUME NEW t \in Threads, SetLevel(t) \/ SetFormat(t)
      PROVE  OnceInv'
  BY <1>7 DEF SetLevel, SetFormat
<1>8. ASSUME NEW t \in Threads, LuaEnabled(t) \/ LogWrite(t) \/ LogEmit(t)
      PROVE  OnceInv'
  BY <1>8 DEF LuaEnabled, LogWrite, LogEmit
<1>9. ASSUME NEW t \in Threads, WriteFails(t) \/ \E n \in 1 .. Len(rest[t]) : WriteSome(t, n)
      PROVE  OnceInv'
  <2>1. PICK l \in {"write", "write_warning", "idle", "warn"} :
           /\ pc' = [pc EXCEPT ![t] = l]
           /\ l \in {"write", "idle"} <=> pc[t] = "write"
           /\ pc[t] \in {"write", "write_warning"}
           /\ UNCHANGED <<level, format, once, chosen>>
    BY <1>9 DEF WriteFails, WriteSome, AfterWrite
  <2> QED
    BY <2>1
<1>10. CASE UNCHANGED logVars
  BY <1>10 DEF logVars, threads
<1> QED
  BY <1>1, <1>2, <1>3, <1>4, <1>5, <1>6, <1>7, <1>8, <1>9, <1>10, LogCases DEF LogStep

\* Arguments.
LEMMA CallStep ==
    ASSUME LogInv, [Next]_vars
    PROVE  CallInv'
<1> USE DEF LogInv, CallInv, ThreadType, Initializing, Initialized, Goto
<1>1. ASSUME NEW t \in Threads, NEW c \in Configs \cup Records, Begin(t, c)
      PROVE  CallInv'
  BY <1>1 DEF Begin
<1>2. ASSUME NEW t \in Threads,
             OnceRuns(t) \/ OncePassed(t) \/ StoreDefaults(t) \/ Warn(t) \/ OnceDone(t)
      PROVE  CallInv'
  BY <1>2 DEF OnceRuns, OncePassed, StoreDefaults, Warn, OnceDone
<1>3. ASSUME NEW t \in Threads, SetLevel(t)
      PROVE  CallInv'
  <2>1. call[t] \in Configs
    BY <1>3 DEF SetLevel, Configs, Records
  <2> QED
    BY <1>3, <2>1 DEF SetLevel
<1>4. ASSUME NEW t \in Threads, LuaEnabled(t) \/ LogWrite(t)
      PROVE  CallInv'
  <2>1. call[t] \in Records
    BY <1>4 DEF LuaEnabled, LogWrite, Configs, Records
  <2> QED
    BY <1>4, <2>1 DEF LuaEnabled, LogWrite
<1>5. ASSUME NEW t \in Threads, SetFormat(t) \/ LogEmit(t)
      PROVE  CallInv'
  BY <1>5 DEF SetFormat, LogEmit
<1>6. ASSUME NEW t \in Threads, WriteFails(t) \/ \E n \in 1 .. Len(rest[t]) : WriteSome(t, n)
      PROVE  CallInv'
  BY <1>6 DEF WriteFails, WriteSome, AfterWrite
<1>7. CASE UNCHANGED logVars
  BY <1>7 DEF logVars, threads
<1> QED
  BY <1>1, <1>2, <1>3, <1>4, <1>5, <1>6, <1>7, LogCases DEF LogStep

\* Putting a record together.
LEMMA EmitStep ==
    ASSUME ThreadType, NEW t \in Threads, NEW fmt \in {"text", "journal"},
           NEW file \in Nat, NEW msg \in Seq({"c", "n"}), Emit(t, fmt, file, msg)
    PROVE  /\ record' \in [Threads -> [format : {"text", "journal", None},
                                       msg : Seq({"c", "n"}), bytes : Whole]]
           /\ rest' \in [Threads -> Whole]
           /\ rest'[t] = record'[t].bytes
           /\ \A u \in Threads \ {t} : rest'[u] = rest[u] /\ record'[u] = record[u]
<1> DEFINE bytes == emit(fmt, file, msg)
           Rec == [format : {"text", "journal", None}, msg : Seq({"c", "n"}), bytes : Whole]
           r == [format |-> fmt, msg |-> msg, bytes |-> bytes]
<1>1. bytes \in Whole
  BY EmitFits DEF Whole
<1>2. record' = [record EXCEPT ![t] = r] /\ rest' = [rest EXCEPT ![t] = bytes]
  BY DEF Emit
<1> HIDE DEF bytes
<1>3. r \in Rec /\ r.bytes = bytes
  BY <1>1
<1>4. record \in [Threads -> Rec] /\ rest \in [Threads -> Whole]
  BY DEF ThreadType
<1> HIDE DEF Rec, r
<1>5. record' \in [Threads -> Rec] /\ rest' \in [Threads -> Whole]
  BY <1>1, <1>2, <1>3, <1>4
<1>6. /\ rest'[t] = bytes /\ record'[t] = r
      /\ \A u \in Threads \ {t} : rest'[u] = rest[u] /\ record'[u] = record[u]
  BY <1>2, <1>4
<1> QED
  BY <1>3, <1>5, <1>6 DEF Rec

\* A record goes out by one write: it is not longer than PIPE_BUF.
LEMMA WriteStep ==
    ASSUME LogInv, NEW t \in Threads, NEW n \in 1 .. Len(rest[t]), WriteSome(t, n)
    PROVE  /\ rest' = [rest EXCEPT ![t] = <<>>]
           /\ out' \in Seq([id : Threads \X Nat \X Nat, left : {0}])
<1>1. rest[t] \in Seq(Byte) /\ Len(rest[t]) <= LOG_LINE_MAX /\ Len(rest[t]) \in Nat
  BY DEF LogInv, ThreadType, Whole
<1>2. n = Len(rest[t])
  BY <1>1, LogAssumption DEF WriteSome
<1>3. SubSeq(rest[t], n + 1, Len(rest[t])) = <<>>
  BY <1>1, <1>2
<1>4. rest' = [rest EXCEPT ![t] = <<>>]
  BY <1>3 DEF WriteSome
<1> DEFINE w == [id |-> <<t, made[t], warnings[t]>>, left |-> Len(rest[t]) - n]
           W == [id : Threads \X Nat \X Nat, left : {0}]
<1>5. w \in W
  <2>1. Len(rest[t]) - n = 0
    BY <1>1, <1>2
  <2>2. <<t, made[t], warnings[t]>> \in Threads \X Nat \X Nat
    BY DEF LogInv, ThreadType
  <2> QED
    BY <2>1, <2>2
<1>6. out' = Append(out, w) /\ out \in Seq(W)
  BY DEF WriteSome, LogInv, WriteInv
<1> HIDE DEF w, W
<1>7. out' \in Seq(W)
  BY <1>5, <1>6
<1> QED
  BY <1>4, <1>7 DEF W

\* What a thread has put together is valid, and not longer than the buffer.
LEMMA TypeStep ==
    ASSUME LogInv, [Next]_vars
    PROVE  ThreadType'
<1> USE DEF LogInv, Goto, Initializing, Initialized
<1>1. ASSUME NEW t \in Threads, NEW c \in Configs \cup Records, Begin(t, c)
      PROVE  ThreadType'
  BY <1>1 DEF Begin, ThreadType
<1>2. ASSUME NEW t \in Threads,
             OnceRuns(t) \/ OncePassed(t) \/ OnceDone(t) \/ SetLevel(t) \/ SetFormat(t)
               \/ LuaEnabled(t) \/ LogWrite(t)
      PROVE  ThreadType'
  <2>1. UNCHANGED <<call, warnings, record, rest, made>>
    BY <1>2 DEF OnceRuns, OncePassed, OnceDone, SetLevel, SetFormat, LuaEnabled, LogWrite
  <2>2. pc' \in [Threads -> {"idle", "init"} \cup Initializing \cup Initialized]
    BY <1>2 DEF OnceRuns, OncePassed, OnceDone, SetLevel, SetFormat, LuaEnabled, LogWrite,
       ThreadType
  <2> QED
    BY <2>1, <2>2 DEF ThreadType
<1>3. ASSUME NEW t \in Threads, StoreDefaults(t)
      PROVE  ThreadType'
  <2> DEFINE bad == {x \in {"level", "format"} : env[x] = "invalid"}
  <2>1. Cardinality(bad) \in Nat
    <3>1. IsFiniteSet({"level"})
      <4>1. {} \cup {"level"} = {"level"}
        OBVIOUS
      <4> QED
        BY <4>1, FS_EmptySet, FS_AddElement
    <3>2. {"level"} \cup {"format"} = {"level", "format"}
      OBVIOUS
    <3>3. IsFiniteSet({"level", "format"}) /\ bad \subseteq {"level", "format"}
      BY <3>1, <3>2, FS_AddElement
    <3> QED
      BY <3>3, FS_Subset, FS_CardinalityType
  <2>2. warnings' = [warnings EXCEPT ![t] =
                       IF Rank[level'] > Rank["warn"] THEN 0 ELSE Cardinality(bad)]
    BY <1>3 DEF StoreDefaults
  <2> HIDE DEF bad
  <2>3. warnings' \in [Threads -> Nat]
    BY <2>1, <2>2 DEF ThreadType
  <2> QED
    BY <1>3, <2>3 DEF StoreDefaults, ThreadType
<1>4. ASSUME NEW t \in Threads, Warn(t)
      PROVE  ThreadType'
  <2>1. <<"c">> \in Seq({"c", "n"}) /\ 0 \in Nat
    OBVIOUS
  <2>2. Emit(t, format, 0, <<"c">>) /\ format \in {"text", "journal"}
    BY <1>4 DEF Warn, SettingType
  <2>3. /\ record' \in [Threads -> [format : {"text", "journal", None},
                                    msg : Seq({"c", "n"}), bytes : Whole]]
        /\ rest' \in [Threads -> Whole]
    BY <2>1, <2>2, EmitStep
  <2>4. warnings' \in [Threads -> Nat]
    BY <1>4 DEF Warn, ThreadType
  <2> QED
    BY <1>4, <2>3, <2>4 DEF Warn, ThreadType
<1>5. ASSUME NEW t \in Threads, LogEmit(t)
      PROVE  ThreadType'
  <2>1. call[t].file \in Nat /\ call[t].msg \in Seq({"c", "n"})
    BY <1>5 DEF LogEmit, CallInv, Records
  <2>2. Emit(t, format, call[t].file, call[t].msg) /\ format \in {"text", "journal"}
    BY <1>5 DEF LogEmit, SettingType
  <2>3. /\ record' \in [Threads -> [format : {"text", "journal", None},
                                    msg : Seq({"c", "n"}), bytes : Whole]]
        /\ rest' \in [Threads -> Whole]
    BY <2>1, <2>2, EmitStep
  <2> QED
    BY <1>5, <2>3 DEF LogEmit, ThreadType
<1>6. <<>> \in Whole
  BY LogAssumption DEF Whole
<1>7. ASSUME NEW t \in Threads,
             WriteFails(t) \/ \E n \in 1 .. Len(rest[t]) : WriteSome(t, n)
      PROVE  ThreadType'
  <2>1. rest' = [rest EXCEPT ![t] = <<>>]
    BY <1>7, WriteStep DEF WriteFails
  <2>2. rest' \in [Threads -> Whole]
    BY <1>6, <2>1 DEF ThreadType
  <2>3. pc' \in [Threads -> {"idle", "init"} \cup Initializing \cup Initialized]
    BY <1>7 DEF WriteFails, WriteSome, AfterWrite, ThreadType
  <2>4. UNCHANGED <<call, warnings, record, made>>
    BY <1>7 DEF WriteFails, WriteSome
  <2> QED
    BY <2>2, <2>3, <2>4 DEF ThreadType
<1>8. CASE UNCHANGED logVars
  BY <1>8 DEF logVars, threads, ThreadType
<1> QED
  BY <1>1, <1>2, <1>3, <1>4, <1>5, <1>7, <1>8, LogCases DEF LogStep

\* What is left of a record is all of it, or nothing.
LEMMA WholeStep ==
    ASSUME LogInv, [Next]_vars
    PROVE  WriteInv'
<1> USE DEF LogInv
<1>1. CASE UNCHANGED <<record, rest, out>>
  BY <1>1 DEF WriteInv
<1>2. ASSUME NEW t \in Threads,
             OnceRuns(t) \/ OncePassed(t) \/ StoreDefaults(t) \/ OnceDone(t)
               \/ SetLevel(t) \/ SetFormat(t) \/ LuaEnabled(t) \/ LogWrite(t)
               \/ (\E c \in Configs \cup Records : Begin(t, c))
      PROVE  UNCHANGED <<record, rest, out>>
  BY <1>2 DEF OnceRuns, OncePassed, StoreDefaults, OnceDone, SetLevel, SetFormat,
     LuaEnabled, LogWrite, Begin
<1>3. ASSUME NEW t \in Threads, Warn(t) \/ LogEmit(t)
      PROVE  WriteInv'
  <2>1. PICK file \in Nat, msg \in Seq({"c", "n"}) : Emit(t, format, file, msg)
    <3>1. CASE Warn(t)
      <4>1. <<"c">> \in Seq({"c", "n"}) /\ 0 \in Nat
        OBVIOUS
      <4> QED
        BY <3>1, <4>1 DEF Warn
    <3>2. CASE LogEmit(t)
      <4>1. call[t].file \in Nat /\ call[t].msg \in Seq({"c", "n"})
        BY <3>2 DEF LogEmit, CallInv, Records
      <4> QED
        BY <3>2, <4>1 DEF LogEmit
    <3> QED
      BY <1>3, <3>1, <3>2
  <2>2. format \in {"text", "journal"}
    BY DEF SettingType
  <2>3. /\ rest'[t] = record'[t].bytes
        /\ \A u \in Threads \ {t} : rest'[u] = rest[u] /\ record'[u] = record[u]
    BY <2>1, <2>2, EmitStep
  <2>4. UNCHANGED out
    BY <1>3 DEF Warn, LogEmit
  <2> QED
    BY <2>3, <2>4 DEF WriteInv
<1>4. ASSUME NEW t \in Threads, WriteFails(t)
      PROVE  WriteInv'
  BY <1>4 DEF WriteFails, WriteInv, ThreadType
<1>5. ASSUME NEW t \in Threads, NEW n \in 1 .. Len(rest[t]), WriteSome(t, n)
      PROVE  WriteInv'
  <2>1. /\ rest' = [rest EXCEPT ![t] = <<>>]
        /\ out' \in Seq([id : Threads \X Nat \X Nat, left : {0}])
    BY <1>5, WriteStep
  <2>2. record' = record
    BY <1>5 DEF WriteSome
  <2> QED
    BY <2>1, <2>2 DEF WriteInv, ThreadType
<1>6. CASE UNCHANGED logVars
  BY <1>1, <1>6 DEF logVars, threads
<1> QED
  BY <1>1, <1>2, <1>3, <1>4, <1>5, <1>6, LogCases DEF LogStep

-----------------------------------------------------------------------------
(* Theorems *)

\* The inductive invariant of the logger, beside the luv loader.
THEOREM LogInvariant == Spec => []LogInv
<1>1. LogInv /\ [Next]_vars => LogInv'
  BY SettingStep, TypeStep, CallStep, WholeStep, OnceStep DEF LogInv
<1> QED
  BY <1>1, InitLogInv, PTL DEF Spec

\* Bytes end with themselves and with no bytes.
LEMMA OwnEnds ==
    ASSUME NEW b \in Seq(Byte)
    PROVE  IsSuffix(b, b) /\ IsSuffix(<<>>, b)
<1>1. Reverse(<<>>) = <<>> /\ Len(Reverse(b)) = Len(b)
  BY DEF Reverse
<1> QED
  BY <1>1 DEF IsSuffix, IsPrefix

\* No record that emit puts together is longer than the buffer, whatever the
\* message, the location and the format; what write_all has still to write is the
\* end of it.
THEOREM LogTypes == Spec => []LogTypeOK
<1>1. LogInv => LogTypeOK
  <2> SUFFICES ASSUME LogInv PROVE LogTypeOK
    OBVIOUS
  <2>1. ASSUME NEW t \in Threads
        PROVE  /\ Len(record[t].bytes) <= LOG_LINE_MAX
               /\ IsSuffix(rest[t], record[t].bytes)
    <3>1. record[t].bytes \in Seq(Byte) /\ Len(record[t].bytes) <= LOG_LINE_MAX
      <4>1. record[t].bytes \in Whole
        BY DEF LogInv, ThreadType
      <4> QED
        BY <4>1 DEF Whole
    <3>2. rest[t] = <<>> \/ rest[t] = record[t].bytes
      BY DEF LogInv, WriteInv
    <3> QED
      BY <3>1, <3>2, OwnEnds
  <2> QED
    BY <2>1 DEF LogTypeOK, LogInv, SettingType
<1> QED
  BY <1>1, LogInvariant, PTL

\* Records of different threads do not interleave on stderr: each is one write.
THEOREM LogRecordsWhole == Spec => []RecordsWhole
<1>1. LogInv => RecordsWhole
  <2> SUFFICES ASSUME LogInv, NEW i \in 1 .. Len(out) - 1
               PROVE  out[i].left = 0
    BY DEF RecordsWhole
  <2> DEFINE W == [id : Threads \X Nat \X Nat, left : {0}]
  <2>1. out \in Seq(W)
    BY DEF LogInv, WriteInv
  <2>2. \A w \in W : w.left = 0
    OBVIOUS
  <2> HIDE DEF W
  <2>3. i \in 1 .. Len(out)
    BY <2>1
  <2>4. out[i] \in W
    BY <2>1, <2>3
  <2> QED
    BY <2>2, <2>4
<1> QED
  BY <1>1, LogInvariant, PTL

\* What a program has chosen with log_config is not replaced by the settings of
\* the environment, whichever thread reads them.
THEOREM LogSettingStays == Spec => []SettingStays
<1>1. LogInv => SettingStays
  BY DEF LogInv
<1> QED
  BY <1>1, LogInvariant, PTL

-----------------------------------------------------------------------------
(* What records have. *)

\* Every record that a thread has put together is as its format wants it.
ContentInv ==
    \A t \in Threads :
        /\ record[t] = NoRecord \/ Shown(record[t].msg, record[t].bytes)
        /\ record[t].format = "journal" => InLines(record[t].bytes)

\* Only emit makes records.
LEMMA ContentStep ==
    ASSUME LogInv, ContentInv, [Next]_vars
    PROVE  ContentInv'
<1>1. CASE UNCHANGED record
  BY <1>1 DEF ContentInv
<1>2. ASSUME NEW t \in Threads, NEW file \in Nat, NEW msg \in Seq(Text),
             Emit(t, format, file, msg)
      PROVE  ContentInv'
  <2> DEFINE bytes == emit(format, file, msg)
             r == [format |-> format, msg |-> msg, bytes |-> bytes]
  <2>1. record' = [record EXCEPT ![t] = r] /\ t \in DOMAIN record
    BY <1>2 DEF Emit, LogInv, ThreadType
  <2>2. Shown(msg, bytes) /\ (format = "journal" => InLines(bytes))
    BY <1>2, EmitHolds
  <2> HIDE DEF bytes
  <2>3. r.msg = msg /\ r.bytes = bytes /\ r.format = format
    OBVIOUS
  <2> HIDE DEF r
  <2>4. \A u \in Threads : record'[u] = IF u = t THEN r ELSE record[u]
    BY <2>1 DEF LogInv, ThreadType
  <2> QED
    BY <2>2, <2>3, <2>4 DEF ContentInv
<1>3. ASSUME NEW t \in Threads, Warn(t) \/ LogEmit(t)
      PROVE  ContentInv'
  <2>1. CASE Warn(t)
    <3>1. <<"c">> \in Seq(Text) /\ 0 \in Nat
      BY DEF Text
    <3> QED
      BY <1>2, <2>1, <3>1 DEF Warn
  <2>2. CASE LogEmit(t)
    <3>1. call[t].file \in Nat /\ call[t].msg \in Seq(Text)
      BY <2>2 DEF LogEmit, LogInv, CallInv, Records, Text
    <3> QED
      BY <1>2, <2>2, <3>1 DEF LogEmit
  <2> QED
    BY <1>3, <2>1, <2>2
<1>4. ASSUME NEW t \in Threads,
             OnceRuns(t) \/ OncePassed(t) \/ StoreDefaults(t) \/ OnceDone(t)
               \/ SetLevel(t) \/ SetFormat(t) \/ LuaEnabled(t) \/ LogWrite(t)
               \/ WriteFails(t) \/ (\E n \in 1 .. Len(rest[t]) : WriteSome(t, n))
               \/ (\E c \in Configs \cup Records : Begin(t, c))
      PROVE  UNCHANGED record
  BY <1>4 DEF OnceRuns, OncePassed, StoreDefaults, OnceDone, SetLevel, SetFormat,
     LuaEnabled, LogWrite, WriteFails, WriteSome, Begin
<1>5. CASE UNCHANGED logVars
  BY <1>1, <1>5 DEF logVars, threads
<1> QED
  BY <1>1, <1>3, <1>4, <1>5, LogCases DEF LogStep

\* It is an invariant, together with LogInv.
LEMMA ContentInvariant == Spec => []ContentInv
<1>1. Init => ContentInv
  BY DEF Init, LogInit, ContentInv, NoRecord, None
<1>2. LogInv /\ ContentInv /\ [Next]_vars => ContentInv'
  BY ContentStep
<1> QED
  BY <1>1, <1>2, LogInvariant, PTL DEF Spec

\* A record has all of its message or ends with the mark that says it has not: for
\* every buffer size, message and location, in both formats.
THEOREM LogTruncationShown == Spec => []TruncationShown
<1>1. ContentInv => TruncationShown
  BY DEF ContentInv, TruncationShown, Shown
<1> QED
  BY <1>1, ContentInvariant, PTL

\* In journal format every line that shows any of the message has its priority.
\* The one that has not is the last of a record that was cut, and consists of the
\* mark, after at most the beginning of a priority: api.md:293 and the comment at
\* log.c:127 promise the priority there too.
THEOREM LogLinesPrefixed == Spec => []LinesPrefixed
<1>1. ContentInv => LinesPrefixed
  BY DEF ContentInv, LinesPrefixed, InLines
<1> QED
  BY <1>1, ContentInvariant, PTL

-----------------------------------------------------------------------------
(* The luv loader *)

Both == {"luaopen_luv", "luv_set_loop"}
Busy == {"dlopen", "luaopen_luv", "luv_set_loop", "loaded"}
Told == {"use", "ready"}
Labels == {"start", "once", "failed", "gone"} \cup Busy \cup Told

LoaderTypeOK ==
    /\ prepared \in BOOLEAN /\ handle \in {"NULL", "open"}
    /\ status \in {"ok", "ENOENT", "ENOSYS"}
    /\ loading \in {"todo", "running", "done"}
    /\ at \in [VMs -> Labels]
    /\ answer \in [VMs -> {"none", "ok", "ENOENT", "ENOSYS"}]

\* The outcome is fixed by who runs the initialization: at most one thread.
OneLoads ==
    /\ \A t \in VMs : at[t] \in Busy => loading = "running"
    /\ \A t, u \in VMs : at[t] \in Busy /\ at[u] \in Busy => t = u
    /\ (\E t \in VMs : at[t] # "start") => prepared
    /\ loading # "todo" => prepared
    /\ loading = "todo" => handle = "NULL" /\ symbols = {}

\* How far it has got.
Progress ==
    /\ \A t \in VMs :
         /\ at[t] = "dlopen" => status = "ok" /\ symbols = {}
         /\ at[t] = "luaopen_luv" => status = "ok" /\ handle = "open" /\ symbols = {}
         /\ at[t] = "luv_set_loop" => status = "ok" /\ handle = "open"
                                      /\ symbols = {"luaopen_luv"}
         /\ at[t] = "loaded" => (status = "ok" => handle = "open" /\ symbols = Both)
    /\ loading = "done" => (status = "ok" => handle = "open" /\ symbols = Both)

\* What threads have been told is the outcome.
Answers ==
    /\ \A t \in VMs : answer[t] # "none" => loading = "done" /\ answer[t] = status
    /\ \A t \in VMs : at[t] \in Told => answer[t] = "ok"

LoaderInv == LoaderTypeOK /\ OneLoads /\ Progress /\ Answers

\* Nothing is prepared and no symbol is loaded at the start.
LEMMA InitLoader == LoaderInit => LoaderInv
BY DEF LoaderInit, LoaderInv, LoaderTypeOK, OneLoads, Progress, Answers, Labels,
       Busy, Told, Both

\* One step per action of the loader.
LEMMA LoaderHolds ==
    LoaderInv /\ [\E t \in VMs : LoaderStep(t) \/ GivesUp(t)]_loaderVars => LoaderInv'
<1> SUFFICES ASSUME LoaderInv,
                    [\E t \in VMs : LoaderStep(t) \/ GivesUp(t)]_loaderVars
             PROVE  LoaderInv'
    OBVIOUS
<1> USE DEF LoaderInv, LoaderTypeOK, OneLoads, Progress, Answers, Labels, Busy,
            Told, Both, Move, loader
<1>1. CASE UNCHANGED loaderVars
    BY <1>1 DEF loaderVars
<1>2. ASSUME NEW t \in VMs, Prepare(t) PROVE LoaderInv'
    BY <1>2 DEF Prepare, Finds
<1>3. ASSUME NEW t \in VMs, LoadRuns(t) PROVE LoaderInv'
    BY <1>3 DEF LoadRuns
<1>4. ASSUME NEW t \in VMs, Opens(t) PROVE LoaderInv'
    BY <1>4 DEF Opens
<1>5. ASSUME NEW t \in VMs, Resolves(t, "luaopen_luv", "luv_set_loop") PROVE LoaderInv'
    BY <1>5 DEF Resolves
<1>6. ASSUME NEW t \in VMs, Resolves(t, "luv_set_loop", "loaded") PROVE LoaderInv'
    BY <1>6 DEF Resolves
<1>7. ASSUME NEW t \in VMs, LoadDone(t) PROVE LoaderInv'
    BY <1>7 DEF LoadDone
<1>8. ASSUME NEW t \in VMs, Returns(t) PROVE LoaderInv'
    BY <1>8 DEF Returns
<1>9. ASSUME NEW t \in VMs, Uses(t) \/ GivesUp(t) PROVE LoaderInv'
    BY <1>9 DEF Uses, GivesUp
<1>10. QED
    BY <1>1, <1>2, <1>3, <1>4, <1>5, <1>6, <1>7, <1>8, <1>9 DEF LoaderStep

\* A step of ProcessWide is one of the loader, or leaves it alone.
LEMMA LoaderCases ==
    ASSUME [Next]_vars
    PROVE  [\E t \in VMs : LoaderStep(t) \/ GivesUp(t)]_loaderVars
<1>1. VMs = Threads
  BY ProcessAssumption
<1>2. ASSUME NEW t \in Threads, Load(t) \/ ReportFailure(t)
      PROVE  LoaderStep(t) \/ GivesUp(t)
  BY <1>2 DEF Load, ReportFailure
<1>3. ASSUME UNCHANGED vars
      PROVE  UNCHANGED loaderVars
  BY <1>3 DEF vars
<1> QED
  BY <1>1, <1>2, <1>3 DEF Next, Call, Done

\* The loader keeps its invariant, whatever else its threads do.
LEMMA LoaderInvariant == Spec => []LoaderInv
<1>1. Init => LoaderInv
  BY InitLoader DEF Init
<1>2. LoaderInv /\ [Next]_vars => LoaderInv'
  BY LoaderCases, LoaderHolds
<1> QED
  BY <1>1, <1>2, PTL DEF Spec

\* Whatever threads start at once and whatever fails: a thread that was told
\* that luv can be used finds the object open and both symbols set.
THEOREM LoadedBeforeUse == Spec => []LoadedWhenUsed
<1>1. LoaderInv => LoadedWhenUsed
    BY DEF LoaderInv, LoaderTypeOK, Progress, Answers, LoadedWhenUsed, Told, Both
<1>2. QED
    BY LoaderInvariant, <1>1, PTL

\* All threads are told the same.
THEOREM AllToldTheSame == Spec => []SameAnswer
<1>1. LoaderInv => SameAnswer
    BY DEF LoaderInv, Answers, SameAnswer
<1>2. QED
    BY LoaderInvariant, <1>1, PTL

=============================================================================
