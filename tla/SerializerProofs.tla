-------------------------- MODULE SerializerProofs --------------------------
(***************************************************************************)
(* Proofs about Serializer: what pack writes are bytes whose cookies fit,  *)
(* and the assertion in change_mark holds.                                 *)
(***************************************************************************)
EXTENDS Serializer, Iteration, SequenceTheorems

-----------------------------------------------------------------------------
(* Types. *)

\* Types whose cookie is a length, a size, a depth.
Small == {"short string", "table", "table mark", "ref"}

\* What Digits writes.
Digit == {(p[1] \div Base^p[2]) % Base : p \in Nat \X Nat}

Bytes == ({"boolean", "number", "userdata", "long string"} \X Nat)
         \cup ({"digit"} \X Digit)
         \cup (Small \X (0 .. MAX_COOKIE - 1))
         \cup ({"content"} \X Values \X Nat)

\* struct write_block; its error is never the assertion.
WriteBlock ==
    [blk : Seq(Seq(Bytes)), len : Nat, depth : Nat, objectid : Nat,
     ancestor : [0 .. MAX_DEPTH - 1 -> Tables \cup {0}],
     r : Seq(Tables \X (Nat \X Nat)), lookup : [Tables -> Nat],
     addr : Seq(Nat \X Nat),
     err : {"none", "function", "unsupported"}]

\* All blocks but the last are full, and len counts their bytes.
Chained(b) ==
    LET n == Len(b.blk) IN
    /\ n > 0
    /\ \A i \in 1 .. n - 1 : Len(b.blk[i]) = BLOCK_SIZE
    /\ Len(b.blk[n]) <= BLOCK_SIZE
    /\ b.len = (n - 1) * BLOCK_SIZE + Len(b.blk[n])

\* The places of the tags that may still change, by the numbers of the tables.
Places(b) ==
    IF b.objectid <= MAX_REFERENCE THEN [i \in DOMAIN b.r |-> b.r[i][2]] ELSE b.addr

\* There is the tag of a table at that place.
HasTable(blk, a) ==
    /\ a[1] \in 1 .. Len(blk) /\ a[2] \in 1 .. Len(blk[a[1]])
    /\ blk[a[1]][a[2]][1] = "table"

\* Every table met has a place, and lookup has no other number.
Known(b) ==
    /\ Len(Places(b)) = b.objectid
    /\ b.objectid > MAX_REFERENCE =>
         \A t \in Tables : b.lookup[t] <= b.objectid

\* Each place that is kept has the tag of a table, and no two are the same.
Tagged(blk, places) ==
    /\ \A i \in 1 .. Len(places) :
         places[i] # NoAddress => HasTable(blk, places[i])
    /\ \A i, j \in 1 .. Len(places) :
         places[i] = places[j] /\ places[i] # NoAddress => i = j

\* What holds of the writer between any two of its calls.
Good(b) == b \in WriteBlock /\ Chained(b) /\ Known(b) /\ Tagged(b.blk, Places(b))

\* What a push leaves alone.
Same(c, b) ==
    /\ c.depth = b.depth /\ c.objectid = b.objectid /\ c.ancestor = b.ancestor
    /\ c.r = b.r /\ c.lookup = b.lookup /\ c.addr = b.addr /\ c.err = b.err

\* Whatever was written is still there.
Grows(blk, new) ==
    \A k \in 1 .. Len(blk) :
        /\ k <= Len(new) /\ Len(blk[k]) <= Len(new[k])
        /\ \A j \in 1 .. Len(blk[k]) : new[k][j] = blk[k][j]

-----------------------------------------------------------------------------
(* Pushing bytes. *)

\* Places keep their tags when blocks only grow.
LEMMA GrowsKeeps ==
    ASSUME NEW blk \in Seq(Seq(Bytes)), NEW new \in Seq(Seq(Bytes)), Grows(blk, new),
           NEW places \in Seq(Nat \X Nat), Tagged(blk, places)
    PROVE  Tagged(new, places)
<1>1. ASSUME NEW a \in Nat \X Nat, HasTable(blk, a)
      PROVE  HasTable(new, a)
  <2>1. /\ a[1] \in 1 .. Len(blk) /\ a[2] \in 1 .. Len(blk[a[1]])
        /\ blk[a[1]][a[2]][1] = "table"
    BY <1>1 DEF HasTable
  <2>2. /\ a[1] <= Len(new) /\ Len(blk[a[1]]) <= Len(new[a[1]])
        /\ new[a[1]][a[2]] = blk[a[1]][a[2]]
    BY <2>1 DEF Grows
  <2>3. /\ Len(blk) \in Nat /\ Len(new) \in Nat
        /\ a[1] \in 1 .. Len(new) /\ new[a[1]] \in Seq(Bytes)
        /\ blk[a[1]] \in Seq(Bytes)
    BY <2>1, <2>2
  <2>4. Len(new[a[1]]) \in Nat /\ Len(blk[a[1]]) \in Nat
    BY <2>3
  <2>5. a[2] \in 1 .. Len(new[a[1]])
    BY <2>1, <2>2, <2>4
  <2> QED
    BY <2>1, <2>2, <2>3, <2>5 DEF HasTable
<1>2. \A i \in 1 .. Len(places) : places[i] \in Nat \X Nat
  OBVIOUS
<1> QED
  BY <1>1, <1>2 DEF Tagged

\* Growing twice is growing.
LEMMA GrowsTrans ==
    ASSUME NEW a, NEW b, NEW c, Grows(a, b), Grows(b, c),
           a \in Seq(Seq(Bytes)), b \in Seq(Seq(Bytes)), c \in Seq(Seq(Bytes))
    PROVE  Grows(a, c)
<1> SUFFICES ASSUME NEW k, k \in 1 .. Len(a)
             PROVE  /\ k <= Len(c) /\ Len(a[k]) <= Len(c[k])
                    /\ \A j \in 1 .. Len(a[k]) : c[k][j] = a[k][j]
  BY DEF Grows
<1>1. /\ k <= Len(b) /\ Len(a[k]) <= Len(b[k])
      /\ \A j \in 1 .. Len(a[k]) : b[k][j] = a[k][j]
  BY DEF Grows
<1>2. Len(a) \in Nat /\ Len(b) \in Nat /\ Len(c) \in Nat
  OBVIOUS
<1>3. k \in 1 .. Len(b)
  BY ONLY <1>1, <1>2, k \in 1 .. Len(a)
<1>4. /\ k <= Len(c) /\ Len(b[k]) <= Len(c[k])
      /\ \A j \in 1 .. Len(b[k]) : c[k][j] = b[k][j]
  BY <1>3 DEF Grows
<1>5. k \in 1 .. Len(c)
  BY ONLY <1>2, <1>3, <1>4
<1>6. /\ a[k] \in Seq(Bytes) /\ b[k] \in Seq(Bytes) /\ c[k] \in Seq(Bytes)
  BY <1>3, <1>5
<1>7. Len(a[k]) \in Nat /\ Len(b[k]) \in Nat /\ Len(c[k]) \in Nat
  BY ONLY <1>6
<1>8. \A j \in 1 .. Len(a[k]) : j \in 1 .. Len(b[k])
  BY ONLY <1>1, <1>7
<1>9. Len(a[k]) <= Len(c[k])
  BY ONLY <1>1, <1>4, <1>7
<1> QED
  BY ONLY <1>1, <1>4, <1>8, <1>9

\* What a push of bytes may do to a block.
Pushed(c, b) ==
    /\ c \in WriteBlock /\ Chained(c) /\ Same(c, b) /\ Grows(b.blk, c.blk)

\* blk_alloc makes room for a byte and changes nothing else.
LEMMA AllocPushes ==
    ASSUME NEW b \in WriteBlock, Chained(b)
    PROVE  /\ Pushed(blk_alloc(b), b)
           /\ Len(Last(blk_alloc(b).blk)) < BLOCK_SIZE
<1> DEFINE n == Len(b.blk)
           c == blk_alloc(b)
<1>0. BLOCK_SIZE \in Nat /\ BLOCK_SIZE > 0
  BY SerializerAssumption
<1>1. /\ b.blk \in Seq(Seq(Bytes)) /\ n \in Nat /\ n > 0 /\ b.blk[n] \in Seq(Bytes)
      /\ Last(b.blk) = b.blk[n] /\ Len(b.blk[n]) \in Nat /\ Len(b.blk[n]) <= BLOCK_SIZE
  BY DEF WriteBlock, Chained, Last
<1>2. CASE Len(b.blk[n]) # BLOCK_SIZE
  <2>1. c = b
    BY <1>1, <1>2 DEF blk_alloc
  <2>2. Grows(b.blk, b.blk)
    BY <1>1 DEF Grows
  <2> QED
    BY <1>0, <1>1, <1>2, <2>1, <2>2 DEF Pushed, Same
<1>3. CASE Len(b.blk[n]) = BLOCK_SIZE
  <2> DEFINE new == Append(b.blk, <<>>)
  <2>1. c = [b EXCEPT !.blk = new]
    BY <1>1, <1>3 DEF blk_alloc
  <2>2. /\ new \in Seq(Seq(Bytes)) /\ Len(new) = n + 1 /\ new[n + 1] = <<>>
        /\ \A i \in 1 .. n : new[i] = b.blk[i]
    BY <1>1
  <2>3. Len(<<>>) = 0
    OBVIOUS
  <2> HIDE DEF new
  <2>4. c \in WriteBlock /\ c.blk = new /\ c.len = b.len /\ Same(c, b)
    BY <2>1, <2>2 DEF WriteBlock, Same
  <2> HIDE DEF c
  <2>5. \A i \in 1 .. n - 1 : Len(b.blk[i]) = BLOCK_SIZE
    BY DEF Chained
  <2>6. b.len = (n - 1) * BLOCK_SIZE + BLOCK_SIZE
    BY <1>3 DEF Chained
  <2>7. n = Len(b.blk)
    OBVIOUS
  <2> HIDE DEF n
  <2>8. Chained(c)
    <3>1. (n + 1) - 1 = n
      BY <1>1
    <3>2. \A i \in 1 .. n : Len(new[i]) = BLOCK_SIZE
      <4> SUFFICES ASSUME NEW i \in 1 .. n PROVE Len(new[i]) = BLOCK_SIZE
        OBVIOUS
      <4>1. i = n \/ i \in 1 .. n - 1
        BY <1>1
      <4> QED
        BY ONLY <1>3, <2>2, <2>5, <4>1
    <3>3. b.len = n * BLOCK_SIZE + 0
      BY ONLY <1>0, <1>1, <2>6
    <3>4. /\ n + 1 > 0 /\ Len(new[n + 1]) = 0 /\ 0 <= BLOCK_SIZE
      BY <1>0, <1>1, <2>2, <2>3
    <3> QED
      BY ONLY <2>2, <2>4, <3>1, <3>2, <3>3, <3>4 DEF Chained
  <2>9. Grows(b.blk, new)
    <3>1. ASSUME NEW k \in 1 .. n
          PROVE  k <= n + 1 /\ Len(b.blk[k]) \in Nat /\ new[k] = b.blk[k]
      <4>1. b.blk[k] \in Seq(Bytes) /\ k <= n + 1
        BY <1>1, <2>7
      <4> QED
        BY <2>2, <4>1
    <3> QED
      BY ONLY <2>2, <2>7, <3>1 DEF Grows
  <2>10. Len(Last(c.blk)) = 0
    BY <2>2, <2>3, <2>4 DEF Last
  <2> QED
    BY ONLY <1>0, <2>4, <2>8, <2>9, <2>10 DEF Pushed, c
<1> QED
  BY <1>2, <1>3

\* One byte more.
LEMMA PutBytePushes ==
    ASSUME NEW b \in WriteBlock, Chained(b), NEW x \in Bytes
    PROVE  Pushed(PutByte(b, x), b)
<1> DEFINE a == blk_alloc(b)
           n == Len(a.blk)
           new == [a.blk EXCEPT ![n] = Append(@, x)]
           c == [a EXCEPT !.blk = new, !.len = @ + 1]
<1>0. BLOCK_SIZE \in Nat
  BY SerializerAssumption
<1>1. Pushed(a, b) /\ Len(Last(a.blk)) < BLOCK_SIZE
  BY AllocPushes
<1>2. PutByte(b, x) = c
  BY DEF PutByte
<1> HIDE DEF a
<1>3. /\ a \in WriteBlock /\ a.blk \in Seq(Seq(Bytes)) /\ n \in Nat /\ n > 0
      /\ a.blk[n] \in Seq(Bytes) /\ Len(a.blk[n]) \in Nat /\ Len(a.blk[n]) < BLOCK_SIZE
  <2>1. a \in WriteBlock /\ n > 0
    BY ONLY <1>1 DEF Pushed, Chained
  <2>2. a.blk \in Seq(Seq(Bytes))
    BY ONLY <2>1 DEF WriteBlock
  <2>3. Last(a.blk) = a.blk[n]
    BY DEF Last
  <2> QED
    BY ONLY <1>1, <2>1, <2>2, <2>3
<1>4. /\ new \in Seq(Seq(Bytes)) /\ Len(new) = n
      /\ new[n] = Append(a.blk[n], x) /\ \A i \in 1 .. n - 1 : new[i] = a.blk[i]
  BY <1>3
<1> HIDE DEF new
<1>5. /\ Len(new[n]) = Len(a.blk[n]) + 1
      /\ \A j \in 1 .. Len(a.blk[n]) : new[n][j] = a.blk[n][j]
  BY <1>3, <1>4
<1>6. c \in WriteBlock /\ c.blk = new /\ c.len = a.len + 1 /\ Same(c, a)
  <2>1. a.len + 1 \in Nat
    BY <1>3 DEF WriteBlock
  <2> HIDE DEF n
  <2> QED
    BY ONLY <1>3, <1>4, <2>1 DEF WriteBlock, Same
<1> HIDE DEF c
<1>7. n = Len(a.blk)
  OBVIOUS
<1>8. /\ \A i \in 1 .. n - 1 : Len(a.blk[i]) = BLOCK_SIZE
      /\ a.len = (n - 1) * BLOCK_SIZE + Len(a.blk[n]) /\ a.len \in Nat
  BY <1>1, <1>3 DEF Pushed, Chained, WriteBlock
<1> HIDE DEF n
<1>9. Chained(c)
  <2> DEFINE m == (n - 1) * BLOCK_SIZE
  <2>1. m \in Int /\ a.len = m + Len(a.blk[n])
    BY ONLY <1>0, <1>3, <1>8
  <2>2. \A i \in 1 .. n - 1 : Len(new[i]) = BLOCK_SIZE
    BY <1>4, <1>8
  <2> HIDE DEF m
  <2>3. a.len + 1 = m + (Len(a.blk[n]) + 1) /\ Len(a.blk[n]) + 1 <= BLOCK_SIZE
    BY ONLY <1>0, <1>3, <2>1
  <2> QED
    BY ONLY <1>3, <1>4, <1>5, <1>6, <2>2, <2>3 DEF Chained, m
<1>10. Grows(a.blk, new)
  <2> SUFFICES ASSUME NEW k \in 1 .. n
               PROVE  /\ k <= n /\ Len(a.blk[k]) <= Len(new[k])
                      /\ \A j \in 1 .. Len(a.blk[k]) : new[k][j] = a.blk[k][j]
    BY <1>4, <1>7 DEF Grows
  <2>1. CASE k = n
    BY <1>3, <1>5, <2>1
  <2>2. CASE k # n
    <3>1. k \in 1 .. n - 1 /\ a.blk[k] \in Seq(Bytes)
      BY <1>3, <1>7, <2>2
    <3>2. new[k] = a.blk[k] /\ Len(a.blk[k]) \in Nat
      BY <1>4, <3>1
    <3> QED
      BY <1>3, <3>2
  <2> QED
    BY <2>1, <2>2
<1>11. Grows(b.blk, new)
  <2>1. b.blk \in Seq(Seq(Bytes))
    BY DEF WriteBlock
  <2>2. Grows(b.blk, a.blk)
    BY <1>1 DEF Pushed
  <2> QED
    BY <1>3, <1>4, <1>10, <2>1, <2>2, GrowsTrans
<1>12. Same(c, b)
  BY <1>1, <1>6 DEF Pushed, Same
<1> QED
  BY <1>2, <1>6, <1>9, <1>11, <1>12 DEF Pushed

\* The loop of wb_push.
LEMMA PushIsLoop ==
    ASSUME NEW b, b \in WriteBlock, Chained(b), NEW bytes, bytes \in Seq(Bytes)
    PROVE  \E f : /\ f[0] = blk_alloc(b)
                  /\ \A n \in 1 .. Len(bytes) : f[n] = PutByte(f[n - 1], bytes[n])
                  /\ wb_push(b, bytes) = f[Len(bytes)]
<1> DEFINE N == Len(bytes)
           S == {c \in WriteBlock : Pushed(c, b)}
           step == [n \in 1 .. N |-> [c \in S |-> PutByte(c, bytes[n])]]
           s0 == blk_alloc(b)
           Eq(g) == g = [n \in 0 .. N |-> IF n = 0 THEN s0
                                          ELSE PutByte(g[n - 1], bytes[n])]
           f == CHOOSE g : Eq(g)
<1>1. wb_push(b, bytes) = f[N]
  BY DEF wb_push
<1>2. s0 \in S
  BY AllocPushes DEF Pushed
<1>3. ASSUME NEW n \in 1 .. N, NEW c \in S
      PROVE  PutByte(c, bytes[n]) \in S
  <2>1. c \in WriteBlock /\ Chained(c) /\ Same(c, b) /\ Grows(b.blk, c.blk)
    BY DEF Pushed
  <2>2. Pushed(PutByte(c, bytes[n]), c)
    BY <2>1, PutBytePushes
  <2>3. PICK d : d = PutByte(c, bytes[n])
    OBVIOUS
  <2>4. d \in WriteBlock /\ Chained(d) /\ Same(d, c) /\ Grows(c.blk, d.blk)
    BY <2>2, <2>3 DEF Pushed
  <2>5. Same(d, b)
    BY <2>1, <2>4 DEF Same
  <2>6. Grows(b.blk, d.blk)
    <3>1. b.blk \in Seq(Seq(Bytes)) /\ c.blk \in Seq(Seq(Bytes)) /\ d.blk \in Seq(Seq(Bytes))
      BY <2>1, <2>4 DEF WriteBlock
    <3> QED
      BY <2>1, <2>4, <3>1, GrowsTrans
  <2> QED
    BY <2>3, <2>4, <2>5, <2>6 DEF Pushed
<1>4. N \in Nat
  OBVIOUS
<1> HIDE DEF S, s0, N
<1>5. step \in [1 .. N -> [S -> S]]
  BY <1>3
<1>6. PICK h \in [0 .. N -> S] :
          \A n \in 0 .. N : h[n] = IF n = 0 THEN s0 ELSE step[n][h[n - 1]]
  <2> HIDE DEF step
  <2> QED
    BY ONLY <1>2, <1>4, <1>5, IteratedUpto
<1>7. Eq(f)
  <2>1. ASSUME NEW n \in 0 .. N
        PROVE  h[n] = IF n = 0 THEN s0 ELSE PutByte(h[n - 1], bytes[n])
    <3>1. CASE n = 0
      BY <1>6, <3>1
    <3>2. CASE n # 0
      <4>1. n \in 1 .. N /\ n - 1 \in 0 .. N
        BY <1>4, <3>2
      <4>2. h[n - 1] \in S
        BY <4>1
      <4>3. step[n][h[n - 1]] = PutByte(h[n - 1], bytes[n])
        BY <4>1, <4>2
      <4> QED
        BY <1>6, <3>2, <4>3
    <3> QED
      BY <3>1, <3>2
  <2>2. Eq(h)
    BY <2>1
  <2> HIDE DEF Eq
  <2> QED
    BY <2>2
<1> HIDE DEF f
<1>8. f[0] = blk_alloc(b)
  BY <1>4, <1>7 DEF s0
<1>9. ASSUME NEW n \in 1 .. N
      PROVE  f[n] = PutByte(f[n - 1], bytes[n])
  <2>1. n \in 0 .. N /\ n # 0
    BY <1>4
  <2> QED
    BY <1>7, <2>1
<1> QED
  BY <1>1, <1>8, <1>9 DEF N

\* Any number of bytes, over as many blocks as they need.
LEMMA PushPushes ==
    ASSUME NEW b \in WriteBlock, Chained(b), NEW bytes \in Seq(Bytes)
    PROVE  Pushed(wb_push(b, bytes), b)
<1>1. PICK f : /\ f[0] = blk_alloc(b)
               /\ \A n \in 1 .. Len(bytes) : f[n] = PutByte(f[n - 1], bytes[n])
               /\ wb_push(b, bytes) = f[Len(bytes)]
  BY PushIsLoop
<1> DEFINE S == {c \in WriteBlock : Pushed(c, b)}
<1>2. f[0] \in S
  BY <1>1, AllocPushes DEF Pushed
<1>3. ASSUME NEW n \in 1 .. Len(bytes), f[n - 1] \in S
      PROVE  f[n] \in S
  <2> DEFINE c == f[n - 1]
             d == f[n]
  <2>1. c \in WriteBlock /\ Chained(c) /\ Same(c, b) /\ Grows(b.blk, c.blk)
    BY <1>3 DEF Pushed
  <2>2. bytes[n] \in Bytes /\ d = PutByte(c, bytes[n])
    BY <1>1
  <2> HIDE DEF c, d
  <2>3. Pushed(d, c)
    BY <2>1, <2>2, PutBytePushes
  <2>4. d \in WriteBlock /\ Chained(d) /\ Same(d, c) /\ Grows(c.blk, d.blk)
    BY <2>3 DEF Pushed
  <2>5. Same(d, b)
    BY <2>1, <2>4 DEF Same
  <2>6. Grows(b.blk, d.blk)
    <3>1. b.blk \in Seq(Seq(Bytes)) /\ c.blk \in Seq(Seq(Bytes)) /\ d.blk \in Seq(Seq(Bytes))
      BY <2>1, <2>4 DEF WriteBlock
    <3> QED
      BY <2>1, <2>4, <3>1, GrowsTrans
  <2> QED
    BY <2>4, <2>5, <2>6 DEF Pushed, d
<1>4. Len(bytes) \in Nat
  OBVIOUS
<1>5. f[Len(bytes)] \in S
  <2> HIDE DEF S
  <2> QED
    BY <1>2, <1>3, <1>4, LoopInvariant
<1> QED
  BY <1>1, <1>5

\* A byte goes where wb_address says.
LEMMA PushAtAddress ==
    ASSUME NEW b \in WriteBlock, Chained(b), Len(Last(b.blk)) < BLOCK_SIZE, NEW x \in Bytes
    PROVE  LET a == wb_address(b)
               c == wb_push(b, <<x>>)
           IN /\ a \in Nat \X Nat /\ a # NoAddress /\ a[1] \in 1 .. Len(c.blk)
              /\ a[2] \in 1 .. Len(c.blk[a[1]]) /\ c.blk[a[1]][a[2]] = x
<1> DEFINE n == Len(b.blk)
           m == Len(b.blk[n])
           c == wb_push(b, <<x>>)
<1>0. BLOCK_SIZE \in Nat
  BY SerializerAssumption
<1>1. /\ b.blk \in Seq(Seq(Bytes)) /\ n \in Nat /\ n > 0
  BY DEF WriteBlock, Chained
<1>2. /\ b.blk[n] \in Seq(Bytes) /\ m \in Nat /\ Last(b.blk) = b.blk[n]
  BY <1>1 DEF Last
<1>3. m # BLOCK_SIZE
  BY <1>0, <1>2
<1>4. blk_alloc(b) = b
  BY <1>2, <1>3 DEF blk_alloc
<1>5. c = PutByte(b, x)
  <2>1. /\ <<x>> \in Seq(Bytes) /\ Len(<<x>>) = 1 /\ <<x>>[1] = x
    OBVIOUS
  <2>2. PICK f : /\ f[0] = blk_alloc(b)
                 /\ \A i \in 1 .. Len(<<x>>) : f[i] = PutByte(f[i - 1], <<x>>[i])
                 /\ wb_push(b, <<x>>) = f[Len(<<x>>)]
    BY <2>1, PushIsLoop
  <2>3. f[1] = PutByte(f[0], x)
    <3>1. 1 \in 1 .. 1 /\ 1 - 1 = 0
      OBVIOUS
    <3> QED
      BY ONLY <2>1, <2>2, <3>1
  <2> QED
    BY <1>4, <2>1, <2>2, <2>3
<1>6. c.blk = [b.blk EXCEPT ![n] = Append(@, x)]
  <2>1. PutByte(b, x) = [b EXCEPT !.blk[n] = Append(@, x), !.len = @ + 1]
    BY <1>4 DEF PutByte
  <2> HIDE DEF c, n
  <2> QED
    BY <1>5, <2>1 DEF WriteBlock
<1>7. wb_address(b) = <<n, m + 1>>
  BY <1>2 DEF wb_address
<1> HIDE DEF c
<1>8. Len(c.blk) = n /\ c.blk[n] = Append(b.blk[n], x)
  BY <1>1, <1>6
<1>9. Len(c.blk[n]) = m + 1 /\ c.blk[n][m + 1] = x
  BY <1>2, <1>8
<1> HIDE DEF n, m
<1>10. <<n, m + 1>> \in Nat \X Nat /\ <<n, m + 1>> # NoAddress
  BY <1>1, <1>2 DEF NoAddress
<1> QED
  BY <1>1, <1>2, <1>7, <1>8, <1>9, <1>10 DEF c

\* The places in the array.
LEMMA Seconds ==
    ASSUME NEW r, r \in Seq(Tables \X (Nat \X Nat))
    PROVE  LET p == [i \in DOMAIN r |-> r[i][2]]
           IN  /\ p \in Seq(Nat \X Nat) /\ Len(p) = Len(r)
               /\ \A i \in 1 .. Len(r) : p[i] = r[i][2]
<1> DEFINE p == [i \in DOMAIN r |-> r[i][2]]
<1>1. DOMAIN r = 1 .. Len(r) /\ Len(r) \in Nat
  OBVIOUS
<1>2. ASSUME NEW i \in 1 .. Len(r)
      PROVE  r[i][2] \in Nat \X Nat
  <2>1. r[i] \in Tables \X (Nat \X Nat)
    OBVIOUS
  <2> QED
    BY ONLY <2>1
<1>3. p \in Seq(Nat \X Nat) /\ Len(p) = Len(r)
  BY ONLY <1>1, <1>2
<1>4. \A i \in 1 .. Len(r) : p[i] = r[i][2]
  BY ONLY <1>1
<1> QED
  BY <1>3, <1>4

\* The places are those of the array or of addr.
LEMMA PlacesType ==
    ASSUME NEW b \in WriteBlock
    PROVE  /\ Places(b) \in Seq(Nat \X Nat)
           /\ b.r \in Seq(Tables \X (Nat \X Nat)) /\ b.addr \in Seq(Nat \X Nat)
           /\ [i \in DOMAIN b.r |-> b.r[i][2]] \in Seq(Nat \X Nat)
           /\ Len([i \in DOMAIN b.r |-> b.r[i][2]]) = Len(b.r)
<1>1. b.r \in Seq(Tables \X (Nat \X Nat)) /\ b.addr \in Seq(Nat \X Nat)
  BY DEF WriteBlock
<1> DEFINE p == [i \in DOMAIN b.r |-> b.r[i][2]]
<1>2. p \in Seq(Nat \X Nat) /\ Len(p) = Len(b.r)
  BY <1>1, Seconds
<1> HIDE DEF p
<1>3. Places(b) \in Seq(Nat \X Nat)
  BY <1>1, <1>2 DEF Places, p
<1> QED
  BY <1>1, <1>2, <1>3 DEF p

\* A push leaves the places where they are, with what is there.
LEMMA PushGood ==
    ASSUME NEW b, Good(b), NEW bytes \in Seq(Bytes)
    PROVE  Good(wb_push(b, bytes)) /\ Same(wb_push(b, bytes), b)
<1> DEFINE c == wb_push(b, bytes)
<1>1. Pushed(c, b)
  BY PushPushes DEF Good
<1> HIDE DEF c
<1>2. c \in WriteBlock /\ Chained(c) /\ Same(c, b) /\ Grows(b.blk, c.blk)
  BY <1>1 DEF Pushed
<1>3. Places(c) = Places(b) /\ c.objectid = b.objectid /\ c.lookup = b.lookup
  BY <1>2 DEF Same, Places
<1>4. b \in WriteBlock /\ Known(b) /\ Tagged(b.blk, Places(b))
  BY DEF Good
<1>5. /\ Places(b) \in Seq(Nat \X Nat) /\ b.blk \in Seq(Seq(Bytes))
      /\ c.blk \in Seq(Seq(Bytes))
  BY <1>2, <1>4, PlacesType DEF WriteBlock
<1>6. Tagged(c.blk, Places(b))
  BY <1>2, <1>4, <1>5, GrowsKeeps
<1>7. Known(c)
  BY <1>3, <1>4 DEF Known
<1> QED
  BY <1>2, <1>3, <1>6, <1>7 DEF Good, c

\* Bytes.
LEMMA TagBytes ==
    /\ \A type \in {"boolean", "number", "userdata", "long string"}, n \in Nat :
         COMBINE_TYPE(type, n) \in Bytes
    /\ \A type \in Small, n \in 0 .. MAX_COOKIE - 1 : COMBINE_TYPE(type, n) \in Bytes
BY DEF COMBINE_TYPE, Bytes

\* A tag, alone or before other bytes.
LEMMA TagAndMore ==
    ASSUME NEW x \in Bytes
    PROVE  /\ <<x>> \in Seq(Bytes)
           /\ \A s \in Seq(Bytes) : <<x>> \o s \in Seq(Bytes)
<1>1. <<x>> \in Seq(Bytes)
  <2> HIDE DEF Bytes
  <2> QED
    OBVIOUS
<1> QED
  BY <1>1

\* The bytes of a length or a number.
LEMMA DigitsBytes ==
    ASSUME NEW n \in Nat, NEW width \in Nat
    PROVE  Digits(n, width) \in Seq(Bytes)
<1>1. ASSUME NEW i \in 1 .. width
      PROVE  <<"digit", (n \div Base^(i - 1)) % Base>> \in Bytes
  <2>1. i - 1 \in Nat
    OBVIOUS
  <2>2. (n \div Base^(i - 1)) % Base \in Digit
    <3> DEFINE p == <<n, i - 1>>
    <3>1. p \in Nat \X Nat /\ p[1] = n /\ p[2] = i - 1
      BY <2>1
    <3> HIDE DEF p
    <3>2. (p[1] \div Base^p[2]) % Base \in Digit
      BY <3>1, Zenon DEF Digit
    <3> QED
      BY <3>1, <3>2, Zenon
  <2>3. PICK d \in Digit : d = (n \div Base^(i - 1)) % Base
    BY <2>2, Zenon
  <2>4. <<"digit", d>> \in Bytes
    BY DEF Bytes
  <2> QED
    BY <2>3, <2>4, Zenon
<1> DEFINE f(i) == <<"digit", (n \div Base^(i - 1)) % Base>>
<1>2. \A i \in 1 .. width : f(i) \in Bytes
  BY <1>1, Zenon
<1>3. Digits(n, width) = [i \in 1 .. width |-> f(i)]
  BY Zenon DEF Digits
<1> HIDE DEF f
<1> QED
  BY <1>2, <1>3

\* The bytes of a value.
LEMMA ContentBytes ==
    ASSUME NEW v \in Values, NEW size \in Nat
    PROVE  Content(v, size) \in Seq(Bytes)
<1>1. ASSUME NEW i \in 1 .. size
      PROVE  <<"content", v, i>> \in Bytes
  <2>1. <<"content", v, i>> \in {"content"} \X Values \X Nat
    OBVIOUS
  <2> QED
    BY <2>1, Zenon DEF Bytes
<1> QED
  BY <1>1 DEF Content

\* Numbers.
LEMMA IntegerGood ==
    ASSUME NEW b, Good(b), NEW n \in Nat
    PROVE  Good(wb_integer(b, n)) /\ Same(wb_integer(b, n), b)
<1> DEFINE size == CASE n = 0      -> Zero [] n \in 1 .. Base - 1 -> Byte
                     [] n \in Base .. Base^2 - 1 -> Word [] OTHER -> Dword
<1>1. size \in {Zero, Byte, Word, Dword}
  BY Zenon
<1>2. wb_integer(b, n) =
        wb_push(b, <<COMBINE_TYPE("number", size)>> \o Digits(n, Width[size]))
  BY Zenon DEF wb_integer
<1> HIDE DEF size
<1>3. size \in Nat /\ Width[size] = size
  BY <1>1 DEF Width, Zero, Byte, Word, Dword
<1>4. <<COMBINE_TYPE("number", size)>> \o Digits(n, size) \in Seq(Bytes)
  BY <1>3, TagBytes, DigitsBytes, TagAndMore
<1> QED
  BY <1>2, <1>3, <1>4, PushGood

\* Strings: the cookie of a short one fits.
LEMMA StringGood ==
    ASSUME NEW b, Good(b), NEW v \in Values
    PROVE  Good(wb_string(b, v)) /\ Same(wb_string(b, v), b)
<1> DEFINE len  == v[2]
           head == CASE len < MAX_COOKIE -> <<COMBINE_TYPE("short string", len)>>
                     [] len \in MAX_COOKIE .. Base^2 - 1 ->
                           <<COMBINE_TYPE("long string", 2)>> \o Digits(len, 2)
                     [] OTHER ->
                           <<COMBINE_TYPE("long string", 4)>> \o Digits(len, 4)
           c == wb_push(b, head)
<1>1. wb_string(b, v) = wb_push(c, Content(v, len))
  BY Zenon DEF wb_string
<1>2. len \in Nat
  BY DEF Values
<1> HIDE DEF len
<1>3. head \in Seq(Bytes)
  <2>1. /\ <<COMBINE_TYPE("long string", 2)>> \o Digits(len, 2) \in Seq(Bytes)
        /\ <<COMBINE_TYPE("long string", 4)>> \o Digits(len, 4) \in Seq(Bytes)
    BY <1>2, TagBytes, DigitsBytes, TagAndMore
  <2>2. len < MAX_COOKIE => <<COMBINE_TYPE("short string", len)>> \in Seq(Bytes)
    <3> SUFFICES ASSUME len < MAX_COOKIE
                 PROVE  <<COMBINE_TYPE("short string", len)>> \in Seq(Bytes)
      OBVIOUS
    <3>1. len \in 0 .. MAX_COOKIE - 1
      BY <1>2, SerializerAssumption
    <3>2. COMBINE_TYPE("short string", len) \in Bytes
      BY <3>1, TagBytes DEF Small
    <3> QED
      BY <3>2, TagAndMore
  <2> QED
    BY <2>1, <2>2, Zenon
<1> HIDE DEF head
<1>4. Good(c) /\ Same(c, b)
  BY <1>3, PushGood
<1> HIDE DEF c
<1>5. Content(v, len) \in Seq(Bytes)
  BY <1>2, ContentBytes
<1>6. Good(wb_string(b, v)) /\ Same(wb_string(b, v), c)
  BY <1>1, <1>4, <1>5, PushGood
<1> QED
  BY <1>4, <1>6 DEF Same

\* A tag, and the bytes of a value after it.
LEMMA TagAndContentGood ==
    ASSUME NEW b, Good(b), NEW x \in Bytes, NEW v \in Values
    PROVE  LET c == wb_push(wb_push(b, <<x>>), Content(v, WordSize))
           IN  Good(c) /\ Same(c, b)
<1> DEFINE a == wb_push(b, <<x>>)
           c == wb_push(a, Content(v, WordSize))
<1>1. Good(a) /\ Same(a, b)
  BY PushGood, TagAndMore
<1> HIDE DEF a
<1>2. WordSize \in Nat
  BY SerializerAssumption
<1>3. Good(c) /\ Same(c, a)
  BY <1>1, <1>2, ContentBytes, PushGood
<1> HIDE DEF c
<1>4. Good(c) /\ Same(c, b)
  BY <1>1, <1>3 DEF Same
<1> QED
  BY <1>4 DEF c, a

\* Values that are no tables.
LEMMA PlainGood ==
    ASSUME NEW b, Good(b), NEW v \in Values
    PROVE  /\ Good(wb_nil(b)) /\ Same(wb_nil(b), b)
           /\ Good(wb_boolean(b, v)) /\ Same(wb_boolean(b, v), b)
           /\ Good(wb_real(b, v)) /\ Same(wb_real(b, v), b)
           /\ Good(wb_pointer(b, v)) /\ Same(wb_pointer(b, v), b)
<1>1. v[2] \in Nat /\ Real \in Nat
  BY DEF Values, Real
<1>2. /\ COMBINE_TYPE("boolean", 0) \in Bytes /\ COMBINE_TYPE("boolean", v[2]) \in Bytes
      /\ COMBINE_TYPE("number", Real) \in Bytes
      /\ COMBINE_TYPE("userdata", v[2]) \in Bytes
  BY <1>1, TagBytes
<1>3. \A x \in Bytes : Good(wb_push(b, <<x>>)) /\ Same(wb_push(b, <<x>>), b)
  BY PushGood, TagAndMore
<1>4. Good(wb_real(b, v)) /\ Same(wb_real(b, v), b)
  BY <1>2, TagAndContentGood DEF wb_real
<1>5. Good(wb_pointer(b, v)) /\ Same(wb_pointer(b, v), b)
  BY <1>2, TagAndContentGood DEF wb_pointer
<1> QED
  BY <1>2, <1>3, <1>4, <1>5 DEF wb_nil, wb_boolean

-----------------------------------------------------------------------------
(* Numbering tables. *)

\* The number of a table is a place in the array.
LEMMA NumberInRange ==
    ASSUME NEW r \in Seq(Tables \X (Nat \X Nat)), NEW t
    PROVE  NumberIn(r, t) \in 0 .. Len(r)
<1> DEFINE found == {i \in DOMAIN r : r[i][1] = t}
<1>1. DOMAIN r = 1 .. Len(r) /\ Len(r) \in Nat
  OBVIOUS
<1>2. found \in SUBSET Nat /\ \A i \in found : i \in 1 .. Len(r)
  BY <1>1
<1>3. NumberIn(r, t) = IF found = {} THEN 0 ELSE Min(found)
  BY DEF NumberIn
<1> HIDE DEF found
<1>4. found # {} => Min(found) \in found
  BY <1>2, MinOfSet
<1>5. CASE found = {}
  BY <1>1, <1>3, <1>5
<1>6. CASE found # {}
  <2>1. Min(found) \in 1 .. Len(r)
    BY <1>2, <1>4, <1>6
  <2> QED
    BY <1>1, <1>3, <1>6, <2>1
<1> QED
  BY <1>5, <1>6

\* What mark_table leaves for the tag that is pushed next.
Marked(c, b) ==
    /\ c \in WriteBlock /\ Chained(c) /\ Len(Last(c.blk)) < BLOCK_SIZE /\ Known(c)
    /\ Places(c) = Append(Places(b), wb_address(c)) /\ Grows(b.blk, c.blk)
    /\ c.depth = b.depth /\ c.ancestor = b.ancestor /\ c.err = b.err

\* Where the next byte goes.
LEMMA AddressType ==
    ASSUME NEW b \in WriteBlock, Chained(b)
    PROVE  wb_address(b) \in Nat \X Nat
<1>1. /\ b.blk \in Seq(Seq(Bytes)) /\ Len(b.blk) \in Nat /\ Len(b.blk) > 0
  BY DEF WriteBlock, Chained
<1>2. Last(b.blk) \in Seq(Bytes)
  BY <1>1 DEF Last
<1> QED
  BY <1>1, <1>2 DEF wb_address

\* mark_table appends a place, in the array, in addr, and when the one becomes
\* the other.
LEMMA MarkTable ==
    ASSUME NEW b0, Good(b0), NEW t \in Tables
    PROVE  Marked(mark_table(b0, t), b0)
<1> DEFINE b    == blk_alloc(b0)
           id   == b.objectid
           a    == wb_address(b)
           p    == [i \in DOMAIN b.r |-> b.r[i][2]]
           c    == mark_table(b0, t)
<1>0. MAX_REFERENCE \in Nat
  BY SerializerAssumption
<1>1. b0 \in WriteBlock /\ Chained(b0) /\ Known(b0) /\ Tagged(b0.blk, Places(b0))
  BY DEF Good
<1>2. Pushed(b, b0) /\ Len(Last(b.blk)) < BLOCK_SIZE
  BY <1>1, AllocPushes
<1>3. c = LET moves  == id = MAX_REFERENCE
              lookup == IF moves THEN [u \in Tables |-> NumberIn(b.r, u)] ELSE b.lookup
              addr   == IF moves THEN p ELSE b.addr
          IN IF id < MAX_REFERENCE
             THEN [b EXCEPT !.objectid = id + 1, !.r = Append(@, <<t, a>>)]
             ELSE [b EXCEPT !.objectid = id + 1, !.lookup = [lookup EXCEPT ![t] = id + 1],
                            !.addr = Append(addr, a)]
  BY DEF mark_table
<1> HIDE DEF b
<1>4. b \in WriteBlock /\ Chained(b) /\ Same(b, b0) /\ Grows(b0.blk, b.blk)
  BY <1>2 DEF Pushed
<1>5. a \in Nat \X Nat
  BY <1>4, AddressType
<1>6. /\ Places(b0) = Places(b) /\ Known(b) /\ id \in Nat
      /\ b.depth = b0.depth /\ b.ancestor = b0.ancestor /\ b.err = b0.err
  BY <1>1, <1>4 DEF Same, Places, Known, WriteBlock
<1>7. /\ b.r \in Seq(Tables \X (Nat \X Nat)) /\ b.addr \in Seq(Nat \X Nat)
      /\ p \in Seq(Nat \X Nat) /\ Len(p) = Len(b.r)
  BY <1>4, PlacesType
<1> HIDE DEF c, a
<1> SUFFICES /\ c \in WriteBlock /\ c.blk = b.blk /\ c.len = b.len /\ Known(c)
             /\ Places(c) = Append(Places(b), a)
             /\ c.depth = b.depth /\ c.ancestor = b.ancestor /\ c.err = b.err
  <2>1. Chained(b) /\ c.blk = b.blk /\ c.len = b.len => Chained(c)
    BY ONLY DEF Chained
  <2>2. c.blk = b.blk => wb_address(c) = a
    BY DEF wb_address, a
  <2> QED
    BY <1>2, <1>4, <1>6, <2>1, <2>2 DEF Marked, c
<1>8. CASE id < MAX_REFERENCE
  <2> DEFINE r == Append(b.r, <<t, a>>)
             q == [i \in DOMAIN r |-> r[i][2]]
  <2>1. c = [b EXCEPT !.objectid = id + 1, !.r = r]
    BY <1>3, <1>8
  <2>2. /\ r \in Seq(Tables \X (Nat \X Nat)) /\ Len(r) = Len(b.r) + 1
        /\ r[Len(b.r) + 1] = <<t, a>> /\ \A i \in 1 .. Len(b.r) : r[i] = b.r[i]
    BY <1>5, <1>7
  <2>3. q = Append(p, a)
    <3>1. q \in Seq(Nat \X Nat) /\ Len(q) = Len(r)
      <4> HIDE DEF r
      <4> QED
        BY ONLY <2>2, Seconds
    <3>2. Append(p, a) \in Seq(Nat \X Nat) /\ Len(Append(p, a)) = Len(p) + 1
      BY <1>5, <1>7
    <3>3. ASSUME NEW i \in 1 .. Len(q)
          PROVE  q[i] = Append(p, a)[i]
      <4>1. q[i] = r[i][2]
        BY <3>1
      <4>2. Len(b.r) \in Nat /\ DOMAIN b.r = 1 .. Len(b.r)
        BY <1>7
      <4>3. CASE i = Len(b.r) + 1
        <5>1. Append(p, a)[Len(p) + 1] = a
          BY <1>5, <1>7
        <5>2. r[i][2] = a
          BY <2>2, <4>3
        <5> QED
          BY <1>7, <4>1, <4>3, <5>1, <5>2
      <4>4. CASE i \in 1 .. Len(b.r)
        <5>1. p[i] = b.r[i][2]
          BY <4>2, <4>4
        <5>2. Append(p, a)[i] = p[i]
          BY <1>5, <1>7, <4>4
        <5> QED
          BY <2>2, <4>1, <4>4, <5>1, <5>2
      <4>5. Len(q) = Len(b.r) + 1
        BY <2>2, <3>1
      <4> HIDE DEF r, q, p
      <4>6. i = Len(b.r) + 1 \/ i \in 1 .. Len(b.r)
        BY ONLY <4>2, <4>5, i \in 1 .. Len(q)
      <4> QED
        BY ONLY <4>3, <4>4, <4>6
    <3> HIDE DEF r, q, p
    <3>4. Len(q) = Len(Append(p, a))
      BY <1>7, <2>2, <3>1, <3>2
    <3> QED
      BY <3>1, <3>2, <3>3, <3>4, SeqEqual
  <2> HIDE DEF r, p
  <2>4. /\ c \in WriteBlock /\ c.blk = b.blk /\ c.len = b.len /\ c.objectid = id + 1
        /\ c.depth = b.depth /\ c.ancestor = b.ancestor /\ c.err = b.err /\ c.r = r
    <3>1. id + 1 \in Nat
      BY <1>6
    <3> QED
      BY ONLY <1>4, <2>1, <2>2, <3>1 DEF WriteBlock
  <2>5. Places(c) = q /\ Places(b) = p
    BY <1>0, <1>6, <1>8, <2>4 DEF Places, p
  <2>6. Known(c)
    <3>1. Len(p) = id
      BY <1>6, <2>5 DEF Known
    <3>2. Len(Append(p, a)) = id + 1 /\ ~ (id + 1 > MAX_REFERENCE)
      BY <1>0, <1>5, <1>6, <1>7, <1>8, <3>1
    <3> QED
      BY ONLY <2>3, <2>4, <2>5, <3>2 DEF Known
  <2> HIDE DEF q
  <2> QED
    BY <2>3, <2>4, <2>5, <2>6
<1>9. CASE ~ (id < MAX_REFERENCE)
  <2> DEFINE lookup == IF id = MAX_REFERENCE THEN [u \in Tables |-> NumberIn(b.r, u)]
                       ELSE b.lookup
             addr   == IF id = MAX_REFERENCE THEN p ELSE b.addr
             more   == [lookup EXCEPT ![t] = id + 1]
  <2>1. c = [b EXCEPT !.objectid = id + 1, !.lookup = more, !.addr = Append(addr, a)]
    BY <1>3, <1>9
  <2>2. addr \in Seq(Nat \X Nat) /\ addr = Places(b) /\ Len(addr) = id
    <3>1. addr \in Seq(Nat \X Nat)
      BY <1>7
    <3>2. addr = Places(b)
      BY <1>0, <1>6, <1>9 DEF Places
    <3> QED
      BY <1>6, <3>1, <3>2 DEF Known
  <2>3. lookup \in [Tables -> Nat] /\ \A u \in Tables : lookup[u] <= id
    <3>1. CASE id = MAX_REFERENCE
      <4>1. Len(b.r) = id
        BY <1>0, <1>7, <2>2, <3>1
      <4>2. \A u \in Tables : NumberIn(b.r, u) \in 0 .. id
        BY <1>7, <4>1, NumberInRange
      <4> QED
        BY <1>6, <3>1, <4>2
    <3>2. CASE id # MAX_REFERENCE
      <4>1. id > MAX_REFERENCE
        BY <1>0, <1>6, <1>9, <3>2
      <4> QED
        BY <1>4, <1>6, <3>2, <4>1 DEF Known, WriteBlock
    <3> QED
      BY <3>1, <3>2
  <2> HIDE DEF lookup, addr
  <2>4. more \in [Tables -> Nat] /\ \A u \in Tables : more[u] <= id + 1
    BY <1>6, <2>3
  <2>5. Append(addr, a) \in Seq(Nat \X Nat) /\ Len(Append(addr, a)) = id + 1
    BY <1>5, <2>2
  <2> HIDE DEF more
  <2>6. /\ c \in WriteBlock /\ c.blk = b.blk /\ c.len = b.len /\ c.objectid = id + 1
        /\ c.depth = b.depth /\ c.ancestor = b.ancestor /\ c.err = b.err
        /\ c.addr = Append(addr, a) /\ c.lookup = more
    <3>1. id + 1 \in Nat
      BY <1>6
    <3> QED
      BY ONLY <1>4, <2>1, <2>4, <2>5, <3>1 DEF WriteBlock
  <2>7. Places(c) = Append(addr, a)
    BY <1>0, <1>6, <1>9, <2>6 DEF Places
  <2>8. Known(c)
    BY <2>4, <2>5, <2>6, <2>7 DEF Known
  <2> QED
    BY <2>2, <2>6, <2>7, <2>8
<1> QED
  BY <1>8, <1>9

\* A new place with the tag of a table.
LEMMA TaggedAppend ==
    ASSUME NEW blk, NEW new, NEW places \in Seq(Nat \X Nat), NEW a \in Nat \X Nat,
           Tagged(blk, places), Tagged(new, places), HasTable(new, a), ~ HasTable(blk, a)
    PROVE  Tagged(new, Append(places, a))
<1> DEFINE n == Len(places)
           more == Append(places, a)
<1>1. /\ n \in Nat /\ Len(more) = n + 1 /\ more[n + 1] = a
      /\ \A i \in 1 .. n : more[i] = places[i]
  OBVIOUS
<1> HIDE DEF more
<1>2. \A i \in 1 .. n : places[i] # NoAddress => HasTable(new, places[i]) /\ places[i] # a
  BY DEF Tagged
<1>3. \A i, j \in 1 .. n : places[i] = places[j] /\ places[i] # NoAddress => i = j
  BY DEF Tagged
<1> HIDE DEF n
<1>4. \A i \in 1 .. n + 1 : i = n + 1 \/ i \in 1 .. n
  BY <1>1
<1>5. ASSUME NEW i \in 1 .. n + 1, more[i] # NoAddress
      PROVE  HasTable(new, more[i])
  BY <1>1, <1>2, <1>4, <1>5
<1>6. ASSUME NEW i \in 1 .. n + 1, NEW j \in 1 .. n + 1, more[i] = more[j],
             more[i] # NoAddress
      PROVE  i = j
  <2>1. CASE i = n + 1 /\ j = n + 1
    BY <2>1
  <2>2. CASE i \in 1 .. n /\ j = n + 1
    BY <1>1, <1>2, <1>6, <2>2
  <2>3. CASE i = n + 1 /\ j \in 1 .. n
    BY <1>1, <1>2, <1>6, <2>3
  <2>4. CASE i \in 1 .. n /\ j \in 1 .. n
    BY <1>1, <1>3, <1>6, <2>4
  <2> QED
    BY ONLY <1>4, <2>1, <2>2, <2>3, <2>4, i \in 1 .. n + 1, j \in 1 .. n + 1
<1> QED
  BY <1>1, <1>5, <1>6 DEF Tagged, more

\* The level of nesting is as it was, and no error has been raised.
SameLevel(c, b) == c.depth = b.depth /\ c.ancestor = b.ancestor /\ c.err = b.err

\* The tag of a table is written where mark_table said.
LEMMA TagGood ==
    ASSUME NEW b0, Good(b0), NEW t \in Tables, NEW cookie \in 0 .. MAX_COOKIE - 1
    PROVE  LET c == wb_push(mark_table(b0, t), <<COMBINE_TYPE("table", cookie)>>)
           IN  Good(c) /\ SameLevel(c, b0)
<1> DEFINE b == mark_table(b0, t)
           x == COMBINE_TYPE("table", cookie)
           c == wb_push(b, <<x>>)
           a == wb_address(b)
<1>1. b0 \in WriteBlock /\ Tagged(b0.blk, Places(b0)) /\ b0.blk \in Seq(Seq(Bytes))
  BY DEF Good, WriteBlock
<1>2. Marked(b, b0)
  BY MarkTable
<1>3. x \in Bytes /\ x[1] = "table"
  BY TagBytes DEF Small, COMBINE_TYPE
<1> HIDE DEF b, x
<1>4. /\ b \in WriteBlock /\ Chained(b) /\ Len(Last(b.blk)) < BLOCK_SIZE /\ Known(b)
      /\ Places(b) = Append(Places(b0), a) /\ Grows(b0.blk, b.blk)
      /\ b.depth = b0.depth /\ b.ancestor = b0.ancestor /\ b.err = b0.err
  BY <1>2 DEF Marked
<1>5. <<x>> \in Seq(Bytes)
  BY <1>3, TagAndMore
<1>6. Pushed(c, b)
  BY <1>4, <1>5, PushPushes
<1>7. /\ a \in Nat \X Nat /\ a # NoAddress /\ a[1] \in 1 .. Len(c.blk)
      /\ a[2] \in 1 .. Len(c.blk[a[1]]) /\ c.blk[a[1]][a[2]] = x
  BY <1>3, <1>4, PushAtAddress
<1>8. ~ HasTable(b.blk, a)
  <2>1. a = <<Len(b.blk), Len(b.blk[Len(b.blk)]) + 1>>
    BY DEF wb_address, Last
  <2>2. b.blk \in Seq(Seq(Bytes)) /\ Len(b.blk) > 0
    BY <1>4 DEF WriteBlock, Chained
  <2>3. Len(b.blk[Len(b.blk)]) \in Nat
    BY <2>2
  <2>4. a[1] = Len(b.blk) /\ a[2] = Len(b.blk[Len(b.blk)]) + 1
    BY <2>1
  <2>5. ~ (a[2] \in 1 .. Len(b.blk[a[1]]))
    BY ONLY <2>3, <2>4
  <2> QED
    BY <2>5 DEF HasTable
<1> HIDE DEF c, a
<1>9. c \in WriteBlock /\ Chained(c) /\ Same(c, b) /\ Grows(b.blk, c.blk)
  BY <1>6 DEF Pushed
<1>10. /\ Places(b0) \in Seq(Nat \X Nat) /\ b.blk \in Seq(Seq(Bytes))
       /\ c.blk \in Seq(Seq(Bytes))
  BY <1>1, <1>4, <1>9, PlacesType DEF WriteBlock
<1>11. Tagged(b.blk, Places(b0))
  BY <1>1, <1>4, <1>10, GrowsKeeps
<1>12. Tagged(c.blk, Places(b0))
  BY <1>9, <1>10, <1>11, GrowsKeeps
<1>13. HasTable(c.blk, a)
  BY <1>3, <1>7 DEF HasTable
<1>14. Tagged(c.blk, Append(Places(b0), a))
  BY <1>7, <1>8, <1>10, <1>11, <1>12, <1>13, TaggedAppend
<1>15. Places(c) = Places(b) /\ Known(c)
  BY <1>4, <1>9 DEF Same, Places, Known
<1>16. Good(c) /\ SameLevel(c, b0)
  BY <1>4, <1>9, <1>14, <1>15 DEF Good, Same, SameLevel
<1> QED
  BY <1>16 DEF c, b, x

\* The tables of a program.
Heaps == [Tables -> [arr : Seq(Values), hash : Seq(Values \X Values), pairs : BOOLEAN]]

\* wb_table writes the tag at the place that mark_table has kept for it.
LEMMA TableGood ==
    ASSUME NEW b, Good(b), NEW t \in Tables, NEW h \in Heaps
    PROVE  Good(wb_table(h, b, t)) /\ SameLevel(wb_table(h, b, t), b)
<1> DEFINE size == ArraySize(h[t])
<1>1. size \in Nat
  <2>1. h[t].arr \in Seq(Values)
    BY DEF Heaps
  <2> QED
    BY <2>1 DEF ArraySize
<1> HIDE DEF size
<1>2. MAX_COOKIE \in Nat /\ MAX_COOKIE >= 2
  BY SerializerAssumption
<1>3. CASE size >= EXTEND_NUMBER
  <2> DEFINE c == wb_push(mark_table(b, t), <<COMBINE_TYPE("table", EXTEND_NUMBER)>>)
  <2>1. EXTEND_NUMBER \in 0 .. MAX_COOKIE - 1
    BY <1>2 DEF EXTEND_NUMBER
  <2>2. Good(c) /\ SameLevel(c, b)
    BY <2>1, TagGood
  <2>3. wb_table(h, b, t) = wb_integer(c, size)
    BY <1>3 DEF wb_table, size
  <2> HIDE DEF c
  <2>4. Good(wb_integer(c, size)) /\ Same(wb_integer(c, size), c)
    BY <1>1, <2>2, IntegerGood
  <2> QED
    BY <2>2, <2>3, <2>4 DEF Same, SameLevel
<1>4. CASE ~ (size >= EXTEND_NUMBER)
  <2>1. size \in 0 .. MAX_COOKIE - 1
    BY <1>1, <1>2, <1>4 DEF EXTEND_NUMBER
  <2>2. wb_table(h, b, t) = wb_push(mark_table(b, t), <<COMBINE_TYPE("table", size)>>)
    BY <1>4 DEF wb_table, size
  <2> QED
    BY <2>1, <2>2, TagGood
<1> QED
  BY <1>3, <1>4

-----------------------------------------------------------------------------
(* References. *)

\* The assertion in change_mark holds where there is the tag of a table, and
\* after it the tags of the other tables are where they were.
LEMMA ChangeMark ==
    ASSUME NEW b \in WriteBlock, Chained(b), NEW a \in Nat \X Nat, HasTable(b.blk, a)
    PROVE  \E new \in Seq(Seq(Bytes)) :
              /\ change_mark(b, a) = [b EXCEPT !.blk = new]
              /\ Chained([b EXCEPT !.blk = new])
              /\ \A p \in Nat \X Nat : HasTable(b.blk, p) /\ p # a => HasTable(new, p)
<1> DEFINE k   == a[1]
           j   == a[2]
           tag == b.blk[k][j]
           y   == <<"table mark", tag[2]>>
           row == [b.blk[k] EXCEPT ![j] = y]
           new == [b.blk EXCEPT ![k] = row]
           c   == [b EXCEPT !.blk = new]
<1>1. b.blk \in Seq(Seq(Bytes)) /\ Len(b.blk) > 0
  BY DEF WriteBlock, Chained
<1>2. k \in 1 .. Len(b.blk) /\ j \in 1 .. Len(b.blk[k]) /\ tag[1] = "table"
  BY DEF HasTable
<1>3. b.blk[k] \in Seq(Bytes)
  BY <1>1, <1>2
<1>4. tag \in Bytes
  BY <1>2, <1>3
<1>5. y \in Bytes
  <2>1. tag[2] \in 0 .. MAX_COOKIE - 1
    BY <1>2, <1>4 DEF Bytes, Small
  <2> QED
    BY <2>1 DEF Bytes, Small
<1>6. change_mark(b, a) = c
  BY <1>2 DEF change_mark, COMBINE_TYPE
<1> HIDE DEF tag, y
<1>7. /\ row \in Seq(Bytes) /\ Len(row) = Len(b.blk[k])
      /\ \A i \in 1 .. Len(row) : i # j => row[i] = b.blk[k][i]
  BY <1>2, <1>3, <1>5
<1> HIDE DEF row
<1>8. /\ new \in Seq(Seq(Bytes)) /\ Len(new) = Len(b.blk) /\ new[k] = row
      /\ \A i \in 1 .. Len(new) : i # k => new[i] = b.blk[i]
  BY <1>1, <1>2, <1>7
<1> HIDE DEF new
<1>9. \A i \in 1 .. Len(b.blk) : Len(new[i]) = Len(b.blk[i])
  BY <1>7, <1>8
<1>10. c.blk = new /\ c.len = b.len
  BY DEF WriteBlock
<1>11. Chained(c)
  <2>1. /\ Len(b.blk) \in Nat /\ Len(b.blk) \in 1 .. Len(b.blk)
        /\ \A i \in 1 .. Len(b.blk) - 1 : i \in 1 .. Len(b.blk)
    BY <1>1
  <2> HIDE DEF c
  <2>2. /\ \A i \in 1 .. Len(b.blk) - 1 : Len(b.blk[i]) = BLOCK_SIZE
        /\ Len(b.blk[Len(b.blk)]) <= BLOCK_SIZE
        /\ b.len = (Len(b.blk) - 1) * BLOCK_SIZE + Len(b.blk[Len(b.blk)])
    BY DEF Chained
  <2>3. /\ \A i \in 1 .. Len(b.blk) - 1 : Len(new[i]) = BLOCK_SIZE
        /\ Len(new[Len(b.blk)]) = Len(b.blk[Len(b.blk)])
    BY ONLY <1>9, <2>1, <2>2
  <2> QED
    BY ONLY <1>1, <1>8, <1>10, <2>2, <2>3 DEF Chained
<1>12. ASSUME NEW p \in Nat \X Nat, HasTable(b.blk, p), p # a
       PROVE  HasTable(new, p)
  <2>1. /\ p[1] \in 1 .. Len(b.blk) /\ p[2] \in 1 .. Len(b.blk[p[1]])
        /\ b.blk[p[1]][p[2]][1] = "table"
    BY <1>12 DEF HasTable
  <2>2. p[1] # k \/ p[2] # j
    BY <1>12
  <2>3. new[p[1]][p[2]] = b.blk[p[1]][p[2]]
    BY <1>7, <1>8, <2>1, <2>2
  <2> QED
    BY <1>8, <1>9, <2>1, <2>3 DEF HasTable
<1> QED
  BY <1>6, <1>8, <1>11, <1>12

\* What lookup_ref does to the places.
LEMMA LookupRef ==
    ASSUME NEW b, Good(b), NEW id \in 1 .. b.objectid
    PROVE  Good(lookup_ref(b, id)) /\ SameLevel(lookup_ref(b, id), b)
<1> DEFINE P == Places(b)
           a == P[id]
           c == lookup_ref(b, id)
           Q == [P EXCEPT ![id] = NoAddress]
<1>0. MAX_REFERENCE \in Nat
  BY SerializerAssumption
<1>1. b \in WriteBlock /\ Chained(b) /\ Known(b) /\ Tagged(b.blk, P)
  BY DEF Good
<1>2. /\ P \in Seq(Nat \X Nat) /\ Len(P) = b.objectid /\ b.objectid \in Nat
      /\ b.r \in Seq(Tables \X (Nat \X Nat)) /\ b.addr \in Seq(Nat \X Nat)
      /\ b.blk \in Seq(Seq(Bytes))
  BY <1>1, PlacesType DEF Known, WriteBlock
<1>3. a \in Nat \X Nat
  BY <1>2
<1>4. CASE a = NoAddress
  <2>1. c = b
    <3>1. CASE b.objectid <= MAX_REFERENCE
      <4>1. P = [i \in DOMAIN b.r |-> b.r[i][2]]
        BY <3>1 DEF Places
      <4>2. id \in DOMAIN b.r
        BY <1>2, <4>1
      <4> QED
        BY <1>4, <3>1, <4>1, <4>2 DEF lookup_ref
    <3>2. CASE ~ (b.objectid <= MAX_REFERENCE)
      BY <1>4, <3>2 DEF lookup_ref, Places
    <3> QED
      BY <3>1, <3>2
  <2> QED
    BY <2>1 DEF SameLevel
<1>5. CASE a # NoAddress
  <2>1. HasTable(b.blk, a)
    BY <1>1, <1>2, <1>5 DEF Tagged
  <2>2. PICK new \in Seq(Seq(Bytes)) :
            /\ change_mark(b, a) = [b EXCEPT !.blk = new]
            /\ Chained([b EXCEPT !.blk = new])
            /\ \A p \in Nat \X Nat : HasTable(b.blk, p) /\ p # a => HasTable(new, p)
    BY <1>1, <1>3, <2>1, ChangeMark
  <2>3. /\ Q \in Seq(Nat \X Nat) /\ Len(Q) = Len(P)
        /\ Q[id] = NoAddress /\ \A i \in 1 .. Len(P) : i # id => Q[i] = P[i]
    <3>1. NoAddress \in Nat \X Nat
      BY DEF NoAddress
    <3> HIDE DEF P
    <3> QED
      BY <1>2, <3>1
  <2> HIDE DEF Q
  <2>4. Tagged(new, Q)
    <3>1. ASSUME NEW i \in 1 .. Len(Q), Q[i] # NoAddress
          PROVE  i # id /\ Q[i] = P[i] /\ P[i] \in Nat \X Nat
      <4>1. i \in 1 .. Len(P) /\ i # id
        BY <2>3, <3>1
      <4> HIDE DEF P
      <4>2. P[i] \in Nat \X Nat
        BY ONLY <1>2, <4>1
      <4> QED
        BY <2>3, <4>1, <4>2
    <3>2. ASSUME NEW i \in 1 .. Len(Q), Q[i] # NoAddress
          PROVE  HasTable(new, Q[i])
      <4>1. i # id /\ Q[i] = P[i] /\ P[i] \in Nat \X Nat
        BY <3>1, <3>2
      <4>2. HasTable(b.blk, P[i]) /\ P[i] # a
        <5>1. i \in 1 .. Len(P) /\ id \in 1 .. Len(P) /\ P[i] # NoAddress
          BY <1>2, <2>3, <3>2, <4>1
        <5> HIDE DEF P
        <5> QED
          BY <1>1, <4>1, <5>1 DEF Tagged
      <4> HIDE DEF a, P
      <4> QED
        BY <2>2, <4>1, <4>2
    <3>3. ASSUME NEW i \in 1 .. Len(Q), NEW k \in 1 .. Len(Q), Q[i] = Q[k],
                 Q[i] # NoAddress
          PROVE  i = k
      <4>1. Q[i] = P[i] /\ Q[k] = P[k]
        BY <3>1, <3>3
      <4> HIDE DEF P
      <4> QED
        BY <1>1, <2>3, <3>3, <4>1 DEF Tagged
    <3> QED
      BY <3>2, <3>3 DEF Tagged
  <2> DEFINE d == [b EXCEPT !.blk = new]
  <2>5. /\ d \in WriteBlock /\ Chained(d) /\ d.blk = new /\ d.len = b.len
        /\ d.r = b.r /\ d.addr = b.addr /\ d.lookup = b.lookup
        /\ d.objectid = b.objectid /\ SameLevel(d, b)
    BY <1>1, <2>2 DEF WriteBlock, SameLevel
  <2> SUFFICES /\ c \in WriteBlock /\ c.blk = new /\ c.len = d.len /\ c.lookup = b.lookup
               /\ c.objectid = b.objectid /\ SameLevel(c, d) /\ Places(c) = Q
    <3>1. Chained(d) /\ c.blk = d.blk /\ c.len = d.len => Chained(c)
      BY ONLY DEF Chained
    <3>2. Known(b) /\ Len(Q) = b.objectid /\ c.lookup = b.lookup
          /\ c.objectid = b.objectid /\ Places(c) = Q => Known(c)
      BY ONLY DEF Known
    <3> HIDE DEF c, d, P
    <3> QED
      BY <1>1, <1>2, <2>3, <2>4, <2>5, <3>1, <3>2 DEF Good, SameLevel, c
  <2>6. CASE b.objectid <= MAX_REFERENCE
    <3> DEFINE r == [b.r EXCEPT ![id] = <<@[1], NoAddress>>]
    <3>1. P = [i \in DOMAIN b.r |-> b.r[i][2]] /\ DOMAIN b.r = 1 .. Len(b.r)
      BY <1>2, <2>6 DEF Places
    <3>2. id \in 1 .. Len(b.r) /\ Len(b.r) \in Nat /\ Len(b.r) = Len(P)
      BY <1>2, <3>1
    <3>3. b.r[id][2] = a
      BY <3>1, <3>2
    <3>4. c = [d EXCEPT !.r = r]
      BY <1>5, <2>2, <2>5, <2>6, <3>3 DEF lookup_ref
    <3>5. /\ r \in Seq(Tables \X (Nat \X Nat)) /\ Len(r) = Len(b.r)
          /\ r[id][2] = NoAddress
          /\ \A i \in 1 .. Len(r) : i # id => r[i] = b.r[i]
      <4>1. b.r[id] \in Tables \X (Nat \X Nat)
        BY ONLY <1>2, <3>2
      <4>2. b.r[id][1] \in Tables /\ NoAddress \in Nat \X Nat
        BY ONLY <4>1 DEF NoAddress
      <4> DEFINE y == <<b.r[id][1], NoAddress>>
      <4>3. y \in Tables \X (Nat \X Nat) /\ y[2] = NoAddress
        BY ONLY <4>2
      <4>4. r = [b.r EXCEPT ![id] = y]
        OBVIOUS
      <4> DEFINE E == Tables \X (Nat \X Nat)
      <4>5. b.r \in Seq(E) /\ y \in E
        BY <1>2, <4>3
      <4> HIDE DEF y, r, E
      <4>6. r \in Seq(E) /\ Len(r) = Len(b.r)
        BY ONLY <3>2, <4>4, <4>5
      <4>7. r[id] = y /\ \A i \in 1 .. Len(b.r) : i # id => r[i] = b.r[i]
        BY ONLY <3>2, <4>4, <4>5
      <4> QED
        BY <4>3, <4>6, <4>7 DEF E
    <3> HIDE DEF r
    <3>6. /\ c \in WriteBlock /\ c.blk = new /\ c.len = d.len /\ c.lookup = b.lookup
          /\ c.objectid = b.objectid /\ SameLevel(c, d) /\ c.r = r
      <4> HIDE DEF c, d
      <4> QED
        BY ONLY <2>5, <3>4, <3>5 DEF WriteBlock, SameLevel
    <3> HIDE DEF c, d
    <3>7. Places(c) = [i \in DOMAIN r |-> r[i][2]]
      BY <2>6, <3>6 DEF Places
    <3>8. Places(c) \in Seq(Nat \X Nat) /\ Len(Places(c)) = Len(r)
      BY <3>6, <3>7, PlacesType
    <3>9. \A i \in 1 .. Len(r) : Places(c)[i] = Q[i]
      <4> SUFFICES ASSUME NEW i \in 1 .. Len(r) PROVE r[i][2] = Q[i]
        BY <3>5, <3>7
      <4>1. CASE i = id
        BY <2>3, <3>5, <4>1
      <4>2. CASE i # id
        <5>1. Q[i] = P[i] /\ P[i] = b.r[i][2] /\ r[i] = b.r[i]
          BY <2>3, <3>1, <3>2, <3>5, <4>2
        <5> QED
          BY <5>1
      <4> QED
        BY <4>1, <4>2
    <3>10. Places(c) = Q
      <4>1. Len(Places(c)) = Len(Q)
        BY <2>3, <3>2, <3>5, <3>8
      <4> QED
        BY <2>3, <3>8, <3>9, <4>1, SeqEqual
    <3> QED
      BY <3>6, <3>10
  <2>7. CASE ~ (b.objectid <= MAX_REFERENCE)
    <3>1. P = b.addr
      BY <2>7 DEF Places
    <3>2. c = [d EXCEPT !.addr = Q]
      BY <1>5, <2>2, <2>5, <2>7, <3>1 DEF lookup_ref, Q
    <3>3. /\ c \in WriteBlock /\ c.blk = new /\ c.len = d.len /\ c.lookup = b.lookup
          /\ c.objectid = b.objectid /\ SameLevel(c, d) /\ c.addr = Q
      <4> HIDE DEF c, d
      <4> QED
        BY ONLY <2>3, <2>5, <3>2 DEF WriteBlock, SameLevel
    <3> HIDE DEF c, d
    <3>4. Places(c) = Q
      BY <2>7, <3>3 DEF Places
    <3> QED
      BY <3>3, <3>4
  <2> QED
    BY <2>6, <2>7
<1> QED
  BY <1>4, <1>5

\* The number of a table that has been met.
LEMMA RefIdRange ==
    ASSUME NEW b, Good(b), NEW t \in Tables
    PROVE  RefId(b, t) \in 0 .. b.objectid
<1>1. b \in WriteBlock /\ Known(b)
  BY DEF Good
<1>2. b.objectid \in Nat /\ MAX_REFERENCE \in Nat /\ b.lookup \in [Tables -> Nat]
  BY <1>1, SerializerAssumption DEF WriteBlock
<1>3. CASE b.objectid <= MAX_REFERENCE
  <2>1. Len(b.r) = b.objectid /\ b.r \in Seq(Tables \X (Nat \X Nat))
    BY <1>1, <1>3, PlacesType DEF Known, Places
  <2> QED
    BY <1>3, <2>1, NumberInRange DEF RefId
<1>4. CASE ~ (b.objectid <= MAX_REFERENCE)
  BY <1>1, <1>2, <1>4 DEF RefId, Known
<1> QED
  BY <1>3, <1>4

\* A reference by number.
LEMMA RefObject ==
    ASSUME NEW b, Good(b), NEW id \in 1 .. b.objectid
    PROVE  Good(ref_object(b, id)) /\ SameLevel(ref_object(b, id), b)
<1> DEFINE c == lookup_ref(b, id)
           x == COMBINE_TYPE("ref", EXTEND_NUMBER)
           d == wb_push(c, <<x>>)
<1>1. Good(c) /\ SameLevel(c, b)
  BY LookupRef
<1>2. x \in Bytes
  <2>1. EXTEND_NUMBER \in 0 .. MAX_COOKIE - 1
    BY SerializerAssumption DEF EXTEND_NUMBER
  <2> QED
    BY <2>1, TagBytes DEF Small
<1>3. ref_object(b, id) = wb_integer(d, id)
  BY DEF ref_object
<1> HIDE DEF c, x
<1>4. Good(d) /\ Same(d, c)
  BY <1>1, <1>2, TagAndMore, PushGood
<1> HIDE DEF d
<1>5. id \in Nat
  BY DEF Good, WriteBlock
<1>6. Good(wb_integer(d, id)) /\ Same(wb_integer(d, id), d)
  BY <1>4, <1>5, IntegerGood
<1> QED
  BY <1>1, <1>3, <1>4, <1>6 DEF Same, SameLevel

\* The depth of an ancestor fits into the cookie.
LEMMA RefAncestor ==
    ASSUME NEW b, Good(b), NEW t, AncestorsAt(b, t) # {}
    PROVE  Good(ref_ancestor(b, t)) /\ SameLevel(ref_ancestor(b, t), b)
<1> DEFINE T == AncestorsAt(b, t)
           x == COMBINE_TYPE("ref", Max(T))
<1>1. b.depth \in Nat
  BY DEF Good, WriteBlock
<1>2. /\ MAX_DEPTH \in Nat /\ MAX_COOKIE \in Nat /\ MAX_DEPTH <= MAX_COOKIE - 1
  BY SerializerAssumption
<1>3. T \in SUBSET (0 .. MAX_DEPTH)
  BY <1>1, <1>2 DEF AncestorsAt
<1> HIDE DEF T
<1>4. Max(T) \in T
  BY <1>2, <1>3, MaxBelow DEF T
<1>5. Max(T) \in 0 .. MAX_COOKIE - 1
  <2>1. Max(T) \in 0 .. MAX_DEPTH
    BY <1>3, <1>4
  <2> QED
    BY ONLY <1>2, <2>1
<1>6. x \in Bytes
  BY <1>5, TagBytes DEF Small
<1>7. ref_ancestor(b, t) = wb_push(b, <<x>>)
  BY DEF ref_ancestor, T
<1> HIDE DEF x
<1>8. Good(wb_push(b, <<x>>)) /\ Same(wb_push(b, <<x>>), b)
  BY <1>6, TagAndMore, PushGood
<1> QED
  BY <1>7, <1>8 DEF Same, SameLevel

-----------------------------------------------------------------------------
(* Packing. *)

\* After an error there is nothing to say.
Ok(b) ==
    /\ b \in WriteBlock
    /\ b.err = "none" => Good(b)

Calls == [values : Seq(Values), entries : Seq(Values \X Values), size : Nat]

\* A level of nesting for each call that is for a table.
Packing(s) ==
    /\ s \in [b : WriteBlock, calls : Seq(Calls)]
    /\ Ok(s.b) /\ Len(s.calls) > 0 /\ s.b.depth + 1 = Len(s.calls)

\* Values, and tables that are referred to.  Errors are those of the code, never
\* the assertion.
LEMMA PackValue ==
    ASSUME NEW b, Good(b), b.err = "none", NEW v \in Values,
           v[1] = "table" => AncestorsAt(b, v[2]) # {} \/ RefId(b, v[2]) # 0
    PROVE  Ok(pack_value(b, v)) /\ pack_value(b, v).depth = b.depth
<1> DEFINE c == pack_value(b, v)
<1>1. \A d : Good(d) /\ SameLevel(d, b) => Ok(d) /\ d.depth = b.depth
  BY DEF Ok, SameLevel, Good
<1>2. \A d : Good(d) /\ Same(d, b) => Ok(d) /\ d.depth = b.depth
  BY <1>1 DEF Same, SameLevel
<1>3. b \in WriteBlock /\ Chained(b)
  BY DEF Good
<1>4. CASE v[1] = "nil"
  <2>1. c = wb_nil(b)
    BY <1>4 DEF pack_value
  <2> QED
    BY <1>2, <2>1, PlainGood
<1>5. CASE v[1] = "number"
  <2>1. c = wb_real(b, v)
    BY <1>5 DEF pack_value
  <2> QED
    BY <1>2, <2>1, PlainGood
<1>6. CASE v[1] = "boolean"
  <2>1. c = wb_boolean(b, v)
    BY <1>6 DEF pack_value
  <2> QED
    BY <1>2, <2>1, PlainGood
<1>7. CASE v[1] = "string"
  <2>1. c = wb_string(b, v)
    BY <1>7 DEF pack_value
  <2> QED
    BY <1>2, <2>1, StringGood
<1>8. CASE v[1] = "userdata"
  <2>1. c = wb_pointer(b, v)
    BY <1>8 DEF pack_value
  <2> QED
    BY <1>2, <2>1, PlainGood
<1>9. CASE v[1] = "function"
  <2>1. c = [b EXCEPT !.err = "function"]
    BY <1>9 DEF pack_value
  <2>2. c \in WriteBlock /\ c.err = "function" /\ c.depth = b.depth
    BY <1>3, <2>1 DEF WriteBlock
  <2> QED
    BY <2>2 DEF Ok
<1>10. CASE v[1] = "table"
  <2>1. v[2] \in Tables
    BY <1>10 DEF Values
  <2>2. CASE AncestorsAt(b, v[2]) # {}
    <3>1. c = ref_ancestor(b, v[2])
      BY <1>10, <2>2 DEF pack_value
    <3> QED
      BY <1>1, <2>2, <3>1, RefAncestor
  <2>3. CASE AncestorsAt(b, v[2]) = {}
    <3>1. c = ref_object(b, RefId(b, v[2]))
      BY <1>10, <2>3 DEF pack_value
    <3>2. RefId(b, v[2]) \in 0 .. b.objectid /\ RefId(b, v[2]) # 0
      BY <1>10, <2>1, <2>3, RefIdRange
    <3>3. RefId(b, v[2]) \in 1 .. b.objectid
      <4>1. b.objectid \in Nat
        BY <1>3 DEF WriteBlock
      <4> QED
        BY <3>2, <4>1
    <3> QED
      BY <1>1, <3>1, <3>3, RefObject
  <2> QED
    BY <2>2, <2>3
<1>11. CASE v[1] \notin {"nil", "number", "boolean", "string", "userdata", "function",
                         "table"}
  <2>1. c = [b EXCEPT !.err = "unsupported"]
    BY <1>11 DEF pack_value
  <2>2. c \in WriteBlock /\ c.err = "unsupported" /\ c.depth = b.depth
    BY <1>3, <2>1 DEF WriteBlock
  <2> HIDE DEF c
  <2> QED
    BY <2>2 DEF Ok, c
<1> QED
  BY <1>4, <1>5, <1>6, <1>7, <1>8, <1>9, <1>10, <1>11

\* A pair is a sequence of two.
LEMMA PairIsSeq ==
    ASSUME NEW e \in Values \X Values
    PROVE  e \in Seq(Values)
<1>1. PICK k \in Values, v \in Values : e = <<k, v>>
  OBVIOUS
<1>2. <<k, v>> \in Seq(Values)
  OBVIOUS
<1> QED
  BY <1>1, <1>2

\* Numbers are values.
LEMMA NumIsValue == \A n \in Nat : Num(n) \in Values
<1> SUFFICES ASSUME NEW n \in Nat PROVE Num(n) \in Values
  OBVIOUS
<1>1. Num(n) \in Types \X Nat /\ Num(n)[1] # "table"
  BY DEF Num, Types
<1> QED
  BY <1>1 DEF Values

\* What is there to write of a table.
LEMMA ContentsType ==
    ASSUME NEW h \in Heaps, NEW t \in Tables
    PROVE  /\ Entries(h[t]) \in Seq(Values \X Values)
           /\ Contents(h[t]) \in Calls
<1>1. h[t].arr \in Seq(Values) /\ h[t].hash \in Seq(Values \X Values)
  BY DEF Heaps
<1> DEFINE arr == h[t].arr
           items == [i \in DOMAIN arr |-> <<Num(2 * i), arr[i]>>]
           size == ArraySize(h[t])
<1>2. items \in Seq(Values \X Values)
  <2>1. DOMAIN arr = 1 .. Len(arr) /\ Len(arr) \in Nat
    BY <1>1
  <2>2. ASSUME NEW i \in 1 .. Len(arr)
        PROVE  <<Num(2 * i), arr[i]>> \in Values \X Values
    <3>1. 2 * i \in Nat /\ arr[i] \in Values
      BY <1>1, <2>1
    <3>2. Num(2 * i) \in Values
      BY <3>1, NumIsValue
    <3> QED
      BY <3>1, <3>2
  <2> DEFINE E == Values \X Values
             f(i) == <<Num(2 * i), arr[i]>>
  <2>3. \A i \in 1 .. Len(arr) : f(i) \in E
    BY <2>2
  <2>4. items = [i \in 1 .. Len(arr) |-> f(i)]
    BY <2>1
  <2> HIDE DEF f, E, items
  <2>5. items \in Seq(E)
    BY ONLY <2>1, <2>3, <2>4
  <2> QED
    BY <2>5 DEF E
<1>3. Entries(h[t]) \in Seq(Values \X Values)
  <2>1. Entries(h[t]) = items \o h[t].hash
    BY DEF Entries
  <2> HIDE DEF items
  <2> QED
    BY <1>1, <1>2, <2>1
<1>4. size \in 0 .. Len(arr)
  BY <1>1 DEF ArraySize
<1>5. SubSeq(arr, 1, size) \in Seq(Values)
  <2> HIDE DEF size
  <2> QED
    BY <1>1, <1>4
<1>6. size \in Nat
  BY <1>1, <1>4
<1>7. Contents(h[t]) = [values |-> SubSeq(arr, 1, size), entries |-> Entries(h[t]),
                        size |-> size]
  BY DEF Contents, Call
<1> HIDE DEF size
<1> QED
  BY <1>3, <1>5, <1>6, <1>7 DEF Calls

\* pack_one for any value, tables to be entered included.
LEMMA PackOne ==
    ASSUME NEW h \in Heaps, NEW s, Packing(s), s.b.err = "none", NEW v \in Values
    PROVE  Packing(pack_one(h, s, v))
<1> DEFINE b == s.b
           enter == v[1] = "table" /\ AncestorsAt(b, v[2]) = {} /\ RefId(b, v[2]) = 0
<1>1. /\ s \in [b : WriteBlock, calls : Seq(Calls)] /\ Good(b) /\ b \in WriteBlock
      /\ s.calls \in Seq(Calls) /\ Len(s.calls) > 0 /\ b.depth + 1 = Len(s.calls)
      /\ b.depth \in Nat /\ b.ancestor \in [0 .. MAX_DEPTH - 1 -> Tables \cup {0}]
  <2>1. s \in [b : WriteBlock, calls : Seq(Calls)] /\ Ok(b)
        /\ Len(s.calls) > 0 /\ b.depth + 1 = Len(s.calls)
    BY DEF Packing
  <2> QED
    BY <2>1 DEF Ok, WriteBlock
<1>2. CASE enter
  <2> DEFINE t == v[2]
             anc == IF b.depth < MAX_DEPTH THEN [b.ancestor EXCEPT ![b.depth] = t]
                    ELSE b.ancestor
             down == [b EXCEPT !.depth = @ + 1, !.ancestor = anc]
             c == wb_table(h, down, t)
             calls == <<Contents(h[t])>> \o s.calls
  <2>1. t \in Tables
    BY <1>2 DEF Values
  <2>2. pack_one(h, s, v) = [b |-> c, calls |-> calls]
    BY <1>2 DEF pack_one, pack_table
  <2>3. anc \in [0 .. MAX_DEPTH - 1 -> Tables \cup {0}]
    BY <1>1, <2>1
  <2> HIDE DEF anc
  <2>4. /\ down \in WriteBlock /\ down.depth = b.depth + 1 /\ down.err = b.err
        /\ down.blk = b.blk /\ down.len = b.len /\ down.objectid = b.objectid
        /\ down.r = b.r /\ down.addr = b.addr /\ down.lookup = b.lookup
    <3>1. b.depth + 1 \in Nat
      BY <1>1
    <3> HIDE DEF b
    <3> QED
      BY ONLY <1>1, <2>3, <3>1 DEF WriteBlock
  <2> HIDE DEF down
  <2>5. Places(down) = Places(b)
    BY <2>4 DEF Places
  <2>6. Good(down)
    <3>1. Chained(b) /\ Known(b) /\ Tagged(b.blk, Places(b))
      BY <1>1 DEF Good
    <3>2. Chained(down) /\ Known(down)
      BY <2>4, <2>5, <3>1 DEF Chained, Known
    <3> QED
      BY <2>4, <2>5, <3>1, <3>2 DEF Good
  <2>7. Good(c) /\ SameLevel(c, down)
    BY <2>1, <2>6, TableGood
  <2> HIDE DEF c
  <2>8. Contents(h[t]) \in Calls
    BY <2>1, ContentsType
  <2> DEFINE x == Contents(h[t])
  <2>9. calls \in Seq(Calls) /\ Len(calls) = Len(s.calls) + 1
    <3>1. calls = <<x>> \o s.calls /\ x \in Calls
      BY <2>8
    <3> HIDE DEF x, calls
    <3>2. <<x>> \in Seq(Calls) /\ Len(<<x>>) = 1
      BY <3>1
    <3>3. Len(<<x>> \o s.calls) = 1 + Len(s.calls) /\ <<x>> \o s.calls \in Seq(Calls)
      BY <1>1, <3>2, ConcatProperties
    <3> QED
      BY <1>1, <3>1, <3>3
  <2> HIDE DEF calls
  <2>10. c \in WriteBlock /\ c.err = "none" /\ c.depth = b.depth + 1
    BY <2>4, <2>7 DEF Good, SameLevel
  <2>11. Len(calls) > 0 /\ c.depth + 1 = Len(calls)
    BY <1>1, <2>9, <2>10
  <2> QED
    BY <2>2, <2>7, <2>9, <2>10, <2>11 DEF Packing, Ok
<1>3. CASE ~ enter
  <2> DEFINE c == pack_value(b, v)
  <2>1. pack_one(h, s, v) = [s EXCEPT !.b = c]
    BY <1>3 DEF pack_one
  <2>2. Ok(c) /\ c.depth = b.depth
    BY <1>1, <1>3, PackValue
  <2> HIDE DEF c
  <2>3. c \in WriteBlock
    BY <2>2 DEF Ok
  <2>4. [s EXCEPT !.b = c] = [b |-> c, calls |-> s.calls]
    BY <1>1
  <2> QED
    BY <1>1, <2>1, <2>2, <2>3, <2>4 DEF Packing
<1> QED
  BY <1>2, <1>3

\* Every turn of the loop keeps what the writer relies on.
LEMMA PackNext ==
    ASSUME NEW h \in Heaps, NEW s, Packing(s)
    PROVE  Packing(pack_next(h, s))
<1> DEFINE b == s.b
           call == Head(s.calls)
           With(x) == [s EXCEPT !.calls = [@ EXCEPT ![1] = x]]
<1>1. /\ s \in [b : WriteBlock, calls : Seq(Calls)] /\ Ok(b) /\ b \in WriteBlock
      /\ s.calls \in Seq(Calls) /\ Len(s.calls) > 0 /\ b.depth + 1 = Len(s.calls)
      /\ b.depth \in Nat
  BY DEF Packing, Ok, WriteBlock
<1>2. call \in Calls /\ call = s.calls[1]
  BY <1>1
<1>3. /\ call.values \in Seq(Values) /\ call.entries \in Seq(Values \X Values)
      /\ call.size \in Nat
  BY <1>2 DEF Calls
<1>4. ASSUME NEW x \in Calls
      PROVE  Packing(With(x)) /\ With(x).b = b
  <2> DEFINE calls == [s.calls EXCEPT ![1] = x]
  <2>1. calls \in Seq(Calls) /\ Len(calls) = Len(s.calls)
    BY <1>1
  <2>2. With(x) = [b |-> b, calls |-> calls]
    BY <1>1
  <2> HIDE DEF calls
  <2> QED
    BY <1>1, <2>1, <2>2 DEF Packing
<1>5. CASE b.err # "none"
  BY <1>5 DEF pack_next
<1>6. CASE b.err = "none" /\ call.values # <<>>
  <2> DEFINE x == [call EXCEPT !.values = Tail(@)]
  <2>1. Head(call.values) \in Values /\ Tail(call.values) \in Seq(Values)
    BY <1>3, <1>6
  <2>2. x \in Calls
    BY <1>2, <2>1 DEF Calls
  <2>3. pack_next(h, s) = pack_one(h, With(x), Head(call.values))
    <3>1. [s EXCEPT !.calls[1].values = Tail(@)] = With(x)
      BY <1>1, <1>2
    <3>2. pack_next(h, s) = pack_one(h, [s EXCEPT !.calls[1].values = Tail(@)],
                                     Head(call.values))
      BY <1>6 DEF pack_next
    <3> HIDE DEF With, x, call
    <3> QED
      BY <3>1, <3>2
  <2>4. Packing(With(x)) /\ With(x).b = b
    BY <1>4, <2>2
  <2> HIDE DEF With, x
  <2> QED
    BY <1>6, <2>1, <2>3, <2>4, PackOne
<1>7. CASE b.err = "none" /\ call.values = <<>> /\ call.entries # <<>>
  <2> DEFINE e == Head(call.entries)
             x == NextEntry(call)
  <2>1. e \in Values \X Values /\ Tail(call.entries) \in Seq(Values \X Values)
    BY <1>3, <1>7
  <2>2. e \in Seq(Values) /\ <<>> \in Seq(Values)
    BY <2>1, PairIsSeq
  <2>3. x = [values |-> IF InArray(e[1], call.size) THEN <<>> ELSE e,
             entries |-> Tail(call.entries), size |-> call.size]
    BY DEF NextEntry, Call
  <2> HIDE DEF e
  <2> DEFINE vs == IF InArray(e[1], call.size) THEN <<>> ELSE e
             es == Tail(call.entries)
  <2>4. vs \in Seq(Values)
    BY <2>2
  <2> HIDE DEF vs, es
  <2>5. x = [values |-> vs, entries |-> es, size |-> call.size]
    BY <2>3 DEF vs, es
  <2>6. x \in Calls
    <3>1. es \in Seq(Values \X Values)
      BY <2>1 DEF es
    <3> QED
      BY ONLY <1>3, <2>4, <2>5, <3>1 DEF Calls
  <2>7. pack_next(h, s) = With(x)
    BY <1>7 DEF pack_next
  <2> QED
    BY <1>4, <2>6, <2>7
<1>8. CASE /\ b.err = "none" /\ call.values = <<>> /\ call.entries = <<>>
           /\ Len(s.calls) > 1
  <2> DEFINE c == wb_nil(b)
             d == [c EXCEPT !.depth = @ - 1]
  <2>1. pack_next(h, s) = [b |-> d, calls |-> Tail(s.calls)]
    BY <1>8 DEF pack_next, TableEnd
  <2>2. Good(b) /\ Num(0) \in Values
    BY <1>1, <1>8, NumIsValue DEF Ok
  <2>3. Good(c) /\ Same(c, b)
    BY <2>2, PlainGood
  <2> HIDE DEF c
  <2>4. c.depth = b.depth /\ c.depth - 1 \in Nat
    BY <1>1, <1>8, <2>3 DEF Same
  <2>5. /\ d \in WriteBlock /\ d.depth = b.depth - 1 /\ d.err = b.err
        /\ d.blk = c.blk /\ d.len = c.len /\ d.objectid = c.objectid
        /\ d.r = c.r /\ d.addr = c.addr /\ d.lookup = c.lookup
    <3>1. c \in WriteBlock /\ c.err = b.err
      BY <2>3 DEF Good, Same
    <3> QED
      BY ONLY <2>4, <3>1 DEF WriteBlock
  <2> HIDE DEF d
  <2>6. Places(d) = Places(c)
    BY <2>5 DEF Places
  <2>7. Good(d)
    <3>1. Chained(c) /\ Known(c) /\ Tagged(c.blk, Places(c))
      BY <2>3 DEF Good
    <3>2. Chained(d) /\ Known(d)
      BY <2>5, <2>6, <3>1 DEF Chained, Known
    <3> QED
      BY <2>5, <2>6, <3>1, <3>2 DEF Good
  <2>8. Tail(s.calls) \in Seq(Calls) /\ Len(Tail(s.calls)) = Len(s.calls) - 1
    BY <1>1
  <2>9. Len(Tail(s.calls)) > 0 /\ d.depth + 1 = Len(Tail(s.calls))
    BY <1>1, <1>8, <2>5, <2>8
  <2>10. Ok(d)
    BY <1>8, <2>5, <2>7 DEF Ok
  <2> DEFINE tail == Tail(s.calls)
  <2> HIDE DEF tail
  <2> QED
    BY <2>1, <2>5, <2>8, <2>9, <2>10 DEF Packing
<1>9. CASE /\ b.err = "none" /\ call.values = <<>> /\ call.entries = <<>>
           /\ ~ (Len(s.calls) > 1)
  BY <1>9 DEF pack_next
<1> QED
  BY <1>5, <1>6, <1>7, <1>8, <1>9

\* Nothing has been written.
LEMMA InitGood == Good(wb_init)
<1> DEFINE b == wb_init
<1>1. <<>> \in Seq(Bytes) /\ <<<<>>>> \in Seq(Seq(Bytes)) /\ Len(<<<<>>>>) = 1
      /\ <<<<>>>>[1] = <<>> /\ Len(<<>>) = 0
  OBVIOUS
<1>2. b \in WriteBlock
  <2>1. [i \in 0 .. MAX_DEPTH - 1 |-> 0] \in [0 .. MAX_DEPTH - 1 -> Tables \cup {0}]
    OBVIOUS
  <2>2. [t \in Tables |-> 0] \in [Tables -> Nat]
    OBVIOUS
  <2>3. <<>> \in Seq(Tables \X (Nat \X Nat)) /\ <<>> \in Seq(Nat \X Nat)
    OBVIOUS
  <2> QED
    BY <1>1, <2>1, <2>2, <2>3 DEF wb_init, WriteBlock
<1>3. b.blk = <<<<>>>> /\ b.len = 0 /\ b.objectid = 0 /\ b.r = <<>>
  BY DEF wb_init
<1>4. BLOCK_SIZE \in Nat /\ MAX_REFERENCE \in Nat
  BY SerializerAssumption
<1>5. Chained(b)
  <2>1. 0 = (1 - 1) * BLOCK_SIZE + 0 /\ 0 <= BLOCK_SIZE
    BY <1>4
  <2> HIDE DEF b
  <2> QED
    BY <1>1, <1>3, <2>1 DEF Chained
<1> HIDE DEF b
<1>6. Places(b) \in Seq(Nat \X Nat) /\ Len(Places(b)) = 0
  <2>1. Places(b) = [i \in DOMAIN b.r |-> b.r[i][2]]
    BY <1>3, <1>4 DEF Places
  <2> QED
    BY <1>1, <1>2, <1>3, <2>1, PlacesType
<1>7. Known(b)
  BY <1>3, <1>4, <1>6 DEF Known
<1>8. Tagged(b.blk, Places(b))
  BY <1>6 DEF Tagged
<1> QED
  BY <1>2, <1>5, <1>7, <1>8 DEF Good, b

\* What pack_from leaves, whatever the tables and values.
LEMMA PackFrom ==
    ASSUME NEW h, h \in Heaps, NEW vs, vs \in Seq(Values)
    PROVE  Ok(pack_from(h, vs))
<1> DEFINE S == {s \in [b : WriteBlock, calls : Seq(Calls)] : Packing(s)}
           step == [s \in S |-> pack_next(h, s)]
           s0 == [b |-> wb_init, calls |-> <<Call(vs, <<>>, 0)>>]
           Eq(g) == g = [n \in Nat |-> IF n = 0 THEN s0 ELSE pack_next(h, g[n - 1])]
           f == CHOOSE g : Eq(g)
           N == PackTurns(vs)
<1>1. pack_from(h, vs) = f[N].b
  BY DEF pack_from
<1>2. s0 \in S
  <2>1. wb_init \in WriteBlock /\ wb_init.depth = 0 /\ wb_init.err = "none"
    BY InitGood DEF Good, wb_init
  <2>2. Call(vs, <<>>, 0) \in Calls
    BY DEF Call, Calls
  <2> DEFINE x == Call(vs, <<>>, 0)
             calls == <<x>>
  <2> HIDE DEF x
  <2>3. calls \in Seq(Calls) /\ Len(calls) = 1
    BY <2>2 DEF x
  <2>4. s0 = [b |-> wb_init, calls |-> calls]
    BY DEF x
  <2> HIDE DEF calls, s0
  <2>5. s0.b = wb_init /\ s0.calls = calls
    BY <2>4
  <2>6. s0 \in [b : WriteBlock, calls : Seq(Calls)]
    BY <2>1, <2>3, <2>4
  <2>7. Ok(wb_init)
    BY <2>1, InitGood DEF Ok
  <2>8. Packing(s0)
    <3>1. Len(calls) > 0 /\ wb_init.depth + 1 = Len(calls)
      BY <2>1, <2>3
    <3> QED
      BY ONLY <2>5, <2>6, <2>7, <3>1 DEF Packing
  <2> QED
    BY <2>6, <2>8
<1>3. ASSUME NEW s \in S
      PROVE  pack_next(h, s) \in S
  <2>1. Packing(pack_next(h, s))
    BY PackNext
  <2> QED
    BY <2>1 DEF Packing
<1>4. N \in Nat
  <2>1. Len(vs) \in Nat /\ MaxEntries \in Nat /\ MaxTables \in Nat
    BY SerializerAssumption, ProgramAssumption
  <2> QED
    BY ONLY <2>1 DEF PackTurns
<1> HIDE DEF S, s0, N
<1>5. step \in [S -> S]
  BY <1>3
<1>6. PICK g \in [Nat -> S] :
          \A n \in Nat : g[n] = IF n = 0 THEN s0 ELSE step[g[n - 1]]
  <2> HIDE DEF step
  <2> QED
    BY ONLY <1>2, <1>5, Iterated
<1>7. Eq(f)
  <2>1. ASSUME NEW n \in Nat
        PROVE  g[n] = IF n = 0 THEN s0 ELSE pack_next(h, g[n - 1])
    <3>1. CASE n = 0
      BY <1>6, <3>1
    <3>2. CASE n # 0
      <4>1. n - 1 \in Nat
        BY <3>2
      <4>2. step[g[n - 1]] = pack_next(h, g[n - 1])
        BY <4>1
      <4> QED
        BY <1>6, <3>2, <4>2
    <3> QED
      BY <3>1, <3>2
  <2>2. Eq(g)
    BY <2>1
  <2> HIDE DEF Eq
  <2> QED
    BY <2>2
<1> HIDE DEF f
<1>8. f[0] \in S
  BY <1>2, <1>7
<1>9. ASSUME NEW n \in 1 .. N, f[n - 1] \in S
      PROVE  f[n] \in S
  <2>1. n \in Nat /\ n # 0
    BY <1>4
  <2>2. f[n] = pack_next(h, f[n - 1])
    BY <1>7, <2>1
  <2> QED
    BY <1>3, <1>9, <2>2
<1>10. f[N] \in S
  BY <1>4, <1>8, <1>9, LoopInvariant
<1> QED
  BY <1>1, <1>10 DEF S, Packing

\* The buffer has the bytes of the blocks and nothing else.
LEMMA SeriBytes ==
    ASSUME NEW b, Good(b)
    PROVE  seri(b) \in Seq(Bytes)
<1> DEFINE n == Len(b.blk)
           B == BLOCK_SIZE
<1>0. B \in Nat /\ B > 0
  BY SerializerAssumption
<1>1. /\ b.blk \in Seq(Seq(Bytes)) /\ b.len \in Nat /\ n \in Nat /\ n > 0
      /\ \A i \in 1 .. n - 1 : Len(b.blk[i]) = B
      /\ Len(b.blk[n]) <= B /\ b.len = (n - 1) * B + Len(b.blk[n])
  BY DEF Good, Chained, WriteBlock
<1>2. Len(b.blk[n]) \in Nat
  BY <1>1
<1>3. ASSUME NEW i \in 1 .. b.len
      PROVE  b.blk[((i - 1) \div B) + 1][((i - 1) % B) + 1] \in Bytes
  <2> DEFINE q == (i - 1) \div B
             m == (i - 1) % B
  <2>1. i - 1 \in Nat /\ i - 1 < b.len
    BY <1>1
  <2>2. q \in Nat /\ m \in Nat /\ m < B /\ i - 1 = q * B + m
    BY ONLY <1>0, <2>1
  <2> HIDE DEF q, m, n, B
  <2>3. q < n
    <3> SUFFICES ASSUME q >= n PROVE FALSE
      BY <1>1, <2>2
    <3>1. q * B >= n * B
      BY ONLY <1>0, <1>1, <2>2, q >= n
    <3>2. b.len <= n * B
      <4> DEFINE k == (n - 1) * B
      <4>1. k \in Int /\ n * B = k + B
        BY ONLY <1>0, <1>1
      <4>2. b.len = k + Len(b.blk[n]) /\ Len(b.blk[n]) <= B
        BY ONLY <1>1
      <4> HIDE DEF k
      <4> QED
        BY ONLY <1>0, <1>2, <4>1, <4>2
    <3>3. q * B \in Nat /\ n * B \in Nat
      BY ONLY <1>0, <1>1, <2>2
    <3> QED
      BY ONLY <1>1, <2>1, <2>2, <3>1, <3>2, <3>3
  <2>4. m + 1 <= Len(b.blk[q + 1])
    <3>1. CASE q + 1 = n
      <4>1. q * B \in Nat /\ n - 1 = q
        BY ONLY <1>0, <1>1, <2>2, <3>1
      <4>2. b.len = q * B + Len(b.blk[n])
        BY ONLY <1>1, <4>1
      <4>3. m < Len(b.blk[n])
        BY ONLY <1>2, <2>1, <2>2, <4>1, <4>2
      <4> QED
        BY ONLY <1>2, <2>2, <3>1, <4>3
    <3>2. CASE q + 1 # n
      <4>1. q + 1 \in 1 .. n - 1
        BY ONLY <1>1, <2>2, <2>3, <3>2
      <4> QED
        BY ONLY <1>0, <1>1, <2>2, <4>1
    <3> QED
      BY <3>1, <3>2
  <2>5. q + 1 \in 1 .. Len(b.blk)
    BY <1>1, <2>2, <2>3 DEF n
  <2>6. b.blk[q + 1] \in Seq(Bytes)
    BY <1>1, <2>5
  <2>7. m + 1 \in 1 .. Len(b.blk[q + 1])
    BY <2>2, <2>4, <2>6
  <2>8. b.blk[q + 1][m + 1] \in Bytes
    BY <2>6, <2>7
  <2> QED
    BY <2>8 DEF q, m
<1> DEFINE g(i) == b.blk[((i - 1) \div B) + 1][((i - 1) % B) + 1]
<1>4. \A i \in 1 .. b.len : g(i) \in Bytes
  BY <1>3
<1>5. seri(b) = [i \in 1 .. b.len |-> g(i)]
  BY Zenon DEF seri
<1> HIDE DEF g
<1> QED
  BY ONLY <1>1, <1>4, <1>5

-----------------------------------------------------------------------------
(* The program. *)

\* The inductive invariant.
SInv ==
    /\ phase \in {"build", "packed", "done", "raised", "function", "unsupported"}
    /\ heap \in Heaps
    /\ buffer \in Seq(Bytes)

\* What the program puts into its tables are values.
LEMMA ReachValues == Reach \cup {Num(2)} \subseteq Values
<1>1. ASSUME NEW t \in Tables
      PROVE  Tab(t) \in Values
  <2>1. t \in Nat
    BY SerializerAssumption DEF Tables
  <2>2. Tab(t) \in Types \X Nat /\ Tab(t)[2] = t
    BY <2>1 DEF Tab, Types
  <2> QED
    BY <2>2 DEF Values
<1>2. Num(2) \in Values
  BY NumIsValue
<1> QED
  BY <1>1, <1>2 DEF Reach

\* It holds initially.
LEMMA InitSInv == Init => SInv
<1> SUFFICES ASSUME Init PROVE SInv
  OBVIOUS
<1>1. PICK meta \in SUBSET MetaTables :
          heap = [t \in Tables |-> [arr |-> <<>>, hash |-> <<>>, pairs |-> t \in meta]]
  BY DEF Init
<1>2. heap \in Heaps
  <2>1. ASSUME NEW t \in Tables
        PROVE  [arr |-> <<>>, hash |-> <<>>, pairs |-> t \in meta] \in
                   [arr : Seq(Values), hash : Seq(Values \X Values), pairs : BOOLEAN]
    <3>1. <<>> \in Seq(Values) /\ <<>> \in Seq(Values \X Values)
      OBVIOUS
    <3>2. CASE t \in meta
      BY <3>1, <3>2
    <3>3. CASE t \notin meta
      BY <3>1, <3>3
    <3> QED
      BY <3>2, <3>3
  <2> QED
    BY <1>1, <2>1, Zenon DEF Heaps
<1>3. <<>> \in Seq(Bytes)
  OBVIOUS
<1> QED
  BY <1>2, <1>3 DEF Init, SInv

\* The program changes its tables.
LEMMA BuildSInv == SInv /\ Build => SInv'
<1> SUFFICES ASSUME SInv, Build PROVE SInv'
  OBVIOUS
<1>1. PICK t \in TablesIn(heap), v \in Reach \cup {Num(2)} :
          \/ AddItem(t, v)
          \/ \E k \in Keys \cup Reach : AddField(t, k, v)
  BY DEF Build
<1>2. v \in Values /\ Keys \cup Reach \subseteq Values
  BY ReachValues, ProgramAssumption
<1>3. UNCHANGED <<phase, buffer>>
  BY <1>1 DEF AddItem, AddField
<1>4. heap \in Heaps
  BY DEF SInv
<1>5. heap' \in Heaps
  <2>1. CASE AddItem(t, v)
    <3> DEFINE new == [heap[t] EXCEPT !.arr = Append(@, v)]
    <3>1. heap' = [heap EXCEPT ![t] = new]
      BY <2>1 DEF AddItem
    <3>2. t \in Tables => new \in [arr : Seq(Values), hash : Seq(Values \X Values),
                                   pairs : BOOLEAN]
      <4> SUFFICES ASSUME t \in Tables
                   PROVE  new \in [arr : Seq(Values), hash : Seq(Values \X Values),
                                   pairs : BOOLEAN]
        OBVIOUS
      <4>1. heap[t] \in [arr : Seq(Values), hash : Seq(Values \X Values),
                         pairs : BOOLEAN]
        BY <1>4 DEF Heaps
      <4>2. Append(heap[t].arr, v) \in Seq(Values)
        BY <1>2, <4>1
      <4> QED
        BY <4>1, <4>2
    <3> HIDE DEF new
    <3> QED
      BY <1>4, <3>1, <3>2 DEF Heaps
  <2>2. ASSUME NEW k \in Keys \cup Reach, AddField(t, k, v)
        PROVE  heap' \in Heaps
    <3> DEFINE new == [heap[t] EXCEPT !.hash = Append(@, <<k, v>>)]
    <3>1. heap' = [heap EXCEPT ![t] = new]
      BY <2>2 DEF AddField
    <3>2. t \in Tables => new \in [arr : Seq(Values), hash : Seq(Values \X Values),
                                   pairs : BOOLEAN]
      <4> SUFFICES ASSUME t \in Tables
                   PROVE  new \in [arr : Seq(Values), hash : Seq(Values \X Values),
                                   pairs : BOOLEAN]
        OBVIOUS
      <4>1. heap[t] \in [arr : Seq(Values), hash : Seq(Values \X Values),
                         pairs : BOOLEAN]
        BY <1>4 DEF Heaps
      <4>2. <<k, v>> \in Values \X Values
        BY <1>2
      <4>3. Append(heap[t].hash, <<k, v>>) \in Seq(Values \X Values)
        BY <4>1, <4>2
      <4> QED
        BY <4>1, <4>3
    <3> HIDE DEF new
    <3> QED
      BY <1>4, <3>1, <3>2 DEF Heaps
  <2> QED
    BY <1>1, <2>1, <2>2
<1> QED
  BY <1>3, <1>5 DEF SInv

\* pack returns a buffer or raises an error.
LEMMA PackSInv ==
    ASSUME SInv, NEW pair \in Around, Pack(pair[1], pair[2])
    PROVE  SInv'
<1> DEFINE b == pack_from(heap, values')
<1>1. values' \in Seq(Values)
  <2>1. pair[1] \in Seq(Values) /\ pair[2] \in Seq(Values)
    BY ProgramAssumption
  <2>2. Tab(1) \in Values
    <3>1. Tab(1) \in Types \X Nat /\ Tab(1)[2] = 1 /\ 1 \in Tables
      BY SerializerAssumption DEF Tab, Types, Tables
    <3> QED
      BY <3>1 DEF Values
  <2>3. <<Tab(1)>> \in Seq(Values)
    BY <2>2
  <2>4. pair[1] \o <<Tab(1)>> \o pair[2] \in Seq(Values)
    BY <2>1, <2>3
  <2> QED
    BY <2>4 DEF Pack
<1>2. Ok(b)
  BY <1>1, PackFrom DEF SInv
<1>3. PackFails(b) \/ PackRaises \/ PackReturns(b)
  BY DEF Pack
<1>4. heap' = heap /\ phase = "build"
  BY DEF Pack
<1> HIDE DEF b
<1>5. b \in WriteBlock /\ b.err \in {"none", "function", "unsupported"}
  BY <1>2 DEF Ok, WriteBlock
<1>6. CASE PackFails(b)
  <2>1. b.err # "none" /\ phase' = b.err /\ buffer' = buffer
    BY <1>6 DEF PackFails
  <2> QED
    BY <1>4, <1>5, <2>1 DEF SInv
<1>7. CASE PackReturns(b)
  <2>1. b.err = "none" /\ phase' = "packed" /\ buffer' = seri(b)
    BY <1>7 DEF PackReturns
  <2>2. seri(b) \in Seq(Bytes)
    BY <1>2, <2>1, SeriBytes DEF Ok
  <2> QED
    BY <1>4, <2>1, <2>2 DEF SInv
<1>8. CASE PackRaises
  BY <1>4, <1>8 DEF PackRaises, SInv
<1> QED
  BY <1>3, <1>6, <1>7, <1>8

\* Every step keeps it.
LEMMA NextSInv == SInv /\ [Next]_vars => SInv'
<1> SUFFICES ASSUME SInv, [Next]_vars PROVE SInv'
  OBVIOUS
<1>0. <<>> \in Seq(Bytes)
  OBVIOUS
<1>1. CASE Build
  BY <1>1, BuildSInv
<1>2. CASE \E pair \in Around : Pack(pair[1], pair[2])
  BY <1>2, PackSInv
<1>3. CASE Unpack
  BY <1>3 DEF Unpack, SInv
<1>4. CASE UnpackRemove
  BY <1>0, <1>4 DEF UnpackRemove, SInv
<1>5. CASE RemoveBuffer
  BY <1>0, <1>5 DEF RemoveBuffer, SInv
<1>6. CASE Again
  BY <1>6 DEF Again, SInv
<1>7. CASE UNCHANGED vars
  BY <1>7 DEF vars, SInv
<1> QED
  BY <1>1, <1>2, <1>3, <1>4, <1>5, <1>6, <1>7 DEF Next

\* It is an invariant.
LEMMA SpecSInv == Spec => []SInv
BY InitSInv, NextSInv, PTL DEF Spec

\* The tags in every buffer that pack returns have cookies that fit next to the
\* type in a byte (COMBINE_TYPE): lengths of short strings, sizes of array parts
\* and depths of ancestors, for all values and for all graphs of tables.
THEOREM SerializerType == Spec => []TypeOK
<1>1. SInv => TypeOK
  <2> SUFFICES ASSUME SInv PROVE TypeOK
    OBVIOUS
  <2>1. \A t \in Tables : Entries(heap[t]) \in Seq(Values \X Values)
    BY ContentsType DEF SInv
  <2>2. ASSUME NEW i \in DOMAIN buffer, buffer[i][1] \in Small
        PROVE  buffer[i][2] < MAX_COOKIE
    <3>1. buffer[i] \in Bytes /\ MAX_COOKIE \in Nat
      <4>1. buffer \in Seq(Bytes)
        BY DEF SInv
      <4>2. buffer[i] \in Bytes
        BY ONLY <4>1, i \in DOMAIN buffer
      <4> QED
        BY <4>2, SerializerAssumption
    <3>2. buffer[i][2] \in 0 .. MAX_COOKIE - 1
      BY <2>2, <3>1 DEF Bytes, Small
    <3> QED
      BY <3>1, <3>2
  <2> QED
    BY <2>1, <2>2 DEF SInv, TypeOK, Small
<1> QED
  BY <1>1, SpecSInv, PTL

\* The assertion in change_mark never fails: where a table is remembered there is
\* a tag that has not been changed, in whatever block, before and after the move
\* of the references to Lua tables.
THEOREM SerializerAsserts == Spec => []AssertionsHold
<1>1. SInv => AssertionsHold
  BY DEF SInv, AssertionsHold
<1> QED
  BY <1>1, SpecSInv, PTL

=============================================================================
