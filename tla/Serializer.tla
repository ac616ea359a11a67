----------------------------- MODULE Serializer -----------------------------
(***************************************************************************)
(* lua-seri.c: pack turns Lua values into a buffer, unpack turns a buffer  *)
(* into values.  A program builds tables that contain, share and key each  *)
(* other in any way; pack writes them depth first into a chain of blocks,  *)
(* and a table it meets again as a reference: to an ancestor by its depth, *)
(* to any other table by a number, in which case the tag of that table,    *)
(* already written, is changed in place so that the reader numbers it too. *)
(*                                                                         *)
(* A value is a pair of its type and its content.  A byte is a tag         *)
(* <<type, cookie>>, a digit of a length or a number, or the i-th byte of  *)
(* the content of a value.  A call that raises an error sets err, and what *)
(* would come after it does nothing.  The recursion of the code is a loop  *)
(* here: calls holds what the calls for tables have still to do, the       *)
(* innermost first.                                                        *)
(***************************************************************************)
EXTENDS Naturals, SequencesExt
LOCAL INSTANCE Graphs

CONSTANTS MAX_COOKIE, MAX_DEPTH, MAX_REFERENCE, BLOCK_SIZE,  \* as in the code
          Base,            \* a byte holds 0 .. Base - 1 (the code: 256)
          WordSize,        \* bytes of a double or a pointer (the code: 8)
          MaxTables,       \* bound on the tables of a program
          MaxEntries,      \* bound on the entries of all tables together
          Keys,            \* the keys, besides tables, of its tables
          TableKeys,       \* may tables be keys?
          MetaTables,      \* tables that may have a __pairs
          Around           \* pairs of value sequences packed before and after

ASSUME SerializerAssumption ==
    /\ MAX_COOKIE \in 2 .. 32
    /\ MAX_DEPTH \in 1 .. MAX_COOKIE - 1
    /\ {MAX_REFERENCE, BLOCK_SIZE, WordSize, MaxTables} \subseteq Nat \ {0}
    /\ Base \in Nat \ {0, 1}

Tables == 1 .. MaxTables

\* Values.  Numbers are counted in halves, so that some are no integers.
Nil    == <<"nil", 0>>
Num(n) == <<"number", n>>
Tab(t) == <<"table", t>>

\* The types of lua_type: userdata are pointers and C functions, functions the
\* others, and a thread stands for what cannot be packed at all.
Types == {"nil", "boolean", "number", "string", "table", "function", "userdata", "thread"}

Values == {v \in Types \X Nat : v[1] = "table" => v[2] \in Tables}

ASSUME ProgramAssumption ==
    /\ MaxEntries \in Nat
    /\ Keys \subseteq Values
    /\ Around \subseteq Seq(Values) \X Seq(Values)

VARIABLES heap,       \* the tables of the program
          phase,      \* what the program does next
          values,     \* the arguments of pack
          buffer,     \* what pack returned, until it is freed
          result      \* what unpack returned

vars == <<heap, phase, values, buffer, result>>

EXTEND_NUMBER == MAX_COOKIE - 1

\* The subtypes of a number.  Sizes and numbers of tables are neither negative
\* nor wider than a dword, so that qwords are left out.
Zero  == 0
Byte  == 1
Word  == 2
Dword == 4
Real  == 8
Width == [s \in {Zero, Byte, Word, Dword} |-> s]  \* in bytes

-----------------------------------------------------------------------------
(* The writer.  b is struct write_block: its chain of blocks, the stack of  *)
(* ancestors, and the tables met so far, first in the array r, later in two *)
(* Lua tables, lookup (from table to number, 0 for nil) and addr (from      *)
(* number to the place of a tag that may still have to change).             *)

NoAddress == <<0, 0>>

wb_init == [blk |-> <<<<>>>>, len |-> 0, depth |-> 0, objectid |-> 0,
            ancestor |-> [i \in 0 .. MAX_DEPTH - 1 |-> 0],
            r |-> <<>>, lookup |-> [t \in Tables |-> 0], addr |-> <<>>, err |-> "none"]

\* A new block when the current one is full.
blk_alloc(b) ==
    IF Len(Last(b.blk)) = BLOCK_SIZE THEN [b EXCEPT !.blk = Append(@, <<>>)] ELSE b

\* One byte, in a new block if it must be.
PutByte(b0, x) ==
    LET b == blk_alloc(b0)
    IN [b EXCEPT !.blk[Len(b.blk)] = Append(@, x), !.len = @ + 1]

\* Copies bytes, into each block as many as fit.
wb_push(b, bytes) ==
    LET copied[n \in 0 .. Len(bytes)] ==
          IF n = 0 THEN blk_alloc(b) ELSE PutByte(copied[n - 1], bytes[n])
    IN copied[Len(bytes)]

\* Where the next byte goes, once blk_alloc has made room for it.
wb_address(b) == <<Len(b.blk), Len(Last(b.blk)) + 1>>

\* The buffer that pack returns: the bytes of the blocks, up to the length.
seri(b) ==
    [i \in 1 .. b.len |->
        b.blk[((i - 1) \div BLOCK_SIZE) + 1][((i - 1) % BLOCK_SIZE) + 1]]

COMBINE_TYPE(type, cookie) == <<type, cookie>>

Digits(n, width) ==
    [i \in 1 .. width |-> <<"digit", (n \div Base^(i - 1)) % Base>>]

Content(v, size) == [i \in 1 .. size |-> <<"content", v, i>>]

wb_integer(b, n) ==
    LET size == CASE n = 0      -> Zero [] n \in 1 .. Base - 1 -> Byte
                  [] n \in Base .. Base^2 - 1 -> Word [] OTHER -> Dword
    IN wb_push(b, <<COMBINE_TYPE("number", size)>> \o Digits(n, Width[size]))

\* Wrong: a string of MAX_COOKIE bytes is written as a short one.
StringOffByOne(b, s) ==
    LET len == s[2] IN
    wb_push(b, (IF len <= MAX_COOKIE THEN <<COMBINE_TYPE("short string", len)>>
                ELSE <<COMBINE_TYPE("long string", 4)>> \o Digits(len, 4))
               \o Content(s, len))

wb_string(b, s) ==
    LET len  == s[2]
        head == CASE len < MAX_COOKIE -> <<COMBINE_TYPE("short string", len)>>
                  [] len \in MAX_COOKIE .. Base^2 - 1 ->
                        <<COMBINE_TYPE("long string", 2)>> \o Digits(len, 2)
                  [] OTHER ->
                        <<COMBINE_TYPE("long string", 4)>> \o Digits(len, 4)
    IN wb_push(wb_push(b, head), Content(s, len))

\* nil, booleans, numbers, and pointers to data (0) or C functions (1).
wb_nil(b)        == wb_push(b, <<COMBINE_TYPE("boolean", 0)>>)
wb_boolean(b, v) == wb_push(b, <<COMBINE_TYPE("boolean", v[2])>>)
wb_real(b, v)    == wb_push(wb_push(b, <<COMBINE_TYPE("number", Real)>>),
                            Content(v, WordSize))
wb_pointer(b, v) == wb_push(wb_push(b, <<COMBINE_TYPE("userdata", v[2])>>),
                            Content(v, WordSize))

\* The number of table t in the array, 0 if it is not there.
NumberIn(r, t) ==
    LET found == {i \in DOMAIN r : r[i][1] = t}
    IN IF found = {} THEN 0 ELSE Min(found)

\* Wrong: the table that finds the array full is the first in lookup.
MarkTableForgets(b0, t) ==
    LET b    == blk_alloc(b0)
        id   == b.objectid
        addr == IF id = MAX_REFERENCE THEN [i \in DOMAIN b.r |-> b.r[i][2]] ELSE b.addr
    IN IF id < MAX_REFERENCE
       THEN [b EXCEPT !.objectid = id + 1, !.r = Append(@, <<t, wb_address(b)>>)]
       ELSE [b EXCEPT !.objectid = id + 1, !.lookup[t] = id + 1,
                      !.addr = Append(addr, wb_address(b))]

\* Numbers table t and remembers the place of its tag.  The table that finds
\* the array full moves it to lookup and addr.
mark_table(b0, t) ==
    LET b      == blk_alloc(b0)
        id     == b.objectid
        moves  == id = MAX_REFERENCE
        lookup == IF moves THEN [u \in Tables |-> NumberIn(b.r, u)] ELSE b.lookup
        addr   == IF moves THEN [i \in DOMAIN b.r |-> b.r[i][2]] ELSE b.addr
    IN IF id < MAX_REFERENCE
       THEN [b EXCEPT !.objectid = id + 1, !.r = Append(@, <<t, wb_address(b)>>)]
       ELSE [b EXCEPT !.objectid = id + 1, !.lookup = [lookup EXCEPT ![t] = id + 1],
                      !.addr = Append(addr, wb_address(b))]

\* The depths at which a table that is being written is t.
AncestorsAt(b, t) ==
    IF b.depth >= MAX_DEPTH THEN {}
    ELSE {i \in 0 .. b.depth - 1 : b.ancestor[i] = t}

ref_ancestor(b, t) ==
    wb_push(b, <<COMBINE_TYPE("ref", Max(AncestorsAt(b, t)))>>)

\* The number of a table that has been written, 0 if it has not.
RefId(b, t) ==
    IF b.objectid <= MAX_REFERENCE THEN NumberIn(b.r, t) ELSE b.lookup[t]

\* The tag at a is that of a table; it says from now on that the table has a
\* number.
change_mark(b, a) ==
    LET tag == b.blk[a[1]][a[2]] IN
    IF tag[1] # "table" THEN [b EXCEPT !.err = "assert"]
    ELSE [b EXCEPT !.blk[a[1]][a[2]] = COMBINE_TYPE("table mark", tag[2])]

\* Wrong: the place of the tag stays, and the tag is changed again.
LookupRefKeeps(b, id) ==
    IF b.objectid <= MAX_REFERENCE THEN change_mark(b, b.r[id][2])
    ELSE change_mark(b, b.addr[id])

\* Marks the table with that number, unless it is marked.
lookup_ref(b, id) ==
    IF b.objectid <= MAX_REFERENCE
    THEN IF b.r[id][2] = NoAddress THEN b
         ELSE [change_mark(b, b.r[id][2]) EXCEPT !.r[id] = <<@[1], NoAddress>>]
    ELSE IF b.addr[id] = NoAddress THEN b
         ELSE [change_mark(b, b.addr[id]) EXCEPT !.addr[id] = NoAddress]

ref_object(b, id) ==
    wb_integer(wb_push(lookup_ref(b, id), <<COMBINE_TYPE("ref", EXTEND_NUMBER)>>),
               id)

\* Keys that the array part has taken care of.
InArray(k, size) == k[1] = "number" /\ k[2] \in 1 .. 2 * size /\ k[2] % 2 = 0

\* The entries of a table in the order of lua_next.
Entries(tab) == [i \in DOMAIN tab.arr |-> <<Num(2 * i), tab.arr[i]>>] \o tab.hash

\* The values of the array part, then the entries, of which the array part has
\* some.  A table with __pairs has no array part, and its entries are those that
\* __pairs yields.
Call(vs, es, size) == [values |-> vs, entries |-> es, size |-> size]

ArraySize(tab) == IF tab.pairs THEN 0 ELSE Len(tab.arr)

\* The tag of the table; then its contents are to be written.
wb_table(h, b0, t) ==
    LET b    == mark_table(b0, t)
        size == ArraySize(h[t])
    IN IF size >= EXTEND_NUMBER
       THEN wb_integer(wb_push(b, <<COMBINE_TYPE("table", EXTEND_NUMBER)>>), size)
       ELSE wb_push(b, <<COMBINE_TYPE("table", size)>>)

Contents(tab) == Call(SubSeq(tab.arr, 1, ArraySize(tab)), Entries(tab), ArraySize(tab))

\* A table that has not been met is entered, one level down.
pack_table(h, s, t) ==
    LET b    == s.b
        down == [b EXCEPT !.depth = @ + 1,
                          !.ancestor = IF b.depth < MAX_DEPTH
                                       THEN [@ EXCEPT ![b.depth] = t] ELSE @]
    IN [b |-> wb_table(h, down, t), calls |-> <<Contents(h[t])>> \o s.calls]

\* What is written for a value that is no table to be entered.
pack_value(b, v) ==
    CASE v[1] = "nil"      -> wb_nil(b)
      [] v[1] = "number"   -> wb_real(b, v)
      [] v[1] = "boolean"  -> wb_boolean(b, v)
      [] v[1] = "string"   -> wb_string(b, v)
      [] v[1] = "userdata" -> wb_pointer(b, v)
      [] v[1] = "function" -> [b EXCEPT !.err = "function"]
      [] v[1] = "table" /\ AncestorsAt(b, v[2]) # {} -> ref_ancestor(b, v[2])
      [] v[1] = "table" /\ AncestorsAt(b, v[2]) = {} -> ref_object(b, RefId(b, v[2]))
      [] OTHER -> [b EXCEPT !.err = "unsupported"]

pack_one(h, s, v) ==
    IF v[1] = "table" /\ AncestorsAt(s.b, v[2]) = {} /\ RefId(s.b, v[2]) = 0
    THEN pack_table(h, s, v[2])
    ELSE [s EXCEPT !.b = pack_value(s.b, v)]

\* lua_next: key and value of the next entry, unless the array part has it.
NextEntry(call) ==
    LET e == Head(call.entries) IN
    Call(IF InArray(e[1], call.size) THEN <<>> ELSE e, Tail(call.entries), call.size)

\* The end of a table: a nil in the place of a key, and one level up.
TableEnd(s) == [b |-> [wb_nil(s.b) EXCEPT !.depth = @ - 1], calls |-> Tail(s.calls)]

\* The next value or entry of the innermost table, until an error is raised.
pack_next(h, s) ==
    LET call == Head(s.calls) IN
    IF s.b.err # "none" THEN s
    ELSE IF call.values # <<>>
    THEN pack_one(h, [s EXCEPT !.calls[1].values = Tail(@)], Head(call.values))
    ELSE IF call.entries # <<>>
    THEN [s EXCEPT !.calls[1] = NextEntry(call)]
    ELSE IF Len(s.calls) > 1 THEN TableEnd(s) ELSE s

\* Turns enough for a value, for an entry with its key and value, and for the end
\* of a table: no table is entered twice.
PackTurns(vs) == Len(vs) + 3 * MaxEntries + MaxTables

\* Writes values one after the other.
pack_from(h, vs) ==
    LET turn[n \in Nat] ==
          IF n = 0 THEN [b |-> wb_init, calls |-> <<Call(vs, <<>>, 0)>>]
                   ELSE pack_next(h, turn[n - 1])
    IN turn[PackTurns(vs)].b

-----------------------------------------------------------------------------
(* The reader.  r is struct read_block with the Lua stack of the call, the  *)
(* tables made so far (sets of entries, in the order of their numbers) and  *)
(* the table of those that are marked.  ancestor holds places on that       *)
(* stack.  val is the number read last, ready says that the top of the      *)
(* stack is a value that whoever wanted it has not taken yet.               *)

rball_init(buf) ==
    [buf |-> buf, pos |-> 1, depth |-> 0, objectid |-> 0,
     ancestor |-> [i \in 0 .. MAX_DEPTH - 1 |-> 0],
     stack |-> <<>>, tables |-> <<>>, refs |-> <<>>, val |-> 0, err |-> "none",
     calls |-> <<>>, ready |-> FALSE]

Left(r)   == Len(r.buf) + 1 - r.pos
Peek(r)   == r.buf[r.pos]
Skip(r, n) == [r EXCEPT !.pos = @ + n]
Fail(r, e) == [r EXCEPT !.err = e]
Push(r, v) == [r EXCEPT !.stack = Append(@, v), !.ready = TRUE]
Pop(r, n) == [r EXCEPT !.stack = SubSeq(@, 1, Len(@) - n)]
Top(r)    == Last(r.stack)

\* What lua_pushvalue finds: nil above the top of the stack.
At(r, i) == IF i \in DOMAIN r.stack THEN r.stack[i] ELSE Nil

\* The number that the digits spell; what is no digit spells no number.
Spelt(bytes) ==
    IF \A i \in DOMAIN bytes : bytes[i][1] = "digit"
    THEN FoldRight(LAMBDA d, n : d[2] + Base * n, bytes, 0) ELSE 0

get_integer(r, width) ==
    IF Left(r) < width THEN Fail(r, "invalid stream")
    ELSE [Skip(r, width) EXCEPT
            !.val = Spelt(SubSeq(r.buf, r.pos, r.pos + width - 1))]

get_extend_integer(r) ==
    IF Left(r) = 0 \/ Peek(r)[1] # "number" \/ Peek(r)[2] \notin DOMAIN Width
    THEN Fail(r, "invalid stream")
    ELSE get_integer(Skip(r, 1), Width[Peek(r)[2]])

\* Pushes the value of which these are the bytes.
get_buffer(r, size, empty) ==
    LET bytes == SubSeq(r.buf, r.pos, r.pos + size - 1)
        v     == IF size = 0 THEN empty ELSE Head(bytes)[2]
    IN IF r.err # "none" \/ Left(r) < size THEN Fail(r, "invalid stream")
       ELSE IF bytes = Content(v, size) THEN Push(Skip(r, size), v)
       ELSE Push(Skip(r, size), <<"garbage", 0>>)

\* The entry replaces the one with that key; an entry with a nil is none.
Set(tab, k, v) == {e \in tab : e[1] # k} \cup ({<<k, v>>} \ {<<k, Nil>>})

\* t[k] = v for the table at that place of the stack.
rawset(r, place, k, v) ==
    [r EXCEPT !.tables[r.stack[place][2]] = Set(@, k, v)]

unpack_ref(r, ref) ==
    LET x == get_extend_integer(r) IN
    CASE ref = EXTEND_NUMBER /\ x.err # "none" -> x
      [] ref = EXTEND_NUMBER /\ x.err = "none" /\ x.val \in DOMAIN r.refs ->
            Push(x, Tab(r.refs[x.val]))
      [] ref # EXTEND_NUMBER /\ ref < r.depth -> Push(r, At(r, r.ancestor[ref]))
      [] OTHER -> Fail(r, "invalid ref")

\* The next item of the array part, if there is one, or the first key.  Items are
\* one level below the table, and so are the values of entries.
NextItem(r, i, count) ==
    [r EXCEPT !.depth = IF i <= count THEN @ + 1 ELSE @, !.ready = FALSE,
              !.calls[1] = [want |-> IF i <= count THEN "item" ELSE "key",
                            i |-> i, count |-> count]]

TakeItem(r) ==
    LET call == Head(r.calls)
        x    == Pop(rawset(r, Len(r.stack) - 1, Num(2 * call.i), Top(r)), 1)
    IN NextItem([x EXCEPT !.depth = @ - 1], call.i + 1, call.count)

\* A nil in the place of a key ends the table, which is then a value itself.
TakeKey(r) ==
    IF Top(r) = Nil THEN [Pop(r, 1) EXCEPT !.calls = Tail(@)]
    ELSE [r EXCEPT !.depth = @ + 1, !.ready = FALSE, !.calls[1].want = "value"]

TakeValue(r) ==
    LET n == Len(r.stack)
        x == Pop(rawset(r, n - 2, r.stack[n - 1], r.stack[n]), 2)
    IN [x EXCEPT !.depth = @ - 1, !.ready = FALSE, !.calls[1].want = "key"]

\* A new table, numbered whether it is marked or not; then its contents are wanted.
unpack_table(r, cookie, type) ==
    LET s  == IF cookie = EXTEND_NUMBER THEN get_extend_integer(r)
              ELSE [r EXCEPT !.val = cookie]
        id == s.objectid + 1
        a  == [s EXCEPT !.objectid = id, !.tables = Append(@, {}),
                        !.stack = Append(@, Tab(id)),
                        !.refs = IF type = "table mark" THEN (id :> id) @@ @ ELSE @,
                        !.ancestor = IF s.depth < MAX_DEPTH
                                     THEN [@ EXCEPT ![s.depth] = Len(s.stack) + 1]
                                     ELSE @,
                        !.calls = <<[want |-> "item"]>> \o @]
    IN IF s.err # "none" THEN s ELSE NextItem(a, 1, s.val)

push_value(r, type, cookie) ==
    CASE type = "boolean" /\ cookie = 0 -> Push(r, Nil)
      [] type = "boolean" /\ cookie \in {1, 2} -> Push(r, <<"boolean", cookie>>)
      [] type = "number" /\ cookie = Real -> get_buffer(r, WordSize, Nil)
      [] type = "number" /\ cookie \in DOMAIN Width ->
            LET x == get_integer(r, Width[cookie]) IN Push(x, Num(2 * x.val))
      [] type = "userdata" /\ cookie \in {0, 1} -> get_buffer(r, WordSize, Nil)
      [] type = "short string" -> get_buffer(r, cookie, <<"string", 0>>)
      [] type = "long string" ->
            LET x == get_integer(r, cookie) IN get_buffer(x, x.val, <<"string", 0>>)
      [] type \in {"table", "table mark"} -> unpack_table(r, cookie, type)
      [] type = "ref" -> unpack_ref(r, cookie)
      [] OTHER -> Fail(r, "invalid stream")

unpack_one(r) ==
    IF r.err # "none" \/ Left(r) = 0 THEN Fail(r, "invalid stream")
    ELSE push_value(Skip(r, 1), Peek(r)[1], Peek(r)[2])

\* The next value is read, or taken by the call that wants it.
unpack_next(r) ==
    CASE r.err # "none" -> r
      [] r.err = "none" /\ ~ r.ready ->
            IF r.calls = <<>> /\ Left(r) = 0 THEN r ELSE unpack_one(r)
      [] r.err = "none" /\ r.ready /\ r.calls = <<>> -> [r EXCEPT !.ready = FALSE]
      [] r.err = "none" /\ r.ready /\ r.calls # <<>> ->
            CASE Head(r.calls).want = "item"  -> TakeItem(r)
              [] Head(r.calls).want = "key"   -> TakeKey(r)
              [] Head(r.calls).want = "value" -> TakeValue(r)

\* Reads values until the buffer is used up; each takes at least a byte.
seri_unpack(buf) ==
    LET turn[n \in Nat] ==
          IF n = 0 THEN rball_init(buf) ELSE unpack_next(turn[n - 1])
    IN turn[2 * Len(buf)]

-----------------------------------------------------------------------------
(* The program: it builds tables, packs the first of them together with     *)
(* other values, and unpacks or removes the buffer.                         *)

NoResult == [values |-> <<>>, tables |-> <<>>, err |-> "not run"]

\* Tables the program has a use for so far; the next new one is the lowest.
TablesIn(h) ==
    {1} \cup {v[2] : v \in {w \in UNION {{e[1], e[2]} :
        e \in UNION {ToSet(Entries(h[t])) : t \in Tables}} : w[1] = "table"}}

Reach == {Tab(t) : t \in {u \in Tables : {u - 1, u} \cap TablesIn(heap) # {}}}

\* The entries of all tables; one with a table for a key counts twice.
Size == MapThenSumSet(
          LAMBDA t : Len(Entries(heap[t])) +
                     Len(SelectSeq(heap[t].hash, LAMBDA e : e[1][1] = "table")),
          Tables)

Init ==
    /\ \E meta \in SUBSET MetaTables :
         heap = [t \in Tables |->
                   [arr |-> <<>>, hash |-> <<>>, pairs |-> t \in meta]]
    /\ phase = "build" /\ values = <<>> /\ buffer = <<>> /\ result = NoResult

\* Lua code: t[#t + 1] = v, and t[k] = v for a new key.
AddItem(t, v) ==
    /\ heap' = [heap EXCEPT ![t].arr = Append(@, v)]
    /\ UNCHANGED <<phase, values, buffer, result>>

AddField(t, k, v) ==
    /\ \A e \in ToSet(heap[t].hash) : e[1] # k
    /\ heap' = [heap EXCEPT ![t].hash = Append(@, <<k, v>>)]
    /\ UNCHANGED <<phase, values, buffer, result>>

\* luaseri_pack raises an error for a value it cannot write.
PackFails(b) ==
    /\ b.err # "none"
    /\ phase' = b.err
    /\ UNCHANGED buffer

\* It meets an error on its way: the Lua stack has no room for another table, or
\* the __pairs of a table, or the iterator that returned, raises one.
PackRaises ==
    /\ phase' = "raised"
    /\ UNCHANGED buffer

\* It returns a buffer.
PackReturns(b) ==
    /\ b.err = "none"
    /\ phase' = "packed"
    /\ buffer' = seri(b)

Pack(before, after) ==
    /\ phase = "build"
    /\ values' = before \o <<Tab(1)>> \o after
    /\ LET b == pack_from(heap, values')
       IN PackFails(b) \/ PackRaises \/ PackReturns(b)
    /\ UNCHANGED <<heap, result>>

Unpacked ==
    LET r == seri_unpack(buffer)
    IN [values |-> r.stack, tables |-> r.tables, err |-> r.err]

\* unpack leaves the buffer alone, unpack_remove frees it, after an error as
\* well, remove does nothing else.
Unpack ==
    /\ phase = "packed" /\ result = NoResult
    /\ result' = Unpacked
    /\ UNCHANGED <<heap, phase, values, buffer>>

UnpackRemove ==
    /\ phase = "packed" /\ result = NoResult
    /\ result' = Unpacked
    /\ phase' = "done" /\ buffer' = <<>>
    /\ UNCHANGED <<heap, values>>

RemoveBuffer ==
    /\ phase = "packed"
    /\ phase' = "done" /\ buffer' = <<>>
    /\ UNCHANGED <<heap, values, result>>

\* The program goes on with the tables it has.
Again ==
    /\ phase \notin {"build", "packed"}
    /\ phase' = "build" /\ values' = <<>> /\ result' = NoResult
    /\ UNCHANGED <<heap, buffer>>

Build ==
    /\ phase = "build"
    /\ \E t \in TablesIn(heap), v \in Reach \cup {Num(2)} :
         \/ Size < MaxEntries /\ AddItem(t, v)
         \/ Size < MaxEntries /\ \E k \in Keys : AddField(t, k, v)
         \/ TableKeys /\ Size + 1 < MaxEntries /\ \E k \in Reach : AddField(t, k, v)

Next ==
    \/ Build
    \/ \E pair \in Around : Pack(pair[1], pair[2])
    \/ Unpack \/ UnpackRemove \/ RemoveBuffer \/ Again

Spec == Init /\ [][Next]_vars

-----------------------------------------------------------------------------
(* Properties. *)

\* Every tag has a cookie that fits into its bits: COMBINE_TYPE shifts it into
\* what a byte leaves next to the type, and the rest would be lost.
TypeOK ==
    /\ phase \in {"build", "packed", "done", "raised", "function", "unsupported", "assert"}
    /\ \A t \in Tables : Entries(heap[t]) \in Seq(Values \X Values)
    /\ \A i \in DOMAIN buffer :
         buffer[i][1] \in {"short string", "table", "table mark", "ref"} =>
            buffer[i][2] < MAX_COOKIE

\* Unpacking gives back what was packed: the same values in the same order, and
\* tables that correspond one to one, so that what was shared is shared, what
\* was a cycle is a cycle, and nothing else is.
SameGraph ==
    /\ result.err = "none"
    /\ \E f \in Bijection(TablesIn(heap), DOMAIN result.tables) :
         LET image(v) == IF v[1] = "table" THEN Tab(f[v[2]]) ELSE v IN
         /\ result.values = [i \in DOMAIN values |-> image(values[i])]
         /\ \A t \in TablesIn(heap) :
              result.tables[f[t]] =
                {<<image(e[1]), image(e[2])>> : e \in ToSet(Entries(heap[t]))}

Edges == {p \in Tables \X Tables :
            \E e \in ToSet(Entries(heap[p[1]])) : Tab(p[2]) \in {e[1], e[2]}}

\* No table with a table for a key is part of a cycle, and no cycle can be
\* reached from such a key.
KeysApartFromCycles ==
    LET path       == ConnectionsIn([node |-> Tables, edge |-> Edges])
        OnCycle(t) == \E p \in Edges : p[1] = t /\ path[p[2], t]
    IN \A t, k \in Tables : (\E e \in ToSet(heap[t].hash) : e[1] = Tab(k)) =>
         /\ ~ OnCycle(t)
         /\ \A u \in Tables : path[k, u] => ~ OnCycle(u)

\* Unpack undoes pack for every graph of tables whose table keys stay clear of
\* cycles, wherever block boundaries fall, at depths beyond MAX_DEPTH, and with
\* more tables than MAX_REFERENCE.
RoundTrip == result # NoResult => SameGraph \/ ~ KeysApartFromCycles

\* The documentation (api.md, section 8) promises it for every table, cyclic
\* and shared references included.
RoundTripAlways == result # NoResult => SameGraph

\* The assertion in change_mark holds: the place kept for a table is that of its
\* tag, in whatever block it is, and each tag is changed once.
AssertionsHold == phase # "assert"

=============================================================================
