-------------------------------- MODULE Log --------------------------------
(***************************************************************************)
(* log.c: the logger all threads of a process share.  A record is put      *)
(* together in a buffer of LOG_LINE_MAX bytes and written to stderr; level *)
(* and format are read from the environment by whoever logs or configures  *)
(* first, under pthread_once.                                              *)
(*                                                                         *)
(* A message is a sequence of "c" (any character) and "n" (a newline).     *)
(* stderr is a pipe, or a socket like it: a write of at most PIPE_BUF      *)
(* bytes is not divided.  An interrupted write is started over, which      *)
(* changes nothing, and has no action.                                     *)
(***************************************************************************)
EXTENDS Naturals, SequencesExt

CONSTANTS Threads,
          LOG_LINE_MAX, PIPE_BUF,  \* 4096 in the code, both
          HeadSize,                \* bytes of time and level in a text record
          Calls,                   \* Calls[t]: the calls that t may make
          MaxCalls,                \* bound on the calls of a thread
          Env                      \* settings of the environment to start with

ASSUME LogAssumption ==
    /\ {LOG_LINE_MAX, PIPE_BUF, HeadSize} \subseteq Nat
    /\ LOG_LINE_MAX <= PIPE_BUF
    /\ HeadSize + 6 < LOG_LINE_MAX

VARIABLES level, format,  \* current_level, current_format
          once,           \* of pthread_once: "todo", "running", "done"
          chosen,         \* the last settings a program chose, for SettingStays
          env,            \* SERVICE_LOG_LEVEL, SERVICE_LOG_FORMAT, JOURNAL_STREAM
          pc,             \* where each thread is
          call,           \* the arguments of its call
          warnings,       \* what log_init has still to report
          record,         \* the record each thread put together last
          rest,           \* what it has still to write of it
          made,           \* how many calls it has made
          out             \* the writes that stderr has received: which record
                          \* they belong to, and how much of it was left

settings == <<level, format, once, chosen, env>>
threads  == <<pc, call, warnings, record, rest, made>>
logVars  == <<settings, threads, out>>

Rank == [debug |-> 0, info |-> 1, warn |-> 2, error |-> 3, off |-> 4]

None == "none"

\* A name of the environment or of a caller, None if it is not known.
parse_name(n, names) == IF n \in names THEN n ELSE None

log_parse_level(n)  == parse_name(n, DOMAIN Rank)
log_parse_format(n) == parse_name(n, {"text", "journal"})

\* What a thread may be called with: log_config by valid names, and log_write
\* with a level, the length of the location, 0 for none, and the message.
Configs == [op : {"config"}, level : DOMAIN Rank \cup {None},
            format : {"text", "journal", None}]
Records == [op : {"log", "write"}, level : DOMAIN Rank, file : Nat,
            msg : Seq({"c", "n"})]

ASSUME CallsAssumption == \A t \in Threads : Calls[t] \subseteq Configs \cup Records

-----------------------------------------------------------------------------
(* A record. *)

Many(b, n) == [i \in 1 .. n |-> b]

Prefix    == <<"<", "p", ">">>  \* the priority, for journald
Truncated == <<".", ".", ".">>

\* Wrong: no byte is kept for the newline.
AppendAll(buf, s) ==
    buf \o SubSeq(s, 1, Min({Len(s), LOG_LINE_MAX - Len(buf)}))

\* As much of s as fits, a byte kept for the newline.
append(buf, s) ==
    buf \o SubSeq(s, 1, Min({Len(s), LOG_LINE_MAX - 1 - Len(buf)}))

\* Time and level, or the priority.
Header(fmt) == IF fmt = "journal" THEN append(<<>>, Prefix) ELSE Many("h", HeadSize)

\* The location, which snprintf cuts so that the buffer has two bytes left.
Located(buf, file) ==
    IF file = 0 THEN buf  \* NULL
    ELSE buf \o Many("f", Min({file, LOG_LINE_MAX - 2 - Len(buf)}))

\* Wrong: continuation lines have no priority.
ContinuedBare(buf, fmt, more) == [buf |-> buf, cut |-> FALSE]

\* After a newline inside the message, the priority again.
Continued(buf, fmt, more) ==
    IF fmt = "journal" /\ more
    THEN LET b == append(buf, Prefix)
         IN [buf |-> b, cut |-> Len(b) - Len(buf) < Len(Prefix)]
    ELSE [buf |-> buf, cut |-> FALSE]

\* A turn of the loop that takes the message line by line until the buffer is
\* full: s.p bytes of msg have been dealt with.
NextLine(s, msg, fmt) ==
    LET newlines == {i \in s.p + 1 .. Len(msg) : msg[i] = "n"}
        last     == IF newlines = {} THEN Len(msg) ELSE Min(newlines)
        b        == append(s.buf, SubSeq(msg, s.p + 1, last))
        c        == Continued(b, fmt, newlines # {} /\ last < Len(msg))
    IN CASE s.p = Len(msg) \/ s.cut -> s
         [] ~(s.p = Len(msg) \/ s.cut) /\ Len(b) - Len(s.buf) < last - s.p ->
              [buf |-> b, p |-> last, cut |-> TRUE]
         [] OTHER -> [buf |-> c.buf, p |-> last, cut |-> c.cut]

\* The loop takes at least a byte per turn.
Lines(buf, msg, fmt) ==
    LET turn[n \in Nat] ==
          IF n = 0 THEN [buf |-> buf, p |-> 0, cut |-> FALSE]
                   ELSE NextLine(turn[n - 1], msg, fmt)
    IN turn[Len(msg)]

\* Wrong: the mark takes what room there is.
MarkedInRoom(buf, cut) == IF cut THEN append(buf, Truncated) ELSE buf

\* The mark of a record that was cut replaces the last bytes, if it must.
Marked(buf, cut) ==
    IF ~ cut THEN buf
    ELSE append(SubSeq(buf, 1, Min({Len(buf), LOG_LINE_MAX - 1 - Len(Truncated)})),
                Truncated)

emit(fmt, file, msg) ==
    LET message == SubSeq(msg, 1, Min({Len(msg), LOG_LINE_MAX - 1}))
        body    == Lines(Located(Header(fmt), file), message, fmt)
    IN Append(Marked(body.buf, body.cut \/ Len(msg) >= LOG_LINE_MAX), "n")

-----------------------------------------------------------------------------
(* The calls. *)

NoRecord == [format |-> None, msg |-> <<>>, bytes |-> <<>>]

LogInit ==
    /\ level = "info" /\ format = "text" /\ once = "todo"
    /\ chosen = [level |-> None, format |-> None]
    /\ env \in Env
    /\ pc = [t \in Threads |-> "idle"]
    /\ call = [t \in Threads |-> [op |-> None]]
    /\ warnings = [t \in Threads |-> 0]
    /\ record = [t \in Threads |-> NoRecord]
    /\ rest = [t \in Threads |-> <<>>]
    /\ made = [t \in Threads |-> 0]
    /\ out = <<>>

Goto(t, label) == pc' = [pc EXCEPT ![t] = label]

\* Wrong: log_set_level does not wait for the environment to be read.
BeginUninitialized(t, c) ==
    /\ pc[t] = "idle" /\ made[t] < MaxCalls
    /\ Goto(t, IF c.op = "config" THEN "called" ELSE "init")
    /\ call' = [call EXCEPT ![t] = c]
    /\ made' = [made EXCEPT ![t] = @ + 1]
    /\ UNCHANGED <<settings, warnings, record, rest, out>>

\* log_write, log_config: each begins with ensure_init.
Begin(t, c) ==
    /\ pc[t] = "idle" /\ made[t] < MaxCalls
    /\ Goto(t, "init")
    /\ call' = [call EXCEPT ![t] = c]
    /\ made' = [made EXCEPT ![t] = @ + 1]
    /\ UNCHANGED <<settings, warnings, record, rest, out>>

\* pthread_once: the first runs log_init, the others wait until it is done.
OnceRuns(t) ==
    /\ pc[t] = "init" /\ once = "todo"
    /\ once' = "running"
    /\ Goto(t, "defaults")
    /\ UNCHANGED <<level, format, chosen, env, call, warnings, record, rest, made, out>>

OncePassed(t) ==
    /\ pc[t] = "init" /\ once = "done"
    /\ Goto(t, "called")
    /\ UNCHANGED <<settings, call, warnings, record, rest, made, out>>

stderr_is_journal == env.journal

\* log_init stores the settings of the environment that are valid.
StoreDefaults(t) ==
    /\ pc[t] = "defaults"
    /\ format' = IF log_parse_format(env.format) # None THEN env.format
                 ELSE IF stderr_is_journal THEN "journal" ELSE "text"
    /\ level' = IF log_parse_level(env.level) # None THEN env.level ELSE level
    /\ warnings' = [warnings EXCEPT ![t] =
                      IF Rank[level'] > Rank["warn"] THEN 0
                      ELSE Cardinality({x \in {"level", "format"} :
                                          env[x] = "invalid"})]
    /\ Goto(t, "warn")
    /\ UNCHANGED <<once, chosen, env, call, record, rest, made, out>>

Emit(t, fmt, file, msg) ==
    LET bytes == emit(fmt, file, msg) IN
    /\ record' = [record EXCEPT ![t] = [format |-> fmt, msg |-> msg, bytes |-> bytes]]
    /\ rest' = [rest EXCEPT ![t] = bytes]

\* Reports a setting that is not valid, without log_write.
Warn(t) ==
    /\ pc[t] = "warn" /\ warnings[t] > 0
    /\ warnings' = [warnings EXCEPT ![t] = @ - 1]
    /\ Emit(t, format, 0, <<"c">>)
    /\ Goto(t, "write_warning")
    /\ UNCHANGED <<settings, call, made, out>>

OnceDone(t) ==
    /\ pc[t] = "warn" /\ warnings[t] = 0
    /\ once' = "done"
    /\ Goto(t, "called")
    /\ UNCHANGED <<level, format, chosen, env, call, warnings, record, rest, made, out>>

\* log_config: the level, then the format, whichever is given.  Both names have
\* been found valid before.
SetLevel(t) ==
    /\ pc[t] = "called" /\ call[t].op = "config"
    /\ IF call[t].level = None THEN UNCHANGED <<level, chosen>>
       ELSE /\ level' = call[t].level
            /\ chosen' = [chosen EXCEPT !.level = call[t].level]
    /\ Goto(t, "set_format")
    /\ UNCHANGED <<format, once, env, call, warnings, record, rest, made, out>>

SetFormat(t) ==
    /\ pc[t] = "set_format"
    /\ IF call[t].format = None THEN UNCHANGED <<format, chosen>>
       ELSE /\ format' = call[t].format
            /\ chosen' = [chosen EXCEPT !.format = call[t].format]
    /\ Goto(t, "idle")
    /\ UNCHANGED <<level, once, env, call, warnings, record, rest, made, out>>

log_enabled(l) == l # "off" /\ Rank[l] >= Rank[level]

\* write_log, for Lua code, looks at the level, and log_write looks again.
LuaEnabled(t) ==
    /\ pc[t] = "called" /\ call[t].op = "log"
    /\ Goto(t, IF log_enabled(call[t].level) THEN "log_write" ELSE "idle")
    /\ UNCHANGED <<settings, call, warnings, record, rest, made, out>>

\* log_write: the level is looked at first, the format later.
LogWrite(t) ==
    /\ pc[t] = "log_write" \/ (pc[t] = "called" /\ call[t].op = "write")
    /\ Goto(t, IF log_enabled(call[t].level) THEN "emit" ELSE "idle")
    /\ UNCHANGED <<settings, call, warnings, record, rest, made, out>>

LogEmit(t) ==
    /\ pc[t] = "emit"
    /\ Emit(t, format, call[t].file, call[t].msg)
    /\ Goto(t, "write")
    /\ UNCHANGED <<settings, call, warnings, made, out>>

\* Where a thread goes when its record is written.
AfterWrite(t) == IF pc[t] = "write" THEN "idle" ELSE "warn"

\* write_all: the kernel takes n bytes, and as long as some are left the rest is
\* written by another call.
WriteSome(t, n) ==
    /\ pc[t] \in {"write", "write_warning"}
    /\ n \in IF Len(rest[t]) <= PIPE_BUF THEN {Len(rest[t])} ELSE 1 .. Len(rest[t])
    /\ out' = Append(out, [id |-> <<t, made[t], warnings[t]>>,
                           left |-> Len(rest[t]) - n])
    /\ rest' = [rest EXCEPT ![t] = SubSeq(@, n + 1, Len(@))]
    /\ pc' = [pc EXCEPT ![t] = IF n = Len(rest[t]) THEN AfterWrite(t) ELSE @]
    /\ UNCHANGED <<settings, call, warnings, record, made>>

\* The write fails, and what is left of the record is given up.
WriteFails(t) ==
    /\ pc[t] \in {"write", "write_warning"}
    /\ rest' = [rest EXCEPT ![t] = <<>>]
    /\ Goto(t, AfterWrite(t))
    /\ UNCHANGED <<settings, call, warnings, record, made, out>>

LogStep(t) ==
    \/ OnceRuns(t) \/ OncePassed(t) \/ StoreDefaults(t) \/ Warn(t) \/ OnceDone(t)
    \/ SetLevel(t) \/ SetFormat(t) \/ LuaEnabled(t) \/ LogWrite(t) \/ LogEmit(t)
    \/ \E n \in 1 .. Len(rest[t]) : WriteSome(t, n)
    \/ WriteFails(t)

-----------------------------------------------------------------------------
(* Properties. *)

\* No record is longer than the buffer it is put together in.
LogTypeOK ==
    /\ level \in DOMAIN Rank /\ format \in {"text", "journal"}
    /\ once \in {"todo", "running", "done"}
    /\ \A t \in Threads :
         /\ Len(record[t].bytes) <= LOG_LINE_MAX
         /\ IsSuffix(rest[t], record[t].bytes)

\* Records do not interleave: a write that is followed by one for another record
\* has finished its own.  This is why LOG_LINE_MAX is bounded by PIPE_BUF, and
\* needs every record to keep to it.
RecordsWhole ==
    \A i \in 1 .. Len(out) - 1 : out[i + 1].id # out[i].id => out[i].left = 0

\* What a record has of messages: its "c" and "n".
Without(bytes) ==
    LET kept[n \in Nat] ==
          IF n = 0 THEN <<>>
          ELSE IF bytes[n] \in {"c", "n"} THEN Append(kept[n - 1], bytes[n])
          ELSE kept[n - 1]
    IN kept[Len(bytes)]

\* A record has all of its message, or says by three dots at its end that it has
\* not, however message, location and priorities share the buffer.
TruncationShown ==
    \A t \in Threads : record[t] # NoRecord =>
        \/ Without(record[t].bytes) = Append(record[t].msg, "n")
        \/ IsSuffix(Append(Truncated, "n"), record[t].bytes)

\* The lines of a record begin after these places.  A message may end with a
\* newline of its own, and leave an empty line that journald does not keep.
LineStarts(bytes) == {0} \cup {i \in 1 .. Len(bytes) - 2 : bytes[i] = "n"}

Prefixed(bytes, i) == IsPrefix(Prefix, SubSeq(bytes, i + 1, Len(bytes)))

\* What is left of the record after place i is the mark, after at most the beginning
\* of a priority.
OnlyMark(bytes, i) ==
    /\ IsSuffix(Append(Truncated, "n"), bytes)
    /\ \A j \in i + 1 .. Len(bytes) - 4 : bytes[j] \in {"<", "p"}

\* journald takes each line for a record of its own, so each line that shows any of
\* the message begins with the priority, wherever it has its line breaks and the
\* buffer its end.  doc/api.md and a comment of emit promise it of every line.  That
\* is not so: when a record is cut just after a line break, its last line is the
\* mark, and has no priority.
LinesPrefixed ==
    \A t \in Threads : record[t].format = "journal" =>
        LET bytes == record[t].bytes IN
        \A i \in LineStarts(bytes) : Prefixed(bytes, i) \/ OnlyMark(bytes, i)

\* The environment gives defaults only: a setting that a program has chosen is
\* not replaced by them, whichever thread comes first.
SettingStays ==
    /\ chosen.level # None => level = chosen.level
    /\ chosen.format # None => format = chosen.format

=============================================================================
