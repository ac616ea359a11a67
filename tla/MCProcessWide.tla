--------------------------- MODULE MCProcessWide ---------------------------
(* Small instances of ProcessWide for TLC. *)
EXTENDS ProcessWide

\* Messages with at most two newlines, from empty to longer than the buffer.
MCMessages ==
    LET Text(len, newlines) == [i \in 1 .. len |-> IF i \in newlines THEN "n" ELSE "c"]
    IN {Text(len, newlines) :
          len \in {0, 2} \cup LOG_LINE_MAX - 5 .. LOG_LINE_MAX,
          newlines \in {{}, {1}} \cup {{1, i} : i \in 2 .. LOG_LINE_MAX}}

Writes(levels, files, msgs) ==
    [op : {"log"}, level : levels, file : files, msg : msgs]

\* One thread writes every message, the other a few and configures.
MCCalls ==
    (1 :> Writes({"info"}, {0, 1, LOG_LINE_MAX}, MCMessages)) @@
    (2 :> Writes({"error"}, {0}, {Many("c", LOG_LINE_MAX)}) \cup
          [op : {"config"}, level : {None, "warn"}, format : {None, "journal"}])

MCEnv ==
    [level : {"unset", "debug"}, format : {"unset"}, journal : {TRUE}] \cup
    [level : {"invalid"}, format : {"unset", "invalid"}, journal : {FALSE}]

=============================================================================
