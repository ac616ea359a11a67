----------------------------- MODULE MCMailbox -----------------------------
(* Small instances of Mailbox for TLC, whose messages and producers are        *)
(* numbers.                                                                    *)
EXTENDS Mailbox

\* Messages are interchangeable, and so are the producers that are idle: the
\* behaviours in which the first message that is left is sent by the first
\* producer that is idle stand for all.
Canonical ==
    /\ \A m \in Messages \ unsent', n \in unsent' : m < n
    /\ \A p, q \in Producers :
         (p < q /\ pc[p] = "idle" /\ pc[q] = "idle") => pc'[q] = "idle"

MCSpec == Init /\ [][Next /\ Canonical]_vars /\ Fairness

=============================================================================
