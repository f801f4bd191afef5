----------------------------- MODULE ProfileLog -----------------------------
(***************************************************************************)
(* What the profile output of src/SwitchPerformance promises: a log that   *)
(* may be cut short but is never out of order.  Records are accepted while *)
(* the log is open; accepted records reach the files in the order they     *)
(* were accepted, each once, in files of 1 to Limit records.               *)
(***************************************************************************)
EXTENDS Naturals, Sequences

CONSTANTS Records,  \* the records that may be emitted
          Limit,    \* most records in a file
          Room      \* most records accepted and not yet in a file

VARIABLES open,     \* may records still be accepted?
          backlog,  \* records accepted and not in a file, oldest first
          log       \* the records of all files, in the order of the files

vars == <<open, backlog, log>>

Init == open = TRUE /\ backlog = <<>> /\ log = <<>>

Accept(r) ==
    /\ open /\ Len(backlog) < Room
    /\ backlog' = Append(backlog, r)
    /\ UNCHANGED <<open, log>>

File(n) ==
    /\ n <= Len(backlog)
    /\ log' = log \o SubSeq(backlog, 1, n)
    /\ backlog' = SubSeq(backlog, n + 1, Len(backlog))
    /\ UNCHANGED open

Close ==
    /\ open' = FALSE
    /\ UNCHANGED <<backlog, log>>

Next ==
    \/ \E r \in Records : Accept(r)
    \/ \E n \in 1 .. Limit : File(n)
    \/ Close

Spec == Init /\ [][Next]_vars
==============================================================================
