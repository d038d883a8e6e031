----------------------------- MODULE MCToastyL3 -----------------------------
(* ToastyL3 for TLC.                                                        *)
EXTENDS ToastyL3

\* -B alone.
BusyOptions ==
    {[warm_buffers |-> FALSE, busy_poll |-> TRUE, poll |-> FALSE, copy |-> FALSE]}
=============================================================================
