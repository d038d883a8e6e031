---------------------------- MODULE MCToastyFwd ----------------------------
(* ToastyFwd for TLC.                                                       *)
EXTENDS ToastyFwd

Opt(w, b, p, c) ==
    [warm_buffers |-> w, busy_poll |-> b, poll |-> p, copy |-> c]

\* -B -p; -B -c; and none of the options.
FifoOptions == {Opt(FALSE, TRUE, TRUE, FALSE), Opt(FALSE, TRUE, FALSE, TRUE),
                Opt(FALSE, FALSE, FALSE, FALSE)}

\* A signal is no more than a flag, looked at in one place; without -B, where there
\* are most states, none arrives.
SignalOptions == {o \in FifoOptions : o.busy_poll}

\* -B -p.
PollOptions == {Opt(FALSE, TRUE, TRUE, FALSE)}

\* -W -B.
WarmOptions == {Opt(TRUE, TRUE, FALSE, FALSE)}

\* -B alone.
BusyOptions == {Opt(FALSE, TRUE, FALSE, FALSE)}
=============================================================================
