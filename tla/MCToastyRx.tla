----------------------------- MODULE MCToastyRx -----------------------------
(* ToastyRx for TLC: the combinations of options each run considers.        *)
EXTENDS ToastyRxInv

Opt(w, b, p) ==
    [warm_buffers |-> w, busy_poll |-> b, poll |-> p, copy |-> FALSE]

\* The command lines that keep the frames: -W together with -B, and no -W.
SafeOptions == {Opt(TRUE, TRUE, FALSE), Opt(FALSE, TRUE, TRUE), Opt(FALSE, FALSE, FALSE)}

\* -W without -B.
WarmInterruptOptions == {Opt(TRUE, FALSE, FALSE)}
=============================================================================
