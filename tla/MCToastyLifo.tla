---------------------------- MODULE MCToastyLifo ----------------------------
(* ToastyRx with a history variable: which frames the driver has ever taken. *)
EXTENDS MCToastyRx

VARIABLE used

LifoInit == Init /\ used = {}

LifoNext == Next /\ used' = used \cup {nic'[k] : k \in 1 .. Len(nic')}

LifoSpec == LifoInit /\ [][LifoNext]_<<vars, used>>

\* The free frames are a stack, so that recently freed, cache-warm buffers are
\* reused immediately: the driver never takes a frame that has not been used yet
\* while a frame that has been is free.
WarmBeforeCold ==
    [][NicRefill => \/ KernelTaken(fq) \in used
                    \/ \A j \in 0 .. InFill - 1 : Circulating(j) \notin used]_<<vars, used>>

WarmBusyOptions == {Opt(TRUE, TRUE, FALSE)}
=============================================================================
