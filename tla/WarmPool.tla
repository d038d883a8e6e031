------------------------------ MODULE WarmPool ------------------------------
(***************************************************************************)
(* The discipline of free frames that option -W gives, without rings.      *)
(*                                                                         *)
(* The driver takes the first free frame.  The first frame given back      *)
(* after that takes the place of the first free frame, the second one the  *)
(* place of the second, and so on; the frame that loses its place goes to  *)
(* the end.  Without -W a frame given back goes to the end itself.         *)
(***************************************************************************)
EXTENDS Integers, Sequences

CONSTANT NumFrames

VARIABLES
    warm,       \* option -W
    free,       \* the free frames, in the order the driver will take them
    recent,     \* frames given back since it last took one
    posted,     \* frames in the NIC
    filled      \* frames with a packet for the application

poolVars == <<warm, free, recent, posted, filled>>

Init ==
    /\ warm \in BOOLEAN
    /\ free = [j \in 1 .. NumFrames |-> j - 1]
    /\ recent = 0
    /\ posted = <<>>
    /\ filled = <<>>

Take ==
    /\ free # <<>>
    /\ posted' = Append(posted, Head(free))
    /\ free' = Tail(free)
    /\ recent' = 0
    /\ UNCHANGED <<warm, filled>>

Receive ==
    /\ posted # <<>>
    /\ filled' = Append(filled, Head(posted))
    /\ posted' = Tail(posted)
    /\ UNCHANGED <<warm, free, recent>>

GiveBack ==
    /\ filled # <<>>
    /\ filled' = Tail(filled)
    /\ free' = IF warm /\ recent < Len(free)
               THEN Append([free EXCEPT ![recent + 1] = Head(filled)], free[recent + 1])
               ELSE Append(free, Head(filled))
    /\ recent' = IF warm THEN recent + 1 ELSE 0
    /\ UNCHANGED <<warm, posted>>

Next == Take \/ Receive \/ GiveBack

Spec == Init /\ [][Next]_poolVars
=============================================================================
