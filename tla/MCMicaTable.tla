---------------------------- MODULE MCMicaTable ----------------------------
(***************************************************************************)
(* Three keys that share a bucket of two slots, in a log of four cells     *)
(* with offsets of four bits.                                              *)
(***************************************************************************)
EXTENDS MicaTable, TLC

CONSTANTS k1, k2, k3

\* With TagSpace 4 the first two have tag one, the first because zero is no tag.
SharedTag == k1 :> 0 @@ k2 :> 1 @@ k3 :> 2

\* One tag more than the bucket has slots.
ThreeTags == k1 :> 1 @@ k2 :> 2 @@ k3 :> 3

TwoTags == k1 :> 1 @@ k2 :> 2

\* Toasty's mth_threshold of 1.0 with values of two lengths, and two tables that
\* move every item found, with values of one length.
FifoOrLru ==
    {[mth_threshold |-> PoolSize, lengths |-> {1, 2}, key_hash |-> TwoTags],
     [mth_threshold |-> 0, lengths |-> {1}, key_hash |-> SharedTag],
     [mth_threshold |-> 0, lengths |-> {1}, key_hash |-> ThreeTags]}

\* Toasty's mth_threshold, and one tag more than the bucket has slots.
FifoCrowded == {[mth_threshold |-> PoolSize, lengths |-> {1}, key_hash |-> ThreeTags]}

TwoValues == {0, 1}
=============================================================================
