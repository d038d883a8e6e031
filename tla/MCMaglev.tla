------------------------------ MODULE MCMaglev ------------------------------
(***************************************************************************)
(* Five slots and ints of four bits stand to each other as 65537 slots and *)
(* ints of 32 bits: the largest product of configure is one more than the  *)
(* largest unsigned number.                                                *)
(***************************************************************************)
EXTENDS Maglev

\* A client, a backend that answers it, and the service's own address.
AnySource == {[addr |-> 8, port |-> 1], BackendAddr(0), Service}

MCProtocols == {"UDP", "TCP"}

\* The client and the service have different slots but share a chain, and all that
\* backends send is in the other.
MCSessionHash(sid) ==
    CASE sid.from.addr = 8 -> 0
      [] sid.from = Service -> 2
      [] OTHER             -> 1
=============================================================================
