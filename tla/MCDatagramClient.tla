--------------------------- MODULE MCDatagramClient ---------------------------
(* A small instance of DatagramClient for TLC: two lcores with an endpoint   *)
(* each, of which the second cannot be reached from here.                    *)
EXTENDS DatagramClient

MCLcoreOf == [e \in 0 .. 1 |-> e]
MCReachable == {0}
=============================================================================
