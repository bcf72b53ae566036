------------------------------ MODULE MCProxy ------------------------------
(* Model-checking instance of Proxy. *)
EXTENDS Proxy

MCHosts == {"steam", "Steam", "other"}

MCLowercase == [h \in MCHosts |-> IF h = "Steam" THEN "steam" ELSE h]

\* No port, one that is no u16, one below the range, one in it.
MCToken == [host : MCHosts, port : {NoPort, 70000, 79, 80}]
=============================================================================
