------------------------------ MODULE MCTagged ------------------------------
(* Tagged for TLC: one thread runs all sections, another one some of them. *)
EXTENDS Tagged

OneLate == <<MaxStores, 1>>
TwiceLate == <<MaxStores, 2>>
=============================================================================
