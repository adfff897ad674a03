------------------------- MODULE MCResilientVerifier -------------------------
(***************************************************************************)
(* ResilientVerifier with a primary and a conservative mechanism, a window *)
(* of four and a threshold of one in four: one fault in three observations *)
(* trips, one in four does not.                                            *)
(***************************************************************************)
EXTENDS ResilientVerifier

TwoMechanisms == <<"primary", "conservative">>

===============================================================================
