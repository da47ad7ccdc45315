------------------------------- MODULE MCArena -------------------------------
(* An instance of Arena for TLC. *)
EXTENDS Arena

(* Page spans of two pages, so of three objects in the class of 2720 bytes, *)
(* and of three pages for the two largest classes.                          *)
MCBinPages == [b \in Bins |-> IF b > 37 THEN 3 ELSE 2]
=============================================================================
