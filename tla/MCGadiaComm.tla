---------------------------- MODULE MCGadiaComm ----------------------------
(* Two chiplets, the first of which reads the files of two numbers, neither  *)
(* of which it sends to.  Words have 16 values and ints 8, so 12 is the      *)
(* register value -4.                                                        *)
EXTENDS GadiaComm, TLC

MCTwoSends == (0 :> {}) @@ (1 :> {0, 2})
MCTwoReads == (0 :> {0, 2}) @@ (1 :> {1})
MCTickWidth == (0 :> 1) @@ (1 :> 2)
=============================================================================
