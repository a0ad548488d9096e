--------------------------- MODULE MCGadiaMailbox ---------------------------
(* Three chiplets.  Two read the file of number 1, as all chiplets of the    *)
(* benchmarks read one file, and write into the file the third one reads.    *)
(* Words have 16 values and ints 8, so 12 is the register value -4, and the  *)
(* sign extension is real.                                                   *)
EXTENDS GadiaMailbox, TLC

MCSends == (0 :> {2}) @@ (1 :> {2}) @@ (2 :> {1})
MCReads == (0 :> {1}) @@ (1 :> {1}) @@ (2 :> {2})
MCTickWidth == (0 :> 1) @@ (1 :> 2) @@ (2 :> 1)
=============================================================================
