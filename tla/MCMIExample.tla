---------------------------- MODULE MCMIExample ----------------------------
(* Instances of MIExample.                                                   *)
EXTENDS MIExample, TLC

OneDirectory == [a \in Addrs |-> 0]
WholeBlock == {<<0, BlockSize>>}
Symmetry == Permutations(Caches) \cup Permutations(Addrs)

\* The block of a line without data is overwritten before it is read.
View ==
  <<l1, entries, mandatory, fwd, reqs, resps, dir, owner, tbe, memq, mem, dma,
    dmaReq, dmaResp, latest,
    [c \in Caches |-> [a \in Addrs |->
       IF l1[c][a] \in {"I", "IS", "IM"} THEN Zero ELSE blk[c][a]]]>>
=============================================================================
