----------------------------- MODULE MCMIShared -----------------------------
(* An instance of MIExample under two workloads.                             *)
EXTENDS MCMIExample, SequencesExt

\* Either a device and the processors work on line shared and memory is slow
\* (with a fast one invalidations pile up without bound); or shared is None, no
\* device is active, memory may be fast and the processors store to every line.
VARIABLE shared

SharedInit == Init /\ shared \in Addrs \cup {None}

StoresOnly == \A c \in Caches : \A i \in DOMAIN mandatory[c] : mandatory[c][i].op = "ST"
OnlyShared == \A a \in Addrs \ {shared} : dma[a] = "READY" /\ \A c \in Caches : ~Outstanding(c, a)
InOrder == \A c \in Caches : Len(fwd[c]) < Len(fwd'[c]) => IsPrefix(fwd[c], fwd'[c])

SharedNext ==
  /\ Next
  /\ UNCHANGED shared
  /\ IF shared = None THEN StoresOnly' /\ UNCHANGED dma ELSE OnlyShared' /\ InOrder

SharedSpec == SharedInit /\ [][SharedNext]_<<vars, shared>>

\* Without devices no controller meets an event its state has no transition for.
NoInvalidCpuTransition == shared = None => NoInvalidTransition

SharedView == <<View, shared>>
=============================================================================
