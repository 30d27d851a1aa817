---------------------------- MODULE MCOperation -----------------------------
(* Instances of what goes on for days, for all but the browser's restarts.   *)
EXTENDS Operation, TLC

\* Tabs are interchangeable, and so are collectors.
Interchangeable == Permutations(Page) \cup Permutations(Collector)
=============================================================================
