---------------------------- MODULE MCSegmentSync ----------------------------
(* Small instances of SegmentSync, and its refinement of UnionLog.          *)
EXTENDS SegmentSync, TLC

Symmetric == Permutations(Decision) \cup Permutations(Store)
==============================================================================
