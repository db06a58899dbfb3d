------------------------- MODULE MCUnappliedRanges -------------------------
(* Waiting spans as a scan returns them: none, or any disjoint spans the   *)
(* last of which is open-ended.                                            *)
EXTENDS UnappliedRanges

RunOf(S, s) == [lo |-> s, hi |-> Max({t \in S : s .. t \subseteq S})]
AllSpans == {{RunOf(S, s) : s \in {s \in S : s - 1 \notin S}} : S \in {{}} \cup {S \in SUBSET (1 .. MaxSeq) : MaxSeq \in S}}
=============================================================================
