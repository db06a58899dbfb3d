------------------------------ MODULE Coverage ------------------------------
(***************************************************************************)
(* What a bounded set of ranges promises about the sequences it covers.    *)
(* It may have room for only so many runs of them.  A request adds or      *)
(* drops sequences; as long as the result has room it is kept exactly, and *)
(* otherwise more is covered, never less, and where a choice exists, none  *)
(* of it that a waiting segment holds.                                     *)
(***************************************************************************)
EXTENDS Integers, FiniteSets

CONSTANTS MaxSeq, Slots

VARIABLES
    covered,  \* the sequences covered
    request   \* the request just served: what to add, to drop, what waits

vars == <<covered, request>>

Seqs == 1 .. MaxSeq

\* The first sequence of every run of consecutive ones.
Runs(S) == {s \in S : s - 1 \notin S}
Fits(S) == Cardinality(Runs(S)) <= Slots

Settled(exact, waiting) ==
    /\ exact \subseteq covered'
    /\ Fits(covered')
    /\ Fits(exact) => covered' = exact
    /\ (\E S \in SUBSET Seqs : exact \subseteq S /\ Fits(S) /\ (S \ exact) \cap waiting = {})
          => (covered' \ exact) \cap waiting = {}

NoRequest == [add |-> {}, drop |-> {}, waiting |-> {}, refused |-> FALSE]

Init == covered = {} /\ request = NoRequest

Serve ==
    /\ request = NoRequest
    /\ LET exact == (covered \cup request'.add) \ request'.drop
       IN  IF request'.refused THEN covered' = covered /\ ~Fits(exact)
           ELSE Settled(exact, request'.waiting)

Return == request' = NoRequest /\ covered' = covered

Next == Serve \/ Return

Spec == Init /\ [][Next]_vars
=============================================================================
