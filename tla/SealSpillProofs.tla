--------------------------- MODULE SealSpillProofs ---------------------------
(***************************************************************************)
(* Proofs about SealSpill: its type invariant, and that no sealed candle   *)
(* vanishes, for every number of bars, copies, crashes and every set of    *)
(* faults.  That the fullest copy of a bar is kept is proved in            *)
(* SealFullestProofs.                                                      *)
(*                                                                         *)
(* NothingVanishes is not inductive: a step may take a seal out of the     *)
(* queue, the ring or a thread's run only if the copy it leaves behind is  *)
(* on disk or in the database, and that rests on what the threads hold     *)
(* (Threaded, InWriter), on the counters that tell the writer when the     *)
(* escalation queue has drained (Counters), on the order of the copies in  *)
(* channel and ring (InOrder) and on what the ledger claims (Claims).      *)
(* SpillInv joins these parts.  The operators of the model that are folds  *)
(* over sequences are first described by lemmas (what each of them keeps,  *)
(* drops and bounds), proved by taking the least counterexample of a set   *)
(* of numbers; then one Base lemma and one Step lemma per action.          *)
(***************************************************************************)
EXTENDS SealSpill, FiniteSetTheorems, SequenceTheorems, WellFoundedInduction, TLAPS

-----------------------------------------------------------------------------
(* Induction, as facts about sets of numbers.                              *)

\* A set of numbers that is not empty has a least element.
LEMMA Least ==
  ASSUME NEW S, S \subseteq Nat, S # {}
  PROVE  \E m \in S : \A k \in S : m <= k
<1>1. PICK m \in S : \A k \in S : ~ (<<k, m>> \in OpToRel(<, Nat))
  BY NatLessThanWellFounded, WFMin
<1>2. \A k \in S : ~ (k < m) BY <1>1 DEF OpToRel
<1> QED BY <1>2

\* Induction up to a bound.
LEMMA Induction ==
  ASSUME NEW N \in Nat, NEW S, 0 \in S, \A n \in 0..(N - 1) : n \in S => n + 1 \in S
  PROVE  \A n \in 0..N : n \in S
<1> SUFFICES ASSUME NEW k \in 0..N, k \notin S PROVE FALSE OBVIOUS
<1> DEFINE T == {n \in 0..N : n \notin S}
<1>1. T \subseteq Nat /\ T # {} OBVIOUS
<1>2. PICK m \in T : \A n \in T : m <= n BY <1>1, Least
<1>3. m # 0 /\ m \in 1..N OBVIOUS
<1>4. m - 1 \in 0..(N - 1) /\ m - 1 \notin T BY <1>2, <1>3
<1>5. m - 1 \in S BY <1>4
<1> QED BY <1>3, <1>4, <1>5

\* A bounded set of numbers that is not empty has a greatest element.
LEMMA MaxOf ==
  ASSUME NEW N \in Nat, NEW S, S \subseteq 0..N, S # {}
  PROVE  Max(S) \in S /\ \A x \in S : x <= Max(S)
<1> DEFINE T == {k \in 0..N : \A x \in S : x <= k}
<1>1. T \subseteq Nat /\ T # {} /\ N \in T OBVIOUS
<1>2. PICK m \in T : \A k \in T : m <= k BY <1>1, Least
<1>3. m \in S
  <2> SUFFICES ASSUME m \notin S PROVE FALSE OBVIOUS
  <2>1. \A x \in S : x < m BY <1>2
  <2>2. PICK y : y \in S OBVIOUS
  <2>4. m # 0 BY <2>1, <2>2
  <2>3. m - 1 \in 0..N /\ \A x \in S : x <= m - 1 BY <2>1, <2>4
  <2> QED BY <1>2, <2>3
<1>4. \A y \in S : m >= y BY <1>2
<1>5. Max(S) \in S /\ \A y \in S : Max(S) >= y BY <1>3, <1>4 DEF Max
<1> QED BY <1>5

\* A value carried through N steps: D[n] is what step n does to it.
LEMMA Carried ==
  ASSUME NEW N \in Nat, NEW T, NEW first \in T, NEW D \in [1..N -> [T -> T]]
  PROVE  \E f \in [0..N -> T] : f[0] = first /\ \A n \in 1..N : f[n] = D[n][f[n - 1]]
<1> DEFINE Upto(m, f) == f \in [0..m -> T] /\ f[0] = first /\ \A n \in 1..m : f[n] = D[n][f[n - 1]]
           S == {m \in 0..N : \E f : Upto(m, f)}
<1>1. 0 \in S
  <2>1. Upto(0, [n \in 0..0 |-> first]) OBVIOUS
  <2> HIDE DEF Upto
  <2> QED BY <2>1
<1>2. ASSUME NEW m \in 0..(N - 1), m \in S PROVE m + 1 \in S
  <2>1. PICK f : Upto(m, f) BY <1>2
  <2> DEFINE g == [n \in 0..(m + 1) |-> IF n = m + 1 THEN D[m + 1][f[m]] ELSE f[n]]
  <2>2. D[m + 1][f[m]] \in T BY <2>1
  <2>3. g \in [0..(m + 1) -> T] BY <2>1, <2>2
  <2>4. g[0] = first BY <2>1
  <2>5. \A n \in 1..(m + 1) : g[n] = D[n][g[n - 1]] BY <2>1
  <2>6. Upto(m + 1, g) BY <2>3, <2>4, <2>5
  <2> HIDE DEF Upto, g
  <2> QED BY <2>6
<1> HIDE DEF S
<1>3. \A n \in 0..N : n \in S BY <1>1, <1>2, Induction
<1>4. N \in S BY <1>3
<1> QED BY <1>4 DEF S

-----------------------------------------------------------------------------
(* Among.                                                                  *)

AmongUpTo(f, seq, wanted, N) ==
  /\ f[0] = <<>>
  /\ \A n \in 1..N : f[n] = IF seq[n] \in wanted THEN Append(f[n - 1], seq[n]) ELSE f[n - 1]

\* Among takes the wanted elements step by step.
LEMMA AmongSteps ==
  ASSUME NEW V, NEW seq \in Seq(V), NEW wanted
  PROVE  \E f \in [0..Len(seq) -> Seq(V)] :
            AmongUpTo(f, seq, wanted, Len(seq)) /\ Among(seq, wanted) = f[Len(seq)]
<1>1. PICK N : N = Len(seq) OBVIOUS
<1>2. PICK T : T = Seq(V) OBVIOUS
<1>3. PICK e : e = <<>> OBVIOUS
<1> DEFINE D == [n \in 1..N |-> [x \in T |-> IF seq[n] \in wanted THEN Append(x, seq[n]) ELSE x]]
           Is(f) == f = [n \in 0..N |-> IF n = 0 THEN e
                            ELSE IF seq[n] \in wanted THEN Append(f[n - 1], seq[n]) ELSE f[n - 1]]
           h == CHOOSE f : Is(f)
<1>4. N \in Nat /\ e \in T BY <1>1, <1>2, <1>3
<1>5. \A n \in 1..N : seq[n] \in V BY <1>1
<1>6. \A x \in T : \A n \in 1..N : Append(x, seq[n]) \in T BY <1>2, <1>5
<1>7. D \in [1..N -> [T -> T]] BY <1>6
<1>8. PICK f \in [0..N -> T] : f[0] = e /\ \A n \in 1..N : f[n] = D[n][f[n - 1]]
  <2>1. PICK E : E = D OBVIOUS
  <2>2. E \in [1..N -> [T -> T]] BY <1>7, <2>1
  <2> HIDE DEF D
  <2>3. PICK f \in [0..N -> T] : f[0] = e /\ \A n \in 1..N : f[n] = E[n][f[n - 1]]
    BY <1>4, <2>2, Carried, SMTT(40)
  <2> QED BY <2>1, <2>3
<1>9. ASSUME NEW n \in 1..N
      PROVE  f[n] = IF seq[n] \in wanted THEN Append(f[n - 1], seq[n]) ELSE f[n - 1]
  <2>1. n - 1 \in 0..N /\ f[n - 1] \in T BY <1>4, <1>8
  <2> QED BY <1>8, <2>1
<1>10. Is(f)
  <2> DEFINE g == [n \in 0..N |-> IF n = 0 THEN e
                            ELSE IF seq[n] \in wanted THEN Append(f[n - 1], seq[n]) ELSE f[n - 1]]
  <2>1. ASSUME NEW n \in 0..N PROVE g[n] = f[n]
    <3>1. CASE n = 0 BY <1>8, <3>1
    <3>2. CASE n \in 1..N
      <4>1. n # 0 BY <1>4, <3>2
      <4>2. g[n] = IF seq[n] \in wanted THEN Append(f[n - 1], seq[n]) ELSE f[n - 1] BY <4>1
      <4> QED BY <1>9, <3>2, <4>2
    <3> QED BY <1>4, <3>1, <3>2
  <2>2. f = [n \in 0..N |-> f[n]] BY <1>8
  <2>3. g = [n \in 0..N |-> g[n]] OBVIOUS
  <2> QED BY <2>1, <2>2, <2>3
<1>11. Is(h)
  <2> HIDE DEF Is
  <2> QED BY <1>10
<1>12. Among(seq, wanted) = h[N] BY <1>1, <1>3, Zenon DEF Among
<1> HIDE DEF h
<1>13. h[0] = e
  <2>1. 0 \in 0..N BY <1>4
  <2> QED BY <1>11, <2>1
<1>14. ASSUME NEW n \in 1..N
       PROVE  h[n] = IF seq[n] \in wanted THEN Append(h[n - 1], seq[n]) ELSE h[n - 1]
  <2>1. n \in 0..N /\ n # 0 BY <1>4
  <2> QED BY <1>11, <2>1
<1>15. h = [n \in 0..N |-> h[n]] BY <1>11
<1> HIDE DEF h, Is
<1> DEFINE S == {n \in 0..N : h[n] \in T}
<1>16. 0 \in S BY <1>4, <1>13
<1>17. ASSUME NEW n \in 0..(N - 1), n \in S PROVE n + 1 \in S
  <2>1. n + 1 \in 1..N /\ (n + 1) - 1 = n /\ h[n] \in T BY <1>4, <1>17
  <2>2. h[n + 1] = IF seq[n + 1] \in wanted THEN Append(h[n], seq[n + 1]) ELSE h[n] BY <1>14, <2>1
  <2>3. h[n + 1] \in T BY <1>6, <2>1, <2>2
  <2> QED BY <2>1, <2>3
<1>18. \A n \in 0..N : n \in S
  <2> HIDE DEF S
  <2> QED BY <1>4, <1>16, <1>17, Induction
<1>19. h \in [0..N -> T]
  <2>1. \A n \in 0..N : h[n] \in T BY <1>18
  <2> QED BY <1>15, <2>1
<1>20. AmongUpTo(h, seq, wanted, N) BY <1>3, <1>13, <1>14 DEF AmongUpTo
<1> QED BY <1>1, <1>2, <1>12, <1>19, <1>20

\* The elements of f that come from the first n of seq, in their order.
TakenFrom(a, seq, n, wanted) ==
  /\ \A i \in DOMAIN a : \E p \in 1..n : a[i] = seq[p] /\ seq[p] \in wanted
  /\ \A p \in 1..n : seq[p] \in wanted => \E i \in DOMAIN a : a[i] = seq[p]
  /\ \A i, j \in DOMAIN a : i < j => \E p, q \in 1..n : p < q /\ a[i] = seq[p] /\ a[j] = seq[q]

\* One more element, wanted or not.
LEMMA TakenOne ==
  ASSUME NEW V, NEW seq \in Seq(V), NEW wanted, NEW n \in 0..(Len(seq) - 1), NEW a \in Seq(V),
         TakenFrom(a, seq, n, wanted), NEW c,
         c = IF seq[n + 1] \in wanted THEN Append(a, seq[n + 1]) ELSE a
  PROVE  TakenFrom(c, seq, n + 1, wanted)
<1>1. n \in Nat /\ n + 1 \in 1..(n + 1) /\ \A p \in 1..(n + 1) : p \in 1..n \/ p = n + 1 OBVIOUS
<1>2. \A p \in 1..n : p \in 1..(n + 1) /\ p < n + 1 BY <1>1
<1>3. CASE seq[n + 1] \notin wanted
  <2>1. c = a BY <1>3
  <2>2. \A i \in DOMAIN a : \E p \in 1..(n + 1) : a[i] = seq[p] /\ seq[p] \in wanted
    BY <1>2 DEF TakenFrom
  <2>3. \A p \in 1..(n + 1) : seq[p] \in wanted => \E i \in DOMAIN a : a[i] = seq[p]
    BY <1>1, <1>3 DEF TakenFrom
  <2>4. ASSUME NEW i \in DOMAIN a, NEW j \in DOMAIN a, i < j
        PROVE  \E p, q \in 1..(n + 1) : p < q /\ a[i] = seq[p] /\ a[j] = seq[q]
    <3>1. PICK p \in 1..n, q \in 1..n : p < q /\ a[i] = seq[p] /\ a[j] = seq[q]
      BY <2>4, Zenon DEF TakenFrom
    <3> QED BY <1>2, <3>1
  <2>5. TakenFrom(a, seq, n + 1, wanted) BY <2>2, <2>3, <2>4, Zenon DEF TakenFrom
  <2> QED BY <2>1, <2>5
<1>4. CASE seq[n + 1] \in wanted
  <2>1. c = Append(a, seq[n + 1]) BY <1>4
  <2>2. PICK k : k = Len(a) + 1 OBVIOUS
  <2>3. /\ DOMAIN c = DOMAIN a \cup {k} /\ c[k] = seq[n + 1] /\ \A i \in DOMAIN a : c[i] = a[i] /\ i < k /\ i # k
        /\ DOMAIN a \subseteq Nat /\ k \in Nat
    BY <2>1, <2>2
  <2>4. \A i \in DOMAIN c : \E p \in 1..(n + 1) : c[i] = seq[p] /\ seq[p] \in wanted
    <3>1. ASSUME NEW i \in DOMAIN a PROVE \E p \in 1..(n + 1) : c[i] = seq[p] /\ seq[p] \in wanted
      <4>1. PICK p \in 1..n : a[i] = seq[p] /\ seq[p] \in wanted BY <3>1, Zenon DEF TakenFrom
      <4>2. p \in 1..(n + 1) /\ c[i] = seq[p] BY <1>2, <2>3, <4>1
      <4> QED BY <4>1, <4>2
    <3>2. c[k] = seq[n + 1] /\ seq[n + 1] \in wanted /\ n + 1 \in 1..(n + 1) BY <1>1, <1>4, <2>3
    <3> QED BY <2>3, <3>1, <3>2, Zenon
  <2>5. \A p \in 1..(n + 1) : seq[p] \in wanted => \E i \in DOMAIN c : c[i] = seq[p]
    <3>1. ASSUME NEW p \in 1..n, seq[p] \in wanted PROVE \E i \in DOMAIN c : c[i] = seq[p]
      <4>1. PICK i \in DOMAIN a : a[i] = seq[p] BY <3>1, Zenon DEF TakenFrom
      <4> QED BY <2>3, <4>1
    <3>2. \E i \in DOMAIN c : c[i] = seq[n + 1] BY <2>3
    <3> QED BY <1>1, <3>1, <3>2
  <2>6. ASSUME NEW i \in DOMAIN c, NEW j \in DOMAIN c, i < j
        PROVE  \E p, q \in 1..(n + 1) : p < q /\ c[i] = seq[p] /\ c[j] = seq[q]
    <3>1. i \in DOMAIN a BY <2>3, <2>6
    <3>2. CASE j \in DOMAIN a
      <4>1. PICK p \in 1..n, q \in 1..n : p < q /\ a[i] = seq[p] /\ a[j] = seq[q]
        BY <2>6, <3>1, <3>2 DEF TakenFrom
      <4> QED BY <1>2, <2>3, <3>1, <3>2, <4>1
    <3>3. CASE j = k
      <4>1. PICK p \in 1..n : a[i] = seq[p] BY <3>1 DEF TakenFrom
      <4> QED BY <1>1, <1>2, <2>3, <3>1, <3>3, <4>1
    <3> QED BY <2>3, <3>2, <3>3
  <2> QED BY <2>4, <2>5, <2>6 DEF TakenFrom
<1> QED BY <1>3, <1>4

\* Among keeps the wanted elements, all of them and in their order.
LEMMA AmongTaken ==
  ASSUME NEW V, NEW seq \in Seq(V), NEW wanted
  PROVE  Among(seq, wanted) \in Seq(V) /\ TakenFrom(Among(seq, wanted), seq, Len(seq), wanted)
<1>1. PICK N : N = Len(seq) OBVIOUS
<1>2. N \in Nat BY <1>1
<1>3. PICK f \in [0..N -> Seq(V)] : AmongUpTo(f, seq, wanted, N) /\ Among(seq, wanted) = f[N]
  <2>1. \E f \in [0..Len(seq) -> Seq(V)] :
            AmongUpTo(f, seq, wanted, Len(seq)) /\ Among(seq, wanted) = f[Len(seq)]
    BY AmongSteps
  <2> QED BY <1>1, <2>1
<1> DEFINE S == {n \in 0..N : TakenFrom(f[n], seq, n, wanted)}
<1>4. 0 \in S
  <2>1. DOMAIN f[0] = {} /\ 1..0 = {} /\ 0 \in 0..N BY <1>2, <1>3 DEF AmongUpTo
  <2>2. TakenFrom(f[0], seq, 0, wanted) BY <2>1 DEF TakenFrom
  <2> QED BY <2>1, <2>2
<1>5. ASSUME NEW n \in 0..(N - 1), n \in S PROVE n + 1 \in S
  <2>1. n + 1 \in 1..N /\ (n + 1) - 1 = n /\ n \in 0..N /\ n + 1 \in 0..N BY <1>2
  <2>2. f[n + 1] = IF seq[n + 1] \in wanted THEN Append(f[n], seq[n + 1]) ELSE f[n] BY <1>3, <2>1 DEF AmongUpTo
  <2>3. TakenFrom(f[n], seq, n, wanted) BY <1>5
  <2>4. f[n] \in Seq(V) BY <1>3, <2>1
  <2>5. TakenFrom(f[n + 1], seq, n + 1, wanted) BY <1>1, <2>2, <2>3, <2>4, TakenOne
  <2> QED BY <2>1, <2>5
<1>6. \A n \in 0..N : n \in S
  <2> HIDE DEF S
  <2> QED BY <1>2, <1>4, <1>5, Induction
<1>7. N \in S BY <1>2, <1>6
<1>8. f[N] \in Seq(V) BY <1>2, <1>3
<1> QED BY <1>1, <1>3, <1>7, <1>8

LEMMA AmongFacts ==
  ASSUME NEW V, NEW seq \in Seq(V), NEW wanted, NEW a, a = Among(seq, wanted)
  PROVE  /\ a \in Seq(V) /\ ToSet(a) = ToSet(seq) \cap wanted
         /\ \A i, j \in DOMAIN a : i < j => \E p, q \in DOMAIN seq : p < q /\ a[i] = seq[p] /\ a[j] = seq[q]
<1>1. a \in Seq(V) /\ TakenFrom(a, seq, Len(seq), wanted) BY AmongTaken
<1>2. DOMAIN seq = 1..Len(seq) OBVIOUS
<1>3. ToSet(a) \subseteq ToSet(seq) \cap wanted
  <2> SUFFICES ASSUME NEW k \in DOMAIN a PROVE a[k] \in ToSet(seq) \cap wanted BY DEF ToSet
  <2> QED BY <1>1, <1>2, Zenon DEF ToSet, TakenFrom
<1>4. ToSet(seq) \cap wanted \subseteq ToSet(a)
  <2> SUFFICES ASSUME NEW p \in DOMAIN seq, seq[p] \in wanted PROVE seq[p] \in ToSet(a) BY DEF ToSet
  <2>1. PICK i \in DOMAIN a : a[i] = seq[p] BY <1>1, <1>2, Zenon DEF TakenFrom
  <2> QED BY <2>1 DEF ToSet
<1>5. ASSUME NEW i \in DOMAIN a, NEW j \in DOMAIN a, i < j
      PROVE  \E p, q \in DOMAIN seq : p < q /\ a[i] = seq[p] /\ a[j] = seq[q]
  <2>1. PICK p \in 1..Len(seq), q \in 1..Len(seq) : p < q /\ a[i] = seq[p] /\ a[j] = seq[q]
    BY <1>1, <1>5, Zenon DEF TakenFrom
  <2> QED BY <1>2, <2>1
<1> QED BY <1>1, <1>3, <1>4, <1>5, Zenon

-----------------------------------------------------------------------------
(* Runs through the ledger, step by step.                                  *)

\* append_seals takes its seals one after the other.
SpilledBy(f, seals) ==
  /\ f[0] = [l |-> ledger, untracked |-> {}]
  /\ \A n \in 1..Len(seals) : f[n] = note_spilled(f[n - 1], seals[n])

LEMMA SpilledSteps ==
  ASSUME NEW V, NEW seals \in Seq(V)
  PROVE  \E f : SpilledBy(f, seals) /\ Spilled(seals) = f[Len(seals)]
<1>1. PICK N : N = Len(seals) OBVIOUS
<1>2. PICK e : e = [l |-> ledger, untracked |-> {}] OBVIOUS
<1> DEFINE Upto(m, f) == /\ f = [n \in 0..m |-> f[n]] /\ f[0] = e
                         /\ \A n \in 1..m : f[n] = note_spilled(f[n - 1], seals[n])
           S == {m \in 0..N : \E f : Upto(m, f)}
           Is(f) == f = [n \in 0..N |-> IF n = 0 THEN e ELSE note_spilled(f[n - 1], seals[n])]
           h == CHOOSE f : Is(f)
<1>3. N \in Nat BY <1>1
<1>4. 0 \in S
  <2>1. Upto(0, [n \in 0..0 |-> e]) OBVIOUS
  <2> HIDE DEF Upto
  <2> QED BY <1>3, <2>1
<1>5. ASSUME NEW m \in 0..(N - 1), m \in S PROVE m + 1 \in S
  <2>1. PICK f : Upto(m, f)
    <3> HIDE DEF Upto
    <3> QED BY <1>5
  <2> DEFINE g == [n \in 0..(m + 1) |-> IF n = m + 1 THEN note_spilled(f[m], seals[m + 1]) ELSE f[n]]
  <2>2. m + 1 \in 0..N /\ m \in Nat BY <1>3
  <2>3. g = [n \in 0..(m + 1) |-> g[n]] OBVIOUS
  <2>4. g[0] = e BY <2>1, <2>2
  <2>5. ASSUME NEW n \in 1..(m + 1) PROVE g[n] = note_spilled(g[n - 1], seals[n])
    <3>1. n - 1 \in 0..(m + 1) /\ n - 1 # m + 1 /\ n \in 0..(m + 1) BY <2>2
    <3>2. g[n - 1] = f[n - 1] BY <3>1
    <3>3. CASE n = m + 1
      <4>1. n - 1 = m BY <2>2, <3>3
      <4>2. g[n] = note_spilled(f[m], seals[n]) BY <3>1, <3>3
      <4> QED BY <3>2, <4>1, <4>2
    <3>4. CASE n # m + 1
      <4>1. n \in 1..m BY <2>2, <3>4
      <4>2. g[n] = f[n] BY <3>1, <3>4
      <4>3. f[n] = note_spilled(f[n - 1], seals[n]) BY <2>1, <4>1
      <4> QED BY <3>2, <4>2, <4>3
    <3> QED BY <3>3, <3>4
  <2>6. Upto(m + 1, g)
    <3> HIDE DEF g
    <3> QED BY <2>3, <2>4, <2>5
  <2> HIDE DEF Upto, g
  <2> QED BY <2>2, <2>6
<1>6. \A n \in 0..N : n \in S
  <2> HIDE DEF S
  <2> QED BY <1>3, <1>4, <1>5, Induction
<1>7. PICK f : Upto(N, f)
  <2> HIDE DEF Upto
  <2>1. N \in S BY <1>3, <1>6
  <2> QED BY <2>1
<1>8. Is(f)
  <2> DEFINE g == [n \in 0..N |-> IF n = 0 THEN e ELSE note_spilled(f[n - 1], seals[n])]
  <2>1. ASSUME NEW n \in 0..N PROVE g[n] = f[n]
    <3>1. CASE n = 0 BY <1>7, <3>1
    <3>2. CASE n \in 1..N
      <4>1. n # 0 BY <1>3, <3>2
      <4>2. g[n] = note_spilled(f[n - 1], seals[n]) BY <4>1
      <4> QED BY <1>7, <3>2, <4>2
    <3> QED BY <1>3, <3>1, <3>2
  <2>2. f = [n \in 0..N |-> f[n]] BY <1>7
  <2>3. g = [n \in 0..N |-> g[n]] OBVIOUS
  <2> QED BY <2>1, <2>2, <2>3
<1>9. Is(h)
  <2> HIDE DEF Is
  <2> QED BY <1>8
<1>10. Spilled(seals) = h[N] BY <1>1, <1>2, Zenon DEF Spilled
<1> HIDE DEF h
<1>11. h[0] = e
  <2>1. 0 \in 0..N BY <1>3
  <2> QED BY <1>9, <2>1
<1>12. ASSUME NEW n \in 1..N PROVE h[n] = note_spilled(h[n - 1], seals[n])
  <2>1. n \in 0..N /\ n # 0 BY <1>3
  <2> QED BY <1>9, <2>1
<1>13. SpilledBy(h, seals) BY <1>1, <1>2, <1>11, <1>12 DEF SpilledBy
<1> QED BY <1>1, <1>10, <1>13

\* note_live_commits takes its batch seal by seal.
NotedBy(f, seals) ==
  /\ f[0] = [l |-> ledger, mirror |-> <<>>, untracked |-> {}]
  /\ \A n \in 1..Len(seals) : f[n] = note_live_commit(f[n - 1], seals[n])

LEMMA NotedSteps ==
  ASSUME NEW V, NEW seals \in Seq(V), writer.batch = seals
  PROVE  \E f : NotedBy(f, seals) /\ NotedBatch = f[Len(seals)]
<1>1. PICK N : N = Len(seals) OBVIOUS
<1>2. PICK e : e = [l |-> ledger, mirror |-> <<>>, untracked |-> {}] OBVIOUS
<1> DEFINE Upto(m, f) == /\ f = [n \in 0..m |-> f[n]] /\ f[0] = e
                         /\ \A n \in 1..m : f[n] = note_live_commit(f[n - 1], seals[n])
           S == {m \in 0..N : \E f : Upto(m, f)}
           Is(f) == f = [n \in 0..N |-> IF n = 0 THEN e ELSE note_live_commit(f[n - 1], seals[n])]
           h == CHOOSE f : Is(f)
<1>3. N \in Nat BY <1>1
<1>4. 0 \in S
  <2>1. Upto(0, [n \in 0..0 |-> e]) OBVIOUS
  <2> HIDE DEF Upto
  <2> QED BY <1>3, <2>1
<1>5. ASSUME NEW m \in 0..(N - 1), m \in S PROVE m + 1 \in S
  <2>1. PICK f : Upto(m, f)
    <3> HIDE DEF Upto
    <3> QED BY <1>5
  <2> DEFINE g == [n \in 0..(m + 1) |-> IF n = m + 1 THEN note_live_commit(f[m], seals[m + 1]) ELSE f[n]]
  <2>2. m + 1 \in 0..N /\ m \in Nat BY <1>3
  <2>3. g = [n \in 0..(m + 1) |-> g[n]] OBVIOUS
  <2>4. g[0] = e BY <2>1, <2>2
  <2>5. ASSUME NEW n \in 1..(m + 1) PROVE g[n] = note_live_commit(g[n - 1], seals[n])
    <3>1. n - 1 \in 0..(m + 1) /\ n - 1 # m + 1 /\ n \in 0..(m + 1) BY <2>2
    <3>2. g[n - 1] = f[n - 1] BY <3>1
    <3>3. CASE n = m + 1
      <4>1. n - 1 = m BY <2>2, <3>3
      <4>2. g[n] = note_live_commit(f[m], seals[n]) BY <3>1, <3>3
      <4> QED BY <3>2, <4>1, <4>2
    <3>4. CASE n # m + 1
      <4>1. n \in 1..m BY <2>2, <3>4
      <4>2. g[n] = f[n] BY <3>1, <3>4
      <4>3. f[n] = note_live_commit(f[n - 1], seals[n]) BY <2>1, <4>1
      <4> QED BY <3>2, <4>2, <4>3
    <3> QED BY <3>3, <3>4
  <2>6. Upto(m + 1, g)
    <3> HIDE DEF g
    <3> QED BY <2>3, <2>4, <2>5
  <2> HIDE DEF Upto, g
  <2> QED BY <2>2, <2>6
<1>6. \A n \in 0..N : n \in S
  <2> HIDE DEF S
  <2> QED BY <1>3, <1>4, <1>5, Induction
<1>7. PICK f : Upto(N, f)
  <2> HIDE DEF Upto
  <2>1. N \in S BY <1>3, <1>6
  <2> QED BY <2>1
<1>8. Is(f)
  <2> DEFINE g == [n \in 0..N |-> IF n = 0 THEN e ELSE note_live_commit(f[n - 1], seals[n])]
  <2>1. ASSUME NEW n \in 0..N PROVE g[n] = f[n]
    <3>1. CASE n = 0 BY <1>7, <3>1
    <3>2. CASE n \in 1..N
      <4>1. n # 0 BY <1>3, <3>2
      <4>2. g[n] = note_live_commit(f[n - 1], seals[n]) BY <4>1
      <4> QED BY <1>7, <3>2, <4>2
    <3> QED BY <1>3, <3>1, <3>2
  <2>2. f = [n \in 0..N |-> f[n]] BY <1>7
  <2>3. g = [n \in 0..N |-> g[n]] OBVIOUS
  <2> QED BY <2>1, <2>2, <2>3
<1>9. Is(h)
  <2> HIDE DEF Is
  <2> QED BY <1>8
<1>10. NotedBatch = h[N] BY <1>1, <1>2, Zenon DEF NotedBatch
<1> HIDE DEF h
<1>11. h[0] = e
  <2>1. 0 \in 0..N BY <1>3
  <2> QED BY <1>9, <2>1
<1>12. ASSUME NEW n \in 1..N PROVE h[n] = note_live_commit(h[n - 1], seals[n])
  <2>1. n \in 0..N /\ n # 0 BY <1>3
  <2> QED BY <1>9, <2>1
<1>13. NotedBy(h, seals) BY <1>1, <1>2, <1>11, <1>12 DEF NotedBy
<1> QED BY <1>1, <1>10, <1>13

\* The mirrored copies are recorded one after the other.
MirroredBy(f, l, seals) ==
  /\ f[0] = l
  /\ \A n \in 1..Len(seals) : f[n] = note_mirrored(f[n - 1], seals[n])

LEMMA MirroredSteps ==
  ASSUME NEW V, NEW seals \in Seq(V), NEW l
  PROVE  \E f : MirroredBy(f, l, seals) /\ Mirrored(l, seals) = f[Len(seals)]
<1>1. PICK N : N = Len(seals) OBVIOUS
<1>2. PICK e : e = l OBVIOUS
<1> DEFINE Upto(m, f) == /\ f = [n \in 0..m |-> f[n]] /\ f[0] = e
                         /\ \A n \in 1..m : f[n] = note_mirrored(f[n - 1], seals[n])
           S == {m \in 0..N : \E f : Upto(m, f)}
           Is(f) == f = [n \in 0..N |-> IF n = 0 THEN e ELSE note_mirrored(f[n - 1], seals[n])]
           h == CHOOSE f : Is(f)
<1>3. N \in Nat BY <1>1
<1>4. 0 \in S
  <2>1. Upto(0, [n \in 0..0 |-> e]) OBVIOUS
  <2> HIDE DEF Upto
  <2> QED BY <1>3, <2>1
<1>5. ASSUME NEW m \in 0..(N - 1), m \in S PROVE m + 1 \in S
  <2>1. PICK f : Upto(m, f)
    <3> HIDE DEF Upto
    <3> QED BY <1>5
  <2> DEFINE g == [n \in 0..(m + 1) |-> IF n = m + 1 THEN note_mirrored(f[m], seals[m + 1]) ELSE f[n]]
  <2>2. m + 1 \in 0..N /\ m \in Nat BY <1>3
  <2>3. g = [n \in 0..(m + 1) |-> g[n]] OBVIOUS
  <2>4. g[0] = e BY <2>1, <2>2
  <2>5. ASSUME NEW n \in 1..(m + 1) PROVE g[n] = note_mirrored(g[n - 1], seals[n])
    <3>1. n - 1 \in 0..(m + 1) /\ n - 1 # m + 1 /\ n \in 0..(m + 1) BY <2>2
    <3>2. g[n - 1] = f[n - 1] BY <3>1
    <3>3. CASE n = m + 1
      <4>1. n - 1 = m BY <2>2, <3>3
      <4>2. g[n] = note_mirrored(f[m], seals[n]) BY <3>1, <3>3
      <4> QED BY <3>2, <4>1, <4>2
    <3>4. CASE n # m + 1
      <4>1. n \in 1..m BY <2>2, <3>4
      <4>2. g[n] = f[n] BY <3>1, <3>4
      <4>3. f[n] = note_mirrored(f[n - 1], seals[n]) BY <2>1, <4>1
      <4> QED BY <3>2, <4>2, <4>3
    <3> QED BY <3>3, <3>4
  <2>6. Upto(m + 1, g)
    <3> HIDE DEF g
    <3> QED BY <2>3, <2>4, <2>5
  <2> HIDE DEF Upto, g
  <2> QED BY <2>2, <2>6
<1>6. \A n \in 0..N : n \in S
  <2> HIDE DEF S
  <2> QED BY <1>3, <1>4, <1>5, Induction
<1>7. PICK f : Upto(N, f)
  <2> HIDE DEF Upto
  <2>1. N \in S BY <1>3, <1>6
  <2> QED BY <2>1
<1>8. Is(f)
  <2> DEFINE g == [n \in 0..N |-> IF n = 0 THEN e ELSE note_mirrored(f[n - 1], seals[n])]
  <2>1. ASSUME NEW n \in 0..N PROVE g[n] = f[n]
    <3>1. CASE n = 0 BY <1>7, <3>1
    <3>2. CASE n \in 1..N
      <4>1. n # 0 BY <1>3, <3>2
      <4>2. g[n] = note_mirrored(f[n - 1], seals[n]) BY <4>1
      <4> QED BY <1>7, <3>2, <4>2
    <3> QED BY <1>3, <3>1, <3>2
  <2>2. f = [n \in 0..N |-> f[n]] BY <1>7
  <2>3. g = [n \in 0..N |-> g[n]] OBVIOUS
  <2> QED BY <2>1, <2>2, <2>3
<1>9. Is(h)
  <2> HIDE DEF Is
  <2> QED BY <1>8
<1>10. Mirrored(l, seals) = h[N] BY <1>1, <1>2, Zenon DEF Mirrored
<1> HIDE DEF h
<1>11. h[0] = e
  <2>1. 0 \in 0..N BY <1>3
  <2> QED BY <1>9, <2>1
<1>12. ASSUME NEW n \in 1..N PROVE h[n] = note_mirrored(h[n - 1], seals[n])
  <2>1. n \in 0..N /\ n # 0 BY <1>3
  <2> QED BY <1>9, <2>1
<1>13. MirroredBy(h, l, seals) BY <1>1, <1>2, <1>11, <1>12 DEF MirroredBy
<1> QED BY <1>1, <1>10, <1>13

-----------------------------------------------------------------------------
(* The ledger's operations.                                                *)

SealEntry == [disk : Copy, committed : Copy, trusted : BOOLEAN, disk_epoch : Nat,
              dead_lettered : BOOLEAN, queue_mark : Nat]

IsLedger(l) ==
  /\ l = [bars |-> l.bars, active |-> l.active, disk_epoch |-> l.disk_epoch, queue_mark |-> l.queue_mark,
          dead_letter_max_bucket |-> l.dead_letter_max_bucket]
  /\ l.active \in BOOLEAN /\ l.disk_epoch \in Nat /\ l.queue_mark \in Nat /\ l.dead_letter_max_bucket \in Nat
  /\ DOMAIN l.bars \subseteq Bars /\ \A b \in DOMAIN l.bars : l.bars[b] \in SealEntry
  /\ IsFiniteSet(DOMAIN l.bars) /\ Cardinality(DOMAIN l.bars) <= Capacity

\* Beside one bar nothing of the ledger has changed.
OnlyBar(l, m, b, e) ==
  /\ DOMAIN m.bars = DOMAIN l.bars \cup {b} /\ m.bars[b] = e
  /\ \A x \in DOMAIN l.bars : x # b => m.bars[x] = l.bars[x]
  /\ m.active = l.active /\ m.disk_epoch = l.disk_epoch /\ m.queue_mark = l.queue_mark
  /\ m.dead_letter_max_bucket = l.dead_letter_max_bucket

\* The ledger has noted a bar it has no room for.
Overflowed(l, m, ep, mark) ==
  /\ m.bars = l.bars /\ m.active = TRUE /\ m.disk_epoch = larger(l.disk_epoch, ep)
  /\ m.queue_mark = larger(l.queue_mark, mark)

LEMMA EmptyIsLedger == IsLedger(EmptyLedger)
<1>1. DOMAIN EmptyLedger.bars = {} BY DEF EmptyLedger
<1>2. IsFiniteSet({}) /\ Cardinality({}) = 0 BY FS_EmptySet
<1>3. Capacity \in Nat BY SealSpillAssumption
<1>4. EmptyLedger = [bars |-> EmptyLedger.bars, active |-> EmptyLedger.active, disk_epoch |-> EmptyLedger.disk_epoch,
          queue_mark |-> EmptyLedger.queue_mark, dead_letter_max_bucket |-> EmptyLedger.dead_letter_max_bucket]
  BY DEF EmptyLedger
<1>5. /\ EmptyLedger.active \in BOOLEAN /\ EmptyLedger.disk_epoch \in Nat /\ EmptyLedger.queue_mark \in Nat
      /\ EmptyLedger.dead_letter_max_bucket \in Nat
  BY DEF EmptyLedger
<1> QED BY <1>1, <1>2, <1>3, <1>4, <1>5 DEF IsLedger

LEMMA LargerFacts ==
  /\ \A a, b \in Nat : larger(a, b) \in Nat /\ larger(a, b) >= a /\ larger(a, b) >= b /\ larger(a, b) \in {a, b}
  /\ \A a, b \in Copy : larger(a, b) \in Copy
  /\ MaxCopies \in Nat
BY SealSpillAssumption DEF larger, Copy

\* An entry is put into a ledger that has room for it.
LEMMA PutFacts ==
  ASSUME NEW l, IsLedger(l), NEW b \in Bars, HasRoom(l, b), NEW e \in SealEntry, NEW m, m = Put(l, b, e)
  PROVE  IsLedger(m) /\ OnlyBar(l, m, b, e)
<1>1. PICK bars : bars = [x \in DOMAIN l.bars \cup {b} |-> IF x = b THEN e ELSE l.bars[x]] OBVIOUS
<1>2. m = [l EXCEPT !.bars = bars] BY <1>1, Zenon DEF Put
<1>3. m = [bars |-> bars, active |-> l.active, disk_epoch |-> l.disk_epoch, queue_mark |-> l.queue_mark,
          dead_letter_max_bucket |-> l.dead_letter_max_bucket]
  BY <1>2 DEF IsLedger
<1>4. DOMAIN bars = DOMAIN l.bars \cup {b} /\ bars[b] = e /\ \A x \in DOMAIN l.bars : x # b => bars[x] = l.bars[x]
  BY <1>1
<1>5. OnlyBar(l, m, b, e) BY <1>3, <1>4 DEF OnlyBar
<1>6. IsFiniteSet(DOMAIN bars) /\ Cardinality(DOMAIN bars) <= Capacity
  <2>1. PICK D : D = DOMAIN l.bars OBVIOUS
  <2>2. IsFiniteSet(D) /\ Cardinality(D) <= Capacity BY <2>1 DEF IsLedger
  <2>3. b \in D \/ Cardinality(D) < Capacity BY <2>1 DEF HasRoom, Tracked
  <2>4. IsFiniteSet(D \cup {b}) /\ Cardinality(D \cup {b}) = IF b \in D THEN Cardinality(D) ELSE Cardinality(D) + 1
    BY <2>2, FS_AddElement
  <2>5. Cardinality(D) \in Nat /\ Capacity \in Nat BY <2>2, FS_CardinalityType, SealSpillAssumption
  <2>6. Cardinality(D \cup {b}) <= Capacity BY <2>2, <2>3, <2>4, <2>5
  <2> QED BY <1>4, <2>1, <2>4, <2>6
<1>7. /\ m = [bars |-> m.bars, active |-> m.active, disk_epoch |-> m.disk_epoch, queue_mark |-> m.queue_mark,
          dead_letter_max_bucket |-> m.dead_letter_max_bucket]
      /\ m.bars = bars
  BY <1>3
<1>8. DOMAIN m.bars \subseteq Bars /\ \A x \in DOMAIN m.bars : m.bars[x] \in SealEntry
  BY <1>4, <1>7 DEF IsLedger
<1> QED BY <1>5, <1>6, <1>7, <1>8 DEF IsLedger, OnlyBar

LEMMA EntryFacts ==
  ASSUME NEW l, IsLedger(l), NEW b \in Bars
  PROVE  Entry(l, b) \in SealEntry
<1>1. NoEntry \in SealEntry BY LargerFacts DEF NoEntry, SealEntry, Copy
<1> QED BY <1>1 DEF Entry, Tracked, IsLedger

LEMMA CommittedEntry ==
  ASSUME NEW e \in SealEntry, NEW copy \in Copy, NEW d, d = note_committed(e, copy)
  PROVE  /\ d \in SealEntry /\ d.committed = larger(e.committed, copy) /\ d.disk = e.disk
         /\ d.disk_epoch = e.disk_epoch /\ d.queue_mark = e.queue_mark
<1>1. e.committed \in Nat /\ copy \in Nat BY LargerFacts DEF SealEntry, Copy
<1>2. CASE copy < e.committed
  <2>1. d = e BY <1>2 DEF note_committed
  <2>2. larger(e.committed, copy) = e.committed BY <1>1, <1>2 DEF larger
  <2> QED BY <2>1, <2>2
<1>3. CASE ~ (copy < e.committed)
  <2>1. d = [e EXCEPT !.committed = copy, !.trusted = TRUE] BY <1>3 DEF note_committed
  <2>2. larger(e.committed, copy) = copy BY <1>1, <1>3 DEF larger
  <2> QED BY <2>1, <2>2 DEF SealEntry
<1> QED BY <1>2, <1>3

\* What record_on_disk makes of the entry of its bar.
Recorded(e, d, s, ep, alsoCommitted, mark) ==
  /\ d \in SealEntry
  /\ d.disk = larger(e.disk, s.copy) /\ d.disk_epoch = larger(e.disk_epoch, ep)
  /\ d.queue_mark = larger(e.queue_mark, mark)
  /\ d.committed = IF alsoCommitted THEN larger(e.committed, s.copy) ELSE e.committed

LEMMA RecordedEntry ==
  ASSUME NEW e \in SealEntry, NEW s \in Seal, NEW ep \in Nat, NEW mark \in Nat, NEW c \in BOOLEAN, NEW n, NEW d,
         NEW x \in BOOLEAN,
         n = IF c THEN note_committed(e, s.copy) ELSE e,
         d = [n EXCEPT !.disk = larger(@, s.copy), !.disk_epoch = larger(@, ep),
                       !.dead_lettered = @ \/ x, !.queue_mark = larger(@, mark)]
  PROVE  Recorded(e, d, s, ep, c, mark)
<1>1. s.copy \in Copy BY LargerFacts DEF Seal, Copy
<1>2. n \in SealEntry /\ n.disk = e.disk /\ n.disk_epoch = e.disk_epoch /\ n.queue_mark = e.queue_mark
  BY <1>1, CommittedEntry
<1>3. n.committed = IF c THEN larger(e.committed, s.copy) ELSE e.committed
  BY <1>1, CommittedEntry
<1>4. n.disk \in Copy /\ n.disk_epoch \in Nat /\ n.queue_mark \in Nat /\ n.dead_lettered \in BOOLEAN BY <1>2 DEF SealEntry
<1>5. /\ larger(n.disk, s.copy) \in Copy /\ larger(n.disk_epoch, ep) \in Nat /\ larger(n.queue_mark, mark) \in Nat
      /\ (n.dead_lettered \/ x) \in BOOLEAN
  BY <1>1, <1>4, LargerFacts
<1>6. /\ d \in SealEntry /\ d.disk = larger(n.disk, s.copy) /\ d.disk_epoch = larger(n.disk_epoch, ep)
      /\ d.queue_mark = larger(n.queue_mark, mark) /\ d.committed = n.committed
  BY <1>2, <1>5 DEF SealEntry
<1> QED BY <1>2, <1>3, <1>6 DEF Recorded

\* record_on_disk, when the ledger has room.
LEMMA RecordFacts ==
  ASSUME NEW l, IsLedger(l), NEW s \in Seal, NEW ep \in Nat, NEW mark \in Nat, NEW c \in BOOLEAN, NEW x \in BOOLEAN,
         NEW m, m = record_on_disk(l, s, ep, x, c, mark), HasRoom(l, s.bar)
  PROVE  IsLedger(m) /\ \E d : Recorded(Entry(l, s.bar), d, s, ep, c, mark) /\ OnlyBar(l, m, s.bar, d)
<1>1. s.bar \in Bars BY DEF Seal
<1>2. PICK e : e = Entry(l, s.bar) OBVIOUS
<1>3. e \in SealEntry BY <1>1, <1>2, EntryFacts
<1>4. PICK n : n = IF c THEN note_committed(e, s.copy) ELSE e OBVIOUS
<1>5. PICK d : d = [n EXCEPT !.disk = larger(@, s.copy), !.disk_epoch = larger(@, ep),
                             !.dead_lettered = @ \/ x, !.queue_mark = larger(@, mark)] OBVIOUS
<1>6. m = Put(l, s.bar, d) BY <1>2, <1>4, <1>5, Zenon DEF record_on_disk
<1>7. Recorded(e, d, s, ep, c, mark) BY <1>3, <1>4, <1>5, RecordedEntry
<1>8. d \in SealEntry BY <1>7 DEF Recorded
<1>9. IsLedger(m) /\ OnlyBar(l, m, s.bar, d) BY <1>1, <1>6, <1>8, PutFacts
<1> QED BY <1>2, <1>7, <1>9

LEMMA UntrackedFacts ==
  ASSUME NEW l, IsLedger(l), NEW b \in Bars, NEW ep \in Nat, NEW mark \in Nat, NEW x \in BOOLEAN,
         NEW m, m = note_untracked(l, b, ep, x, mark)
  PROVE  /\ IsLedger(m) /\ Overflowed(l, m, ep, mark)
         /\ ~x => m.dead_letter_max_bucket = l.dead_letter_max_bucket
<1>1. b \in Nat BY SealSpillAssumption
<1>2. PICK de, qm, k : /\ de = larger(l.disk_epoch, ep) /\ qm = larger(l.queue_mark, mark)
                       /\ k = IF x THEN larger(l.dead_letter_max_bucket, b) ELSE l.dead_letter_max_bucket
  OBVIOUS
<1>3. de \in Nat /\ qm \in Nat /\ k \in Nat BY <1>1, <1>2, LargerFacts DEF IsLedger
<1>4. m = [l EXCEPT !.active = TRUE, !.disk_epoch = de, !.queue_mark = qm, !.dead_letter_max_bucket = k]
  BY <1>2, Zenon DEF note_untracked
<1>5. m = [bars |-> l.bars, active |-> TRUE, disk_epoch |-> de, queue_mark |-> qm, dead_letter_max_bucket |-> k]
  BY <1>4 DEF IsLedger
<1>6. m.bars = l.bars /\ m.active = TRUE /\ m.disk_epoch = de /\ m.queue_mark = qm /\ m.dead_letter_max_bucket = k
  BY <1>5
<1>7. IsLedger(m) BY <1>3, <1>5, <1>6 DEF IsLedger
<1> QED BY <1>2, <1>6, <1>7 DEF Overflowed

\* record_on_disk, when it has none.
LEMMA RecordNoRoom ==
  ASSUME NEW l, IsLedger(l), NEW s \in Seal, NEW ep \in Nat, NEW mark \in Nat, NEW c \in BOOLEAN, NEW x \in BOOLEAN,
         NEW m, m = record_on_disk(l, s, ep, x, c, mark), ~HasRoom(l, s.bar)
  PROVE  /\ IsLedger(m) /\ Overflowed(l, m, ep, mark)
         /\ ~x => m.dead_letter_max_bucket = l.dead_letter_max_bucket
<1>1. s.bar \in Bars BY DEF Seal
<1>2. m = note_untracked(l, s.bar, ep, x, mark) BY Zenon DEF record_on_disk
<1> QED BY <1>1, <1>2, UntrackedFacts

\* on_live_commit: an entry is written, the bar found no room, or nothing happens.
CommitNoted(l, m, s, ep, mark) ==
  \/ /\ HasRoom(l, s.bar)
     /\ \E d \in SealEntry :
           /\ OnlyBar(l, m, s.bar, d)
           /\ d.committed = larger(Entry(l, s.bar).committed, s.copy) /\ d.disk = Entry(l, s.bar).disk
           /\ d.disk_epoch = Entry(l, s.bar).disk_epoch
           /\ d.queue_mark = larger(Entry(l, s.bar).queue_mark, mark)
  \/ /\ ~HasRoom(l, s.bar) /\ Overflowed(l, m, ep, mark)
     /\ m.dead_letter_max_bucket = l.dead_letter_max_bucket

LEMMA CommitWritten ==
  ASSUME NEW l, IsLedger(l), NEW s \in Seal, NEW ep \in Nat, NEW mark \in Nat, HasRoom(l, s.bar),
         NEW m, m = Committed(l, s, mark)
  PROVE  IsLedger(m) /\ CommitNoted(l, m, s, ep, mark)
<1>1. s.bar \in Bars /\ s.copy \in Copy BY LargerFacts DEF Seal, Copy
<1>2. PICK e : e = Entry(l, s.bar) OBVIOUS
<1>3. e \in SealEntry BY <1>1, <1>2, EntryFacts
<1>4. PICK n : n = note_committed(e, s.copy) OBVIOUS
<1>5. PICK d : d = [n EXCEPT !.queue_mark = larger(@, mark)] OBVIOUS
<1>6. m = Put(l, s.bar, d) BY <1>2, <1>4, <1>5, Zenon DEF Committed
<1>7. /\ n \in SealEntry /\ n.committed = larger(e.committed, s.copy) /\ n.disk = e.disk
      /\ n.disk_epoch = e.disk_epoch /\ n.queue_mark = e.queue_mark
  BY <1>1, <1>3, <1>4, CommittedEntry
<1>8. n.queue_mark \in Nat /\ larger(n.queue_mark, mark) \in Nat BY <1>7, LargerFacts DEF SealEntry
<1>9. /\ d \in SealEntry /\ d.committed = n.committed /\ d.disk = n.disk /\ d.disk_epoch = n.disk_epoch
      /\ d.queue_mark = larger(n.queue_mark, mark)
  BY <1>5, <1>7, <1>8 DEF SealEntry
<1>10. IsLedger(m) /\ OnlyBar(l, m, s.bar, d) BY <1>1, <1>6, <1>9, PutFacts
<1>11. /\ d.committed = larger(e.committed, s.copy) /\ d.disk = e.disk /\ d.disk_epoch = e.disk_epoch
       /\ d.queue_mark = larger(e.queue_mark, mark)
  BY <1>7, <1>9
<1> QED BY <1>2, <1>9, <1>10, <1>11, Zenon DEF CommitNoted

LEMMA LiveCommitFacts ==
  ASSUME NEW l, IsLedger(l), NEW s \in Seal, NEW ep \in Nat, NEW mark \in Nat, NEW busy,
         NEW m, m = on_live_commit(l, s, busy, ep, mark)
  PROVE  IsLedger(m) /\ (CommitNoted(l, m, s, ep, mark) \/ (m = l /\ ~Tracked(l, s.bar) /\ ~l.active /\ ~busy))
<1>1. s.bar \in Bars BY DEF Seal
<1>2. CASE HasRoom(l, s.bar) /\ m = Committed(l, s, mark) BY <1>2, CommitWritten
<1>3. CASE ~Tracked(l, s.bar) /\ ~l.active /\ ~busy /\ m = l BY <1>3
<1>4. CASE ~HasRoom(l, s.bar) /\ m = note_untracked(l, s.bar, ep, FALSE, mark)
  <2>1. PICK x \in BOOLEAN : x = FALSE OBVIOUS
  <2>2. m = note_untracked(l, s.bar, ep, x, mark) BY <1>4, <2>1
  <2>3. /\ IsLedger(m) /\ Overflowed(l, m, ep, mark)
        /\ ~x => m.dead_letter_max_bucket = l.dead_letter_max_bucket
    BY <1>1, <2>2, UntrackedFacts
  <2> QED BY <1>4, <2>1, <2>3, Zenon DEF CommitNoted
<1>5. \/ HasRoom(l, s.bar) /\ m = Committed(l, s, mark)
      \/ ~Tracked(l, s.bar) /\ ~l.active /\ ~busy /\ m = l
      \/ ~HasRoom(l, s.bar) /\ m = note_untracked(l, s.bar, ep, FALSE, mark)
  BY Zenon DEF on_live_commit, HasRoom
<1> QED BY <1>2, <1>3, <1>4, <1>5

-----------------------------------------------------------------------------
(* The ledger claims no copy beyond a given table.                         *)

AtMost(l, top) == \A b \in DOMAIN l.bars : fullest(l.bars[b]) <= top[b]

LEMMA EntryAtMost ==
  ASSUME NEW e \in SealEntry, NEW top \in Copy
  PROVE  fullest(e) <= top <=> e.disk <= top /\ e.committed <= top
<1>1. e.disk \in Nat /\ e.committed \in Nat /\ top \in Nat BY LargerFacts DEF SealEntry, Copy
<1> QED BY <1>1 DEF fullest, larger

LEMMA BarAtMost ==
  ASSUME NEW l, IsLedger(l), NEW top \in [Bars -> Copy], AtMost(l, top), NEW b \in Bars, NEW d \in SealEntry, NEW m,
         OnlyBar(l, m, b, d), d.disk <= top[b], d.committed <= top[b]
  PROVE  AtMost(m, top)
<1>1. top[b] \in Copy OBVIOUS
<1>2. fullest(d) <= top[b] BY <1>1, EntryAtMost
<1>3. ASSUME NEW x \in DOMAIN m.bars PROVE fullest(m.bars[x]) <= top[x]
  <2>1. CASE x = b BY <1>2, <2>1 DEF OnlyBar
  <2>2. CASE x # b
    <3>1. x \in DOMAIN l.bars /\ m.bars[x] = l.bars[x] BY <2>2 DEF OnlyBar
    <3> QED BY <3>1 DEF AtMost
  <2> QED BY <2>1, <2>2
<1> QED BY <1>3 DEF AtMost

LEMMA EntryOfAtMost ==
  ASSUME NEW l, IsLedger(l), NEW top \in [Bars -> Copy], AtMost(l, top), NEW b \in Bars
  PROVE  Entry(l, b).disk <= top[b] /\ Entry(l, b).committed <= top[b]
<1>1. top[b] \in Copy /\ top[b] \in Nat BY LargerFacts DEF Copy
<1>2. CASE Tracked(l, b)
  <2>1. Entry(l, b) = l.bars[b] /\ fullest(l.bars[b]) <= top[b] BY <1>2 DEF Entry, Tracked, AtMost
  <2>2. l.bars[b] \in SealEntry BY <1>2 DEF Tracked, IsLedger
  <2> QED BY <1>1, <2>1, <2>2, EntryAtMost
<1>3. CASE ~Tracked(l, b)
  <2>1. Entry(l, b) = NoEntry BY <1>3 DEF Entry
  <2> QED BY <1>1, <2>1 DEF NoEntry
<1> QED BY <1>2, <1>3

LEMMA LargerAtMost ==
  ASSUME NEW a \in Copy, NEW b \in Copy, NEW c \in Copy, a <= c, b <= c
  PROVE  larger(a, b) <= c
BY LargerFacts DEF larger, Copy

LEMMA RecordAtMost ==
  ASSUME NEW l, IsLedger(l), NEW s \in Seal, NEW ep \in Nat, NEW mark \in Nat, NEW c \in BOOLEAN, NEW x \in BOOLEAN,
         NEW m, m = record_on_disk(l, s, ep, x, c, mark),
         NEW top \in [Bars -> Copy], AtMost(l, top), s.copy <= top[s.bar]
  PROVE  IsLedger(m) /\ AtMost(m, top)
<1>1. s.bar \in Bars /\ s.copy \in Copy /\ top[s.bar] \in Copy BY LargerFacts DEF Seal, Copy
<1>2. CASE HasRoom(l, s.bar)
  <2>1. PICK e : e = Entry(l, s.bar) OBVIOUS
  <2>2. IsLedger(m) /\ \E d : Recorded(e, d, s, ep, c, mark) /\ OnlyBar(l, m, s.bar, d)
    BY <1>2, <2>1, RecordFacts
  <2>3. PICK d : Recorded(e, d, s, ep, c, mark) /\ OnlyBar(l, m, s.bar, d) BY <2>2
  <2>4. e \in SealEntry /\ e.disk <= top[s.bar] /\ e.committed <= top[s.bar] BY <1>1, <2>1, EntryFacts, EntryOfAtMost
  <2>5. e.disk \in Copy /\ e.committed \in Copy BY <2>4 DEF SealEntry
  <2>6. larger(e.disk, s.copy) <= top[s.bar] /\ larger(e.committed, s.copy) <= top[s.bar]
    BY <1>1, <2>4, <2>5, LargerAtMost
  <2>7. d \in SealEntry /\ d.disk <= top[s.bar] /\ d.committed <= top[s.bar] BY <2>3, <2>4, <2>6 DEF Recorded
  <2> QED BY <1>1, <2>2, <2>3, <2>7, BarAtMost
<1>3. CASE ~HasRoom(l, s.bar)
  <2>1. IsLedger(m) /\ Overflowed(l, m, ep, mark) BY <1>3, RecordNoRoom
  <2> QED BY <2>1 DEF AtMost, Overflowed
<1> QED BY <1>2, <1>3

LEMMA LiveCommitAtMost ==
  ASSUME NEW l, IsLedger(l), NEW s \in Seal, NEW ep \in Nat, NEW mark \in Nat, NEW busy,
         NEW m, m = on_live_commit(l, s, busy, ep, mark),
         NEW top \in [Bars -> Copy], AtMost(l, top), s.copy <= top[s.bar]
  PROVE  IsLedger(m) /\ AtMost(m, top)
<1>1. s.bar \in Bars /\ s.copy \in Copy /\ top[s.bar] \in Copy BY LargerFacts DEF Seal, Copy
<1>2. IsLedger(m) /\ (CommitNoted(l, m, s, ep, mark) \/ m = l) BY LiveCommitFacts
<1>3. CASE m = l BY <1>2, <1>3
<1>4. CASE CommitNoted(l, m, s, ep, mark) /\ HasRoom(l, s.bar)
  <2>1. PICK e : e = Entry(l, s.bar) OBVIOUS
  <2>2. PICK d \in SealEntry : OnlyBar(l, m, s.bar, d) /\ d.committed = larger(e.committed, s.copy) /\ d.disk = e.disk
    BY <1>4, <2>1 DEF CommitNoted
  <2>4. e \in SealEntry /\ e.disk <= top[s.bar] /\ e.committed <= top[s.bar] BY <1>1, <2>1, EntryFacts, EntryOfAtMost
  <2>5. e.committed \in Copy BY <2>4 DEF SealEntry
  <2>6. d.committed <= top[s.bar] /\ d.disk <= top[s.bar] BY <1>1, <2>2, <2>4, <2>5, LargerAtMost
  <2> QED BY <1>1, <1>2, <2>2, <2>6, BarAtMost
<1>5. CASE CommitNoted(l, m, s, ep, mark) /\ ~HasRoom(l, s.bar)
  <2>1. m.bars = l.bars BY <1>5 DEF CommitNoted, Overflowed
  <2> QED BY <1>2, <2>1 DEF AtMost
<1> QED BY <1>2, <1>3, <1>4, <1>5

\* append_seals: the ledger stays a ledger and claims no more than what was to be appended.
LEMMA SpilledAtMost ==
  ASSUME IsLedger(ledger), epoch \in Nat, QueueMark \in Nat, NEW seals \in Seq(Seal),
         NEW top \in [Bars -> Copy], AtMost(ledger, top), \A s \in ToSet(seals) : s.copy <= top[s.bar]
  PROVE  IsLedger(Spilled(seals).l) /\ AtMost(Spilled(seals).l, top)
<1>1. PICK N : N = Len(seals) OBVIOUS
<1>2. N \in Nat /\ \A n \in 1..N : seals[n] \in Seal /\ seals[n].copy <= top[seals[n].bar] BY <1>1 DEF ToSet
<1>3. PICK f : SpilledBy(f, seals) /\ Spilled(seals) = f[N] BY <1>1, SpilledSteps
<1>4. f[0] = [l |-> ledger, untracked |-> {}] /\ \A n \in 1..N : f[n] = note_spilled(f[n - 1], seals[n])
  BY <1>1, <1>3 DEF SpilledBy
<1> DEFINE S == {n \in 0..N : IsLedger(f[n].l) /\ AtMost(f[n].l, top)}
<1>5. 0 \in S BY <1>2, <1>4
<1>6. ASSUME NEW n \in 0..(N - 1), n \in S PROVE n + 1 \in S
  <2>1. n + 1 \in 1..N /\ (n + 1) - 1 = n /\ n + 1 \in 0..N BY <1>2
  <2>2. PICK l, s : l = f[n].l /\ s = seals[n + 1] OBVIOUS
  <2>3. IsLedger(l) /\ AtMost(l, top) /\ s \in Seal /\ s.copy <= top[s.bar] BY <1>2, <1>6, <2>1, <2>2
  <2>4. f[n + 1] = note_spilled(f[n], s) BY <1>4, <2>1, <2>2
  <2>5. PICK no \in BOOLEAN : no = FALSE OBVIOUS
  <2>6. PICK m : m = record_on_disk(l, s, epoch, no, no, QueueMark) OBVIOUS
  <2>7. IsLedger(m) /\ AtMost(m, top) BY <2>3, <2>5, <2>6, RecordAtMost
  <2>8. f[n + 1] = f[n] \/ f[n + 1] = [l |-> m, untracked |-> f[n].untracked \cup NoRoom(l, s.bar)]
    BY <2>2, <2>4, <2>5, <2>6, Zenon DEF note_spilled
  <2>9. f[n + 1].l = l \/ f[n + 1].l = m BY <2>2, <2>8
  <2> QED BY <2>1, <2>3, <2>7, <2>9
<1>7. \A n \in 0..N : n \in S
  <2> HIDE DEF S
  <2> QED BY <1>2, <1>5, <1>6, Induction
<1>8. N \in S BY <1>2, <1>7
<1> QED BY <1>3, <1>8

LEMMA MirroredAtMost ==
  ASSUME NEW l, IsLedger(l), epoch \in Nat, writer.mark \in Nat, NEW seals \in Seq(Seal),
         NEW top \in [Bars -> Copy], AtMost(l, top), \A s \in ToSet(seals) : s.copy <= top[s.bar]
  PROVE  IsLedger(Mirrored(l, seals)) /\ AtMost(Mirrored(l, seals), top)
<1>1. PICK N : N = Len(seals) OBVIOUS
<1>2. N \in Nat /\ \A n \in 1..N : seals[n] \in Seal /\ seals[n].copy <= top[seals[n].bar] BY <1>1 DEF ToSet
<1>3. PICK f : MirroredBy(f, l, seals) /\ Mirrored(l, seals) = f[N] BY <1>1, MirroredSteps
<1>4. f[0] = l /\ \A n \in 1..N : f[n] = note_mirrored(f[n - 1], seals[n]) BY <1>1, <1>3 DEF MirroredBy
<1> DEFINE S == {n \in 0..N : IsLedger(f[n]) /\ AtMost(f[n], top)}
<1>5. 0 \in S BY <1>2, <1>4
<1>6. ASSUME NEW n \in 0..(N - 1), n \in S PROVE n + 1 \in S
  <2>1. n + 1 \in 1..N /\ (n + 1) - 1 = n /\ n + 1 \in 0..N BY <1>2
  <2>2. PICK k, s : k = f[n] /\ s = seals[n + 1] OBVIOUS
  <2>3. IsLedger(k) /\ AtMost(k, top) /\ s \in Seal /\ s.copy <= top[s.bar] BY <1>2, <1>6, <2>1, <2>2
  <2>4. f[n + 1] = note_mirrored(k, s) BY <1>4, <2>1, <2>2
  <2>5. PICK no \in BOOLEAN, yes \in BOOLEAN : no = FALSE /\ yes = TRUE OBVIOUS
  <2>6. f[n + 1] = record_on_disk(k, s, epoch, no, yes, writer.mark) BY <2>4, <2>5, Zenon DEF note_mirrored
  <2>7. IsLedger(f[n + 1]) /\ AtMost(f[n + 1], top) BY <2>3, <2>6, RecordAtMost
  <2> QED BY <2>1, <2>7
<1>7. \A n \in 0..N : n \in S
  <2> HIDE DEF S
  <2> QED BY <1>2, <1>5, <1>6, Induction
<1>8. N \in S BY <1>2, <1>7
<1> QED BY <1>3, <1>8

\* The elements of a come from the first n of seq, in their order.
Follows(a, seq, n) ==
  /\ \A i \in DOMAIN a : \E p \in 1..n : a[i] = seq[p]
  /\ \A i, j \in DOMAIN a : i < j => \E p, q \in 1..n : p < q /\ a[i] = seq[p] /\ a[j] = seq[q]

LEMMA FollowsOne ==
  ASSUME NEW V, NEW seq \in Seq(V), NEW n \in 0..(Len(seq) - 1), NEW a \in Seq(V), Follows(a, seq, n), NEW c,
         c = Append(a, seq[n + 1]) \/ c = a
  PROVE  c \in Seq(V) /\ Follows(c, seq, n + 1)
<1>1. n \in Nat /\ n + 1 \in 1..(n + 1) /\ seq[n + 1] \in V OBVIOUS
<1>2. \A p \in 1..n : p \in 1..(n + 1) /\ p < n + 1 BY <1>1
<1>3. Follows(a, seq, n + 1)
  <2>1. \A i \in DOMAIN a : \E p \in 1..(n + 1) : a[i] = seq[p] BY <1>2 DEF Follows
  <2>2. ASSUME NEW i \in DOMAIN a, NEW j \in DOMAIN a, i < j
        PROVE  \E p, q \in 1..(n + 1) : p < q /\ a[i] = seq[p] /\ a[j] = seq[q]
    <3>1. PICK p \in 1..n, q \in 1..n : p < q /\ a[i] = seq[p] /\ a[j] = seq[q]
      BY <2>2, Zenon DEF Follows
    <3> QED BY <1>2, <3>1
  <2> QED BY <2>1, <2>2, Zenon DEF Follows
<1>4. CASE c = a BY <1>3, <1>4
<1>5. CASE c = Append(a, seq[n + 1])
  <2>1. PICK k : k = Len(a) + 1 OBVIOUS
  <2>2. /\ DOMAIN c = DOMAIN a \cup {k} /\ c[k] = seq[n + 1] /\ \A i \in DOMAIN a : c[i] = a[i] /\ i < k /\ i # k
        /\ DOMAIN a \subseteq Nat /\ k \in Nat
    BY <1>5, <2>1
  <2>3. ASSUME NEW i \in DOMAIN c PROVE \E p \in 1..(n + 1) : c[i] = seq[p]
    <3>1. CASE i = k BY <1>1, <2>2, <3>1
    <3>2. CASE i \in DOMAIN a
      <4>1. PICK p \in 1..n : a[i] = seq[p] BY <3>2, Zenon DEF Follows
      <4> QED BY <1>2, <2>2, <3>2, <4>1
    <3> QED BY <2>2, <3>1, <3>2
  <2>4. ASSUME NEW i \in DOMAIN c, NEW j \in DOMAIN c, i < j
        PROVE  \E p, q \in 1..(n + 1) : p < q /\ c[i] = seq[p] /\ c[j] = seq[q]
    <3>1. i \in DOMAIN a BY <2>2, <2>4
    <3>2. CASE j \in DOMAIN a
      <4>1. PICK p \in 1..n, q \in 1..n : p < q /\ a[i] = seq[p] /\ a[j] = seq[q]
        BY <2>4, <3>1, <3>2, Zenon DEF Follows
      <4> QED BY <1>2, <2>2, <3>1, <3>2, <4>1
    <3>3. CASE j = k
      <4>1. PICK p \in 1..n : a[i] = seq[p] BY <3>1, Zenon DEF Follows
      <4> QED BY <1>1, <1>2, <2>2, <3>1, <3>3, <4>1
    <3> QED BY <2>2, <3>2, <3>3
  <2>5. Follows(c, seq, n + 1) BY <2>3, <2>4, Zenon DEF Follows
  <2>6. c \in Seq(V) BY <1>1, <1>5
  <2> QED BY <2>5, <2>6
<1> QED BY <1>4, <1>5

\* One copy noted keeps a ledger within what was reached, whichever it is.
WithinReach(l, top) == IsLedger(l) /\ AtMost(l, top)

LEMMA LiveCommitsWithin ==
  ASSUME NEW top \in [Bars -> Copy], NEW ep \in Nat, NEW mark \in Nat, NEW busy
  PROVE  \A l : \A s \in Seal : WithinReach(l, top) /\ s.copy <= top[s.bar]
                                 => WithinReach(on_live_commit(l, s, busy, ep, mark), top)
<1> SUFFICES ASSUME NEW l, NEW s \in Seal, WithinReach(l, top), s.copy <= top[s.bar]
             PROVE  WithinReach(on_live_commit(l, s, busy, ep, mark), top)
  OBVIOUS
<1>1. IsLedger(l) /\ AtMost(l, top) BY DEF WithinReach
<1>2. PICK m : m = on_live_commit(l, s, busy, ep, mark) OBVIOUS
<1>3. IsLedger(m) /\ AtMost(m, top) BY <1>1, <1>2, LiveCommitAtMost
<1> QED BY <1>2, <1>3 DEF WithinReach

\* note_live_commits: the ledger claims no more than the batch, and the copies
\* to mirror are of the batch, in its order.
LEMMA NotedAtMost ==
  ASSUME IsLedger(ledger), epoch \in Nat, writer.mark \in Nat, writer.batch \in Seq(Seal),
         NEW top \in [Bars -> Copy], AtMost(ledger, top), \A s \in ToSet(writer.batch) : s.copy <= top[s.bar]
  PROVE  /\ IsLedger(NotedBatch.l) /\ AtMost(NotedBatch.l, top)
         /\ NotedBatch.mirror \in Seq(Seal) /\ Follows(NotedBatch.mirror, writer.batch, Len(writer.batch))
<1>1. PICK seals, N : seals = writer.batch /\ N = Len(seals) OBVIOUS
<1>2. /\ N \in Nat /\ \A n \in 1..N : seals[n] \in Seal /\ seals[n].copy <= top[seals[n].bar]
      /\ seals \in Seq(Seal)
  BY <1>1 DEF ToSet
<1>3. PICK f : NotedBy(f, seals) /\ NotedBatch = f[N] BY <1>1, <1>2, NotedSteps
<1>4. /\ f[0] = [l |-> ledger, mirror |-> <<>>, untracked |-> {}]
      /\ \A n \in 1..N : f[n] = note_live_commit(f[n - 1], seals[n])
  BY <1>1, <1>3 DEF NotedBy
<1> DEFINE S == {n \in 0..N : /\ IsLedger(f[n].l) /\ AtMost(f[n].l, top)
                              /\ f[n].mirror \in Seq(Seal) /\ Follows(f[n].mirror, seals, n)}
<1>5. 0 \in S
  <2>1. f[0].mirror = <<>> /\ f[0].l = ledger /\ 0 \in 0..N BY <1>2, <1>4
  <2>2. Follows(f[0].mirror, seals, 0) /\ f[0].mirror \in Seq(Seal) BY <2>1 DEF Follows
  <2> QED BY <2>1, <2>2
<1>6. ASSUME NEW n \in 0..(N - 1), n \in S PROVE n + 1 \in S
  <2>1. n + 1 \in 1..N /\ (n + 1) - 1 = n /\ n + 1 \in 0..N BY <1>2
  <2>2. PICK l, s, a : l = f[n].l /\ s = seals[n + 1] /\ a = f[n].mirror OBVIOUS
  <2>3. IsLedger(l) /\ AtMost(l, top) /\ s \in Seal /\ s.copy <= top[s.bar] BY <1>2, <1>6, <2>1, <2>2
  <2>13. a \in Seq(Seal) /\ Follows(a, seals, n) BY <1>6, <2>2
  <2>4. f[n + 1] = note_live_commit(f[n], s) BY <1>4, <2>1, <2>2
  <2>5. PICK m : m = on_live_commit(l, s, writer.queue_busy, epoch, writer.mark) OBVIOUS
  <2>6. IsLedger(m) /\ AtMost(m, top)
    <3>1. PICK ep, mark, busy : ep = epoch /\ mark = writer.mark /\ busy = writer.queue_busy OBVIOUS
    <3>2. ep \in Nat /\ mark \in Nat BY <3>1
    <3>3. \A k : \A x \in Seal : WithinReach(k, top) /\ x.copy <= top[x.bar]
                                 => WithinReach(on_live_commit(k, x, busy, ep, mark), top)
      BY <3>2, LiveCommitsWithin
    <3>4. m = on_live_commit(l, s, busy, ep, mark) BY <2>5, <3>1
    <3>5. WithinReach(l, top) BY <2>3 DEF WithinReach
    <3>6. WithinReach(m, top) BY <2>3, <3>3, <3>4, <3>5
    <3> QED BY <3>6 DEF WithinReach
  <2>7. PICK c : c = IF Mirrors(l, s, writer.queue_busy, epoch, writer.mark) THEN Append(a, s) ELSE a OBVIOUS
  <2>8. f[n + 1] = [l |-> m, mirror |-> c, untracked |-> f[n].untracked \cup NoRoom(l, s.bar)]
    BY <2>2, <2>4, <2>5, <2>7, Zenon DEF note_live_commit
  <2>9. f[n + 1].l = m /\ f[n + 1].mirror = c BY <2>8
  <2>10. c = Append(a, seals[n + 1]) \/ c = a BY <2>2, <2>7, Zenon
  <2>11. n \in 0..(Len(seals) - 1) BY <1>1
  <2>12. c \in Seq(Seal) /\ Follows(c, seals, n + 1) BY <1>2, <2>3, <2>10, <2>11, <2>13, FollowsOne
  <2> QED BY <2>1, <2>6, <2>9, <2>12
<1>7. \A n \in 0..N : n \in S
  <2> HIDE DEF S
  <2> QED BY <1>2, <1>5, <1>6, Induction
<1>8. N \in S BY <1>2, <1>7
<1> QED BY <1>1, <1>3, <1>8

-----------------------------------------------------------------------------
(* Sequences and the sets of their elements.                               *)

LEMMA SetOfAppend ==
  ASSUME NEW V, NEW seq \in Seq(V), NEW v
  PROVE  ToSet(Append(seq, v)) = ToSet(seq) \cup {v}
<1>1. PICK k, a : k = Len(seq) + 1 /\ a = Append(seq, v) OBVIOUS
<1>2. DOMAIN a = DOMAIN seq \cup {k} /\ a[k] = v /\ \A i \in DOMAIN seq : a[i] = seq[i] BY <1>1
<1>3. ToSet(a) = ToSet(seq) \cup {v} BY <1>2 DEF ToSet
<1> QED BY <1>1, <1>3

LEMMA SetOfConcat ==
  ASSUME NEW V, NEW s \in Seq(V), NEW t \in Seq(V)
  PROVE  ToSet(s \o t) = ToSet(s) \cup ToSet(t) /\ s \o t \in Seq(V)
<1>1. PICK a : a = s \o t OBVIOUS
<1>2. /\ a \in Seq(V) /\ DOMAIN a = 1..(Len(s) + Len(t)) /\ DOMAIN s = 1..Len(s) /\ DOMAIN t = 1..Len(t)
      /\ Len(s) \in Nat /\ Len(t) \in Nat
  BY <1>1
<1>3. \A i \in DOMAIN s : i \in DOMAIN a /\ a[i] = s[i] BY <1>1, <1>2
<1>4. \A i \in DOMAIN t : Len(s) + i \in DOMAIN a /\ a[Len(s) + i] = t[i] BY <1>1, <1>2
<1>5. \A i \in DOMAIN a : i \in DOMAIN s \/ (i - Len(s) \in DOMAIN t /\ a[i] = t[i - Len(s)]) BY <1>1, <1>2
<1>6. ToSet(s) \cup ToSet(t) \subseteq ToSet(a) BY <1>3, <1>4 DEF ToSet
<1>7. ToSet(a) \subseteq ToSet(s) \cup ToSet(t) BY <1>3, <1>5 DEF ToSet
<1> QED BY <1>1, <1>2, <1>6, <1>7

\* A sequence is split after its first n elements.
SplitAt(V, s, n, a, z) ==
  /\ a \in Seq(V) /\ z \in Seq(V) /\ Len(a) = n /\ Len(z) = Len(s) - n
  /\ \A i \in 1..n : a[i] = s[i]
  /\ \A i \in 1..(Len(s) - n) : z[i] = s[n + i]
  /\ ToSet(a) \cup ToSet(z) = ToSet(s)

LEMMA SetOfParts ==
  ASSUME NEW V, NEW s \in Seq(V), NEW n \in 0..Len(s), NEW a, NEW z, a = SubSeq(s, 1, n), z = SubSeq(s, n + 1, Len(s))
  PROVE  SplitAt(V, s, n, a, z)
<1>1. Len(s) \in Nat /\ n \in Nat /\ DOMAIN s = 1..Len(s) OBVIOUS
<1>2. a \in Seq(V) /\ Len(a) = n /\ DOMAIN a = 1..n /\ \A i \in 1..n : a[i] = s[i] BY <1>1
<1>3. z \in Seq(V) /\ Len(z) = Len(s) - n /\ DOMAIN z = 1..(Len(s) - n) /\ \A i \in 1..(Len(s) - n) : z[i] = s[n + i]
  <2>1. z \in Seq(V) /\ Len(z) = Len(s) - n /\ \A i \in 1..(Len(s) - n) : z[i] = s[(n + 1) + i - 1]
    <3>1. PICK m, k : m = n + 1 /\ k = Len(s) OBVIOUS
    <3>2. m \in Int /\ k \in Int /\ (\A i \in m..k : s[i] \in V) /\ z = SubSeq(s, m, k) BY <1>1, <3>1
    <3>3. z \in Seq(V) BY <3>2
    <3>4. m <= k => Len(z) = k - m + 1 BY <3>2
    <3>5. ~ (m <= k) => Len(z) = 0 BY <3>2
    <3>7. n \in Nat /\ k \in Nat /\ n <= k /\ m = n + 1 BY <1>1, <3>1
    <3>8. Len(z) = k - n /\ k - m + 1 = k - n
      <4>1. PICK len : len = Len(z) OBVIOUS
      <4>2. (m <= k => len = k - m + 1) /\ (~ (m <= k) => len = 0) BY <3>4, <3>5, <4>1
      <4>3. len = k - n BY <3>7, <4>2
      <4> QED BY <3>7, <4>1, <4>3
    <3>9. ASSUME NEW i \in 1..(k - m + 1) PROVE z[i] = s[m + i - 1]
      <4>1. i \in 1..Len(z) BY <3>8
      <4> QED BY <3>2, <4>1
    <3> QED BY <3>1, <3>3, <3>9, <3>8, <3>7
  <2>2. \A i \in 1..(Len(s) - n) : (n + 1) + i - 1 = n + i BY <1>1
  <2>3. DOMAIN z = 1..(Len(s) - n) BY <2>1
  <2> QED BY <2>1, <2>2, <2>3
<1>4. ToSet(a) \subseteq ToSet(s) BY <1>1, <1>2 DEF ToSet
<1>5. ToSet(z) \subseteq ToSet(s)
  <2>1. \A i \in 1..(Len(s) - n) : n + i \in DOMAIN s BY <1>1
  <2> QED BY <1>3, <2>1 DEF ToSet
<1>6. ToSet(s) \subseteq ToSet(a) \cup ToSet(z)
  <2> SUFFICES ASSUME NEW i \in DOMAIN s PROVE s[i] \in ToSet(a) \cup ToSet(z) BY DEF ToSet
  <2>1. CASE i <= n
    <3>1. i \in DOMAIN a /\ a[i] = s[i] BY <1>1, <1>2, <2>1
    <3> QED BY <3>1 DEF ToSet
  <2>2. CASE ~ (i <= n)
    <3>1. i \in Nat /\ i <= Len(s) /\ i - n \in 1..(Len(s) - n) /\ n + (i - n) = i BY <1>1, <2>2
    <3>2. i - n \in DOMAIN z /\ z[i - n] = s[i] BY <1>3, <3>1
    <3> QED BY <3>2 DEF ToSet
  <2> QED BY <2>1, <2>2
<1> QED BY <1>2, <1>3, <1>4, <1>5, <1>6 DEF SplitAt

LEMMA SetOfHeadTail ==
  ASSUME NEW V, NEW s \in Seq(V), s # <<>>
  PROVE  Head(s) \in V /\ Tail(s) \in Seq(V) /\ ToSet(s) = {Head(s)} \cup ToSet(Tail(s)) /\ Head(s) \in ToSet(s)
<1>1. Len(s) \in Nat /\ Len(s) > 0 /\ DOMAIN s = 1..Len(s) /\ Head(s) = s[1] OBVIOUS
<1>2. PICK z : z = Tail(s) OBVIOUS
<1>3. z \in Seq(V) /\ DOMAIN z = 1..(Len(s) - 1) /\ \A i \in 1..(Len(s) - 1) : z[i] = s[i + 1] BY <1>1, <1>2
<1>4. \A i \in DOMAIN z : i + 1 \in DOMAIN s /\ z[i] = s[i + 1] BY <1>1, <1>3
<1>5. \A i \in DOMAIN s : i = 1 \/ (i - 1 \in DOMAIN z /\ z[i - 1] = s[i]) BY <1>1, <1>3
<1>6. ToSet(z) \subseteq ToSet(s) /\ s[1] \in ToSet(s) BY <1>1, <1>4 DEF ToSet
<1>7. ToSet(s) \subseteq {s[1]} \cup ToSet(z) BY <1>5 DEF ToSet
<1>8. s[1] \in V BY <1>1
<1> QED BY <1>1, <1>2, <1>3, <1>6, <1>7, <1>8

LEMMA SetOfSeq ==
  ASSUME NEW V
  PROVE  /\ ToSet(<<>>) = {} /\ <<>> \in Seq(V)
         /\ \A s \in Seq(V) : ToSet(s) \subseteq V
         /\ \A v \in V : <<v>> \in Seq(V) /\ ToSet(<<v>>) = {v}
<1>1. ToSet(<<>>) = {} BY DEF ToSet
<1>2. \A s \in Seq(V) : ToSet(s) \subseteq V BY DEF ToSet
<1>3. ASSUME NEW v \in V PROVE ToSet(<<v>>) = {v}
  <2>1. DOMAIN <<v>> = {1} /\ <<v>>[1] = v OBVIOUS
  <2> QED BY <2>1 DEF ToSet
<1> QED BY <1>1, <1>2, <1>3

-----------------------------------------------------------------------------
(* What the batches make of the tables.                                    *)

LEMMA SealFacts ==
  /\ \A s \in Seal : /\ s.bar \in Bars /\ s.copy \in Copy /\ s.copy \in Nat /\ s.copy > 0
                     /\ s = [bar |-> s.bar, copy |-> s.copy]
  /\ \A c \in Copy : c \in Nat
  /\ \A b \in Bars, c \in Copy : c # 0 => [bar |-> b, copy |-> c] \in Seal
<1>1. MaxCopies \in Nat BY LargerFacts
<1>2. \A s \in Seal : s.bar \in Bars /\ s.copy \in 1..MaxCopies /\ s = [bar |-> s.bar, copy |-> s.copy] BY DEF Seal
<1>3. \A c \in 1..MaxCopies : c \in 0..MaxCopies /\ c \in Nat /\ c > 0 BY <1>1
<1>4. \A c \in 0..MaxCopies : c \in Nat /\ (c # 0 => c \in 1..MaxCopies) BY <1>1
<1>5. \A b \in Bars, c \in 1..MaxCopies : [bar |-> b, copy |-> c] \in Seal BY DEF Seal
<1> QED BY <1>2, <1>3, <1>4, <1>5 DEF Copy

LEMMA BarsAndCopies ==
  ASSUME NEW seals \in Seq(Seal)
  PROVE  /\ BarsOf(seals) \subseteq Bars
         /\ \A b \in BarsOf(seals) : \E i \in DOMAIN seals : seals[i].bar = b
         /\ \A i \in DOMAIN seals : seals[i] \in Seal /\ seals[i] \in ToSet(seals)
                                    /\ seals[i].bar \in BarsOf(seals) /\ seals[i].copy \in CopiesOf(seals, seals[i].bar)
         /\ \A b : CopiesOf(seals, b) \subseteq 0..MaxCopies
         /\ \A b : \A c \in CopiesOf(seals, b) : \E s \in ToSet(seals) : s.bar = b /\ s.copy = c
         /\ \A b : b \in BarsOf(seals) <=> CopiesOf(seals, b) # {}
<1>1. \A i \in DOMAIN seals : seals[i] \in Seal /\ seals[i] \in ToSet(seals) BY DEF ToSet
<1>2. \A s \in ToSet(seals) : s \in Seal /\ s.bar \in Bars /\ s.copy \in 0..MaxCopies
  BY <1>1, SealFacts DEF ToSet, Copy
<1>3. \A s \in ToSet(seals) : s.bar \in BarsOf(seals) /\ s.copy \in CopiesOf(seals, s.bar) BY DEF BarsOf, CopiesOf
<1>4. BarsOf(seals) \subseteq Bars BY <1>2 DEF BarsOf
<1>5. \A b \in BarsOf(seals) : \E i \in DOMAIN seals : seals[i].bar = b BY DEF BarsOf, ToSet
<1>6. \A b : CopiesOf(seals, b) \subseteq 0..MaxCopies BY <1>2 DEF CopiesOf
<1>7. \A b : \A c \in CopiesOf(seals, b) : \E s \in ToSet(seals) : s.bar = b /\ s.copy = c BY DEF CopiesOf
<1>8. \A b : b \in BarsOf(seals) <=> CopiesOf(seals, b) # {} BY DEF BarsOf, CopiesOf
<1> QED BY <1>1, <1>3, <1>4, <1>5, <1>6, <1>7, <1>8

\* Of a bar in the batch the last copy wins, the other bars keep theirs.
LEMMA UpsertFacts ==
  ASSUME NEW seals \in Seq(Seal), NEW table \in [Bars -> Copy], NEW new, new = Upsert(table, seals)
  PROVE  /\ new \in [Bars -> Copy]
         /\ \A b \in Bars \ BarsOf(seals) : new[b] = table[b]
         /\ \A b \in BarsOf(seals) : \E i \in DOMAIN seals :
               /\ seals[i].bar = b /\ new[b] = seals[i].copy
               /\ \A j \in DOMAIN seals : seals[j].bar = b => j <= i
<1>1. ASSUME NEW b \in BarsOf(seals)
      PROVE  \E i \in DOMAIN seals : /\ seals[i].bar = b /\ new[b] = seals[i].copy
                                     /\ \A j \in DOMAIN seals : seals[j].bar = b => j <= i
  <2> DEFINE S == {i \in DOMAIN seals : seals[i].bar = b}
  <2>1. S # {} BY <1>1, BarsAndCopies
  <2>2. Len(seals) \in Nat /\ S \subseteq 0..Len(seals) OBVIOUS
  <2>3. Max(S) \in S /\ \A j \in S : j <= Max(S)
    <3> HIDE DEF S
    <3> QED BY <2>1, <2>2, MaxOf
  <2>4. b \in Bars BY <1>1, BarsAndCopies
  <2>5. new[b] = seals[Max(S)].copy BY <1>1, <2>4 DEF Upsert
  <2> QED BY <2>3, <2>5
<1>2. \A b \in Bars \ BarsOf(seals) : new[b] = table[b] BY DEF Upsert
<1>3. ASSUME NEW b \in Bars PROVE new[b] \in Copy
  <2>1. CASE b \in BarsOf(seals)
    <3>1. PICK i \in DOMAIN seals : new[b] = seals[i].copy BY <1>1, <2>1
    <3>2. seals[i] \in Seal OBVIOUS
    <3> QED BY <3>1, <3>2, LargerFacts DEF Seal, Copy
  <2> QED BY <1>2, <2>1
<1>4. new = [b \in Bars |-> new[b]] BY DEF Upsert
<1>5. new \in [Bars -> Copy] BY <1>3, <1>4
<1> QED BY <1>1, <1>2, <1>5

LEMMA MaxCopyOf ==
  ASSUME NEW seals \in Seq(Seal), NEW b \in BarsOf(seals), NEW c, c = Max(CopiesOf(seals, b))
  PROVE  /\ c \in CopiesOf(seals, b) /\ c \in Copy
         /\ \A s \in ToSet(seals) : s.bar = b => s.copy <= c
         /\ \E s \in ToSet(seals) : s.bar = b /\ s.copy = c
<1>1. CopiesOf(seals, b) # {} /\ CopiesOf(seals, b) \subseteq 0..MaxCopies BY BarsAndCopies
<1>2. c \in CopiesOf(seals, b) /\ \A x \in CopiesOf(seals, b) : x <= c BY <1>1, MaxOf, LargerFacts
<1>3. \A s \in ToSet(seals) : s.bar = b => s.copy \in CopiesOf(seals, b) BY DEF CopiesOf
<1>4. c \in Copy BY <1>1, <1>2 DEF Copy
<1> QED BY <1>2, <1>3, <1>4, BarsAndCopies

\* A drained file: the fullest copy of a bar, unless a fuller one was written.
LEMMA DrainFacts ==
  ASSUME NEW seals \in Seq(Seal), NEW table \in [Bars -> Copy], boot.written \in [Bars -> Copy],
         NEW new, new = DrainInto(table, seals)
  PROVE  /\ new \in [Bars -> Copy]
         /\ \A b \in Bars : \/ new[b] = table[b]
                            \/ \E s \in ToSet(seals) : s.bar = b /\ s.copy = new[b]
         /\ \A b \in Bars : \A s \in ToSet(seals) :
               s.bar = b /\ s.copy >= boot.written[b] => /\ new[b] >= s.copy
                                                         /\ \E x \in ToSet(seals) : x.bar = b /\ x.copy = new[b]
<1>1. ASSUME NEW b \in Bars, Drains(seals, b)
      PROVE  /\ new[b] \in Copy /\ \E s \in ToSet(seals) : s.bar = b /\ s.copy = new[b]
             /\ \A s \in ToSet(seals) : s.bar = b => s.copy <= new[b]
  <2>1. new[b] = Max(CopiesOf(seals, b)) BY <1>1 DEF DrainInto
  <2>2. b \in BarsOf(seals) BY <1>1, BarsAndCopies DEF Drains
  <2> QED BY <2>1, <2>2, MaxCopyOf
<1>2. ASSUME NEW b \in Bars, ~Drains(seals, b) PROVE new[b] = table[b] BY <1>2 DEF DrainInto
<1>3. \A b \in Bars : \A s \in ToSet(seals) : s.bar = b /\ s.copy >= boot.written[b] => Drains(seals, b)
  BY DEF Drains, CopiesOf
<1>4. \A b \in Bars : new[b] \in Copy BY <1>1, <1>2
<1>5. new = [b \in Bars |-> new[b]] BY DEF DrainInto
<1>6. new \in [Bars -> Copy] BY <1>4, <1>5
<1>7. \A b \in Bars : new[b] = table[b] \/ \E s \in ToSet(seals) : s.bar = b /\ s.copy = new[b]
  BY <1>1, <1>2
<1>8. ASSUME NEW b \in Bars, NEW s \in ToSet(seals), s.bar = b, s.copy >= boot.written[b]
      PROVE  new[b] >= s.copy /\ \E x \in ToSet(seals) : x.bar = b /\ x.copy = new[b]
  <2>1. Drains(seals, b) BY <1>3, <1>8
  <2>2. s.copy <= new[b] BY <1>1, <1>8, <2>1
  <2>3. s \in Seal BY DEF ToSet
  <2>4. s.copy \in Nat /\ new[b] \in Nat BY <1>4, <2>3, SealFacts
  <2> QED BY <1>1, <1>8, <2>1, <2>2, <2>4
<1> QED BY <1>6, <1>7, <1>8

-----------------------------------------------------------------------------
(* The ledger's operations on all its bars.                                *)

\* The ledger with other entries for its bars, or some of them.
LEMMA RebuiltFacts ==
  ASSUME NEW l, IsLedger(l), NEW m, NEW bars, m = [l EXCEPT !.bars = bars],
         DOMAIN bars \subseteq DOMAIN l.bars, \A b \in DOMAIN bars : bars[b] \in SealEntry
  PROVE  /\ IsLedger(m) /\ m.bars = bars /\ m.active = l.active /\ m.disk_epoch = l.disk_epoch
         /\ m.queue_mark = l.queue_mark /\ m.dead_letter_max_bucket = l.dead_letter_max_bucket
<1>1. m = [bars |-> bars, active |-> l.active, disk_epoch |-> l.disk_epoch, queue_mark |-> l.queue_mark,
          dead_letter_max_bucket |-> l.dead_letter_max_bucket]
  BY DEF IsLedger
<1>2. /\ m.bars = bars /\ m.active = l.active /\ m.disk_epoch = l.disk_epoch
      /\ m.queue_mark = l.queue_mark /\ m.dead_letter_max_bucket = l.dead_letter_max_bucket
  BY <1>1
<1>3. IsFiniteSet(DOMAIN bars) /\ Cardinality(DOMAIN bars) <= Capacity
  <2>1. PICK D, C : D = DOMAIN l.bars /\ C = DOMAIN bars OBVIOUS
  <2>2. IsFiniteSet(D) /\ Cardinality(D) <= Capacity /\ C \subseteq D BY <2>1 DEF IsLedger
  <2>3. IsFiniteSet(C) /\ Cardinality(C) <= Cardinality(D) BY <2>2, FS_Subset
  <2>4. Cardinality(C) \in Nat /\ Cardinality(D) \in Nat /\ Capacity \in Nat
    BY <2>2, <2>3, FS_CardinalityType, SealSpillAssumption
  <2> QED BY <2>1, <2>2, <2>3, <2>4
<1> QED BY <1>1, <1>2, <1>3 DEF IsLedger

\* note_replay_commits: of the bars replayed the ledger knows the copy committed.
LEMMA ReplayCommitFacts ==
  ASSUME NEW l, IsLedger(l), NEW seals \in Seq(Seal), NEW m, m = on_replay_commit(l, seals)
  PROVE  /\ IsLedger(m) /\ DOMAIN m.bars = DOMAIN l.bars
         /\ m.active = l.active /\ m.disk_epoch = l.disk_epoch
         /\ m.queue_mark = l.queue_mark /\ m.dead_letter_max_bucket = l.dead_letter_max_bucket
         /\ \A b \in DOMAIN l.bars :
               /\ m.bars[b].disk = l.bars[b].disk /\ m.bars[b].disk_epoch = l.bars[b].disk_epoch
               /\ m.bars[b].queue_mark = l.bars[b].queue_mark
               /\ b \notin BarsOf(seals) => m.bars[b] = l.bars[b]
               /\ b \in BarsOf(seals) =>
                     m.bars[b].committed = larger(l.bars[b].committed, Max(CopiesOf(seals, b)))
<1>1. PICK bars : bars = [b \in DOMAIN l.bars |->
          IF b \in BarsOf(seals) THEN note_committed(l.bars[b], Max(CopiesOf(seals, b))) ELSE l.bars[b]]
  OBVIOUS
<1>2. m = [l EXCEPT !.bars = bars] BY <1>1, Zenon DEF on_replay_commit
<1>3. DOMAIN bars = DOMAIN l.bars BY <1>1
<1>4. ASSUME NEW b \in DOMAIN l.bars
      PROVE  /\ bars[b] \in SealEntry
             /\ bars[b].disk = l.bars[b].disk /\ bars[b].disk_epoch = l.bars[b].disk_epoch
             /\ bars[b].queue_mark = l.bars[b].queue_mark
             /\ b \notin BarsOf(seals) => bars[b] = l.bars[b]
             /\ b \in BarsOf(seals) => bars[b].committed = larger(l.bars[b].committed, Max(CopiesOf(seals, b)))
  <2>1. l.bars[b] \in SealEntry BY DEF IsLedger
  <2>2. CASE b \in BarsOf(seals)
    <3>1. PICK c, e : c = Max(CopiesOf(seals, b)) /\ e = l.bars[b] OBVIOUS
    <3>2. c \in Copy BY <2>2, <3>1, MaxCopyOf
    <3>3. bars[b] = note_committed(e, c) BY <1>1, <2>2, <3>1
    <3>4. /\ bars[b] \in SealEntry /\ bars[b].committed = larger(e.committed, c) /\ bars[b].disk = e.disk
          /\ bars[b].disk_epoch = e.disk_epoch /\ bars[b].queue_mark = e.queue_mark
      BY <2>1, <3>1, <3>2, <3>3, CommittedEntry
    <3> QED BY <2>2, <3>1, <3>4
  <2>3. CASE b \notin BarsOf(seals) BY <1>1, <2>1, <2>3
  <2> QED BY <2>2, <2>3
<1>5. /\ IsLedger(m) /\ m.bars = bars /\ m.active = l.active /\ m.disk_epoch = l.disk_epoch
      /\ m.queue_mark = l.queue_mark /\ m.dead_letter_max_bucket = l.dead_letter_max_bucket
  BY <1>2, <1>3, <1>4, RebuiltFacts
<1> QED BY <1>3, <1>4, <1>5

LEMMA ReplayCommitAtMost ==
  ASSUME NEW l, IsLedger(l), NEW seals \in Seq(Seal), NEW m, m = on_replay_commit(l, seals),
         NEW top \in [Bars -> Copy], AtMost(l, top), \A s \in ToSet(seals) : s.copy <= top[s.bar]
  PROVE  AtMost(m, top)
<1>1. IsLedger(m) /\ DOMAIN m.bars = DOMAIN l.bars BY ReplayCommitFacts
<1>2. ASSUME NEW b \in DOMAIN l.bars PROVE fullest(m.bars[b]) <= top[b]
  <2>1. b \in Bars /\ top[b] \in Copy /\ l.bars[b] \in SealEntry /\ m.bars[b] \in SealEntry
    BY <1>1 DEF IsLedger
  <2>2. l.bars[b].disk <= top[b] /\ l.bars[b].committed <= top[b] BY <2>1, EntryAtMost DEF AtMost
  <2>3. CASE b \in BarsOf(seals)
    <3>1. PICK c : c = Max(CopiesOf(seals, b)) OBVIOUS
    <3>2. c \in Copy /\ \E s \in ToSet(seals) : s.bar = b /\ s.copy = c BY <2>3, <3>1, MaxCopyOf
    <3>3. c <= top[b] BY <3>2
    <3>4. m.bars[b].disk = l.bars[b].disk /\ m.bars[b].committed = larger(l.bars[b].committed, c)
      BY <2>3, <3>1, ReplayCommitFacts
    <3>5. l.bars[b].committed \in Copy BY <2>1 DEF SealEntry
    <3>6. m.bars[b].committed <= top[b] BY <2>1, <2>2, <3>2, <3>3, <3>4, <3>5, LargerAtMost
    <3> QED BY <2>1, <2>2, <3>4, <3>6, EntryAtMost
  <2>4. CASE b \notin BarsOf(seals)
    <3>1. m.bars[b] = l.bars[b] BY <2>4, ReplayCommitFacts
    <3> QED BY <3>1 DEF AtMost
  <2> QED BY <2>3, <2>4
<1> QED BY <1>1, <1>2 DEF AtMost

\* distrust_commits: only the trust is gone.
LEMMA DistrustFacts ==
  ASSUME NEW l, IsLedger(l), NEW m, m = distrust_commits(l)
  PROVE  /\ IsLedger(m) /\ DOMAIN m.bars = DOMAIN l.bars
         /\ m.active = l.active /\ m.disk_epoch = l.disk_epoch
         /\ m.queue_mark = l.queue_mark /\ m.dead_letter_max_bucket = l.dead_letter_max_bucket
         /\ \A b \in DOMAIN l.bars :
               /\ m.bars[b].disk = l.bars[b].disk /\ m.bars[b].disk_epoch = l.bars[b].disk_epoch
               /\ m.bars[b].queue_mark = l.bars[b].queue_mark /\ m.bars[b].committed = l.bars[b].committed
<1>1. PICK bars : bars = [b \in DOMAIN l.bars |-> [l.bars[b] EXCEPT !.trusted = FALSE]] OBVIOUS
<1>2. m = [l EXCEPT !.bars = bars] BY <1>1, Zenon DEF distrust_commits
<1>3. DOMAIN bars = DOMAIN l.bars BY <1>1
<1>4. ASSUME NEW b \in DOMAIN l.bars
      PROVE  /\ bars[b] \in SealEntry
             /\ bars[b].disk = l.bars[b].disk /\ bars[b].disk_epoch = l.bars[b].disk_epoch
             /\ bars[b].queue_mark = l.bars[b].queue_mark /\ bars[b].committed = l.bars[b].committed
  <2>1. PICK e : e = l.bars[b] OBVIOUS
  <2>2. e \in SealEntry /\ bars[b] = [e EXCEPT !.trusted = FALSE] BY <1>1, <2>1 DEF IsLedger
  <2>3. /\ bars[b] \in SealEntry /\ bars[b].disk = e.disk /\ bars[b].disk_epoch = e.disk_epoch
        /\ bars[b].queue_mark = e.queue_mark /\ bars[b].committed = e.committed
    BY <2>2 DEF SealEntry
  <2> QED BY <2>1, <2>3
<1>5. /\ IsLedger(m) /\ m.bars = bars /\ m.active = l.active /\ m.disk_epoch = l.disk_epoch
      /\ m.queue_mark = l.queue_mark /\ m.dead_letter_max_bucket = l.dead_letter_max_bucket
  BY <1>2, <1>3, <1>4, RebuiltFacts
<1> QED BY <1>3, <1>4, <1>5

\* forget_replayed: what it keeps of the bars it keeps as it was.
LEMMA ForgetFacts ==
  ASSUME NEW l, IsLedger(l), NEW through, NEW m, m = forget_replayed(l, through)
  PROVE  /\ IsLedger(m) /\ m.dead_letter_max_bucket = l.dead_letter_max_bucket
         /\ DOMAIN m.bars \subseteq DOMAIN l.bars /\ \A b \in DOMAIN m.bars : m.bars[b] = l.bars[b]
         /\ \A b \in DOMAIN l.bars \ DOMAIN m.bars :
               /\ l.bars[b].disk = 0 \/ l.bars[b].disk_epoch <= through
               /\ has_passed(l.bars[b].queue_mark)
         /\ \/ m.active = l.active /\ m.disk_epoch = l.disk_epoch /\ m.queue_mark = l.queue_mark
            \/ l.disk_epoch <= through /\ has_passed(l.queue_mark)
<1> DEFINE Forgettable(e) == ~e.dead_lettered /\ (e.disk = 0 \/ e.disk_epoch <= through) /\ has_passed(e.queue_mark)
<1>1. PICK kept : kept = {b \in DOMAIN l.bars : ~Forgettable(l.bars[b])} OBVIOUS
<1>2. PICK bars : bars = [b \in kept |-> l.bars[b]] OBVIOUS
<1>3. PICK rest : rest = [l EXCEPT !.bars = bars] OBVIOUS
<1>4. DOMAIN bars = kept /\ kept \subseteq DOMAIN l.bars /\ \A b \in kept : bars[b] = l.bars[b] BY <1>1, <1>2
<1>5. \A b \in DOMAIN bars : bars[b] \in SealEntry BY <1>4 DEF IsLedger
<1>6. /\ IsLedger(rest) /\ rest.bars = bars /\ rest.active = l.active /\ rest.disk_epoch = l.disk_epoch
      /\ rest.queue_mark = l.queue_mark /\ rest.dead_letter_max_bucket = l.dead_letter_max_bucket
  BY <1>3, <1>4, <1>5, RebuiltFacts
<1>7. \A b \in DOMAIN l.bars \ kept : /\ l.bars[b].disk = 0 \/ l.bars[b].disk_epoch <= through
                                      /\ has_passed(l.bars[b].queue_mark)
  BY <1>1, Zenon
<1>8. m = IF l.active /\ l.disk_epoch <= through /\ has_passed(l.queue_mark)
          THEN [rest EXCEPT !.active = FALSE, !.disk_epoch = 0, !.queue_mark = 0] ELSE rest
  BY <1>1, <1>2, <1>3, Zenon DEF forget_replayed
<1>9. CASE m = rest BY <1>4, <1>6, <1>7, <1>9
<1>10. CASE /\ l.disk_epoch <= through /\ has_passed(l.queue_mark)
            /\ m = [rest EXCEPT !.active = FALSE, !.disk_epoch = 0, !.queue_mark = 0]
  <2>1. m = [bars |-> bars, active |-> FALSE, disk_epoch |-> 0, queue_mark |-> 0,
             dead_letter_max_bucket |-> l.dead_letter_max_bucket]
    BY <1>6, <1>10 DEF IsLedger
  <2>2. m.bars = bars /\ m.dead_letter_max_bucket = l.dead_letter_max_bucket /\ m.active = FALSE
        /\ m.disk_epoch = 0 /\ m.queue_mark = 0
    BY <2>1
  <2>3. IsLedger(m) BY <1>6, <2>1, <2>2 DEF IsLedger
  <2> QED BY <1>4, <1>7, <1>10, <2>2, <2>3
<1> QED BY <1>8, <1>9, <1>10, Zenon

-----------------------------------------------------------------------------
(* The invariant.  Its first part leaves best out: what the state is made  *)
(* of, with every seal at most as full as the fullest one sealed.          *)

SealsUpTo(table) == {s \in Seal : s.copy <= table[s.bar]}

StagedFile(G) ==
  {f \in [kind : {"spill", "dlq"}, records : Seq(G), own : BOOLEAN, offset : Nat,
          state : {"ready", "awaiting", "skipped"}] : f.offset <= Len(f.records)}

Tables ==
  /\ sealed \in [Bars -> Copy] /\ db \in [Bars -> Copy] /\ summary \in [Bars -> Copy]
  /\ \A b \in Bars : db[b] <= sealed[b]
  /\ boot \in [written : [Bars -> Copy], committed : [Bars -> Copy], next : Nat, left : BOOLEAN]
  /\ scenario \in Scenarios

InMemory ==
  LET G == SealsUpTo(sealed)
  IN  /\ channel \in Seq(G) /\ ring \in Seq(G) /\ queue \in Seq(G)
      /\ todo \in [Threads -> Seq(G)] /\ dead \in [Threads -> Seq(G)]
      /\ lost \subseteq G

Counters ==
  /\ run_len \in Nat /\ escalation_finished \in Nat
  /\ escalation_pending = Len(queue) + run_len
  /\ run_len = 0 => todo["escalation"] = <<>> /\ dead["escalation"] = <<>>

Threaded ==
  /\ writer.at # "rescuing" => todo["writer"] = <<>> /\ dead["writer"] = <<>>
  /\ unnoted \subseteq Threads
  /\ \A t \in unnoted : dead[t] # <<>>

Records ==
  LET G == SealsUpTo(sealed)
  IN  live \in Seq(G) /\ dlq \in Seq(G) /\ staged \in Seq(StagedFile(G))

Indexed == epoch \in Nat /\ staged_through \in Nat /\ staged_through < epoch

InWriter ==
  /\ writer.at \in {"committed", "noting", "replayed"} => writer.batch \in Seq(SealsUpTo(sealed))
  /\ writer.at = "noting" => writer.mark \in Nat
  /\ writer.at = "replayed" => /\ writer.file \in DOMAIN staged /\ writer.read \in Nat
                               /\ staged[writer.file].offset + writer.read <= Len(staged[writer.file].records)

\* Later copies of a bar are fuller.
Ascending(seals) ==
  \A i, j \in DOMAIN seals : i < j /\ seals[i].bar = seals[j].bar => seals[i].copy < seals[j].copy

Precede(seals, others) ==
  \A s \in ToSet(seals), x \in ToSet(others) : s.bar = x.bar => s.copy < x.copy

\* The writer gets the copies of a bar in the order in which they were sealed.
InOrder == Ascending(ring) /\ Ascending(channel) /\ Precede(ring, channel)

Base == Tables /\ InMemory /\ Counters /\ Threaded /\ Records /\ Indexed /\ InWriter /\ InOrder

\* What was in the database or on disk at some time.
Reached ==
  /\ best \in [Bars -> Copy]
  /\ \A b \in Bars : db[b] <= best[b] /\ best[b] <= sealed[b]
  /\ \A s \in OnDisk : s.copy <= best[s.bar]

\* The ledger, a thread with a dead-lettered seal and the writer with a batch
\* speak of copies that did get there.
Claims ==
  /\ IsLedger(ledger) /\ AtMost(ledger, best)
  /\ \A t \in unnoted : Head(dead[t]).copy <= best[Head(dead[t]).bar]
  /\ writer.at \in {"committed", "noting", "replayed"} => \A s \in ToSet(writer.batch) : s.copy <= best[s.bar]

SpillInv == Base /\ Reached /\ Claims /\ NothingVanishes

BestUpdated ==
  best' = [b \in Bars |-> Max({best[b], db'[b]} \cup {s.copy : s \in {x \in OnDisk' : x.bar = b}})]

-----------------------------------------------------------------------------
(* Facts the steps share.                                                  *)

LEMMA SealsUpToFacts ==
  ASSUME NEW table \in [Bars -> Copy]
  PROVE  /\ SealsUpTo(table) \subseteq Seal
         /\ \A s \in SealsUpTo(table) : s.copy <= table[s.bar]
         /\ \A b \in Bars, c \in Copy : c # 0 /\ c <= table[b] => [bar |-> b, copy |-> c] \in SealsUpTo(table)
<1>1. \A b \in Bars, c \in Copy : c # 0 => [bar |-> b, copy |-> c] \in Seal BY SealFacts
<1>2. \A b, c : [bar |-> b, copy |-> c].bar = b /\ [bar |-> b, copy |-> c].copy = c OBVIOUS
<1> QED BY <1>1, <1>2 DEF SealsUpTo

LEMMA SeqMonotone ==
  ASSUME NEW G, NEW H, G \subseteq H
  PROVE  Seq(G) \subseteq Seq(H)
<1> SUFFICES ASSUME NEW s \in Seq(G) PROVE s \in Seq(H) OBVIOUS
<1>1. Len(s) \in Nat /\ s \in [1..Len(s) -> G] OBVIOUS
<1>2. s \in [1..Len(s) -> H] BY <1>1
<1> QED BY <1>1, <1>2

LEMMA FilesMonotone ==
  ASSUME NEW G, NEW H, G \subseteq H
  PROVE  StagedFile(G) \subseteq StagedFile(H)
<1>1. Seq(G) \subseteq Seq(H) BY SeqMonotone
<1> QED BY <1>1 DEF StagedFile

\* The records of the files on disk.
LEMMA OnDiskFacts ==
  ASSUME NEW G, live \in Seq(G), dlq \in Seq(G), staged \in Seq(StagedFile(G))
  PROVE  /\ OnDisk \subseteq G
         /\ \A i \in DOMAIN staged : staged[i].records \in Seq(G) /\ ToSet(staged[i].records) \subseteq OnDisk
         /\ ToSet(live) \subseteq OnDisk /\ ToSet(dlq) \subseteq OnDisk
<1>1. \A i \in DOMAIN staged : staged[i] \in StagedFile(G) OBVIOUS
<1>2. \A i \in DOMAIN staged : staged[i].records \in Seq(G) BY <1>1 DEF StagedFile
<1>3. \A i \in DOMAIN staged : ToSet(staged[i].records) \subseteq G BY <1>2, SetOfSeq
<1>4. ToSet(live) \subseteq G /\ ToSet(dlq) \subseteq G BY SetOfSeq
<1> QED BY <1>2, <1>3, <1>4 DEF OnDisk

\* One step of best.
LEMMA BestStep ==
  ASSUME Reached, Tables, Tables', Records', BestUpdated, \A b \in Bars : sealed[b] <= sealed'[b]
  PROVE  /\ Reached' /\ \A b \in Bars : best[b] <= best'[b] /\ best'[b] \in Nat
<1>1. /\ best \in [Bars -> Copy] /\ db' \in [Bars -> Copy] /\ sealed \in [Bars -> Copy] /\ sealed' \in [Bars -> Copy]
      /\ \A b \in Bars : best[b] <= sealed[b] /\ db'[b] <= sealed'[b]
  BY DEF Reached, Tables
<1>2. OnDisk' \subseteq SealsUpTo(sealed')
  <2>1. PICK G : G = SealsUpTo(sealed') OBVIOUS
  <2>2. live' \in Seq(G) /\ dlq' \in Seq(G) /\ staged' \in Seq(StagedFile(G)) BY <2>1 DEF Records
  <2>3. OnDisk' \subseteq G
    <3>1. \A i \in DOMAIN staged' : staged'[i] \in StagedFile(G) BY <2>2
    <3>2. \A i \in DOMAIN staged' : staged'[i].records \in Seq(G) BY <3>1 DEF StagedFile
    <3>3. \A i \in DOMAIN staged' : ToSet(staged'[i].records) \subseteq G BY <3>2, SetOfSeq
    <3>4. ToSet(live') \subseteq G /\ ToSet(dlq') \subseteq G BY <2>2, SetOfSeq
    <3> QED BY <3>3, <3>4 DEF OnDisk
  <2> QED BY <2>1, <2>3
<1>3. OnDisk' \subseteq Seal /\ \A s \in OnDisk' : s.copy <= sealed'[s.bar] BY <1>1, <1>2, SealsUpToFacts
<1>4. ASSUME NEW b \in Bars
      PROVE  /\ best'[b] \in Copy /\ best[b] <= best'[b] /\ db'[b] <= best'[b] /\ best'[b] <= sealed'[b]
             /\ \A s \in OnDisk' : s.bar = b => s.copy <= best'[b]
  <2> DEFINE S == {best[b], db'[b]} \cup {s.copy : s \in {x \in OnDisk' : x.bar = b}}
  <2>1. best'[b] = Max(S) BY DEF BestUpdated
  <2>2. \A s \in OnDisk' : s.copy \in Copy BY <1>3, SealFacts
  <2>3. best[b] \in Copy /\ db'[b] \in Copy /\ sealed'[b] \in Copy /\ sealed[b] \in Copy BY <1>1
  <2>4. S \subseteq 0..MaxCopies /\ S # {} BY <2>2, <2>3 DEF Copy
  <2>5. best[b] \in S /\ db'[b] \in S /\ \A s \in OnDisk' : s.bar = b => s.copy \in S OBVIOUS
  <2>6. \A x \in S : x <= sealed'[b]
    <3>1. best[b] \in Nat /\ sealed[b] \in Nat /\ sealed'[b] \in Nat BY <2>3, SealFacts
    <3>2. best[b] <= sealed'[b] BY <1>1, <3>1
    <3> QED BY <1>1, <1>3, <3>2
  <2> HIDE DEF S
  <2>7. Max(S) \in S /\ \A x \in S : x <= Max(S) BY <2>4, MaxOf, LargerFacts
  <2> QED BY <2>1, <2>4, <2>5, <2>6, <2>7 DEF Copy
<1>5. best' = [b \in Bars |-> best'[b]] BY DEF BestUpdated
<1>6. best' \in [Bars -> Copy] BY <1>4, <1>5
<1>7. \A s \in OnDisk' : s.bar \in Bars BY <1>3, SealFacts
<1>8. Reached' BY <1>4, <1>6, <1>7 DEF Reached
<1> QED BY <1>4, <1>8, SealFacts

-----------------------------------------------------------------------------
(* The first part of the invariant, action by action: sealing.             *)

LEMMA Produced ==
  ASSUME Base, NEW b \in Bars, Produce(b), NEW G, G = SealsUpTo(sealed), NEW H, H = SealsUpTo(sealed')
  PROVE  /\ sealed' \in [Bars -> Copy] /\ sealed'[b] = sealed[b] + 1
         /\ \A x \in Bars : x # b => sealed'[x] = sealed[x]
         /\ \A x \in Bars : sealed[x] <= sealed'[x] /\ sealed[x] \in Nat
         /\ G \subseteq H /\ Seq(G) \subseteq Seq(H) /\ Seq(StagedFile(G)) \subseteq Seq(StagedFile(H))
         /\ NextSeal(b) \in H /\ NextSeal(b).bar = b /\ NextSeal(b).copy = sealed[b] + 1
<1>1. sealed \in [Bars -> Copy] /\ scenario \in Scenarios BY DEF Base, Tables
<1>2. scenario.copies[b] \in 0..MaxCopies BY <1>1, SealSpillAssumption
<1>3. sealed[b] < scenario.copies[b] /\ sealed' = [sealed EXCEPT ![b] = @ + 1] BY DEF Produce
<1>4. sealed[b] \in Nat /\ MaxCopies \in Nat /\ \A x \in Bars : sealed[x] \in Nat BY <1>1, SealFacts, LargerFacts
<1>5. sealed[b] + 1 \in Copy /\ sealed[b] + 1 # 0 BY <1>2, <1>3, <1>4 DEF Copy
<1>6. sealed' \in [Bars -> Copy] /\ sealed'[b] = sealed[b] + 1 /\ \A x \in Bars : x # b => sealed'[x] = sealed[x]
  BY <1>1, <1>3, <1>5
<1>7. \A x \in Bars : sealed[x] <= sealed'[x] BY <1>4, <1>6
<1>8. ASSUME NEW s \in G PROVE s \in H
  <2>1. s \in Seal /\ s.copy <= sealed[s.bar] /\ s.bar \in Bars /\ s.copy \in Nat BY SealFacts DEF SealsUpTo
  <2>2. sealed[s.bar] \in Nat /\ sealed'[s.bar] \in Nat BY <1>4, <1>6, <2>1
  <2>3. s.copy <= sealed'[s.bar] BY <1>7, <2>1, <2>2
  <2> QED BY <2>1, <2>3 DEF SealsUpTo
<1>9. G \subseteq H BY <1>8
<1>10. Seq(G) \subseteq Seq(H) /\ StagedFile(G) \subseteq StagedFile(H) BY <1>9, SeqMonotone, FilesMonotone
<1>11. Seq(StagedFile(G)) \subseteq Seq(StagedFile(H)) BY <1>10, SeqMonotone
<1>12. NextSeal(b).bar = b /\ NextSeal(b).copy = sealed[b] + 1 BY DEF NextSeal
<1>13. NextSeal(b) \in H BY <1>4, <1>5, <1>6, SealsUpToFacts DEF NextSeal
<1> QED BY <1>4, <1>6, <1>7, <1>9, <1>10, <1>11, <1>12, <1>13

\* What all three ways of sealing leave alone.
LEMMA ProducedBase ==
  ASSUME Base, NEW b \in Bars, Produce(b),
         UNCHANGED <<db, retired, dead, unnoted, escalation_finished, run_len, writer, index, disk, boot, course, ghosts>>
  PROVE  Tables' /\ Records' /\ Indexed' /\ InWriter'
<1>1. PICK G, H : G = SealsUpTo(sealed) /\ H = SealsUpTo(sealed') OBVIOUS
<1>2. /\ sealed' \in [Bars -> Copy]  /\ \A x \in Bars : sealed[x] <= sealed'[x] /\ sealed[x] \in Nat
      /\ Seq(G) \subseteq Seq(H) /\ Seq(StagedFile(G)) \subseteq Seq(StagedFile(H))
  BY <1>1, Produced
<1>3. Tables'
  <2>1. \A x \in Bars : db[x] \in Nat /\ sealed'[x] \in Nat /\ db[x] <= sealed[x]
    BY <1>2, SealFacts DEF Base, Tables
  <2>2. \A x \in Bars : db[x] <= sealed'[x] BY <1>2, <2>1
  <2> QED BY <1>2, <2>2 DEF Base, Tables, disk, course
<1>4. Records' BY <1>1, <1>2 DEF Base, Records, disk
<1>5. Indexed' BY DEF Base, Indexed, index
<1>6. InWriter' BY <1>1, <1>2 DEF Base, InWriter, disk
<1> QED BY <1>3, <1>4, <1>5, <1>6

\* A copy fuller than all before it at the end.
LEMMA AscendingAppend ==
  ASSUME NEW G, NEW seq \in Seq(G), Ascending(seq), NEW s, \A x \in ToSet(seq) : x.bar = s.bar => x.copy < s.copy
  PROVE  Ascending(Append(seq, s))
<1>1. PICK k, a : k = Len(seq) + 1 /\ a = Append(seq, s) OBVIOUS
<1>2. /\ DOMAIN a = DOMAIN seq \cup {k} /\ a[k] = s
      /\ \A i \in DOMAIN seq : a[i] = seq[i] /\ i < k /\ i # k /\ i \in Nat
      /\ k \in Nat
  BY <1>1
<1>3. ASSUME NEW i \in DOMAIN a, NEW j \in DOMAIN a, i < j, a[i].bar = a[j].bar PROVE a[i].copy < a[j].copy
  <2>1. i \in DOMAIN seq BY <1>2, <1>3
  <2>2. CASE j \in DOMAIN seq BY <1>2, <1>3, <2>1, <2>2 DEF Ascending
  <2>3. CASE j = k
    <3>1. a[i] \in ToSet(seq) BY <1>2, <2>1 DEF ToSet
    <3> QED BY <1>2, <1>3, <2>3, <3>1
  <2> QED BY <1>2, <2>2, <2>3
<1> QED BY <1>1, <1>3 DEF Ascending

LEMMA BaseSendToWriter ==
  ASSUME Base, NEW b \in Bars, SendToWriter(b)
  PROVE  Base'
<1>1. PICK G, H, s : G = SealsUpTo(sealed) /\ H = SealsUpTo(sealed') /\ s = NextSeal(b) OBVIOUS
<1>2. Produce(b) /\ channel' = Append(channel, s) BY <1>1 DEF SendToWriter
<1>3. /\ \A x \in Bars : sealed[x] \in Nat
      /\ G \subseteq H /\ Seq(G) \subseteq Seq(H) /\ s \in H /\ s.bar = b /\ s.copy = sealed[b] + 1
  BY <1>1, <1>2, Produced
<1>4. Tables' /\ Records' /\ Indexed' /\ InWriter' BY <1>2, ProducedBase DEF SendToWriter
<1>5. InMemory'
  <2>1. channel \in Seq(H) BY <1>1, <1>3 DEF Base, InMemory
  <2>2. channel' \in Seq(H) BY <1>2, <1>3, <2>1
  <2> QED BY <1>1, <1>3, <2>2 DEF Base, InMemory, SendToWriter, ghosts
<1>6. Counters' BY DEF Base, Counters, SendToWriter
<1>7. Threaded' BY DEF Base, Threaded, SendToWriter
<1>8. InOrder'
  <2>1. channel \in Seq(G) /\ ring \in Seq(G) BY <1>1 DEF Base, InMemory
  <2>2. \A x \in G : x \in Seal /\ x.copy <= sealed[x.bar] /\ x.bar \in Bars /\ x.copy \in Nat BY <1>1, SealFacts DEF SealsUpTo
  <2>3. \A x \in G : x.bar = s.bar => x.copy < s.copy BY <1>3, <2>2
  <2>4. ToSet(channel) \subseteq G /\ ToSet(ring) \subseteq G BY <2>1, SetOfSeq
  <2>5. Ascending(channel') BY <1>2, <2>1, <2>3, <2>4, AscendingAppend DEF Base, InOrder
  <2>6. ToSet(channel') = ToSet(channel) \cup {s} BY <1>2, <2>1, SetOfAppend
  <2>7. Precede(ring, channel') BY <2>3, <2>4, <2>6 DEF Base, InOrder, Precede
  <2>8. ring' = ring BY DEF SendToWriter
  <2> QED BY <2>5, <2>7, <2>8 DEF Base, InOrder
<1> QED BY <1>4, <1>5, <1>6, <1>7, <1>8 DEF Base

LEMMA BaseEscalateQueued ==
  ASSUME Base, NEW b \in Bars, EscalateQueued(b)
  PROVE  Base'
<1>1. PICK G, H, s : G = SealsUpTo(sealed) /\ H = SealsUpTo(sealed') /\ s = NextSeal(b) OBVIOUS
<1>2. Produce(b) /\ queue' = Append(queue, s) BY <1>1 DEF EscalateQueued
<1>3. G \subseteq H /\ Seq(G) \subseteq Seq(H) /\ s \in H BY <1>1, <1>2, Produced
<1>4. Tables' /\ Records' /\ Indexed' /\ InWriter' BY <1>2, ProducedBase DEF EscalateQueued
<1>5. queue \in Seq(H) /\ queue \in Seq(G) BY <1>1, <1>3 DEF Base, InMemory
<1>6. queue' \in Seq(H) /\ Len(queue') = Len(queue) + 1 BY <1>2, <1>3, <1>5
<1>7. InMemory' BY <1>1, <1>3, <1>6 DEF Base, InMemory, EscalateQueued, ghosts
<1>8. Counters'
  <2>1. Len(queue) \in Nat BY <1>5
  <2>2. escalation_pending' = Len(queue') + run_len BY <1>6, <2>1 DEF Base, Counters, EscalateQueued
  <2> QED BY <2>2 DEF Base, Counters, EscalateQueued
<1>9. Threaded' /\ InOrder' BY DEF Base, Threaded, InOrder, EscalateQueued
<1> QED BY <1>4, <1>7, <1>8, <1>9 DEF Base

LEMMA BaseEscalateInline ==
  ASSUME Base, NEW b \in Bars, EscalateInline(b)
  PROVE  Base'
<1>1. PICK G, H, s : G = SealsUpTo(sealed) /\ H = SealsUpTo(sealed') /\ s = NextSeal(b) OBVIOUS
<1>2. Produce(b) /\ todo' = [todo EXCEPT !["producer"] = <<s>>] BY <1>1 DEF EscalateInline, WithTodo
<1>3. G \subseteq H /\ Seq(G) \subseteq Seq(H) /\ s \in H BY <1>1, <1>2, Produced
<1>4. Tables' /\ Records' /\ Indexed' /\ InWriter' BY <1>2, ProducedBase DEF EscalateInline
<1>5. todo \in [Threads -> Seq(H)] /\ todo \in [Threads -> Seq(G)] BY <1>1, <1>3 DEF Base, InMemory
<1>6. <<s>> \in Seq(H) BY <1>3, SetOfSeq
<1>7. todo' \in [Threads -> Seq(H)] BY <1>2, <1>5, <1>6
<1>8. InMemory' BY <1>1, <1>3, <1>7 DEF Base, InMemory, EscalateInline, ghosts
<1>9. todo'["writer"] = todo["writer"] /\ todo'["escalation"] = todo["escalation"] BY <1>2, <1>5 DEF Threads
<1>10. Counters' BY <1>9 DEF Base, Counters, EscalateInline
<1>11. Threaded' /\ InOrder' BY <1>9 DEF Base, Threaded, InOrder, EscalateInline
<1> QED BY <1>4, <1>8, <1>10, <1>11 DEF Base

-----------------------------------------------------------------------------
(* Escalating and spilling.                                                *)

\* The parts of a sequence, and what todo and dead are after a change of one thread.
LEMMA ThreadSet ==
  ASSUME NEW G, NEW f \in [Threads -> Seq(G)], NEW t \in Threads, NEW s \in Seq(G), NEW g, g = [f EXCEPT ![t] = s]
  PROVE  g \in [Threads -> Seq(G)] /\ g[t] = s /\ \A x \in Threads : x # t => g[x] = f[x]
OBVIOUS

LEMMA BaseTakeRun ==
  ASSUME Base, NEW n \in 1..Len(queue), TakeRun(n)
  PROVE  Base'
<1>1. PICK G : G = SealsUpTo(sealed) OBVIOUS
<1>2. PICK a, z : a = SubSeq(queue, 1, n) /\ z = SubSeq(queue, n + 1, Len(queue)) OBVIOUS
<1>3. queue \in Seq(G) /\ todo \in [Threads -> Seq(G)] BY <1>1 DEF Base, InMemory
<1>4. Len(queue) \in Nat /\ n \in 0..Len(queue) BY <1>3
<1>5. SplitAt(G, queue, n, a, z) BY <1>2, <1>3, <1>4, SetOfParts
<1>6. a \in Seq(G) /\ z \in Seq(G) /\ Len(z) = Len(queue) - n BY <1>5 DEF SplitAt
<1>7. todo' = [todo EXCEPT !["escalation"] = a] /\ queue' = z BY <1>2 DEF TakeRun, WithTodo
<1>8. todo' \in [Threads -> Seq(G)] /\ todo'["writer"] = todo["writer"]
  BY <1>3, <1>6, <1>7, ThreadSet DEF Threads
<1>9. InMemory' BY <1>1, <1>6, <1>7, <1>8 DEF Base, InMemory, TakeRun, lineage, ghosts
<1>10. Counters'
  <2>1. run_len' = n /\ n \in Nat /\ n # 0 BY <1>4 DEF TakeRun
  <2>2. escalation_pending = Len(queue) BY <1>4 DEF Base, Counters, TakeRun
  <2>3. escalation_pending' = Len(queue') + run_len' BY <1>4, <1>6, <1>7, <2>1, <2>2 DEF TakeRun
  <2> QED BY <2>1, <2>3 DEF Base, Counters, TakeRun
<1>11. Threaded' BY <1>8 DEF Base, Threaded, TakeRun
<1>12. Tables' BY DEF Base, Tables, TakeRun, lineage, disk, course
<1>13. Records' /\ Indexed' /\ InWriter' /\ InOrder'
  BY DEF Base, Records, Indexed, InWriter, InOrder, TakeRun, lineage, disk, index
<1> QED BY <1>9, <1>10, <1>11, <1>12, <1>13 DEF Base

LEMMA BaseFinishRun ==
  ASSUME Base, FinishRun
  PROVE  Base'
<1>1. Len(queue) \in Nat BY DEF Base, InMemory
<1>2. Counters'
  <2>1. run_len' = 0 /\ escalation_pending' = Len(queue') BY <1>1 DEF Base, Counters, FinishRun
  <2>2. escalation_finished' \in Nat BY DEF Base, Counters, FinishRun
  <2> QED BY <1>1, <2>1, <2>2 DEF Base, Counters, FinishRun, Empty
<1>3. Tables' BY DEF Base, Tables, FinishRun, lineage, disk, course
<1>4. InMemory' BY DEF Base, InMemory, FinishRun, lineage, ghosts
<1>5. Threaded' BY DEF Base, Threaded, FinishRun
<1>6. Records' /\ Indexed' /\ InWriter' /\ InOrder'
  BY DEF Base, Records, Indexed, InWriter, InOrder, FinishRun, lineage, disk, index
<1> QED BY <1>2, <1>3, <1>4, <1>5, <1>6 DEF Base

\* The seals append_seals takes, and the ones it leaves.
LEMMA RunFacts ==
  ASSUME Base, NEW t \in Threads, todo[t] # <<>>, NEW G, G = SealsUpTo(sealed)
  PROVE  /\ Run(t) \in Seq(G) /\ AfterRun(t) \in Seq(G) /\ ToSet(todo[t]) = ToSet(Run(t)) \cup ToSet(AfterRun(t))
         /\ t # "writer" => AfterRun(t) = <<>>
<1>1. todo[t] \in Seq(G) BY DEF Base, InMemory
<1>2. PICK s, k : s = todo[t] /\ k = Len(Run(t)) OBVIOUS
<1>3. s \in Seq(G) /\ Len(s) \in Nat /\ Len(s) > 0 BY <1>1, <1>2
<1>4. k \in 0..Len(s) /\ Run(t) = SubSeq(s, 1, k) /\ Run(t) \in Seq(G)
  <2>1. CASE t = "writer"
    <3>1. Run(t) = <<Head(s)>> BY <1>2, <2>1 DEF Run
    <3>2. k = 1 BY <1>2, <3>1
    <3>3. Head(s) = s[1] /\ s[1] \in G BY <1>3
    <3>4. PICK a : a = SubSeq(s, 1, 1) OBVIOUS
    <3>5. 1 \in 0..Len(s) BY <1>3
    <3>6. PICK z : z = SubSeq(s, 1 + 1, Len(s)) OBVIOUS
    <3>7. SplitAt(G, s, 1, a, z) BY <1>3, <3>4, <3>5, <3>6, SetOfParts
    <3>8. a \in Seq(G) /\ Len(a) = 1 /\ a[1] = s[1] BY <3>7 DEF SplitAt
    <3>9. a = <<s[1]>> BY <3>8
    <3> QED BY <1>3, <3>1, <3>2, <3>3, <3>4, <3>5, <3>8, <3>9
  <2>2. CASE t # "writer"
    <3>1. Run(t) = s BY <1>2, <2>2 DEF Run
    <3>2. k = Len(s) BY <1>2, <3>1
    <3>3. SubSeq(s, 1, Len(s)) = s BY <1>3
    <3> QED BY <1>3, <3>1, <3>2, <3>3
  <2> QED BY <2>1, <2>2
<1>5. AfterRun(t) = SubSeq(s, k + 1, Len(s)) BY <1>2 DEF AfterRun
<1>6. AfterRun(t) \in Seq(G) /\ ToSet(Run(t)) \cup ToSet(AfterRun(t)) = ToSet(s)
  <2>1. PICK a, z : a = SubSeq(s, 1, k) /\ z = SubSeq(s, k + 1, Len(s)) OBVIOUS
  <2>2. SplitAt(G, s, k, a, z) BY <1>3, <1>4, <2>1, SetOfParts
  <2>3. z \in Seq(G) /\ ToSet(a) \cup ToSet(z) = ToSet(s) BY <2>2 DEF SplitAt
  <2> QED BY <1>4, <1>5, <2>1, <2>3
<1>7. ASSUME t # "writer" PROVE AfterRun(t) = <<>>
  <2>1. k = Len(s) BY <1>2, <1>7 DEF Run
  <2>2. PICK z : z = AfterRun(t) OBVIOUS
  <2>3. z \in Seq(G) /\ Len(z) = Len(s) - k
    <3>1. PICK a : a = SubSeq(s, 1, k) OBVIOUS
    <3>2. SplitAt(G, s, k, a, z) BY <1>3, <1>4, <1>5, <2>2, <3>1, SetOfParts
    <3> QED BY <3>2 DEF SplitAt
  <2>4. Len(z) = 0 BY <1>3, <2>1, <2>3
  <2> QED BY <2>2, <2>3, <2>4
<1> QED BY <1>2, <1>4, <1>6, <1>7

LEMMA IncludedFacts ==
  ASSUME NEW G, NEW seals \in Seq(G)
  PROVE  /\ Included(seals) \in Seq(G)
         /\ ToSet(Included(seals)) = {s \in ToSet(seals) : ~OlderNotWritten(ledger, s)}
<1>1. PICK W, a : W = {s \in ToSet(seals) : ~OlderNotWritten(ledger, s)} /\ a = Among(seals, W) OBVIOUS
<1>2. Included(seals) = a BY <1>1 DEF Included
<1>3. a \in Seq(G) /\ ToSet(a) = ToSet(seals) \cap W BY <1>1, AmongFacts
<1> QED BY <1>1, <1>2, <1>3

RunLeaves ==
  UNCHANGED <<db, lineage, channel, ring, queue, unnoted, escalation_pending, escalation_finished,
              run_len, writer, epoch, staged_through, dlq, staged, summary, boot, course>>

\* A run leaves todo, to the live file or not, and what was refused is dead.
LEMMA BaseOfRun ==
  ASSUME Base, NEW t \in Threads, todo[t] # <<>>, dead[t] = <<>>, NEW G, G = SealsUpTo(sealed),
         todo' = [todo EXCEPT ![t] = AfterRun(t)],
         NEW refused \in Seq(G), dead' = [dead EXCEPT ![t] = refused],
         NEW landed \in Seq(G), live' = live \o landed, lost' \subseteq G,
         RunLeaves
  PROVE  Base'
<1>1. todo \in [Threads -> Seq(G)] /\ dead \in [Threads -> Seq(G)] /\ live \in Seq(G)
  BY DEF Base, InMemory, Records
<1>2. AfterRun(t) \in Seq(G) BY RunFacts
<1>3. /\ todo' \in [Threads -> Seq(G)] /\ dead' \in [Threads -> Seq(G)]
      /\ \A x \in Threads : x # t => todo'[x] = todo[x] /\ dead'[x] = dead[x]
  BY <1>1, <1>2, ThreadSet
<1>4. InMemory' BY <1>3 DEF Base, InMemory, lineage, RunLeaves
<1>5. live' \in Seq(G) BY <1>1, SetOfConcat
<1>6. Records' BY <1>5 DEF Base, Records, lineage, RunLeaves
<1>7. Counters'
  <2>1. run_len = 0 => t # "escalation" BY DEF Base, Counters
  <2> QED BY <1>3, <2>1 DEF Base, Counters, Threads, RunLeaves
<1>8. Threaded'
  <2>1. writer.at # "rescuing" => t # "writer" BY DEF Base, Threaded
  <2>2. t \notin unnoted BY DEF Base, Threaded
  <2>3. unnoted \subseteq Threads BY DEF Base, Threaded
  <2> QED BY <1>3, <2>1, <2>2, <2>3 DEF Base, Threaded, Threads, RunLeaves
<1>9. Tables' BY DEF Base, Tables, lineage, course, RunLeaves
<1>10. Indexed' /\ InWriter' /\ InOrder' BY DEF Base, Indexed, InWriter, InOrder, lineage, RunLeaves
<1> QED BY <1>4, <1>6, <1>7, <1>8, <1>9, <1>10 DEF Base

LEMMA BaseAppendSeals ==
  ASSUME Base, NEW t \in Threads, AppendSeals(t)
  PROVE  Base'
<1>1. PICK G, none : G = SealsUpTo(sealed) /\ none = <<>> OBVIOUS
<1>2. todo[t] # <<>> /\ dead[t] = none BY <1>1 DEF AppendSeals, Empty
<1>3. PICK landed : landed = Included(Run(t)) OBVIOUS
<1>4. landed \in Seq(G) BY <1>1, <1>2, <1>3, RunFacts, IncludedFacts
<1>5. live' = live \o landed /\ todo' = [todo EXCEPT ![t] = AfterRun(t)] BY <1>3 DEF AppendSeals, WithTodo
<1>6. none \in Seq(G) BY <1>1
<1>7. dead' = [dead EXCEPT ![t] = none] BY <1>1, <1>2 DEF AppendSeals, Base, InMemory
<1>8. lost' \subseteq G BY <1>1 DEF AppendSeals, Base, InMemory
<1>9. RunLeaves BY DEF RunLeaves, AppendSeals
<1>10. dead[t] = <<>> BY <1>1, <1>2
<1> QED BY <1>1, <1>2, <1>4, <1>5, <1>6, <1>7, <1>8, <1>9, <1>10, BaseOfRun

LEMMA BaseBelowFloor ==
  ASSUME Base, NEW t \in Threads, BelowFloor(t)
  PROVE  Base'
<1>1. PICK G, none : G = SealsUpTo(sealed) /\ none = <<>> OBVIOUS
<1>2. todo[t] # <<>> /\ dead[t] = none BY <1>1 DEF BelowFloor, Empty
<1>3. live' = live \o none BY <1>1 DEF BelowFloor, disk, Base, Records
<1>4. todo' = [todo EXCEPT ![t] = AfterRun(t)] BY DEF BelowFloor, WithTodo
<1>5. none \in Seq(G) BY <1>1
<1>6. dead' = [dead EXCEPT ![t] = none] BY <1>1, <1>2 DEF BelowFloor, Base, InMemory
<1>7. Run(t) \in Seq(G) BY <1>1, <1>2, RunFacts
<1>8. ToSet(Run(t)) \subseteq G BY <1>7, SetOfSeq
<1>9. lost' \subseteq G BY <1>1, <1>8 DEF BelowFloor, Base, InMemory
<1>10. RunLeaves BY DEF RunLeaves, BelowFloor, index, disk
<1>11. dead[t] = <<>> BY <1>1, <1>2
<1> QED BY <1>1, <1>2, <1>3, <1>4, <1>5, <1>6, <1>9, <1>10, <1>11, BaseOfRun

\* The seals kept, and the ones the spill refused, when an append fails.
Divided(G, seals, n, k, r) ==
  k \in Seq(G) /\ r \in Seq(G) /\ ToSet(k) \cup ToSet(r) = ToSet(seals) /\ k = SubSeq(seals, 1, n)

LEMMA FailFacts ==
  ASSUME Base, NEW t \in Threads, NEW n \in Nat, NEW opened \in BOOLEAN, AppendFails(t, n, opened),
         NEW G, G = SealsUpTo(sealed), NEW k, k = Kept(Run(t), n), NEW r, r = SubSeq(Run(t), Len(k) + 1, Len(Run(t)))
  PROVE  Divided(G, Run(t), n, k, r)
<1>1. PICK s : s = Run(t) OBVIOUS
<1>2. todo[t] # <<>> /\ n < Len(s) BY <1>1 DEF AppendFails, Empty
<1>3. s \in Seq(G) BY <1>1, <1>2, RunFacts
<1>4. n \in 0..Len(s) BY <1>2, <1>3
<1>5. k = SubSeq(s, 1, n) BY <1>1 DEF Kept
<1>6. PICK z : z = SubSeq(s, n + 1, Len(s)) OBVIOUS
<1>7. SplitAt(G, s, n, k, z) BY <1>3, <1>4, <1>5, <1>6, SetOfParts
<1>8. k \in Seq(G) /\ z \in Seq(G) /\ ToSet(k) \cup ToSet(z) = ToSet(s) /\ Len(k) = n BY <1>7 DEF SplitAt
<1>9. r = z BY <1>1, <1>6, <1>8
<1> QED BY <1>1, <1>5, <1>8, <1>9 DEF Divided

LEMMA BaseAppendFails ==
  ASSUME Base, NEW t \in Threads, NEW n \in Nat, NEW opened \in BOOLEAN, AppendFails(t, n, opened)
  PROVE  Base'
<1>1. PICK G : G = SealsUpTo(sealed) OBVIOUS
<1>2. PICK k : k = Kept(Run(t), n) OBVIOUS
<1>3. PICK r : r = SubSeq(Run(t), Len(k) + 1, Len(Run(t))) OBVIOUS
<1>4. k \in Seq(G) /\ r \in Seq(G) /\ k = SubSeq(Run(t), 1, n) BY <1>1, <1>2, <1>3, FailFacts DEF Divided
<1>5. PICK landed : landed = Included(k) OBVIOUS
<1>6. landed \in Seq(G) BY <1>4, <1>5, IncludedFacts
<1>7. live' = live \o landed BY <1>4, <1>5 DEF AppendFails
<1>8. todo' = [todo EXCEPT ![t] = AfterRun(t)] /\ dead' = [dead EXCEPT ![t] = r]
  BY <1>2, <1>3 DEF AppendFails, WithTodo, WithDead
<1>9. lost' \subseteq G BY <1>1 DEF AppendFails, Base, InMemory
<1>10. todo[t] # <<>> /\ dead[t] = <<>> BY DEF AppendFails, Empty
<1>11. RunLeaves BY DEF RunLeaves, AppendFails
<1> QED BY <1>1, <1>4, <1>6, <1>7, <1>8, <1>9, <1>10, <1>11, BaseOfRun

LEMMA BaseDeadLetter ==
  ASSUME Base, NEW t \in Threads, DeadLetter(t)
  PROVE  Base'
<1>1. PICK G : G = SealsUpTo(sealed) OBVIOUS
<1>2. dead[t] \in Seq(G) /\ dead[t] # <<>> /\ dlq \in Seq(G)
  BY <1>1 DEF Base, InMemory, Records, DeadLetter, Empty
<1>3. Head(dead[t]) \in G BY <1>2
<1>4. dlq' \in Seq(G) BY <1>2, <1>3 DEF DeadLetter
<1>5. Records' BY <1>1, <1>4 DEF Base, Records, DeadLetter, lineage
<1>6. Threaded' BY <1>2 DEF Base, Threaded, DeadLetter
<1>7. Tables' BY DEF Base, Tables, DeadLetter, lineage, course
<1>8. InMemory' BY DEF Base, InMemory, DeadLetter, lineage, ghosts
<1>9. Counters' /\ Indexed' /\ InWriter' /\ InOrder'
  BY DEF Base, Counters, Indexed, InWriter, InOrder, DeadLetter, lineage, index
<1> QED BY <1>5, <1>6, <1>7, <1>8, <1>9 DEF Base

\* The first dead seal of a thread is done with.
LEMMA BaseOfDead ==
  ASSUME Base, NEW t \in Threads, dead[t] # <<>>, dead' = [dead EXCEPT ![t] = Tail(dead[t])],
         unnoted' = unnoted \ {t}, lost' \subseteq SealsUpTo(sealed),
         UNCHANGED <<db, lineage, channel, ring, queue, todo, escalation_pending, escalation_finished,
                     run_len, writer, epoch, staged_through, disk, boot, course>>
  PROVE  Base'
<1>1. PICK G, z : G = SealsUpTo(sealed) /\ z = Tail(dead[t]) OBVIOUS
<1>2. dead \in [Threads -> Seq(G)] BY <1>1 DEF Base, InMemory
<1>3. z \in Seq(G) BY <1>1, <1>2, SetOfHeadTail
<1>4. dead' \in [Threads -> Seq(G)] /\ \A x \in Threads : x # t => dead'[x] = dead[x]
  BY <1>1, <1>2, <1>3, ThreadSet
<1>5. InMemory' BY <1>1, <1>4 DEF Base, InMemory, lineage
<1>6. Counters'
  <2>1. run_len = 0 => t # "escalation" BY DEF Base, Counters
  <2> QED BY <1>4, <2>1 DEF Base, Counters, Threads
<1>7. Threaded'
  <2>1. writer.at # "rescuing" => t # "writer" BY DEF Base, Threaded
  <2> QED BY <1>4, <2>1 DEF Base, Threaded, Threads
<1>8. Tables' BY DEF Base, Tables, lineage, course, disk
<1>9. Records' /\ Indexed' /\ InWriter' /\ InOrder' BY DEF Base, Records, Indexed, InWriter, InOrder, lineage, disk
<1> QED BY <1>5, <1>6, <1>7, <1>8, <1>9 DEF Base

LEMMA BaseNoteDeadLettered ==
  ASSUME Base, NEW t \in Threads, NoteDeadLettered(t)
  PROVE  Base'
<1>1. dead[t] # <<>> BY DEF Base, Threaded, NoteDeadLettered
<1>2. lost' \subseteq SealsUpTo(sealed) BY DEF Base, InMemory, NoteDeadLettered
<1> QED BY <1>1, <1>2, BaseOfDead DEF NoteDeadLettered, WithDead

LEMMA BaseDeadLetterFails ==
  ASSUME Base, NEW t \in Threads, DeadLetterFails(t)
  PROVE  Base'
<1>1. PICK G : G = SealsUpTo(sealed) OBVIOUS
<1>2. dead[t] \in Seq(G) /\ dead[t] # <<>> BY <1>1 DEF Base, InMemory, DeadLetterFails, Empty
<1>3. Head(dead[t]) \in G BY <1>2
<1>4. lost' \subseteq SealsUpTo(sealed) BY <1>1, <1>3 DEF Base, InMemory, DeadLetterFails
<1>5. unnoted' = unnoted \ {t} BY DEF DeadLetterFails
<1>6. /\ dead' = [dead EXCEPT ![t] = Tail(dead[t])]
      /\ UNCHANGED <<db, lineage, channel, ring, queue, todo, escalation_pending, escalation_finished,
                     run_len, writer, epoch, staged_through, disk, boot, course>>
  BY DEF DeadLetterFails, WithDead, index
<1> QED BY <1>2, <1>4, <1>5, <1>6, BaseOfDead

-----------------------------------------------------------------------------
(* The live path.                                                          *)

LEMMA AscendingConcat ==
  ASSUME NEW G, NEW s \in Seq(G), NEW t \in Seq(G), Ascending(s), Ascending(t), Precede(s, t)
  PROVE  Ascending(s \o t)
<1>1. PICK a, k : a = s \o t /\ k = Len(s) OBVIOUS
<1>2. /\ DOMAIN a \subseteq Nat /\ k \in Nat
      /\ \A i \in DOMAIN a : (i <= k /\ i \in DOMAIN s /\ a[i] = s[i]) \/ (i > k /\ i - k \in DOMAIN t /\ a[i] = t[i - k])
  BY <1>1
<1>3. ASSUME NEW i \in DOMAIN a, NEW j \in DOMAIN a, i < j, a[i].bar = a[j].bar PROVE a[i].copy < a[j].copy
  <2>1. i \in Nat /\ j \in Nat BY <1>2
  <2>2. CASE j <= k
    <3>1. i \in DOMAIN s /\ a[i] = s[i] /\ j \in DOMAIN s /\ a[j] = s[j] BY <1>2, <1>3, <2>1, <2>2
    <3> QED BY <1>3, <3>1 DEF Ascending
  <2>3. CASE i > k
    <3>1. i - k \in DOMAIN t /\ a[i] = t[i - k] /\ j - k \in DOMAIN t /\ a[j] = t[j - k] /\ i - k < j - k
      BY <1>2, <1>3, <2>1, <2>3
    <3> QED BY <1>3, <3>1 DEF Ascending
  <2>4. CASE i <= k /\ j > k
    <3>1. i \in DOMAIN s /\ a[i] = s[i] /\ j - k \in DOMAIN t /\ a[j] = t[j - k] BY <1>2, <2>1, <2>4
    <3>2. a[i] \in ToSet(s) /\ a[j] \in ToSet(t) BY <3>1 DEF ToSet
    <3> QED BY <1>3, <3>2 DEF Precede
  <2> QED BY <1>2, <2>1, <2>2, <2>3, <2>4
<1> QED BY <1>1, <1>3 DEF Ascending

LEMMA AscendingParts ==
  ASSUME NEW G, NEW s \in Seq(G), NEW n \in 0..Len(s), NEW a, NEW z, SplitAt(G, s, n, a, z), Ascending(s)
  PROVE  Ascending(a) /\ Ascending(z) /\ Precede(a, z)
<1>1. PICK k : k = Len(s) OBVIOUS
<1>2. /\ k \in Nat /\ n \in Nat /\ n <= k /\ DOMAIN s = 1..k /\ DOMAIN a = 1..n /\ DOMAIN z = 1..(k - n)
      /\ \A i \in 1..n : a[i] = s[i] 
      /\ \A i \in 1..(k - n) : z[i] = s[n + i]
  BY <1>1 DEF SplitAt
<1>3. Ascending(a)
  <2>1. \A i \in 1..n : i \in 1..k BY <1>2
  <2> QED BY <1>2, <2>1 DEF Ascending
<1>4. Ascending(z)
  <2>1. \A i \in 1..(k - n) : n + i \in 1..k BY <1>2
  <2>2. \A i, j \in 1..(k - n) : i < j => n + i < n + j BY <1>2
  <2> QED BY <1>2, <2>1, <2>2 DEF Ascending
<1>5. ASSUME NEW i \in DOMAIN a, NEW j \in DOMAIN z, a[i].bar = z[j].bar PROVE a[i].copy < z[j].copy
  <2>1. i \in 1..k /\ n + j \in 1..k /\ i < n + j BY <1>2
  <2> QED BY <1>2, <1>5, <2>1 DEF Ascending
<1>6. Precede(a, z) BY <1>5 DEF Precede, ToSet
<1> QED BY <1>3, <1>4, <1>6

LEMMA BaseTakeChannel ==
  ASSUME Base, TakeChannel
  PROVE  Base'
<1>1. PICK G, none : G = SealsUpTo(sealed) /\ none = <<>> OBVIOUS
<1>2. ring \in Seq(G) /\ channel \in Seq(G) /\ ring' = ring \o channel /\ channel' = none
  BY <1>1 DEF Base, InMemory, TakeChannel
<1>3. ring' \in Seq(G) BY <1>2, SetOfConcat
<1>4. none \in Seq(G) /\ ToSet(none) = {} /\ Ascending(none) BY <1>1, SetOfSeq DEF Ascending
<1>5. InMemory' BY <1>1, <1>2, <1>3, <1>4 DEF Base, InMemory, TakeChannel, lineage, ghosts
<1>6. Ascending(ring') BY <1>2, AscendingConcat DEF Base, InOrder
<1>7. InOrder' BY <1>2, <1>4, <1>6 DEF InOrder, Precede
<1>8. Tables' BY DEF Base, Tables, TakeChannel, lineage, course, disk
<1>9. Counters' /\ Threaded' BY DEF Base, Counters, Threaded, TakeChannel
<1>10. Records' /\ Indexed' /\ InWriter' BY DEF Base, Records, Indexed, InWriter, TakeChannel, lineage, disk, index
<1> QED BY <1>5, <1>7, <1>8, <1>9, <1>10 DEF Base

\* The ring without its first n seals.
LEMMA RingFacts ==
  ASSUME Base, NEW n \in 1..Len(ring), NEW G, G = SealsUpTo(sealed), NEW a, NEW z,
         a = SubSeq(ring, 1, n), z = SubSeq(ring, n + 1, Len(ring))
  PROVE  /\ a \in Seq(G) /\ z \in Seq(G) /\ Ascending(a) /\ Ascending(z) /\ Precede(z, channel) /\ Precede(a, z)
         /\ Precede(a, channel) /\ ToSet(a) \cup ToSet(z) = ToSet(ring)
<1>1. ring \in Seq(G) BY DEF Base, InMemory
<1>2. n \in 0..Len(ring) BY <1>1
<1>3. SplitAt(G, ring, n, a, z) BY <1>1, <1>2, SetOfParts
<1>4. Ascending(a) /\ Ascending(z) /\ Precede(a, z) BY <1>1, <1>2, <1>3, AscendingParts DEF Base, InOrder
<1>5. a \in Seq(G) /\ z \in Seq(G) /\ ToSet(a) \cup ToSet(z) = ToSet(ring) BY <1>3 DEF SplitAt
<1>6. Precede(z, channel) /\ Precede(a, channel) BY <1>5 DEF Base, InOrder, Precede
<1> QED BY <1>4, <1>5, <1>6

LEMMA UpsertTables ==
  ASSUME Base, NEW G, G = SealsUpTo(sealed), NEW seals \in Seq(G), db' = Upsert(db, seals)
  PROVE  db' \in [Bars -> Copy] /\ \A b \in Bars : db'[b] <= sealed[b]
<1>1. G \subseteq Seal /\ (\A s \in G : s.copy <= sealed[s.bar]) BY SealsUpToFacts DEF Base, Tables
<1>2. seals \in Seq(Seal) BY <1>1, SeqMonotone
<1>3. db \in [Bars -> Copy] /\ \A b \in Bars : db[b] <= sealed[b] BY DEF Base, Tables
<1>4. PICK new : new = db' OBVIOUS
<1>5. /\ new \in [Bars -> Copy]
      /\ \A b \in Bars \ BarsOf(seals) : new[b] = db[b]
      /\ \A b \in BarsOf(seals) : \E i \in DOMAIN seals : seals[i].bar = b /\ new[b] = seals[i].copy
  BY <1>2, <1>3, <1>4, UpsertFacts
<1>6. \A i \in DOMAIN seals : seals[i] \in G BY SetOfSeq DEF ToSet
<1>7. \A b \in Bars : new[b] <= sealed[b] BY <1>1, <1>3, <1>5, <1>6
<1> QED BY <1>4, <1>5, <1>7

LEMMA BaseFlushOk ==
  ASSUME Base, NEW n \in 1..Len(ring), FlushOk(n)
  PROVE  Base'
<1>1. PICK G, a, z : G = SealsUpTo(sealed) /\ a = SubSeq(ring, 1, n) /\ z = SubSeq(ring, n + 1, Len(ring)) OBVIOUS
<1>2. a \in Seq(G) /\ z \in Seq(G) /\ Ascending(z) /\ Precede(z, channel) BY <1>1, RingFacts
<1>3. db' = Upsert(db, a) /\ writer' = [at |-> "committed", batch |-> a] /\ ring' = z /\ channel' = channel
  BY <1>1 DEF FlushOk
<1>4. db' \in [Bars -> Copy] /\ \A b \in Bars : db'[b] <= sealed[b] BY <1>1, <1>2, <1>3, UpsertTables
<1>5. Tables' BY <1>4 DEF Base, Tables, FlushOk, lineage, course, disk
<1>6. InMemory' BY <1>1, <1>2, <1>3 DEF Base, InMemory, FlushOk, lineage, ghosts
<1>7. InWriter' BY <1>1, <1>2, <1>3 DEF InWriter, FlushOk, lineage
<1>8. InOrder' BY <1>2, <1>3 DEF Base, InOrder
<1>9. writer.at = "idle" BY DEF FlushOk, Idle
<1>10. Counters' /\ Threaded' BY <1>3, <1>9 DEF Base, Counters, Threaded, FlushOk
<1>11. Records' /\ Indexed' BY DEF Base, Records, Indexed, FlushOk, lineage, disk, index
<1> QED BY <1>5, <1>6, <1>7, <1>8, <1>10, <1>11 DEF Base

LEMMA BaseRescue ==
  ASSUME Base, NEW n \in 1..Len(ring), Rescue(n)
  PROVE  Base'
<1>1. PICK G, a, z : G = SealsUpTo(sealed) /\ a = SubSeq(ring, 1, n) /\ z = SubSeq(ring, n + 1, Len(ring)) OBVIOUS
<1>2. a \in Seq(G) /\ z \in Seq(G) /\ Ascending(z) /\ Precede(z, channel) BY <1>1, RingFacts
<1>3. /\ todo' = [todo EXCEPT !["writer"] = a] /\ writer' = [at |-> "rescuing"] /\ ring' = z /\ channel' = channel
  BY <1>1 DEF Rescue, WithTodo
<1>4. todo \in [Threads -> Seq(G)] BY <1>1 DEF Base, InMemory
<1>5. todo' \in [Threads -> Seq(G)] /\ todo'["escalation"] = todo["escalation"] BY <1>2, <1>3, <1>4, ThreadSet DEF Threads
<1>6. InMemory' BY <1>1, <1>2, <1>3, <1>5 DEF Base, InMemory, Rescue, lineage, ghosts
<1>7. InWriter' BY <1>3 DEF InWriter
<1>8. InOrder' BY <1>2, <1>3 DEF Base, InOrder
<1>9. Tables' BY DEF Base, Tables, Rescue, lineage, course, disk
<1>10. Counters' /\ Threaded' BY <1>3, <1>5 DEF Base, Counters, Threaded, Rescue
<1>11. Records' /\ Indexed' BY DEF Base, Records, Indexed, Rescue, lineage, disk, index
<1> QED BY <1>6, <1>7, <1>8, <1>9, <1>10, <1>11 DEF Base

LEMMA BaseRescued ==
  ASSUME Base, Rescued
  PROVE  Base'
<1>1. writer'.at = "idle" BY DEF Rescued, Idle
<1>2. InWriter' BY <1>1 DEF InWriter
<1>3. Tables' BY DEF Base, Tables, Rescued, lineage, course, disk
<1>4. InMemory' /\ Counters' BY DEF Base, InMemory, Counters, Rescued, lineage, memory, ghosts
<1>5. Threaded' BY DEF Base, Threaded, Rescued, memory, Empty
<1>6. Records' /\ Indexed' /\ InOrder' BY DEF Base, Records, Indexed, InOrder, Rescued, lineage, memory, disk, index
<1> QED BY <1>2, <1>3, <1>4, <1>5, <1>6 DEF Base

LEMMA MarkIsNat ==
  ASSUME Base
  PROVE  QueueMark \in Nat /\ escalation_pending \in Nat
<1>1. Len(queue) \in Nat BY DEF Base, InMemory
<1> QED BY <1>1 DEF Base, Counters, QueueMark

LEMMA BaseReadQueue ==
  ASSUME Base, ReadQueue
  PROVE  Base'
<1>1. writer.at = "committed" BY DEF ReadQueue
<1>2. \/ writer' = Idle
      \/ writer' = [at |-> "noting", batch |-> writer.batch, queue_busy |-> escalation_pending > 0, mark |-> QueueMark]
  BY DEF ReadQueue
<1>3. \/ writer'.at = "idle" 
      \/ writer'.at = "noting" /\ writer'.batch = writer.batch /\ writer'.mark = QueueMark
  BY <1>2 DEF Idle
<1>4. InWriter' BY <1>1, <1>3, MarkIsNat DEF Base, InWriter, ReadQueue, lineage
<1>5. Tables' BY DEF Base, Tables, ReadQueue, lineage, course, disk
<1>6. InMemory' /\ Counters' BY DEF Base, InMemory, Counters, ReadQueue, lineage, memory, ghosts
<1>7. Threaded' BY <1>1, <1>3 DEF Base, Threaded, ReadQueue, memory
<1>8. Records' /\ Indexed' /\ InOrder' BY DEF Base, Records, Indexed, InOrder, ReadQueue, lineage, memory, disk, index
<1> QED BY <1>4, <1>5, <1>6, <1>7, <1>8 DEF Base

\* The copies to mirror are of the batch.
LEMMA MirrorFacts ==
  ASSUME Base, Reached, Claims, writer.at = "noting", NEW G, G = SealsUpTo(sealed), NEW m, m = NotedBatch.mirror
  PROVE  /\ m \in Seq(G) /\ ToSet(m) \subseteq ToSet(writer.batch)
         /\ IsLedger(NotedBatch.l) /\ AtMost(NotedBatch.l, best)
<1>1. writer.batch \in Seq(G) /\ writer.mark \in Nat BY DEF Base, InWriter
<1>2. G \subseteq Seal BY SealsUpToFacts DEF Base, Tables
<1>3. writer.batch \in Seq(Seal) BY <1>1, <1>2, SeqMonotone
<1>4. /\ IsLedger(ledger) /\ AtMost(ledger, best) /\ best \in [Bars -> Copy] /\ epoch \in Nat
      /\ \A s \in ToSet(writer.batch) : s.copy <= best[s.bar]
  BY DEF Base, Indexed, Reached, Claims
<1>5. /\ IsLedger(NotedBatch.l) /\ AtMost(NotedBatch.l, best)
      /\ m \in Seq(Seal) /\ Follows(m, writer.batch, Len(writer.batch))
  BY <1>1, <1>3, <1>4, NotedAtMost
<1>6. \A i \in DOMAIN m : \E p \in 1..Len(writer.batch) : m[i] = writer.batch[p] BY <1>5 DEF Follows
<1>7. \A i \in DOMAIN m : m[i] \in ToSet(writer.batch) BY <1>1, <1>6 DEF ToSet
<1>8. ToSet(m) \subseteq ToSet(writer.batch) BY <1>7 DEF ToSet
<1>9. ToSet(writer.batch) \subseteq G BY <1>1, SetOfSeq
<1>10. m \in Seq(G)
  <2>1. Len(m) \in Nat /\ m \in [1..Len(m) -> Seal] BY <1>5
  <2>2. m \in [1..Len(m) -> G] BY <1>7, <1>9, <2>1
  <2> QED BY <2>1, <2>2
<1> QED BY <1>5, <1>8, <1>10

\* After the notes of a live commit the writer is idle again.
LEMMA BaseOfNotes ==
  ASSUME Base, writer.at = "noting", NEW landed \in Seq(SealsUpTo(sealed)), live' = live \o landed, writer' = Idle,
         UNCHANGED <<db, lineage, memory, epoch, staged_through, dlq, staged, summary, boot, course, lost>>
  PROVE  Base'
<1>1. PICK G : G = SealsUpTo(sealed) OBVIOUS
<1>2. live' \in Seq(G) BY <1>1, SetOfConcat DEF Base, Records
<1>3. Records' BY <1>1, <1>2 DEF Base, Records, lineage
<1>4. InWriter' BY DEF InWriter, Idle
<1>5. Tables' BY DEF Base, Tables, lineage, course
<1>6. InMemory' /\ Counters' BY DEF Base, InMemory, Counters, lineage, memory
<1>7. Threaded' BY DEF Base, Threaded, memory
<1>8. Indexed' /\ InOrder' BY DEF Base, Indexed, InOrder, memory
<1> QED BY <1>3, <1>4, <1>5, <1>6, <1>7, <1>8 DEF Base

LEMMA BaseNoteLiveCommits ==
  ASSUME Base, Reached, Claims, NoteLiveCommits
  PROVE  Base'
<1>1. PICK m : m = NotedBatch.mirror OBVIOUS
<1>2. live' = live \o m BY <1>1, Zenon DEF NoteLiveCommits
<1>3. writer.at = "noting" BY DEF NoteLiveCommits
<1>4. m \in Seq(SealsUpTo(sealed)) BY <1>1, <1>3, MirrorFacts
<1> QED BY <1>2, <1>3, <1>4, BaseOfNotes DEF NoteLiveCommits

LEMMA BaseMirrorFails ==
  ASSUME Base, Reached, Claims, NEW n \in Nat, MirrorFails(n)
  PROVE  Base'
<1>1. PICK m, a, z : m = NotedBatch.mirror /\ a = SubSeq(m, 1, n) /\ z = SubSeq(m, n + 1, Len(m)) OBVIOUS
<1>2. live' = live \o a /\ n < Len(m) BY <1>1, Zenon DEF MirrorFails
<1>3. writer.at = "noting" BY DEF MirrorFails
<1>4. PICK G : G = SealsUpTo(sealed) OBVIOUS
<1>5. m \in Seq(G) BY <1>1, <1>3, <1>4, MirrorFacts
<1>6. n \in 0..Len(m) BY <1>2, <1>5
<1>7. SplitAt(G, m, n, a, z) BY <1>1, <1>5, <1>6, SetOfParts
<1>8. a \in Seq(SealsUpTo(sealed)) BY <1>4, <1>7 DEF SplitAt
<1> QED BY <1>2, <1>3, <1>8, BaseOfNotes DEF MirrorFails

-----------------------------------------------------------------------------
(* The replay.                                                             *)

\* A file at the start of its records.
LEMMA FileFacts ==
  ASSUME NEW G, NEW k \in {"spill", "dlq"}, NEW records \in Seq(G), NEW own \in BOOLEAN
  PROVE  File(k, records, own) \in StagedFile(G)
<1>1. Len(records) \in Nat /\ Len(records) >= 0 OBVIOUS
<1> QED BY <1>1 DEF File, StagedFile

LEMMA BaseStageLive ==
  ASSUME Base, NEW moved \in BOOLEAN, StageLive(moved)
  PROVE  Base'
<1>1. PICK G, none : G = SealsUpTo(sealed) /\ none = <<>> OBVIOUS
<1>2. writer.at = "idle" /\ writer' = writer BY DEF StageLive, MayReplay, Idle
<1>3. live \in Seq(G) /\ staged \in Seq(StagedFile(G)) BY <1>1 DEF Base, Records
<1>4. epoch' = epoch + 1 BY DEF StageLive
<1>5. Records' /\ Indexed'
  <2>1. CASE moved
    <3>1. PICK f : f = File("spill", live, TRUE) OBVIOUS
    <3>2. f \in StagedFile(G) BY <1>3, <3>1, FileFacts
    <3>3. staged' = Append(staged, f) /\ live' = none /\ staged_through' = epoch
      BY <1>1, <2>1, <3>1 DEF StageLive
    <3>4. staged' \in Seq(StagedFile(G)) BY <1>3, <3>2, <3>3
    <3>5. none \in Seq(G) BY <1>1
    <3>6. Records' BY <1>1, <3>3, <3>4, <3>5 DEF Base, Records, StageLive, lineage
    <3>7. Indexed' BY <1>4, <3>3 DEF Base, Indexed
    <3> QED BY <3>6, <3>7
  <2>2. CASE ~moved
    <3>1. UNCHANGED <<staged, live, staged_through>> BY <2>2 DEF StageLive
    <3>2. Records' BY <3>1 DEF Base, Records, StageLive, lineage
    <3>3. Indexed' BY <1>4, <3>1 DEF Base, Indexed
    <3> QED BY <3>2, <3>3
  <2> QED BY <2>1, <2>2
<1>6. InWriter' BY <1>2 DEF InWriter
<1>7. Tables' BY DEF Base, Tables, StageLive, lineage, course
<1>8. InMemory' /\ Counters' BY DEF Base, InMemory, Counters, StageLive, lineage, memory, ghosts
<1>9. Threaded' /\ InOrder' BY DEF Base, Threaded, InOrder, StageLive, memory
<1> QED BY <1>5, <1>6, <1>7, <1>8, <1>9 DEF Base

\* The next records of a staged file, and those of them that are written.
ReadOf(i, n) == SubSeq(staged[i].records, staged[i].offset + 1, staged[i].offset + n)
BatchOf(i, n) == Among(ReadOf(i, n), {s \in ToSet(ReadOf(i, n)) : ~replay_is_older(ledger, s)})

LEMMA ReplayFacts ==
  ASSUME Base, NEW i \in DOMAIN staged, NEW n \in 1..(Len(staged[i].records) - staged[i].offset),
         NEW G, G = SealsUpTo(sealed), NEW a, a = BatchOf(i, n), NEW r, r = ReadOf(i, n)
  PROVE  /\ r \in Seq(G) /\ ToSet(r) \subseteq ToSet(staged[i].records)
         /\ a \in Seq(G) /\ ToSet(a) = {s \in ToSet(r) : ~replay_is_older(ledger, s)}
         /\ \A p \in 1..n : staged[i].offset + p \in DOMAIN staged[i].records
         /\ Len(r) = n /\ \A p \in 1..n : r[p] = staged[i].records[staged[i].offset + p]
<1>1. staged[i] \in StagedFile(G) BY DEF Base, Records
<1>2. PICK s, o : s = staged[i].records /\ o = staged[i].offset OBVIOUS
<1>3. s \in Seq(G) /\ o \in Nat /\ o <= Len(s) /\ Len(s) \in Nat /\ n \in 1..(Len(s) - o)
  BY <1>1, <1>2 DEF StagedFile
<1>4. r = SubSeq(s, o + 1, o + n) BY <1>2 DEF ReadOf
<1>5. \A p \in 1..n : o + p \in 1..Len(s) /\ (o + 1) + p - 1 = o + p BY <1>3
<1>6. r \in Seq(G) /\ Len(r) = n /\ \A p \in 1..n : r[p] = s[(o + 1) + p - 1]
  <2>1. PICK x, y : x = o + 1 /\ y = o + n OBVIOUS
  <2>2. x \in Nat /\ y \in Nat /\ x <= y /\ y - x + 1 = n /\ x >= 1 /\ y <= Len(s) BY <1>3, <2>1
  <2>3. r = SubSeq(s, x, y) BY <1>4, <2>1
  <2>4. \A k \in x..y : s[k] \in G BY <1>3, <2>2
  <2>5. r \in Seq(G) /\ Len(r) = y - x + 1 BY <1>3, <2>2, <2>3, <2>4
  <2>6. Len(r) = n BY <2>2, <2>5
  <2>7. \A p \in 1..n : r[p] = s[x + p - 1] BY <2>2, <2>3, <2>5, <2>6
  <2> QED BY <2>1, <2>5, <2>6, <2>7
<1>7. \A p \in 1..n : r[p] = s[o + p] /\ o + p \in DOMAIN s BY <1>3, <1>5, <1>6
<1>8. DOMAIN r = 1..n BY <1>6
<1>9. ToSet(r) \subseteq ToSet(s) BY <1>7, <1>8 DEF ToSet
<1>10. PICK W : W = {x \in ToSet(r) : ~replay_is_older(ledger, x)} OBVIOUS
<1>11. a = Among(r, W) BY <1>10 DEF BatchOf
<1>12. a \in Seq(G) /\ ToSet(a) = ToSet(r) \cap W BY <1>6, <1>11, AmongFacts
<1> QED BY <1>2, <1>6, <1>7, <1>9, <1>10, <1>12

LEMMA ReplayStep ==
  ASSUME NEW i \in DOMAIN staged, NEW n \in Nat, Replay(i, n)
  PROVE  /\ writer.at = "idle" /\ Readable(i)
         /\ n \in 1..(Len(staged[i].records) - staged[i].offset)
         /\ db' = Upsert(db, BatchOf(i, n))
         /\ writer' = [at |-> "replayed", batch |-> BatchOf(i, n), file |-> i, read |-> n]
<1>1. writer.at = "idle" BY DEF Replay, MayReplay, Idle
<1>2. PICK r : r = ReadOf(i, n) OBVIOUS
<1>3. PICK a : a = Among(r, {s \in ToSet(r) : ~replay_is_older(ledger, s)}) OBVIOUS
<1>4. BatchOf(i, n) = a BY <1>2, <1>3 DEF BatchOf
<1>5. r = SubSeq(staged[i].records, staged[i].offset + 1, staged[i].offset + n) BY <1>2 DEF ReadOf
<1>6. db' = Upsert(db, a) /\ writer' = [at |-> "replayed", batch |-> a, file |-> i, read |-> n]
  BY <1>3, <1>5, Zenon DEF Replay
<1> QED BY <1>1, <1>4, <1>6 DEF Replay

LEMMA BaseReplay ==
  ASSUME Base, NEW i \in DOMAIN staged, NEW n \in Nat, Replay(i, n)
  PROVE  Base'
<1>1. PICK G, a, k : G = SealsUpTo(sealed) /\ a = BatchOf(i, n) /\ k = Len(staged[i].records) - staged[i].offset OBVIOUS
<1>2. n \in 1..k /\ writer.at = "idle" /\ db' = Upsert(db, a)
      /\ writer' = [at |-> "replayed", batch |-> a, file |-> i, read |-> n]
  BY <1>1, ReplayStep
<1>3. a \in Seq(G) BY <1>1, <1>2, ReplayFacts
<1>4. db' \in [Bars -> Copy] /\ \A b \in Bars : db'[b] <= sealed[b] BY <1>1, <1>2, <1>3, UpsertTables
<1>5. staged[i].offset \in Nat /\ Len(staged[i].records) \in Nat
  <2>1. staged[i] \in StagedFile(G) BY <1>1 DEF Base, Records
  <2> QED BY <2>1 DEF StagedFile
<1>6. staged[i].offset + n <= Len(staged[i].records) BY <1>1, <1>2, <1>5
<1>7. InWriter' BY <1>1, <1>2, <1>3, <1>6 DEF InWriter, Replay, lineage, disk
<1>8. Tables' BY <1>4 DEF Base, Tables, Replay, lineage, course, disk
<1>9. InMemory' /\ Counters' BY DEF Base, InMemory, Counters, Replay, lineage, memory, ghosts
<1>10. Threaded' BY <1>2 DEF Base, Threaded, Replay, memory
<1>11. Records' /\ Indexed' /\ InOrder' BY DEF Base, Records, Indexed, InOrder, Replay, lineage, memory, disk, index
<1> QED BY <1>7, <1>8, <1>9, <1>10, <1>11 DEF Base

\* Steps of the replay that only change the staged files and the ledger.
ReplayLeaves == UNCHANGED <<db, lineage, memory, epoch, staged_through, live, dlq, summary, boot, crashes, scenario, lost>>

LEMMA BaseOfFiles ==
  ASSUME Base, ReplayLeaves, writer.at \notin {"rescuing"}, writer'.at = "idle" , staged' \in Seq(StagedFile(SealsUpTo(sealed)))
  PROVE  Base'
<1>1. Records' BY DEF Base, Records, ReplayLeaves, lineage
<1>2. InWriter' BY DEF InWriter
<1>3. Tables' BY DEF Base, Tables, ReplayLeaves, lineage, course
<1>4. InMemory' /\ Counters' BY DEF Base, InMemory, Counters, ReplayLeaves, lineage, memory
<1>5. Threaded' BY DEF Base, Threaded, ReplayLeaves, memory
<1>6. Indexed' /\ InOrder' BY DEF Base, Indexed, InOrder, ReplayLeaves, memory
<1> QED BY <1>1, <1>2, <1>3, <1>4, <1>5, <1>6 DEF Base

ChangedAt(V, s, i, f, z) ==
  z \in Seq(V) /\ DOMAIN z = DOMAIN s /\ z[i] = f /\ \A j \in DOMAIN s : j # i => z[j] = s[j]

LEMMA OneChanged ==
  ASSUME NEW V, NEW s \in Seq(V), NEW i \in DOMAIN s, NEW f \in V, NEW z, z = [s EXCEPT ![i] = f]
  PROVE  ChangedAt(V, s, i, f, z)
<1>1. Len(s) \in Nat /\ s \in [1..Len(s) -> V] /\ i \in 1..Len(s) OBVIOUS
<1>2. z \in [1..Len(s) -> V] BY <1>1
<1>3. z \in Seq(V) BY <1>1, <1>2
<1> QED BY <1>1, <1>3 DEF ChangedAt

\* A staged file with another offset and state.
AtOffset(s, i, o, st) == [s EXCEPT ![i].offset = o, ![i].state = st]

SameRecords(s, z) == DOMAIN z = DOMAIN s /\ \A j \in DOMAIN s : z[j].records = s[j].records

LEMMA FileChanged ==
  ASSUME NEW G, NEW s \in Seq(StagedFile(G)), NEW i \in DOMAIN s, NEW o \in Nat, NEW st \in {"ready", "awaiting", "skipped"},
         o <= Len(s[i].records), NEW z, z = AtOffset(s, i, o, st)
  PROVE  z \in Seq(StagedFile(G)) /\ SameRecords(s, z)
<1>1. PICK f : f = [[s[i] EXCEPT !.offset = o] EXCEPT !.state = st] OBVIOUS
<1>2. s[i] \in StagedFile(G) OBVIOUS
<1>3. f \in StagedFile(G) /\ f.records = s[i].records BY <1>1, <1>2 DEF StagedFile
<1>4. z = [s EXCEPT ![i] = f] BY <1>1 DEF AtOffset
<1>5. PICK V : V = StagedFile(G) OBVIOUS
<1>6. s \in Seq(V) /\ f \in V BY <1>3, <1>5
<1>7. ChangedAt(V, s, i, f, z) BY <1>4, <1>6, OneChanged
<1> QED BY <1>3, <1>5, <1>7 DEF ChangedAt, SameRecords

LEMMA BaseNoteReplayCommits ==
  ASSUME Base, NoteReplayCommits
  PROVE  Base'
<1>1. PICK G, i, o : G = SealsUpTo(sealed) /\ i = writer.file /\ o = staged[i].offset + writer.read OBVIOUS
<1>2. PICK st : st = IF o = Len(staged[i].records) THEN "awaiting" ELSE "ready" OBVIOUS
<1>3. writer.at = "replayed" /\ writer'.at = "idle" BY DEF NoteReplayCommits, Idle
<1>4. staged \in Seq(StagedFile(G)) /\ i \in DOMAIN staged /\ writer.read \in Nat /\ o <= Len(staged[i].records)
  BY <1>1, <1>3 DEF Base, Records, InWriter
<1>5. staged[i] \in StagedFile(G) BY <1>4
<1>6. o \in Nat BY <1>1, <1>4, <1>5 DEF StagedFile
<1>7. staged' = AtOffset(staged, i, o, st) BY <1>1, <1>2, Zenon DEF NoteReplayCommits, AtOffset
<1>8. st \in {"ready", "awaiting", "skipped"} BY <1>2
<1>9. staged' \in Seq(StagedFile(G))
  <2>1. PICK s, z : s = staged /\ z = staged' OBVIOUS
  <2>2. s \in Seq(StagedFile(G)) /\ i \in DOMAIN s /\ o <= Len(s[i].records) BY <1>4, <2>1
  <2>3. z = AtOffset(s, i, o, st) BY <1>7, <2>1
  <2>4. z \in Seq(StagedFile(G)) BY <1>6, <1>8, <2>2, <2>3, FileChanged
  <2> QED BY <2>1, <2>4
<1>10. ReplayLeaves BY DEF ReplayLeaves, NoteReplayCommits, ghosts
<1> QED BY <1>1, <1>3, <1>9, <1>10, BaseOfFiles

LEMMA RemoveAtFacts ==
  ASSUME NEW V, NEW s \in Seq(V), NEW i \in DOMAIN s, NEW z, z = RemoveAt(s, i)
  PROVE  z \in Seq(V) /\ ToSet(z) \subseteq ToSet(s)
<1>1. PICK k, j : k = Len(s) /\ j = i - 1 OBVIOUS
<1>2. k \in Nat /\ j \in 0..k /\ i \in 0..k /\ i = j + 1 BY <1>1
<1>3. PICK a, b, c, d : a = SubSeq(s, 1, j) /\ b = SubSeq(s, i + 1, k) /\ c = SubSeq(s, j + 1, k) /\ d = SubSeq(s, 1, i) OBVIOUS
<1>4. SplitAt(V, s, j, a, c) /\ SplitAt(V, s, i, d, b) BY <1>1, <1>2, <1>3, SetOfParts
<1>5. a \in Seq(V) /\ b \in Seq(V) /\ ToSet(a) \subseteq ToSet(s) /\ ToSet(b) \subseteq ToSet(s)
  BY <1>4 DEF SplitAt
<1>6. z = a \o b BY <1>1, <1>3 DEF RemoveAt
<1> QED BY <1>5, <1>6, SetOfConcat

LEMMA BaseArchive ==
  ASSUME Base, NEW i \in DOMAIN staged, Archive(i)
  PROVE  Base'
<1>1. PICK G, V : G = SealsUpTo(sealed) /\ V = StagedFile(G) OBVIOUS
<1>2. staged \in Seq(V) BY <1>1 DEF Base, Records
<1>3. staged' = RemoveAt(staged, i) /\ writer.at = "idle" /\ writer'.at = "idle" BY DEF Archive, Idle
<1>4. staged' \in Seq(V) BY <1>2, <1>3, RemoveAtFacts
<1>5. ReplayLeaves BY DEF ReplayLeaves, Archive, ghosts, index
<1> QED BY <1>1, <1>3, <1>4, <1>5, BaseOfFiles

LEMMA BaseSkip ==
  ASSUME Base, NEW i \in DOMAIN staged, Skip(i)
  PROVE  Base'
<1>1. PICK G : G = SealsUpTo(sealed) OBVIOUS
<1>2. staged \in Seq(StagedFile(G)) BY <1>1 DEF Base, Records
<1>3. staged' = [staged EXCEPT ![i].state = "skipped"] /\ writer.at = "idle" /\ writer'.at = "idle"
  BY DEF Skip, MayReplay, Idle
<1>4. PICK f : f = [staged[i] EXCEPT !.state = "skipped"] OBVIOUS
<1>5. staged[i] \in StagedFile(G) BY <1>2
<1>6. f \in StagedFile(G) BY <1>4, <1>5 DEF StagedFile
<1>7. staged' = [staged EXCEPT ![i] = f] BY <1>3, <1>4
<1>8. staged' \in Seq(StagedFile(G)) BY <1>2, <1>6, <1>7
<1>9. ReplayLeaves BY DEF ReplayLeaves, Skip, ghosts, index
<1> QED BY <1>1, <1>3, <1>8, <1>9, BaseOfFiles

LEMMA BaseSuspect ==
  ASSUME Base, Suspect
  PROVE  Base'
<1>1. PICK G : G = SealsUpTo(sealed) OBVIOUS
<1>2. staged \in Seq(StagedFile(G)) BY <1>1 DEF Base, Records
<1>3. /\ staged' = [i \in DOMAIN staged |->
                      IF staged[i].state = "skipped" THEN staged[i]
                      ELSE [staged[i] EXCEPT !.offset = 0, !.state = "ready"]]
      /\ writer.at = "idle" /\ writer'.at = "idle"
  BY DEF Suspect, Idle
<1>4. ASSUME NEW i \in DOMAIN staged PROVE staged'[i] \in StagedFile(G)
  <2>1. PICK f : f = staged[i] OBVIOUS
  <2>2. f \in StagedFile(G) BY <1>2, <2>1
  <2>3. staged'[i] = f \/ staged'[i] = [f EXCEPT !.offset = 0, !.state = "ready"] BY <1>3, <2>1
  <2>4. Len(f.records) \in Nat BY <2>2 DEF StagedFile
  <2>5. [f EXCEPT !.offset = 0, !.state = "ready"] \in StagedFile(G)
    <3>1. PICK g : g = [f EXCEPT !.offset = 0, !.state = "ready"] OBVIOUS
    <3>2. g.records = f.records /\ g.offset = 0 /\ g \in [kind : {"spill", "dlq"}, records : Seq(G), own : BOOLEAN,
              offset : Nat, state : {"ready", "awaiting", "skipped"}]
      BY <2>2, <3>1 DEF StagedFile
    <3>3. g.offset <= Len(g.records) BY <2>4, <3>2
    <3> QED BY <3>1, <3>2, <3>3 DEF StagedFile
  <2> QED BY <2>2, <2>3, <2>5
<1>5. staged' \in Seq(StagedFile(G))
  <2>1. Len(staged) \in Nat /\ DOMAIN staged = 1..Len(staged) BY <1>2
  <2>2. staged' \in [1..Len(staged) -> StagedFile(G)] BY <1>3, <1>4, <2>1
  <2> QED BY <2>1, <2>2
<1>6. ReplayLeaves BY DEF ReplayLeaves, Suspect, ghosts, index
<1> QED BY <1>1, <1>3, <1>5, <1>6, BaseOfFiles

LEMMA BaseTrust ==
  ASSUME Base, Trust
  PROVE  Base'
<1>1. staged' \in Seq(StagedFile(SealsUpTo(sealed))) BY DEF Base, Records, Trust, disk
<1>2. ReplayLeaves /\ writer.at = "idle" /\ writer'.at = "idle" BY DEF ReplayLeaves, Trust, ghosts, index, disk, Idle, course
<1> QED BY <1>1, <1>2, BaseOfFiles

LEMMA BaseForget ==
  ASSUME Base, Forget
  PROVE  Base'
<1>1. staged' \in Seq(StagedFile(SealsUpTo(sealed))) BY DEF Base, Records, Forget, disk
<1>2. ReplayLeaves /\ writer.at = "idle" /\ writer'.at = "idle"
  BY DEF ReplayLeaves, Forget, MayReplay, ghosts, index, disk, Idle
<1> QED BY <1>1, <1>2, BaseOfFiles

-----------------------------------------------------------------------------
(* Crash and boot.                                                         *)

OfKind(k) == Among(staged, {f \in ToSet(staged) : f.kind = k})
NewFile(k, records) == IF Empty(records) THEN <<>> ELSE <<File(k, records, FALSE)>>
BootFiles == OfKind("spill") \o NewFile("spill", live) \o OfKind("dlq") \o NewFile("dlq", dlq)

LEMMA OfKindFacts ==
  ASSUME NEW V, staged \in Seq(V), NEW k, NEW a, a = OfKind(k)
  PROVE  /\ a \in Seq(V) /\ ToSet(a) = {f \in ToSet(staged) : f.kind = k}
         /\ \A i, j \in DOMAIN a : i < j => \E p, q \in DOMAIN staged : p < q /\ a[i] = staged[p] /\ a[j] = staged[q]
<1>1. PICK W : W = {f \in ToSet(staged) : f.kind = k} OBVIOUS
<1>2. a = Among(staged, W) BY <1>1 DEF OfKind
<1>3. /\ a \in Seq(V) /\ ToSet(a) = ToSet(staged) \cap W
      /\ \A i, j \in DOMAIN a : i < j => \E p, q \in DOMAIN staged : p < q /\ a[i] = staged[p] /\ a[j] = staged[q]
  BY <1>2, AmongFacts
<1>4. ToSet(a) = {f \in ToSet(staged) : f.kind = k} BY <1>1, <1>3
<1> QED BY <1>3, <1>4

LEMMA NewFileFacts ==
  ASSUME NEW G, NEW records \in Seq(G), NEW k \in {"spill", "dlq"}, NEW a, a = NewFile(k, records)
  PROVE  /\ a \in Seq(StagedFile(G))
         /\ ToSet(a) = IF records = <<>> THEN {} ELSE {File(k, records, FALSE)}
<1>1. PICK f, V : f = File(k, records, FALSE) /\ V = StagedFile(G) OBVIOUS
<1>2. f \in V BY <1>1, FileFacts
<1>3. CASE records = <<>>
  <2>1. a = <<>> BY <1>3 DEF NewFile, Empty
  <2> QED BY <1>3, <2>1, SetOfSeq
<1>4. CASE records # <<>>
  <2>1. a = <<f>> BY <1>1, <1>4 DEF NewFile, Empty
  <2>2. <<f>> \in Seq(V) /\ ToSet(<<f>>) = {f} BY <1>2, SetOfSeq
  <2> QED BY <1>1, <1>4, <2>1, <2>2
<1> QED BY <1>3, <1>4

\* Boot stages the records that were on disk, no more and no less.
LEMMA CrashFiles ==
  ASSUME NEW G, live \in Seq(G), dlq \in Seq(G), staged \in Seq(StagedFile(G)), Crash
  PROVE  /\ staged' \in Seq(StagedFile(G)) /\ DOMAIN staged' = DOMAIN BootFiles
         /\ BootFiles \in Seq(StagedFile(G))
         /\ \A i \in DOMAIN staged' : staged'[i] = File(BootFiles[i].kind, BootFiles[i].records, FALSE)
         /\ UNION {ToSet(staged'[i].records) : i \in DOMAIN staged'} = OnDisk
<1>1. PICK V, a, b, c, d : /\ V = StagedFile(G) /\ a = OfKind("spill") /\ b = NewFile("spill", live)
                           /\ c = OfKind("dlq") /\ d = NewFile("dlq", dlq)
  OBVIOUS
<1>2. /\ a \in Seq(V) /\ ToSet(a) = {f \in ToSet(staged) : f.kind = "spill"}
      /\ c \in Seq(V) /\ ToSet(c) = {f \in ToSet(staged) : f.kind = "dlq"}
  <2>1. staged \in Seq(V) BY <1>1
  <2>2. PICK x, y : x = "spill" /\ y = "dlq" OBVIOUS
  <2>3. a = OfKind(x) /\ c = OfKind(y) BY <1>1, <2>2
  <2>4. a \in Seq(V) /\ ToSet(a) = {f \in ToSet(staged) : f.kind = x} BY <2>1, <2>3, OfKindFacts
  <2>5. c \in Seq(V) /\ ToSet(c) = {f \in ToSet(staged) : f.kind = y} BY <2>1, <2>3, OfKindFacts
  <2> QED BY <2>2, <2>4, <2>5
<1>3. b \in Seq(V) /\ d \in Seq(V) BY <1>1, NewFileFacts
<1>4. /\ ToSet(b) = IF live = <<>> THEN {} ELSE {File("spill", live, FALSE)}
      /\ ToSet(d) = IF dlq = <<>> THEN {} ELSE {File("dlq", dlq, FALSE)}
  BY <1>1, NewFileFacts
<1>5. PICK files : files = BootFiles OBVIOUS
<1>6. files = a \o b \o c \o d BY <1>1, <1>5 DEF BootFiles
<1>7. files \in Seq(V) /\ ToSet(files) = ToSet(a) \cup ToSet(b) \cup ToSet(c) \cup ToSet(d)
  <2>1. PICK e : e = a \o b OBVIOUS
  <2>2. e \in Seq(V) /\ ToSet(e) = ToSet(a) \cup ToSet(b) BY <1>2, <1>3, <2>1, SetOfConcat
  <2>3. PICK g : g = e \o c OBVIOUS
  <2>4. g \in Seq(V) /\ ToSet(g) = ToSet(e) \cup ToSet(c) BY <1>2, <2>2, <2>3, SetOfConcat
  <2>5. files = g \o d BY <1>6, <2>1, <2>3
  <2>6. files \in Seq(V) /\ ToSet(files) = ToSet(g) \cup ToSet(d) BY <1>3, <2>4, <2>5, SetOfConcat
  <2> QED BY <2>2, <2>4, <2>6
<1>8. staged' = [i \in DOMAIN files |-> File(files[i].kind, files[i].records, FALSE)]
  BY <1>5, Zenon DEF Crash, BootFiles, OfKind, NewFile
<1>9. DOMAIN staged' = DOMAIN files /\ \A i \in DOMAIN files : staged'[i] = File(files[i].kind, files[i].records, FALSE)
  BY <1>8
<1>10. ASSUME NEW i \in DOMAIN files PROVE staged'[i] \in V /\ staged'[i].records = files[i].records
  <2>1. files[i] \in V BY <1>7
  <2>2. PICK k, rs : k = files[i].kind /\ rs = files[i].records OBVIOUS
  <2>3. k \in {"spill", "dlq"} /\ rs \in Seq(G) BY <1>1, <2>1, <2>2 DEF StagedFile
  <2>4. File(k, rs, FALSE) \in V /\ File(k, rs, FALSE).records = rs BY <1>1, <2>3, FileFacts DEF File
  <2> QED BY <1>9, <2>2, <2>4
<1>11. staged' \in Seq(V)
  <2>1. Len(files) \in Nat /\ DOMAIN files = 1..Len(files) BY <1>7
  <2>2. staged' \in [1..Len(files) -> V] BY <1>8, <1>10, <2>1
  <2> QED BY <2>1, <2>2
<1>12. ASSUME NEW s, s \in OnDisk PROVE \E i \in DOMAIN staged' : s \in ToSet(staged'[i].records)
  <2>1. SUFFICES \E f \in ToSet(files) : s \in ToSet(f.records)
    <3>1. PICK f \in ToSet(files) : s \in ToSet(f.records) BY <2>1
    <3>2. PICK i \in DOMAIN files : files[i] = f BY DEF ToSet
    <3> QED BY <1>9, <1>10, <3>1, <3>2
  <2>2. CASE s \in ToSet(live)
    <3>1. live # <<>> BY <2>2, SetOfSeq
    <3>2. File("spill", live, FALSE) \in ToSet(files) BY <1>4, <1>7, <3>1
    <3>3. File("spill", live, FALSE).records = live BY DEF File
    <3> QED BY <2>2, <3>2, <3>3
  <2>3. CASE s \in ToSet(dlq)
    <3>1. dlq # <<>> BY <2>3, SetOfSeq
    <3>2. File("dlq", dlq, FALSE) \in ToSet(files) BY <1>4, <1>7, <3>1
    <3>3. File("dlq", dlq, FALSE).records = dlq BY DEF File
    <3> QED BY <2>3, <3>2, <3>3
  <2>4. ASSUME NEW i \in DOMAIN staged, s \in ToSet(staged[i].records) PROVE \E f \in ToSet(files) : s \in ToSet(f.records)
    <3>1. staged[i] \in ToSet(staged) BY DEF ToSet
    <3>2. staged[i].kind \in {"spill", "dlq"} BY DEF StagedFile
    <3>3. staged[i] \in ToSet(files) BY <1>2, <1>7, <3>1, <3>2
    <3> QED BY <2>4, <3>3
  <2> QED BY <1>12, <2>2, <2>3, <2>4 DEF OnDisk
<1>13. ASSUME NEW i \in DOMAIN files, NEW s \in ToSet(files[i].records) PROVE s \in OnDisk
  <2>1. files[i] \in ToSet(files) BY DEF ToSet
  <2>2. CASE files[i] \in ToSet(staged)
    <3>1. PICK j \in DOMAIN staged : staged[j] = files[i] BY <2>2 DEF ToSet
    <3> QED BY <3>1 DEF OnDisk
  <2>3. CASE files[i] = File("spill", live, FALSE)
    <3>1. files[i].records = live BY <2>3 DEF File
    <3> QED BY <3>1 DEF OnDisk
  <2>4. CASE files[i] = File("dlq", dlq, FALSE)
    <3>1. files[i].records = dlq BY <2>4 DEF File
    <3> QED BY <3>1 DEF OnDisk
  <2>5. \/ files[i] \in ToSet(staged) \/ files[i] = File("spill", live, FALSE) \/ files[i] = File("dlq", dlq, FALSE)
    BY <1>2, <1>4, <1>7, <2>1
  <2> QED BY <2>2, <2>3, <2>4, <2>5
<1>14. UNION {ToSet(staged'[i].records) : i \in DOMAIN staged'} = OnDisk BY <1>9, <1>10, <1>12, <1>13
<1> QED BY <1>1, <1>5, <1>7, <1>9, <1>11, <1>14

LEMMA BaseCrash ==
  ASSUME Base, Crash
  PROVE  Base'
<1>1. PICK G, none : G = SealsUpTo(sealed) /\ none = <<>> OBVIOUS
<1>2. none \in Seq(G) /\ Ascending(none) /\ ToSet(none) = {} /\ Len(none) = 0 BY <1>1, SetOfSeq DEF Ascending
<1>3. live \in Seq(G) /\ dlq \in Seq(G) /\ staged \in Seq(StagedFile(G)) BY <1>1 DEF Base, Records
<1>4. staged' \in Seq(StagedFile(G)) BY <1>3, CrashFiles
<1>5. Records' BY <1>1, <1>2, <1>4 DEF Records, Crash
<1>6. todo' = [t \in Threads |-> none] /\ dead' = [t \in Threads |-> none] BY <1>1 DEF Crash
<1>7. todo' \in [Threads -> Seq(G)] /\ dead' \in [Threads -> Seq(G)] BY <1>2, <1>6
<1>8. InMemory' BY <1>1, <1>2, <1>7 DEF Base, InMemory, Crash
<1>9. Counters'
  <2>1. todo'["escalation"] = none /\ dead'["escalation"] = none BY <1>6 DEF Threads
  <2>2. run_len' = 0 /\ escalation_finished' = 0 /\ escalation_pending' = 0 /\ queue' = none BY <1>1 DEF Crash
  <2> QED BY <1>1, <1>2, <2>1, <2>2 DEF Counters
<1>10. Threaded' BY <1>1, <1>6 DEF Threaded, Threads, Crash
<1>11. InOrder' BY <1>1, <1>2 DEF InOrder, Precede, Crash
<1>12. Indexed' /\ InWriter' BY DEF Indexed, InWriter, Crash
<1>13. Tables'
  <2>1. boot' = [written |-> summary, committed |-> summary, next |-> 1, left |-> FALSE] BY DEF Crash
  <2>2. boot' \in [written : [Bars -> Copy], committed : [Bars -> Copy], next : Nat, left : BOOLEAN]
    BY <2>1 DEF Base, Tables
  <2> QED BY <2>2 DEF Base, Tables, Crash
<1> QED BY <1>5, <1>8, <1>9, <1>10, <1>11, <1>12, <1>13 DEF Base

LEMMA NothingIsTable == NothingWritten \in [Bars -> Copy] /\ \A b \in Bars : NothingWritten[b] = 0
<1>1. 0 \in Copy BY LargerFacts DEF Copy
<1> QED BY <1>1 DEF NothingWritten

LEMMA DrainTables ==
  ASSUME Base, NEW seals \in Seq(SealsUpTo(sealed)), NEW new, new = DrainInto(db, seals),
         NEW written, written = DrainInto(boot.written, seals)
  PROVE  new \in [Bars -> Copy] /\ (\A b \in Bars : new[b] <= sealed[b]) /\ written \in [Bars -> Copy]
<1>1. PICK G : G = SealsUpTo(sealed) OBVIOUS
<1>2. G \subseteq Seal /\ (\A s \in G : s.copy <= sealed[s.bar]) BY <1>1, SealsUpToFacts DEF Base, Tables
<1>3. seals \in Seq(Seal) BY <1>1, <1>2, SeqMonotone
<1>4. db \in [Bars -> Copy] /\ boot.written \in [Bars -> Copy] /\ \A b \in Bars : db[b] <= sealed[b] BY DEF Base, Tables
<1>5. /\ new \in [Bars -> Copy]
      /\ \A b \in Bars : new[b] = db[b] \/ \E s \in ToSet(seals) : s.bar = b /\ s.copy = new[b]
  BY <1>3, <1>4, DrainFacts
<1>6. written \in [Bars -> Copy] BY <1>3, <1>4, DrainFacts
<1>7. ToSet(seals) \subseteq G BY <1>1, SetOfSeq
<1>8. \A b \in Bars : new[b] <= sealed[b] BY <1>2, <1>4, <1>5, <1>7
<1> QED BY <1>5, <1>6, <1>8

\* A step of the boot drain: tables and files, the rest stays.
BootLeaves == UNCHANGED <<lineage, memory, epoch, staged_through, live, dlq, summary, crashes, scenario, lost>>

BootRecord == [written : [Bars -> Copy], committed : [Bars -> Copy], next : Nat, left : BOOLEAN]

LEMMA BaseOfBoot ==
  ASSUME Base, writer.at = "boot", writer' = writer, BootLeaves, boot' \in BootRecord,
         db' \in [Bars -> Copy], \A b \in Bars : db'[b] <= sealed[b], staged' \in Seq(StagedFile(SealsUpTo(sealed)))
  PROVE  Base'
<1>1. Records' BY DEF Base, Records, BootLeaves, lineage
<1>2. InWriter' BY DEF InWriter
<1>3. Tables' BY DEF Base, Tables, BootLeaves, BootRecord, lineage, course
<1>4. InMemory' /\ Counters' BY DEF Base, InMemory, Counters, BootLeaves, lineage, memory
<1>5. Threaded' BY DEF Base, Threaded, BootLeaves, memory
<1>6. Indexed' /\ InOrder' BY DEF Base, Indexed, InOrder, BootLeaves, memory
<1> QED BY <1>1, <1>2, <1>3, <1>4, <1>5, <1>6 DEF Base

Accepted(refused) == Among(BootFile.records, {s \in ToSet(BootFile.records) : s.bar \notin refused})

LEMMA AcceptedFacts ==
  ASSUME NEW G, staged \in Seq(StagedFile(G)), boot.next \in DOMAIN staged, NEW refused, NEW a, a = Accepted(refused)
  PROVE  a \in Seq(G) /\ ToSet(a) = {s \in ToSet(BootFile.records) : s.bar \notin refused} /\ BootFile.records \in Seq(G)
<1>1. BootFile \in StagedFile(G) BY DEF BootFile
<1>2. PICK s : s = BootFile.records OBVIOUS
<1>3. s \in Seq(G) BY <1>1, <1>2 DEF StagedFile
<1>4. PICK W : W = {x \in ToSet(s) : x.bar \notin refused} OBVIOUS
<1>5. a = Among(s, W) BY <1>2, <1>4 DEF Accepted
<1>6. a \in Seq(G) /\ ToSet(a) = ToSet(s) \cap W BY <1>3, <1>5, AmongFacts
<1> QED BY <1>2, <1>3, <1>4, <1>6

LEMMA BootFlushedStep ==
  ASSUME NEW refused, BootFlushed(refused), NEW a, a = Accepted(refused), NEW w, w = DrainInto(boot.written, a)
  PROVE  /\ db' = DrainInto(db, a)
         /\ boot' = [written |-> w, committed |-> w, next |-> boot.next + 1, left |-> TRUE]
BY Zenon DEF BootFlushed, Accepted

LEMMA BaseBootFlushed ==
  ASSUME Base, NEW refused, BootFlushed(refused)
  PROVE  Base'
<1>1. PICK G, a : G = SealsUpTo(sealed) /\ a = Accepted(refused) OBVIOUS
<1>2. PICK w, new, i : w = DrainInto(boot.written, a) /\ new = DrainInto(db, a) /\ i = boot.next OBVIOUS
<1>3. writer.at = "boot" /\ writer' = writer /\ i \in DOMAIN staged /\ staged \in Seq(StagedFile(G))
  BY <1>1, <1>2 DEF BootFlushed, Base, Records
<1>4. a \in Seq(G) BY <1>1, <1>2, <1>3, AcceptedFacts
<1>5. new \in [Bars -> Copy] /\ (\A b \in Bars : new[b] <= sealed[b]) /\ w \in [Bars -> Copy]
  BY <1>1, <1>2, <1>4, DrainTables
<1>6. db' = new /\ boot' = [written |-> w, committed |-> w, next |-> boot.next + 1, left |-> TRUE]
  BY <1>1, <1>2, BootFlushedStep
<1>7. boot.next \in Nat BY DEF Base, Tables
<1>8. boot' \in BootRecord BY <1>5, <1>6, <1>7 DEF BootRecord
<1>9. staged' \in Seq(StagedFile(G))
  <2>1. PICK st : st = IF refused = {} THEN "awaiting" ELSE "ready" OBVIOUS
  <2>2. PICK f, V : f = [staged[i] EXCEPT !.state = st] /\ V = StagedFile(G) OBVIOUS
  <2>3. staged[i] \in StagedFile(G) BY <1>3
  <2>4. st \in {"ready", "awaiting", "skipped"} BY <2>1
  <2>5. f \in V BY <2>2, <2>3, <2>4 DEF StagedFile
  <2>6. staged' = [staged EXCEPT ![i].state = st] BY <1>2, <2>1, Zenon DEF BootFlushed
  <2>7. PICK s, z : s = staged /\ z = staged' OBVIOUS
  <2>8. s \in Seq(V) /\ i \in DOMAIN s /\ z = [s EXCEPT ![i] = f] BY <1>3, <2>2, <2>6, <2>7
  <2>9. ChangedAt(V, s, i, f, z) BY <2>5, <2>8, OneChanged
  <2> QED BY <2>2, <2>7, <2>9 DEF ChangedAt
<1>10. BootLeaves BY DEF BootLeaves, BootFlushed, index, ghosts
<1> QED BY <1>1, <1>3, <1>5, <1>6, <1>8, <1>9, <1>10, BaseOfBoot

LEMMA BaseBootUnreadable ==
  ASSUME Base, BootUnreadable
  PROVE  Base'
<1>1. writer.at = "boot" /\ writer' = writer /\ BootLeaves BY DEF BootUnreadable, BootLeaves, index, disk, ghosts, course
<1>2. boot \in BootRecord /\ boot' = [boot EXCEPT !.next = @ + 1, !.left = TRUE] BY DEF Base, Tables, BootRecord, BootUnreadable
<1>3. boot' \in BootRecord
  <2>1. PICK n, T : n = boot.next + 1 /\ T = [Bars -> Copy] OBVIOUS
  <2>2. n \in Nat BY <1>2, <2>1 DEF BootRecord
  <2>3. boot' = [boot EXCEPT !.next = n, !.left = TRUE] BY <1>2, <2>1
  <2> QED BY <1>2, <2>1, <2>2, <2>3 DEF BootRecord
<1>4. db' \in [Bars -> Copy] /\ \A b \in Bars : db'[b] <= sealed[b] BY DEF Base, Tables, BootUnreadable
<1>5. staged' \in Seq(StagedFile(SealsUpTo(sealed))) BY DEF Base, Records, BootUnreadable, disk
<1> QED BY <1>1, <1>3, <1>4, <1>5, BaseOfBoot

LEMMA BaseBootHalts ==
  ASSUME Base, NEW n \in Nat, BootHalts(n)
  PROVE  Base'
<1>1. PICK G, s, a, z : G = SealsUpTo(sealed) /\ s = BootFile.records /\ a = SubSeq(s, 1, n) /\ z = SubSeq(s, n + 1, Len(s))
  OBVIOUS
<1>2. PICK w, new, k : w = DrainInto(boot.written, a) /\ new = DrainInto(db, a) /\ k = Len(staged) + 1 OBVIOUS
<1>3. writer.at = "boot" /\ writer' = writer /\ boot.next \in DOMAIN staged /\ staged \in Seq(StagedFile(G))
      /\ n \in 0..Len(s)
  BY <1>1 DEF BootHalts, Base, Records
<1>4. BootFile \in StagedFile(G) BY <1>3 DEF BootFile
<1>5. s \in Seq(G) BY <1>1, <1>4 DEF StagedFile
<1>6. SplitAt(G, s, n, a, z) BY <1>1, <1>3, <1>5, SetOfParts
<1>7. a \in Seq(G) BY <1>6 DEF SplitAt
<1>8. new \in [Bars -> Copy] /\ (\A b \in Bars : new[b] <= sealed[b]) /\ w \in [Bars -> Copy]
  BY <1>1, <1>2, <1>7, DrainTables
<1>9. db' = new /\ boot' = [written |-> w, committed |-> w, next |-> k, left |-> TRUE]
  BY <1>1, <1>2, Zenon DEF BootHalts
<1>10. k \in Nat BY <1>2, <1>3
<1>11. boot' \in BootRecord BY <1>8, <1>9, <1>10 DEF BootRecord
<1>12. BootLeaves BY DEF BootLeaves, BootHalts, index, ghosts, disk, course
<1>13. staged' \in Seq(StagedFile(G)) BY <1>3 DEF BootHalts, disk
<1> QED BY <1>1, <1>3, <1>8, <1>9, <1>11, <1>12, <1>13, BaseOfBoot

LEMMA BaseBootEnds ==
  ASSUME Base, BootEnds
  PROVE  Base'
<1>1. writer.at = "boot" /\ writer'.at = "idle" BY DEF BootEnds, Idle
<1>2. boot' = [written |-> NothingWritten, committed |-> NothingWritten, next |-> 1, left |-> FALSE] BY DEF BootEnds
<1>3. boot' \in BootRecord BY <1>2, NothingIsTable DEF BootRecord
<1>4. summary' = boot.committed \/ summary' = NothingWritten BY DEF BootEnds
<1>5. summary' \in [Bars -> Copy] BY <1>4, NothingIsTable DEF Base, Tables
<1>6. Tables' BY <1>3, <1>5 DEF Base, Tables, BootRecord, BootEnds, lineage, course
<1>7. InWriter' BY <1>1 DEF InWriter
<1>8. Threaded' BY <1>1 DEF Base, Threaded, BootEnds, memory
<1>9. InMemory' /\ Counters' BY DEF Base, InMemory, Counters, BootEnds, lineage, memory, ghosts
<1>10. Records' /\ Indexed' /\ InOrder' BY DEF Base, Records, Indexed, InOrder, BootEnds, lineage, memory, index
<1> QED BY <1>6, <1>7, <1>8, <1>9, <1>10 DEF Base

-----------------------------------------------------------------------------
(* What the database and the disk have had only grows; the claims about it *)
(* and the copies on their way follow.                                     *)

Grows == Reached' /\ \A b \in Bars : best[b] <= best'[b]

LEMMA GrowsStep ==
  ASSUME SpillInv, Base', BestUpdated, lineage' = lineage
  PROVE  Grows
<1>1. \A b \in Bars : sealed[b] \in Nat BY SealFacts DEF SpillInv, Base, Tables
<1>2. \A b \in Bars : sealed[b] <= sealed'[b] BY <1>1 DEF lineage
<1>3. Reached /\ Tables /\ Tables' /\ Records' BY DEF SpillInv, Base
<1> QED BY <1>2, <1>3, BestStep DEF Grows

LEMMA GrowsFacts ==
  ASSUME Reached, Grows
  PROVE  /\ best \in [Bars -> Copy] /\ best' \in [Bars -> Copy]
         /\ \A b \in Bars : best[b] \in Nat /\ best'[b] \in Nat /\ best[b] <= best'[b]
         /\ \A s \in Seal : s.copy <= best[s.bar] => s.copy <= best'[s.bar]
<1>1. best \in [Bars -> Copy] /\ best' \in [Bars -> Copy] BY DEF Reached, Grows
<1>2. \A b \in Bars : best[b] \in Nat /\ best'[b] \in Nat /\ best[b] <= best'[b] BY <1>1, SealFacts DEF Grows
<1>3. ASSUME NEW s \in Seal, s.copy <= best[s.bar] PROVE s.copy <= best'[s.bar]
  <2>1. s.bar \in Bars /\ s.copy \in Nat BY SealFacts
  <2> QED BY <1>2, <1>3, <2>1
<1> QED BY <1>1, <1>2, <1>3

LEMMA LedgerGrows ==
  ASSUME Reached, Grows, NEW l, IsLedger(l), AtMost(l, best)
  PROVE  AtMost(l, best')
<1>1. ASSUME NEW b \in DOMAIN l.bars PROVE fullest(l.bars[b]) <= best'[b]
  <2>1. b \in Bars /\ l.bars[b] \in SealEntry BY DEF IsLedger
  <2>2. best[b] \in Nat /\ best'[b] \in Nat /\ best[b] <= best'[b] BY <2>1, GrowsFacts
  <2>3. fullest(l.bars[b]) \in Nat BY <2>1, LargerFacts, SealFacts DEF fullest, SealEntry
  <2> QED BY <2>2, <2>3 DEF AtMost
<1> QED BY <1>1 DEF AtMost

Busy == {"committed", "noting", "replayed"}

\* Nothing new is claimed.
LEMMA ClaimsKept ==
  ASSUME SpillInv, Grows, IsLedger(ledger'), AtMost(ledger', best'),
         \A t \in unnoted' : t \in unnoted /\ Head(dead'[t]) = Head(dead[t]),
         writer'.at \in Busy => writer.at \in Busy /\ writer'.batch = writer.batch
  PROVE  Claims'
<1>1. Base /\ Reached /\ Claims BY DEF SpillInv
<1>2. PICK G : G = SealsUpTo(sealed) OBVIOUS
<1>3. G \subseteq Seal BY <1>1, <1>2, SealsUpToFacts DEF Base, Tables
<1>4. \A s \in Seal : s.copy <= best[s.bar] => s.copy <= best'[s.bar] BY <1>1, GrowsFacts
<1>5. ASSUME NEW t \in unnoted' PROVE Head(dead'[t]).copy <= best'[Head(dead'[t]).bar]
  <2>1. t \in unnoted /\ t \in Threads /\ dead[t] # <<>> BY <1>1, <1>5 DEF Base, Threaded
  <2>2. dead[t] \in Seq(G) BY <1>1, <1>2, <2>1 DEF Base, InMemory
  <2>3. Head(dead[t]) \in G BY <2>1, <2>2
  <2> QED BY <1>1, <1>3, <1>4, <2>1, <2>3 DEF Claims
<1>6. ASSUME writer'.at \in Busy PROVE \A s \in ToSet(writer'.batch) : s.copy <= best'[s.bar]
  <2>1. writer.batch \in Seq(G) /\ \A s \in ToSet(writer.batch) : s.copy <= best[s.bar]
    BY <1>1, <1>2, <1>6 DEF Base, InWriter, Claims, Busy
  <2>2. ToSet(writer.batch) \subseteq G BY <2>1, SetOfSeq
  <2> QED BY <1>3, <1>4, <1>6, <2>1, <2>2
<1> QED BY <1>5, <1>6 DEF Claims, Busy

\* The seals somebody holds.
LEMMA HeldFacts ==
  ASSUME Base
  PROVE  Held \subseteq SealsUpTo(sealed)
<1>1. PICK G : G = SealsUpTo(sealed) OBVIOUS
<1>2. ToSet(channel) \subseteq G /\ ToSet(ring) \subseteq G /\ ToSet(queue) \subseteq G
  BY <1>1, SetOfSeq DEF Base, InMemory
<1>3. \A t \in Threads : todo[t] \in Seq(G) /\ dead[t] \in Seq(G) BY <1>1 DEF Base, InMemory
<1>4. \A t \in Threads : ToSet(todo[t]) \subseteq G /\ ToSet(dead[t]) \subseteq G BY <1>3, SetOfSeq
<1> QED BY <1>1, <1>2, <1>4 DEF Held

\* Nothing vanishes when the seals that are no longer held have been reached or counted.
LEMMA NothingLeft ==
  ASSUME SpillInv, Grows, lineage' = lineage, lost \subseteq lost',
         \A s \in Held : s \in Held' \cup lost' \/ s.copy <= best'[s.bar]
  PROVE  NothingVanishes'
<1>1. Reached /\ NothingVanishes /\ sealed \in [Bars -> Copy] BY DEF SpillInv, Base, Tables
<1>2. SUFFICES ASSUME NEW b \in Bars \ retired, NEW c \in 1..sealed[b]
               PROVE  c <= best'[b] \/ [bar |-> b, copy |-> c] \in Held' \cup lost'
  BY DEF NothingVanishes, lineage
<1>3. c <= best[b] \/ [bar |-> b, copy |-> c] \in Held \cup lost BY <1>1 DEF NothingVanishes
<1>4. best[b] \in Nat /\ best'[b] \in Nat /\ best[b] <= best'[b] BY <1>1, GrowsFacts
<1>5. sealed[b] \in Nat BY <1>1, SealFacts
<1>6. c \in Nat BY <1>5
<1>7. CASE c <= best[b] BY <1>4, <1>6, <1>7
<1>8. PICK s : s = [bar |-> b, copy |-> c] OBVIOUS
<1>9. s.bar = b /\ s.copy = c BY <1>8
<1>10. CASE s \in lost BY <1>8, <1>10
<1>11. CASE s \in Held BY <1>8, <1>9, <1>11
<1> QED BY <1>3, <1>7, <1>8, <1>10, <1>11

\* A step that keeps what is held and claims nothing new.
LEMMA Uneventful ==
  ASSUME SpillInv, Base', BestUpdated, lineage' = lineage, IsLedger(ledger'), AtMost(ledger', best),
         \A t \in unnoted' : t \in unnoted /\ Head(dead'[t]) = Head(dead[t]),
         writer'.at \in Busy => writer.at \in Busy /\ writer'.batch = writer.batch,
         Held \subseteq Held' \cup lost', lost \subseteq lost'
  PROVE  SpillInv'
<1>1. Grows BY GrowsStep
<1>2. AtMost(ledger', best') BY <1>1, LedgerGrows DEF SpillInv
<1>3. Claims' BY <1>1, <1>2, ClaimsKept
<1>4. NothingVanishes' BY <1>1, NothingLeft
<1> QED BY <1>1, <1>3, <1>4 DEF SpillInv, Grows

-----------------------------------------------------------------------------
(* The invariant, action by action.                                        *)

\* The ledger as it is claims nothing new.
LEMMA LedgerSame ==
  ASSUME SpillInv, ledger' = ledger
  PROVE  IsLedger(ledger') /\ AtMost(ledger', best)
BY DEF SpillInv, Claims

\* Sealing: one more copy, and somebody holds it.
LEMMA StepProduced ==
  ASSUME SpillInv, Base', BestUpdated, NEW b \in Bars, Produce(b), NextSeal(b) \in Held', Held \subseteq Held',
         UNCHANGED <<ledger, writer, retired, unnoted, dead, lost>>
  PROVE  SpillInv'
<1>1. PICK G, H, s : G = SealsUpTo(sealed) /\ H = SealsUpTo(sealed') /\ s = NextSeal(b) OBVIOUS
<1>2. /\ sealed'[b] = sealed[b] + 1 /\ \A x \in Bars : x # b => sealed'[x] = sealed[x]
      /\ \A x \in Bars : sealed[x] <= sealed'[x] /\ sealed[x] \in Nat
      /\ s.bar = b /\ s.copy = sealed[b] + 1
  BY <1>1, Produced DEF SpillInv
<1>3. Reached /\ Tables /\ Tables' /\ Records' BY DEF SpillInv, Base
<1>4. Grows BY <1>2, <1>3, BestStep DEF Grows
<1>5. Claims'
  <2>1. IsLedger(ledger') /\ AtMost(ledger', best) BY LedgerSame
  <2>2. AtMost(ledger', best') BY <1>3, <1>4, <2>1, LedgerGrows
  <2> QED BY <1>4, <2>1, <2>2, ClaimsKept
<1>6. NothingVanishes'
  <2>1. SUFFICES ASSUME NEW x \in Bars \ retired, NEW c \in 1..sealed'[x]
                 PROVE  c <= best'[x] \/ [bar |-> x, copy |-> c] \in Held' \cup lost'
    BY DEF NothingVanishes
  <2>2. CASE x = b /\ c = sealed[b] + 1
    <3>1. [bar |-> x, copy |-> c] = s BY <1>1, <2>2 DEF NextSeal
    <3> QED BY <1>1, <3>1
  <2>3. CASE c \in 1..sealed[x]
    <3>1. c <= best[x] \/ [bar |-> x, copy |-> c] \in Held \cup lost BY <2>3 DEF SpillInv, NothingVanishes
    <3>2. best[x] \in Nat /\ best'[x] \in Nat /\ best[x] <= best'[x] BY <1>3, <1>4, GrowsFacts
    <3>3. sealed[x] \in Nat BY <1>2
    <3>4. c \in Nat BY <2>3, <3>3
    <3>5. c <= best[x] => c <= best'[x] BY <3>2, <3>4
    <3> QED BY <3>1, <3>5
  <2>4. c \in 1..sealed[x] \/ (x = b /\ c = sealed[b] + 1) BY <1>2
  <2> QED BY <2>2, <2>3, <2>4
<1> QED BY <1>4, <1>5, <1>6 DEF SpillInv, Grows

LEMMA StepSendToWriter ==
  ASSUME SpillInv, NEW b \in Bars, SendToWriter(b), BestUpdated
  PROVE  SpillInv'
<1>1. Base' BY BaseSendToWriter DEF SpillInv
<1>2. PICK G : G = SealsUpTo(sealed) OBVIOUS
<1>3. channel \in Seq(G) BY <1>2 DEF SpillInv, Base, InMemory
<1>4. ToSet(channel') = ToSet(channel) \cup {NextSeal(b)} BY <1>3, SetOfAppend DEF SendToWriter
<1>5. NextSeal(b) \in Held' /\ Held \subseteq Held' BY <1>4 DEF Held, SendToWriter
<1> QED BY <1>1, <1>5, StepProduced DEF SendToWriter, index, ghosts

LEMMA StepEscalateQueued ==
  ASSUME SpillInv, NEW b \in Bars, EscalateQueued(b), BestUpdated
  PROVE  SpillInv'
<1>1. Base' BY BaseEscalateQueued DEF SpillInv
<1>2. PICK G : G = SealsUpTo(sealed) OBVIOUS
<1>3. queue \in Seq(G) BY <1>2 DEF SpillInv, Base, InMemory
<1>4. ToSet(queue') = ToSet(queue) \cup {NextSeal(b)} BY <1>3, SetOfAppend DEF EscalateQueued
<1>5. NextSeal(b) \in Held' /\ Held \subseteq Held' BY <1>4 DEF Held, EscalateQueued
<1> QED BY <1>1, <1>5, StepProduced DEF EscalateQueued, index, ghosts

LEMMA StepEscalateInline ==
  ASSUME SpillInv, NEW b \in Bars, EscalateInline(b), BestUpdated
  PROVE  SpillInv'
<1>1. Base' BY BaseEscalateInline DEF SpillInv
<1>2. PICK G, s : G = SealsUpTo(sealed) /\ s = NextSeal(b) OBVIOUS
<1>3. todo \in [Threads -> Seq(G)] /\ todo["producer"] = <<>>
  BY <1>2 DEF SpillInv, Base, InMemory, EscalateInline, Produce, Empty
<1>4. todo' = [todo EXCEPT !["producer"] = <<s>>] BY <1>2 DEF EscalateInline, WithTodo
<1>5. todo'["producer"] = <<s>> /\ \A t \in Threads : t # "producer" => todo'[t] = todo[t]
  BY <1>3, <1>4 DEF Threads
<1>6. ToSet(<<s>>) = {s} /\ ToSet(<<>>) = {} BY SetOfSeq
<1>7. "producer" \in Threads BY DEF Threads
<1>8. s \in Held' BY <1>5, <1>6, <1>7 DEF Held
<1>9. \A t \in Threads : ToSet(todo[t]) \subseteq ToSet(todo'[t]) BY <1>3, <1>5, <1>6
<1>10. Held \subseteq Held' BY <1>9 DEF Held, EscalateInline
<1> QED BY <1>1, <1>2, <1>8, <1>10, StepProduced DEF EscalateInline, index, ghosts

LEMMA StepTakeRun ==
  ASSUME SpillInv, NEW n \in 1..Len(queue), TakeRun(n), BestUpdated
  PROVE  SpillInv'
<1>1. Base' BY BaseTakeRun DEF SpillInv
<1>2. PICK G, a, z : G = SealsUpTo(sealed) /\ a = SubSeq(queue, 1, n) /\ z = SubSeq(queue, n + 1, Len(queue)) OBVIOUS
<1>3. queue \in Seq(G) /\ todo \in [Threads -> Seq(G)] BY <1>2 DEF SpillInv, Base, InMemory
<1>4. n \in 0..Len(queue) BY <1>3
<1>5. SplitAt(G, queue, n, a, z) BY <1>2, <1>3, <1>4, SetOfParts
<1>6. ToSet(queue) = ToSet(a) \cup ToSet(z) BY <1>5 DEF SplitAt
<1>7. todo' = [todo EXCEPT !["escalation"] = a] /\ queue' = z BY <1>2 DEF TakeRun, WithTodo
<1>8. todo["escalation"] = <<>> /\ ToSet(<<>>) = {} BY SetOfSeq DEF SpillInv, Base, Counters, TakeRun
<1>9. "escalation" \in Threads /\ todo'["escalation"] = a /\ \A t \in Threads : t # "escalation" => todo'[t] = todo[t]
  BY <1>3, <1>7 DEF Threads
<1>10. \A t \in Threads : ToSet(todo[t]) \subseteq ToSet(todo'[t]) BY <1>8, <1>9
<1>11. ToSet(a) \subseteq Held' BY <1>9 DEF Held
<1>12. Held \subseteq Held'
  <2>1. channel' = channel /\ ring' = ring /\ dead' = dead BY DEF TakeRun
  <2>2. ToSet(queue) \subseteq Held'
    <3>1. ToSet(z) \subseteq Held' BY <1>7 DEF Held
    <3> QED BY <1>6, <1>11, <3>1
  <2> QED BY <1>10, <2>1, <2>2 DEF Held
<1>13. IsLedger(ledger') /\ AtMost(ledger', best) BY LedgerSame DEF TakeRun, index
<1> QED BY <1>1, <1>12, <1>13, Uneventful DEF TakeRun, ghosts

LEMMA StepFinishRun ==
  ASSUME SpillInv, FinishRun, BestUpdated
  PROVE  SpillInv'
<1>1. Base' BY BaseFinishRun DEF SpillInv
<1>2. Held \subseteq Held' BY DEF Held, FinishRun
<1>3. IsLedger(ledger') /\ AtMost(ledger', best) BY LedgerSame DEF FinishRun, index
<1> QED BY <1>1, <1>2, <1>3, Uneventful DEF FinishRun, ghosts

\* What a run leaves behind when its seals are gone from todo.
LEMMA HeldAfterRun ==
  ASSUME Base, NEW t \in Threads, todo[t] # <<>>, dead[t] = <<>>, todo' = [todo EXCEPT ![t] = AfterRun(t)],
         NEW r, dead' = [dead EXCEPT ![t] = r], UNCHANGED <<channel, ring, queue>>
  PROVE  \A s \in Held : s \in Held' \/ s \in ToSet(Run(t)) \ ToSet(r)
<1>1. PICK G : G = SealsUpTo(sealed) OBVIOUS
<1>2. todo \in [Threads -> Seq(G)] /\ dead \in [Threads -> Seq(G)] BY <1>1 DEF Base, InMemory
<1>3. ToSet(todo[t]) = ToSet(Run(t)) \cup ToSet(AfterRun(t)) BY <1>1, RunFacts
<1>4. /\ todo'[t] = AfterRun(t) /\ dead'[t] = r
      /\ \A x \in Threads : x # t => todo'[x] = todo[x] /\ dead'[x] = dead[x]
  BY <1>2
<1>5. ToSet(<<>>) = {} BY SetOfSeq
<1>6. \A x \in Threads : ToSet(dead[x]) \subseteq ToSet(dead'[x]) BY <1>4, <1>5
<1>7. \A x \in Threads : ToSet(todo[x]) \subseteq ToSet(todo'[x]) \cup ToSet(Run(t)) BY <1>3, <1>4
<1>8. ToSet(r) \subseteq Held' BY <1>4 DEF Held
<1>9. Held \subseteq Held' \cup ToSet(Run(t)) BY <1>6, <1>7 DEF Held
<1> QED BY <1>8, <1>9

\* A copy that was to be appended has reached the disk, or a fuller one had.
LEMMA RunReached ==
  ASSUME SpillInv, Grows, NEW G, G = SealsUpTo(sealed), NEW seals \in Seq(G), ToSet(Included(seals)) \subseteq OnDisk'
  PROVE  \A s \in ToSet(seals) : s.copy <= best'[s.bar]
<1>1. SUFFICES ASSUME NEW s \in ToSet(seals) PROVE s.copy <= best'[s.bar] OBVIOUS
<1>2. s \in G BY SetOfSeq
<1>3. s \in Seal BY <1>2, SealsUpToFacts DEF SpillInv, Base, Tables
<1>4. CASE ~OlderNotWritten(ledger, s)
  <2>1. s \in OnDisk' BY <1>4, IncludedFacts
  <2> QED BY <2>1 DEF Grows, Reached
<1>5. CASE OlderNotWritten(ledger, s)
  <2>1. Tracked(ledger, s.bar) /\ s.copy < fullest(ledger.bars[s.bar]) BY <1>5 DEF OlderNotWritten
  <2>2. IsLedger(ledger) /\ fullest(ledger.bars[s.bar]) <= best[s.bar] BY <2>1 DEF SpillInv, Claims, AtMost, Tracked
  <2>3. ledger.bars[s.bar] \in SealEntry BY <2>1, <2>2 DEF IsLedger, Tracked
  <2>4. fullest(ledger.bars[s.bar]) \in Nat BY <2>3, LargerFacts, SealFacts DEF fullest, SealEntry
  <2>5. s.copy \in Nat /\ s.bar \in Bars BY <1>3, SealFacts
  <2>6. best[s.bar] \in Nat /\ best'[s.bar] \in Nat /\ best[s.bar] <= best'[s.bar] BY <2>5, GrowsFacts DEF SpillInv
  <2> QED BY <2>1, <2>2, <2>4, <2>5, <2>6
<1> QED BY <1>4, <1>5

LEMMA SpilledClaims ==
  ASSUME SpillInv, Grows, NEW G, G = SealsUpTo(sealed), NEW seals \in Seq(G), ToSet(Included(seals)) \subseteq OnDisk',
         ledger' = Spilled(seals).l
  PROVE  IsLedger(ledger') /\ AtMost(ledger', best')
<1>1. G \subseteq Seal BY SealsUpToFacts DEF SpillInv, Base, Tables
<1>2. seals \in Seq(Seal) BY <1>1, SeqMonotone
<1>3. \A s \in ToSet(seals) : s.copy <= best'[s.bar] BY RunReached
<1>4. PICK top : top = best' OBVIOUS
<1>5. top \in [Bars -> Copy] BY <1>4, GrowsFacts DEF SpillInv
<1>6. IsLedger(ledger) /\ AtMost(ledger, top) BY <1>4, LedgerGrows DEF SpillInv, Claims
<1>7. epoch \in Nat /\ QueueMark \in Nat BY MarkIsNat DEF SpillInv, Base, Indexed
<1>8. \A s \in ToSet(seals) : s.copy <= top[s.bar] BY <1>3, <1>4
<1>9. IsLedger(Spilled(seals).l) /\ AtMost(Spilled(seals).l, top) BY <1>2, <1>5, <1>6, <1>7, <1>8, SpilledAtMost
<1> QED BY <1>4, <1>9

\* The seals of a run leave todo: some landed and are noted, the rest is dead.
LEMMA StepOfRun ==
  ASSUME SpillInv, Base', BestUpdated, NEW t \in Threads, todo[t] # <<>>, dead[t] = <<>>,
         NEW G, G = SealsUpTo(sealed), NEW k \in Seq(G), NEW r, ToSet(k) \cup ToSet(r) = ToSet(Run(t)),
         todo' = [todo EXCEPT ![t] = AfterRun(t)], dead' = [dead EXCEPT ![t] = r],
         live' = live \o Included(k), ledger' = Spilled(k).l,
         UNCHANGED <<lineage, channel, ring, queue, unnoted, writer, lost>>
  PROVE  SpillInv'
<1>1. Grows BY GrowsStep
<1>2. live \in Seq(G) /\ Included(k) \in Seq(G) BY IncludedFacts DEF SpillInv, Base, Records
<1>3. PICK a : a = Included(k) OBVIOUS
<1>4. ToSet(live') = ToSet(live) \cup ToSet(a) BY <1>2, <1>3, SetOfConcat
<1>5. ToSet(Included(k)) \subseteq OnDisk' BY <1>3, <1>4 DEF OnDisk
<1>6. IsLedger(ledger') /\ AtMost(ledger', best') BY <1>1, <1>5, SpilledClaims
<1>7. \A s \in ToSet(k) : s.copy <= best'[s.bar] BY <1>1, <1>5, RunReached
<1>8. \A s \in Held : s \in Held' \/ s \in ToSet(Run(t)) \ ToSet(r) BY HeldAfterRun DEF SpillInv
<1>9. NothingVanishes'
  <2>1. \A s \in Held : s \in Held' \cup lost' \/ s.copy <= best'[s.bar] BY <1>7, <1>8
  <2> QED BY <1>1, <2>1, NothingLeft
<1>10. Claims'
  <2>1. \A x \in unnoted : x \in Threads /\ x # t BY DEF SpillInv, Base, Threaded
  <2>2. dead \in [Threads -> Seq(G)] BY DEF SpillInv, Base, InMemory
  <2>3. \A x \in unnoted : dead'[x] = dead[x] BY <2>1, <2>2
  <2> QED BY <1>1, <1>6, <2>1, <2>3, ClaimsKept
<1> QED BY <1>1, <1>9, <1>10 DEF SpillInv, Grows

LEMMA StepAppendSeals ==
  ASSUME SpillInv, NEW t \in Threads, AppendSeals(t), BestUpdated
  PROVE  SpillInv'
<1>1. Base' BY BaseAppendSeals DEF SpillInv
<1>2. PICK G, k, r : G = SealsUpTo(sealed) /\ k = Run(t) /\ r = <<>> OBVIOUS
<1>3. todo[t] # <<>> /\ dead[t] = <<>> BY DEF AppendSeals, Empty
<1>4. k \in Seq(G) BY <1>2, <1>3, RunFacts DEF SpillInv
<1>5. ToSet(k) \cup ToSet(r) = ToSet(Run(t)) BY <1>2, SetOfSeq
<1>6. todo' = [todo EXCEPT ![t] = AfterRun(t)] /\ live' = live \o Included(k) /\ ledger' = Spilled(k).l
  BY <1>2 DEF AppendSeals, WithTodo
<1>7. dead' = [dead EXCEPT ![t] = r] BY <1>2, <1>3 DEF AppendSeals, SpillInv, Base, InMemory
<1>8. UNCHANGED <<lineage, channel, ring, queue, unnoted, writer, lost>> BY DEF AppendSeals
<1> QED BY <1>1, <1>2, <1>3, <1>4, <1>5, <1>6, <1>7, <1>8, StepOfRun

LEMMA StepAppendFails ==
  ASSUME SpillInv, NEW t \in Threads, NEW n \in Nat, NEW opened \in BOOLEAN, AppendFails(t, n, opened), BestUpdated
  PROVE  SpillInv'
<1>1. Base' BY BaseAppendFails DEF SpillInv
<1>2. PICK G, k : G = SealsUpTo(sealed) /\ k = Kept(Run(t), n) OBVIOUS
<1>3. PICK r : r = SubSeq(Run(t), Len(k) + 1, Len(Run(t))) OBVIOUS
<1>4. k \in Seq(G) /\ ToSet(k) \cup ToSet(r) = ToSet(Run(t)) /\ k = SubSeq(Run(t), 1, n)
  <2>1. Divided(G, Run(t), n, k, r) BY <1>2, <1>3, FailFacts DEF SpillInv
  <2> QED BY <2>1 DEF Divided
<1>5. todo[t] # <<>> /\ dead[t] = <<>> BY DEF AppendFails, Empty
<1>6. /\ todo' = [todo EXCEPT ![t] = AfterRun(t)] /\ dead' = [dead EXCEPT ![t] = r]
      /\ live' = live \o Included(k) /\ ledger' = Spilled(k).l
  BY <1>2, <1>3, <1>4 DEF AppendFails, WithTodo, WithDead
<1>7. UNCHANGED <<lineage, channel, ring, queue, unnoted, writer, lost>> BY DEF AppendFails
<1> QED BY <1>1, <1>2, <1>4, <1>5, <1>6, <1>7, StepOfRun

LEMMA StepBelowFloor ==
  ASSUME SpillInv, NEW t \in Threads, BelowFloor(t), BestUpdated
  PROVE  SpillInv'
<1>1. Base' BY BaseBelowFloor DEF SpillInv
<1>2. PICK r : r = <<>> OBVIOUS
<1>3. todo[t] # <<>> /\ dead[t] = <<>> BY DEF BelowFloor, Empty
<1>4. todo' = [todo EXCEPT ![t] = AfterRun(t)] /\ lost' = lost \cup ToSet(Run(t)) BY DEF BelowFloor, WithTodo
<1>5. dead' = [dead EXCEPT ![t] = r] BY <1>2, <1>3 DEF BelowFloor, SpillInv, Base, InMemory
<1>6. UNCHANGED <<channel, ring, queue>> BY DEF BelowFloor
<1>7. \A s \in Held : s \in Held' \/ s \in ToSet(Run(t)) \ ToSet(r) BY <1>3, <1>4, <1>5, <1>6, HeldAfterRun DEF SpillInv
<1>8. Held \subseteq Held' \cup lost' BY <1>4, <1>7
<1>9. IsLedger(ledger') /\ AtMost(ledger', best) BY LedgerSame DEF BelowFloor, index
<1>10. lineage' = lineage /\ writer' = writer /\ unnoted' = unnoted /\ dead' = dead /\ lost \subseteq lost'
  BY <1>4 DEF BelowFloor
<1> QED BY <1>1, <1>8, <1>9, <1>10, Uneventful

LEMMA StepDeadLetter ==
  ASSUME SpillInv, NEW t \in Threads, DeadLetter(t), BestUpdated
  PROVE  SpillInv'
<1>1. Base' BY BaseDeadLetter DEF SpillInv
<1>2. lineage' = lineage /\ writer' = writer /\ dead' = dead /\ lost' = lost /\ Held' = Held /\ unnoted' = unnoted \cup {t}
  BY DEF DeadLetter, ghosts, Held
<1>3. Grows BY <1>1, <1>2, GrowsStep
<1>4. NothingVanishes' BY <1>2, <1>3, NothingLeft
<1>5. IsLedger(ledger') /\ AtMost(ledger', best) BY LedgerSame DEF DeadLetter, index
<1>6. AtMost(ledger', best') BY <1>3, <1>5, LedgerGrows DEF SpillInv
<1>7. PICK G, s : G = SealsUpTo(sealed) /\ s = Head(dead[t]) OBVIOUS
<1>8. dlq \in Seq(G) /\ dlq' = Append(dlq, s) BY <1>7 DEF SpillInv, Base, Records, DeadLetter
<1>9. s \in ToSet(dlq') BY <1>8, SetOfAppend
<1>10. s \in OnDisk' BY <1>9 DEF OnDisk
<1>11. s.copy <= best'[s.bar] BY <1>3, <1>10 DEF Grows, Reached
<1>12. Claims'
  <2>1. \A s1 \in Seal : s1.copy <= best[s1.bar] => s1.copy <= best'[s1.bar] BY <1>3, GrowsFacts DEF SpillInv
  <2>2. G \subseteq Seal BY <1>7, SealsUpToFacts DEF SpillInv, Base, Tables
  <2>3. ASSUME NEW x \in unnoted PROVE Head(dead[x]).copy <= best'[Head(dead[x]).bar]
    <3>1. x \in Threads /\ dead[x] # <<>> BY DEF SpillInv, Base, Threaded
    <3>2. dead[x] \in Seq(G) BY <1>7, <3>1 DEF SpillInv, Base, InMemory
    <3>3. Head(dead[x]) \in G BY <3>1, <3>2
    <3> QED BY <2>1, <2>2, <3>3 DEF SpillInv, Claims
  <2>4. ASSUME writer.at \in Busy PROVE \A x \in ToSet(writer.batch) : x.copy <= best'[x.bar]
    <3>1. writer.batch \in Seq(G) /\ \A x \in ToSet(writer.batch) : x.copy <= best[x.bar]
      BY <1>7, <2>4 DEF SpillInv, Base, InWriter, Claims, Busy
    <3>2. ToSet(writer.batch) \subseteq G BY <3>1, SetOfSeq
    <3> QED BY <2>1, <2>2, <3>1, <3>2
  <2> QED BY <1>2, <1>5, <1>6, <1>7, <1>11, <2>3, <2>4 DEF Claims, Busy
<1> QED BY <1>1, <1>3, <1>4, <1>12 DEF SpillInv, Grows

\* The first dead seal of a thread is done with: everything else is held as before.
LEMMA HeldAfterDead ==
  ASSUME Base, NEW t \in Threads, dead[t] # <<>>, dead' = [dead EXCEPT ![t] = Tail(dead[t])],
         UNCHANGED <<channel, ring, queue, todo>>
  PROVE  /\ Held \subseteq Held' \cup {Head(dead[t])}
         /\ \A x \in Threads : x # t => dead'[x] = dead[x]
         /\ Head(dead[t]) \in SealsUpTo(sealed)
<1>1. PICK G, s, z : G = SealsUpTo(sealed) /\ s = Head(dead[t]) /\ z = Tail(dead[t]) OBVIOUS
<1>2. dead \in [Threads -> Seq(G)] BY <1>1 DEF Base, InMemory
<1>3. s \in G /\ ToSet(dead[t]) = {s} \cup ToSet(z) BY <1>1, <1>2, SetOfHeadTail
<1>4. dead'[t] = z /\ \A x \in Threads : x # t => dead'[x] = dead[x] BY <1>1, <1>2
<1>5. \A x \in Threads : ToSet(dead[x]) \subseteq ToSet(dead'[x]) \cup {s} BY <1>3, <1>4
<1>6. Held \subseteq Held' \cup {s} BY <1>5 DEF Held
<1> QED BY <1>1, <1>3, <1>4, <1>6

LEMMA StepNoteDeadLettered ==
  ASSUME SpillInv, NEW t \in Threads, NoteDeadLettered(t), BestUpdated
  PROVE  SpillInv'
<1>1. Base' BY BaseNoteDeadLettered DEF SpillInv
<1>2. /\ t \in unnoted /\ lineage' = lineage /\ writer' = writer /\ lost' = lost /\ unnoted' = unnoted \ {t}
      /\ dead' = [dead EXCEPT ![t] = Tail(dead[t])] /\ UNCHANGED <<channel, ring, queue, todo>>
  BY DEF NoteDeadLettered, WithDead
<1>3. Grows BY <1>1, <1>2, GrowsStep
<1>4. dead[t] # <<>> BY <1>2 DEF SpillInv, Base, Threaded
<1>5. PICK s : s = Head(dead[t]) OBVIOUS
<1>6. Held \subseteq Held' \cup {s} /\ (\A x \in Threads : x # t => dead'[x] = dead[x]) /\ s \in SealsUpTo(sealed)
  BY <1>2, <1>4, <1>5, HeldAfterDead DEF SpillInv
<1>7. s.copy <= best[s.bar] BY <1>2, <1>5 DEF SpillInv, Claims
<1>8. s \in Seal BY <1>6 DEF SealsUpTo
<1>9. s.copy <= best'[s.bar] BY <1>3, <1>7, <1>8, GrowsFacts DEF SpillInv
<1>10. NothingVanishes' BY <1>2, <1>3, <1>6, <1>9, NothingLeft
<1>11. PICK yes \in BOOLEAN, no \in BOOLEAN : yes = TRUE /\ no = FALSE OBVIOUS
<1>12. PICK m : m = ledger' OBVIOUS
<1>13. m = record_on_disk(ledger, s, epoch, yes, no, QueueMark) BY <1>5, <1>11, <1>12 DEF NoteDeadLettered
<1>14. epoch \in Nat /\ QueueMark \in Nat BY MarkIsNat DEF SpillInv, Base, Indexed
<1>15. best \in [Bars -> Copy] /\ IsLedger(ledger) /\ AtMost(ledger, best) BY DEF SpillInv, Reached, Claims
<1>16. IsLedger(m) /\ AtMost(m, best) BY <1>7, <1>8, <1>13, <1>14, <1>15, RecordAtMost
<1>17. IsLedger(ledger') /\ AtMost(ledger', best') BY <1>3, <1>12, <1>16, LedgerGrows DEF SpillInv
<1>18. \A x \in unnoted' : x \in unnoted /\ x \in Threads /\ x # t BY <1>2 DEF SpillInv, Base, Threaded
<1>19. Claims' BY <1>2, <1>3, <1>6, <1>17, <1>18, ClaimsKept
<1> QED BY <1>1, <1>3, <1>10, <1>19 DEF SpillInv, Grows

LEMMA StepDeadLetterFails ==
  ASSUME SpillInv, NEW t \in Threads, DeadLetterFails(t), BestUpdated
  PROVE  SpillInv'
<1>1. Base' BY BaseDeadLetterFails DEF SpillInv
<1>2. /\ t \notin unnoted /\ lineage' = lineage /\ writer' = writer /\ unnoted' = unnoted /\ dead[t] # <<>>
      /\ dead' = [dead EXCEPT ![t] = Tail(dead[t])] /\ UNCHANGED <<channel, ring, queue, todo>>
      /\ lost' = lost \cup {Head(dead[t])}
  BY DEF DeadLetterFails, WithDead, Empty
<1>3. PICK s : s = Head(dead[t]) OBVIOUS
<1>4. Held \subseteq Held' \cup {s} /\ \A x \in Threads : x # t => dead'[x] = dead[x]
  BY <1>2, <1>3, HeldAfterDead DEF SpillInv
<1>5. Held \subseteq Held' \cup lost' /\ lost \subseteq lost' BY <1>2, <1>3, <1>4
<1>6. IsLedger(ledger') /\ AtMost(ledger', best) BY LedgerSame DEF DeadLetterFails, index
<1>7. \A x \in unnoted' : x \in unnoted /\ x \in Threads /\ x # t BY <1>2 DEF SpillInv, Base, Threaded
<1> QED BY <1>1, <1>2, <1>4, <1>5, <1>6, <1>7, Uneventful

LEMMA StepTakeChannel ==
  ASSUME SpillInv, TakeChannel, BestUpdated
  PROVE  SpillInv'
<1>1. Base' BY BaseTakeChannel DEF SpillInv
<1>2. PICK G : G = SealsUpTo(sealed) OBVIOUS
<1>3. ring \in Seq(G) /\ channel \in Seq(G) BY <1>2 DEF SpillInv, Base, InMemory
<1>4. ToSet(ring') = ToSet(ring) \cup ToSet(channel) BY <1>3, SetOfConcat DEF TakeChannel
<1>5. queue' = queue /\ todo' = todo /\ dead' = dead BY DEF TakeChannel
<1>6. Held \subseteq Held' BY <1>4, <1>5 DEF Held
<1>7. IsLedger(ledger') /\ AtMost(ledger', best) BY LedgerSame DEF TakeChannel, index
<1>8. lineage' = lineage /\ writer' = writer /\ unnoted' = unnoted /\ lost' = lost BY DEF TakeChannel, ghosts
<1> QED BY <1>1, <1>5, <1>6, <1>7, <1>8, Uneventful

\* The batch of a flush: no copy in it is fuller than the last one of its bar.
LEMMA FlushReached ==
  ASSUME SpillInv, Grows, NEW G, G = SealsUpTo(sealed), NEW a \in Seq(G), Ascending(a), db' = Upsert(db, a)
  PROVE  \A s \in ToSet(a) : s.copy <= best'[s.bar]
<1>1. G \subseteq Seal /\ db \in [Bars -> Copy] BY SealsUpToFacts DEF SpillInv, Base, Tables
<1>2. a \in Seq(Seal) BY <1>1, SeqMonotone
<1>3. PICK new : new = db' OBVIOUS
<1>4. \A b \in BarsOf(a) : \E i \in DOMAIN a : /\ a[i].bar = b /\ new[b] = a[i].copy
                                               /\ \A j \in DOMAIN a : a[j].bar = b => j <= i
  BY <1>1, <1>2, <1>3, UpsertFacts
<1>5. SUFFICES ASSUME NEW k \in DOMAIN a PROVE a[k].copy <= best'[a[k].bar] BY DEF ToSet
<1>6. PICK b : b = a[k].bar OBVIOUS
<1>7. a[k] \in Seal /\ b \in BarsOf(a) /\ b \in Bars BY <1>2, <1>6, BarsAndCopies
<1>8. PICK i \in DOMAIN a : a[i].bar = b /\ new[b] = a[i].copy /\ \A j \in DOMAIN a : a[j].bar = b => j <= i
  BY <1>4, <1>7
<1>9. k <= i /\ k \in Nat /\ i \in Nat BY <1>6, <1>8
<1>10. a[i] \in Seal BY <1>2
<1>11. a[k].copy \in Nat /\ a[i].copy \in Nat BY <1>7, <1>10, SealFacts
<1>12. a[k].copy <= a[i].copy
  <2>1. CASE k = i BY <1>11, <2>1
  <2>2. CASE k < i BY <1>6, <1>8, <1>11, <2>2 DEF Ascending
  <2> QED BY <1>9, <2>1, <2>2
<1>13. new[b] <= best'[b] BY <1>3, <1>7 DEF Grows, Reached
<1>14. best'[b] \in Nat BY <1>7, GrowsFacts DEF SpillInv
<1> QED BY <1>6, <1>8, <1>11, <1>12, <1>13, <1>14

LEMMA StepFlushOk ==
  ASSUME SpillInv, NEW n \in 1..Len(ring), FlushOk(n), BestUpdated
  PROVE  SpillInv'
<1>1. Base' BY BaseFlushOk DEF SpillInv
<1>2. PICK G, a, z : G = SealsUpTo(sealed) /\ a = SubSeq(ring, 1, n) /\ z = SubSeq(ring, n + 1, Len(ring)) OBVIOUS
<1>3. a \in Seq(G) /\ Ascending(a) BY <1>2, RingFacts DEF SpillInv
<1>4. ToSet(a) \cup ToSet(z) = ToSet(ring)
  <2>1. ring \in Seq(G) BY <1>2 DEF SpillInv, Base, InMemory
  <2>2. n \in 0..Len(ring) BY <2>1
  <2>3. SplitAt(G, ring, n, a, z) BY <1>2, <2>1, <2>2, SetOfParts
  <2> QED BY <2>3 DEF SplitAt
<1>5. db' = Upsert(db, a) /\ writer' = [at |-> "committed", batch |-> a] /\ ring' = z BY <1>2 DEF FlushOk
<1>6. /\ lineage' = lineage /\ unnoted' = unnoted /\ lost' = lost /\ dead' = dead
      /\ UNCHANGED <<channel, queue, todo>>
  BY DEF FlushOk, ghosts
<1>7. Grows BY <1>1, <1>6, GrowsStep
<1>8. \A s \in ToSet(a) : s.copy <= best'[s.bar] BY <1>2, <1>3, <1>5, <1>7, FlushReached
<1>9. Held \subseteq Held' \cup ToSet(a) BY <1>4, <1>5, <1>6 DEF Held
<1>10. NothingVanishes' BY <1>6, <1>7, <1>8, <1>9, NothingLeft
<1>11. IsLedger(ledger') /\ AtMost(ledger', best) BY LedgerSame DEF FlushOk, index
<1>12. AtMost(ledger', best') BY <1>7, <1>11, LedgerGrows DEF SpillInv
<1>13. Claims'
  <2>1. ASSUME NEW x \in unnoted PROVE Head(dead[x]).copy <= best'[Head(dead[x]).bar]
    <3>1. x \in Threads /\ dead[x] # <<>> BY DEF SpillInv, Base, Threaded
    <3>2. dead[x] \in Seq(G) BY <1>2, <3>1 DEF SpillInv, Base, InMemory
    <3>3. Head(dead[x]) \in G BY <3>1, <3>2
    <3>4. Head(dead[x]) \in Seal BY <1>2, <3>3 DEF SealsUpTo
    <3> QED BY <1>7, <3>4, GrowsFacts DEF SpillInv, Claims
  <2>2. writer'.batch = a BY <1>5
  <2> QED BY <1>6, <1>8, <1>11, <1>12, <2>1, <2>2 DEF Claims
<1> QED BY <1>1, <1>7, <1>10, <1>13 DEF SpillInv, Grows

LEMMA StepRescue ==
  ASSUME SpillInv, NEW n \in 1..Len(ring), Rescue(n), BestUpdated
  PROVE  SpillInv'
<1>1. Base' BY BaseRescue DEF SpillInv
<1>2. PICK G, a, z : G = SealsUpTo(sealed) /\ a = SubSeq(ring, 1, n) /\ z = SubSeq(ring, n + 1, Len(ring)) OBVIOUS
<1>3. ring \in Seq(G) /\ todo \in [Threads -> Seq(G)] BY <1>2 DEF SpillInv, Base, InMemory
<1>4. ToSet(a) \cup ToSet(z) = ToSet(ring)
  <2>1. n \in 0..Len(ring) BY <1>3
  <2>2. SplitAt(G, ring, n, a, z) BY <1>2, <1>3, <2>1, SetOfParts
  <2> QED BY <2>2 DEF SplitAt
<1>5. /\ todo' = [todo EXCEPT !["writer"] = a] /\ ring' = z /\ writer' = [at |-> "rescuing"]
      /\ writer.at = "idle"
  BY <1>2 DEF Rescue, WithTodo, Idle
<1>6. lineage' = lineage /\ unnoted' = unnoted /\ lost' = lost /\ dead' = dead /\ channel' = channel /\ queue' = queue
  BY DEF Rescue, ghosts
<1>7. todo["writer"] = <<>> /\ ToSet(<<>>) = {} BY <1>5, SetOfSeq DEF SpillInv, Base, Threaded
<1>8. "writer" \in Threads /\ todo'["writer"] = a /\ \A t \in Threads : t # "writer" => todo'[t] = todo[t]
  BY <1>3, <1>5 DEF Threads
<1>9. \A t \in Threads : ToSet(todo[t]) \subseteq ToSet(todo'[t]) BY <1>7, <1>8
<1>10. ToSet(a) \subseteq Held' BY <1>8 DEF Held
<1>11. ToSet(ring) \subseteq Held'
  <2>1. ToSet(z) \subseteq Held' BY <1>5 DEF Held
  <2> QED BY <1>4, <1>10, <2>1
<1>12. Held \subseteq Held' BY <1>6, <1>9, <1>11 DEF Held
<1>13. IsLedger(ledger') /\ AtMost(ledger', best) BY LedgerSame DEF Rescue, index
<1>14. writer'.at \notin Busy BY <1>5 DEF Busy
<1> QED BY <1>1, <1>6, <1>12, <1>13, <1>14, Uneventful

LEMMA StepRescued ==
  ASSUME SpillInv, Rescued, BestUpdated
  PROVE  SpillInv'
<1>1. Base' BY BaseRescued DEF SpillInv
<1>2. Held \subseteq Held' BY DEF Held, Rescued, memory
<1>3. IsLedger(ledger') /\ AtMost(ledger', best) BY LedgerSame DEF Rescued, index
<1>4. writer'.at \notin Busy BY DEF Rescued, Idle, Busy
<1>5. lineage' = lineage /\ unnoted' = unnoted /\ lost' = lost /\ dead' = dead BY DEF Rescued, memory, ghosts
<1> QED BY <1>1, <1>2, <1>3, <1>4, <1>5, Uneventful

LEMMA StepReadQueue ==
  ASSUME SpillInv, ReadQueue, BestUpdated
  PROVE  SpillInv'
<1>1. Base' BY BaseReadQueue DEF SpillInv
<1>2. Held \subseteq Held' BY DEF Held, ReadQueue, memory
<1>3. IsLedger(ledger') /\ AtMost(ledger', best) BY LedgerSame DEF ReadQueue, index
<1>4. \/ writer' = Idle
      \/ writer' = [at |-> "noting", batch |-> writer.batch, queue_busy |-> escalation_pending > 0, mark |-> QueueMark]
  BY DEF ReadQueue
<1>5. writer'.at \in Busy => writer.at \in Busy /\ writer'.batch = writer.batch BY <1>4 DEF ReadQueue, Idle, Busy
<1>6. lineage' = lineage /\ unnoted' = unnoted /\ lost' = lost /\ dead' = dead BY DEF ReadQueue, memory, ghosts
<1> QED BY <1>1, <1>2, <1>3, <1>5, <1>6, Uneventful

LEMMA StepNoteLiveCommits ==
  ASSUME SpillInv, NoteLiveCommits, BestUpdated
  PROVE  SpillInv'
<1>1. Base' BY BaseNoteLiveCommits DEF SpillInv
<1>2. Held \subseteq Held' BY DEF Held, NoteLiveCommits, memory
<1>3. PICK G, m, l : G = SealsUpTo(sealed) /\ m = NotedBatch.mirror /\ l = NotedBatch.l OBVIOUS
<1>4. writer.at = "noting" BY DEF NoteLiveCommits
<1>5. m \in Seq(G) /\ ToSet(m) \subseteq ToSet(writer.batch) /\ IsLedger(l) /\ AtMost(l, best)
  BY <1>3, <1>4, MirrorFacts DEF SpillInv
<1>6. \A s \in ToSet(m) : s.copy <= best[s.bar] BY <1>4, <1>5 DEF SpillInv, Claims
<1>7. ledger' = Mirrored(l, m) BY <1>3, Zenon DEF NoteLiveCommits
<1>8. G \subseteq Seal BY <1>3, SealsUpToFacts DEF SpillInv, Base, Tables
<1>9. m \in Seq(Seal) BY <1>5, <1>8, SeqMonotone
<1>10. epoch \in Nat /\ writer.mark \in Nat /\ best \in [Bars -> Copy]
  BY <1>4 DEF SpillInv, Base, Indexed, InWriter, Reached
<1>11. IsLedger(ledger') /\ AtMost(ledger', best) BY <1>5, <1>6, <1>7, <1>9, <1>10, MirroredAtMost
<1>12. writer'.at \notin Busy BY DEF NoteLiveCommits, Idle, Busy
<1>13. lineage' = lineage /\ unnoted' = unnoted /\ lost' = lost /\ dead' = dead BY DEF NoteLiveCommits, memory
<1> QED BY <1>1, <1>2, <1>11, <1>12, <1>13, Uneventful

LEMMA StepMirrorFails ==
  ASSUME SpillInv, NEW n \in Nat, MirrorFails(n), BestUpdated
  PROVE  SpillInv'
<1>1. Base' BY BaseMirrorFails DEF SpillInv
<1>2. Held \subseteq Held' BY DEF Held, MirrorFails, memory
<1>3. PICK G, m, l : G = SealsUpTo(sealed) /\ m = NotedBatch.mirror /\ l = NotedBatch.l OBVIOUS
<1>4. writer.at = "noting" BY DEF MirrorFails
<1>5. IsLedger(l) /\ AtMost(l, best) BY <1>3, <1>4, MirrorFacts DEF SpillInv
<1>6. ledger' = l BY <1>3, Zenon DEF MirrorFails
<1>7. writer'.at \notin Busy BY DEF MirrorFails, Idle, Busy
<1>8. lineage' = lineage /\ unnoted' = unnoted /\ lost' = lost /\ dead' = dead BY DEF MirrorFails, memory
<1> QED BY <1>1, <1>2, <1>5, <1>6, <1>7, <1>8, Uneventful

LEMMA StepStageLive ==
  ASSUME SpillInv, NEW moved \in BOOLEAN, StageLive(moved), BestUpdated
  PROVE  SpillInv'
<1>1. Base' BY BaseStageLive DEF SpillInv
<1>2. Held \subseteq Held' BY DEF Held, StageLive, memory
<1>3. IsLedger(ledger') /\ AtMost(ledger', best) BY LedgerSame DEF StageLive
<1>4. lineage' = lineage /\ unnoted' = unnoted /\ lost' = lost /\ dead' = dead /\ writer' = writer
  BY DEF StageLive, memory, ghosts
<1> QED BY <1>1, <1>2, <1>3, <1>4, Uneventful

LEMMA StepReplay ==
  ASSUME SpillInv, NEW i \in DOMAIN staged, NEW n \in Nat, Replay(i, n), BestUpdated
  PROVE  SpillInv'
<1>1. Base' BY BaseReplay DEF SpillInv
<1>2. PICK G, a, k : G = SealsUpTo(sealed) /\ a = BatchOf(i, n) /\ k = Len(staged[i].records) - staged[i].offset OBVIOUS
<1>3. n \in 1..k /\ writer' = [at |-> "replayed", batch |-> a, file |-> i, read |-> n] BY <1>2, ReplayStep
<1>4. PICK r : r = ReadOf(i, n) OBVIOUS
<1>5. ToSet(r) \subseteq ToSet(staged[i].records) /\ a \in Seq(G) /\ ToSet(a) = {s \in ToSet(r) : ~replay_is_older(ledger, s)}
  BY <1>2, <1>3, <1>4, ReplayFacts DEF SpillInv
<1>6. ToSet(a) \subseteq OnDisk BY <1>5 DEF OnDisk
<1>7. \A s \in ToSet(a) : s.copy <= best[s.bar] BY <1>6 DEF SpillInv, Reached
<1>8. lineage' = lineage /\ unnoted' = unnoted /\ lost' = lost /\ dead' = dead /\ Held' = Held
  BY DEF Replay, memory, ghosts, Held
<1>9. Grows BY <1>1, <1>8, GrowsStep
<1>10. NothingVanishes' BY <1>8, <1>9, NothingLeft
<1>11. IsLedger(ledger') /\ AtMost(ledger', best) BY LedgerSame DEF Replay, index
<1>12. AtMost(ledger', best') BY <1>9, <1>11, LedgerGrows DEF SpillInv
<1>13. Claims'
  <2>1. ASSUME NEW x \in unnoted PROVE Head(dead[x]).copy <= best'[Head(dead[x]).bar]
    <3>1. x \in Threads /\ dead[x] # <<>> BY DEF SpillInv, Base, Threaded
    <3>2. dead[x] \in Seq(G) BY <1>2, <3>1 DEF SpillInv, Base, InMemory
    <3>3. Head(dead[x]) \in G BY <3>1, <3>2
    <3>4. Head(dead[x]) \in Seal BY <1>2, <3>3 DEF SealsUpTo
    <3> QED BY <1>9, <3>4, GrowsFacts DEF SpillInv, Claims
  <2>2. ASSUME NEW s \in ToSet(a) PROVE s.copy <= best'[s.bar]
    <3>1. s \in G BY <1>5, SetOfSeq
    <3>2. s \in Seal BY <1>2, <3>1 DEF SealsUpTo
    <3> QED BY <1>7, <1>9, <3>2, GrowsFacts DEF SpillInv
  <2>3. writer'.batch = a BY <1>3
  <2> QED BY <1>8, <1>11, <1>12, <2>1, <2>2, <2>3 DEF Claims
<1> QED BY <1>1, <1>9, <1>10, <1>13 DEF SpillInv, Grows

LEMMA StepNoteReplayCommits ==
  ASSUME SpillInv, NoteReplayCommits, BestUpdated
  PROVE  SpillInv'
<1>1. Base' BY BaseNoteReplayCommits DEF SpillInv
<1>2. Held \subseteq Held' BY DEF Held, NoteReplayCommits, memory
<1>3. PICK G, m : G = SealsUpTo(sealed) /\ m = ledger' OBVIOUS
<1>4. writer.at = "replayed" /\ m = on_replay_commit(ledger, writer.batch) BY <1>3 DEF NoteReplayCommits
<1>5. /\ writer.batch \in Seq(G) /\ IsLedger(ledger) /\ AtMost(ledger, best) /\ best \in [Bars -> Copy]
      /\ \A s \in ToSet(writer.batch) : s.copy <= best[s.bar]
  BY <1>3, <1>4 DEF SpillInv, Base, InWriter, Claims, Reached
<1>6. G \subseteq Seal BY <1>3, SealsUpToFacts DEF SpillInv, Base, Tables
<1>7. writer.batch \in Seq(Seal) BY <1>5, <1>6, SeqMonotone
<1>8. IsLedger(m) BY <1>4, <1>5, <1>7, ReplayCommitFacts
<1>9. AtMost(m, best) BY <1>4, <1>5, <1>7, ReplayCommitAtMost
<1>10. writer'.at \notin Busy BY DEF NoteReplayCommits, Idle, Busy
<1>11. lineage' = lineage /\ unnoted' = unnoted /\ lost' = lost /\ dead' = dead BY DEF NoteReplayCommits, memory, ghosts
<1> QED BY <1>1, <1>2, <1>3, <1>8, <1>9, <1>10, <1>11, Uneventful

\* The steps of the replay that leave the writer idle.
LEMMA StepOfFiles ==
  ASSUME SpillInv, Base', BestUpdated, ReplayLeaves, writer' = writer, IsLedger(ledger'), AtMost(ledger', best)
  PROVE  SpillInv'
<1>1. Held \subseteq Held' BY DEF Held, ReplayLeaves, memory
<1>2. lineage' = lineage /\ unnoted' = unnoted /\ lost' = lost /\ dead' = dead BY DEF ReplayLeaves, memory
<1> QED BY <1>1, <1>2, Uneventful

LEMMA StepArchive ==
  ASSUME SpillInv, NEW i \in DOMAIN staged, Archive(i), BestUpdated
  PROVE  SpillInv'
<1>1. Base' BY BaseArchive DEF SpillInv
<1>2. IsLedger(ledger') /\ AtMost(ledger', best) BY LedgerSame DEF Archive, index
<1>3. ReplayLeaves /\ writer' = writer BY DEF ReplayLeaves, Archive, ghosts, index
<1> QED BY <1>1, <1>2, <1>3, StepOfFiles

LEMMA StepSkip ==
  ASSUME SpillInv, NEW i \in DOMAIN staged, Skip(i), BestUpdated
  PROVE  SpillInv'
<1>1. Base' BY BaseSkip DEF SpillInv
<1>2. IsLedger(ledger') /\ AtMost(ledger', best) BY LedgerSame DEF Skip, index
<1>3. ReplayLeaves /\ writer' = writer BY DEF ReplayLeaves, Skip, ghosts, index
<1> QED BY <1>1, <1>2, <1>3, StepOfFiles

LEMMA DistrustClaims ==
  ASSUME SpillInv, ledger' = distrust_commits(ledger)
  PROVE  IsLedger(ledger') /\ AtMost(ledger', best)
<1>1. PICK m : m = ledger' OBVIOUS
<1>2. m = distrust_commits(ledger) /\ IsLedger(ledger) /\ AtMost(ledger, best) BY <1>1 DEF SpillInv, Claims
<1>3. /\ IsLedger(m) /\ DOMAIN m.bars = DOMAIN ledger.bars
      /\ \A b \in DOMAIN ledger.bars : m.bars[b].disk = ledger.bars[b].disk /\ m.bars[b].committed = ledger.bars[b].committed
  BY <1>2, DistrustFacts
<1>4. AtMost(m, best) BY <1>2, <1>3 DEF AtMost, fullest
<1> QED BY <1>1, <1>3, <1>4

LEMMA StepSuspect ==
  ASSUME SpillInv, Suspect, BestUpdated
  PROVE  SpillInv'
<1>1. Base' BY BaseSuspect DEF SpillInv
<1>2. IsLedger(ledger') /\ AtMost(ledger', best) BY DistrustClaims DEF Suspect
<1>3. ReplayLeaves /\ writer' = writer BY DEF ReplayLeaves, Suspect, ghosts
<1> QED BY <1>1, <1>2, <1>3, StepOfFiles

LEMMA StepTrust ==
  ASSUME SpillInv, Trust, BestUpdated
  PROVE  SpillInv'
<1>1. Base' BY BaseTrust DEF SpillInv
<1>2. IsLedger(ledger') /\ AtMost(ledger', best) BY DistrustClaims DEF Trust
<1>3. ReplayLeaves /\ writer' = writer BY DEF ReplayLeaves, Trust, ghosts, disk, course
<1> QED BY <1>1, <1>2, <1>3, StepOfFiles

LEMMA StepForget ==
  ASSUME SpillInv, Forget, BestUpdated
  PROVE  SpillInv'
<1>1. Base' BY BaseForget DEF SpillInv
<1>2. IsLedger(ledger') /\ AtMost(ledger', best)
  <2>1. PICK m : m = ledger' OBVIOUS
  <2>2. m = forget_replayed(ledger, staged_through) BY <2>1 DEF Forget
  <2>3. IsLedger(ledger) /\ AtMost(ledger, best) BY DEF SpillInv, Claims
  <2>4. IsLedger(m) /\ DOMAIN m.bars \subseteq DOMAIN ledger.bars /\ \A b \in DOMAIN m.bars : m.bars[b] = ledger.bars[b]
    BY <2>2, <2>3, ForgetFacts
  <2> QED BY <2>1, <2>3, <2>4 DEF AtMost
<1>3. ReplayLeaves /\ writer' = writer BY DEF ReplayLeaves, Forget, ghosts, disk
<1> QED BY <1>1, <1>2, <1>3, StepOfFiles

LEMMA StepCrash ==
  ASSUME SpillInv, Crash, BestUpdated
  PROVE  SpillInv'
<1>1. Base' BY BaseCrash DEF SpillInv
<1>2. sealed' = sealed /\ retired' = {b \in Bars : sealed[b] > 0} /\ sealed \in [Bars -> Copy]
  BY DEF Crash, SpillInv, Base, Tables
<1>3. \A b \in Bars : sealed[b] \in Nat /\ sealed[b] <= sealed'[b] BY <1>2, SealFacts
<1>4. Reached /\ Tables /\ Tables' /\ Records' BY <1>1 DEF SpillInv, Base
<1>5. Grows BY <1>3, <1>4, BestStep DEF Grows
<1>6. Claims'
  <2>1. ledger' = EmptyLedger /\ unnoted' = {} /\ writer'.at = "boot" BY DEF Crash
  <2>2. AtMost(EmptyLedger, best') BY DEF AtMost, EmptyLedger
  <2> QED BY <2>1, <2>2, EmptyIsLedger DEF Claims
<1>7. NothingVanishes'
  <2>1. \A b \in Bars \ retired' : sealed'[b] = 0 BY <1>2, <1>3
  <2> QED BY <2>1 DEF NothingVanishes
<1> QED BY <1>1, <1>5, <1>6, <1>7 DEF SpillInv, Grows

\* The steps of the boot drain.
LEMMA StepOfBoot ==
  ASSUME SpillInv, Base', BestUpdated, BootLeaves, ledger' = ledger, writer'.at \notin Busy
  PROVE  SpillInv'
<1>1. Held \subseteq Held' BY DEF Held, BootLeaves, memory
<1>2. lineage' = lineage /\ unnoted' = unnoted /\ lost' = lost /\ dead' = dead BY DEF BootLeaves, memory
<1>3. IsLedger(ledger') /\ AtMost(ledger', best) BY LedgerSame
<1> QED BY <1>1, <1>2, <1>3, Uneventful

LEMMA StepBootFlushed ==
  ASSUME SpillInv, NEW refused, BootFlushed(refused), BestUpdated
  PROVE  SpillInv'
<1>1. Base' BY BaseBootFlushed DEF SpillInv
<1>2. BootLeaves /\ ledger' = ledger /\ writer'.at \notin Busy BY DEF BootLeaves, BootFlushed, index, ghosts, Busy
<1> QED BY <1>1, <1>2, StepOfBoot

LEMMA StepBootUnreadable ==
  ASSUME SpillInv, BootUnreadable, BestUpdated
  PROVE  SpillInv'
<1>1. Base' BY BaseBootUnreadable DEF SpillInv
<1>2. BootLeaves /\ ledger' = ledger /\ writer'.at \notin Busy BY DEF BootLeaves, BootUnreadable, index, ghosts, disk, Busy, course
<1> QED BY <1>1, <1>2, StepOfBoot

LEMMA StepBootHalts ==
  ASSUME SpillInv, NEW n \in Nat, BootHalts(n), BestUpdated
  PROVE  SpillInv'
<1>1. Base' BY BaseBootHalts DEF SpillInv
<1>2. BootLeaves /\ ledger' = ledger /\ writer'.at \notin Busy BY DEF BootLeaves, BootHalts, index, ghosts, disk, Busy, course
<1> QED BY <1>1, <1>2, StepOfBoot

LEMMA StepBootEnds ==
  ASSUME SpillInv, BootEnds, BestUpdated
  PROVE  SpillInv'
<1>1. Base' BY BaseBootEnds DEF SpillInv
<1>2. Held \subseteq Held' BY DEF Held, BootEnds, memory
<1>3. lineage' = lineage /\ unnoted' = unnoted /\ lost' = lost /\ dead' = dead BY DEF BootEnds, memory, ghosts
<1>4. IsLedger(ledger') /\ AtMost(ledger', best) BY LedgerSame DEF BootEnds, index
<1>5. writer'.at \notin Busy BY DEF BootEnds, Idle, Busy
<1> QED BY <1>1, <1>2, <1>3, <1>4, <1>5, Uneventful

-----------------------------------------------------------------------------
(* The theorems.                                                           *)

LEMMA SpillInit ==
  ASSUME Init
  PROVE  SpillInv
<1>1. PICK none : none = <<>> OBVIOUS
<1>2. none \in Seq(SealsUpTo(sealed)) /\ none \in Seq(StagedFile(SealsUpTo(sealed))) /\ ToSet(none) = {} /\ Len(none) = 0
  BY <1>1, SetOfSeq
<1>3. \A b \in Bars : sealed[b] = 0 /\ db[b] = 0 /\ best[b] = 0 BY NothingIsTable DEF Init
<1>4. Tables
  <2>1. boot = [written |-> NothingWritten, committed |-> NothingWritten, next |-> 1, left |-> FALSE] BY DEF Init
  <2>2. boot \in [written : [Bars -> Copy], committed : [Bars -> Copy], next : Nat, left : BOOLEAN]
    BY <2>1, NothingIsTable
  <2> QED BY <1>3, <2>2, NothingIsTable DEF Init, Tables
<1>5. todo = [t \in Threads |-> none] /\ dead = [t \in Threads |-> none] BY <1>1 DEF Init
<1>6. InMemory
  <2>1. todo \in [Threads -> Seq(SealsUpTo(sealed))] /\ dead \in [Threads -> Seq(SealsUpTo(sealed))] BY <1>2, <1>5
  <2> QED BY <1>1, <1>2, <2>1 DEF Init, InMemory
<1>7. Counters
  <2>1. todo["escalation"] = none /\ dead["escalation"] = none BY <1>5 DEF Threads
  <2>2. queue = none /\ run_len = 0 /\ escalation_pending = 0 /\ escalation_finished = 0 BY <1>1 DEF Init
  <2> QED BY <1>1, <1>2, <2>1, <2>2 DEF Counters
<1>8. Threaded
  <2>1. todo["writer"] = none /\ dead["writer"] = none BY <1>5 DEF Threads
  <2> QED BY <1>1, <2>1 DEF Init, Threaded
<1>9. Records BY <1>1, <1>2 DEF Init, Records
<1>10. Indexed /\ InWriter BY DEF Init, Indexed, InWriter, Idle
<1>11. InOrder BY <1>1, <1>2 DEF Init, InOrder, Ascending, Precede
<1>12. Reached
  <2>1. OnDisk = {}
    <3>1. ToSet(live) = {} /\ ToSet(dlq) = {} /\ DOMAIN staged = {} BY <1>1, <1>2 DEF Init
    <3> QED BY <3>1 DEF OnDisk
  <2> QED BY <1>3, <2>1, NothingIsTable DEF Init, Reached
<1>13. Claims
  <2>1. ledger = EmptyLedger /\ unnoted = {} /\ writer.at = "idle" BY DEF Init, Idle
  <2>2. AtMost(EmptyLedger, best) BY DEF AtMost, EmptyLedger
  <2> QED BY <2>1, <2>2, EmptyIsLedger DEF Claims
<1>14. NothingVanishes BY <1>3 DEF NothingVanishes
<1> QED BY <1>4, <1>6, <1>7, <1>8, <1>9, <1>10, <1>11, <1>12, <1>13, <1>14 DEF SpillInv, Base

LEMMA SpillStep ==
  ASSUME SpillInv, [Next]_vars
  PROVE  SpillInv'
<1>1. CASE UNCHANGED vars
  BY <1>1 DEF vars, lineage, memory, index, disk, course, ghosts, SpillInv, Base, Tables, InMemory, Counters, Threaded,
              Records, Indexed, InWriter, InOrder, Reached, Claims, NothingVanishes, Held, OnDisk
<1>2. CASE Next
  <2>1. BestUpdated /\ Steps BY <1>2 DEF Next, BestUpdated
  <2>2. CASE \E b \in Bars : SendToWriter(b) \/ EscalateQueued(b) \/ EscalateInline(b)
    BY <2>1, <2>2, StepSendToWriter, StepEscalateQueued, StepEscalateInline
  <2>3. CASE \E n \in 1..Len(queue) : TakeRun(n) BY <2>1, <2>3, StepTakeRun
  <2>4. CASE FinishRun BY <2>1, <2>4, StepFinishRun
  <2>5. CASE \E t \in Threads : AppendSeals(t) \/ BelowFloor(t) \/ DeadLetter(t) \/ NoteDeadLettered(t) \/ DeadLetterFails(t)
    BY <2>1, <2>5, StepAppendSeals, StepBelowFloor, StepDeadLetter, StepNoteDeadLettered, StepDeadLetterFails
  <2>6. CASE \E t \in Threads : \E n \in 0..Len(todo[t]), opened \in BOOLEAN : AppendFails(t, n, opened)
    <3>1. PICK t \in Threads : \E n \in 0..Len(todo[t]), opened \in BOOLEAN : AppendFails(t, n, opened) BY <2>6
    <3>2. PICK n \in 0..Len(todo[t]), opened \in BOOLEAN : AppendFails(t, n, opened) BY <3>1
    <3>3. n \in Nat OBVIOUS
    <3> QED BY <2>1, <3>2, <3>3, StepAppendFails
  <2>7. CASE \E n \in 1..Len(ring) : FlushOk(n) \/ Rescue(n) BY <2>1, <2>7, StepFlushOk, StepRescue
  <2>8. CASE TakeChannel \/ Rescued \/ ReadQueue \/ NoteLiveCommits
    BY <2>1, <2>8, StepTakeChannel, StepRescued, StepReadQueue, StepNoteLiveCommits
  <2>9. CASE \E landed \in (IF writer.at = "noting" THEN 0..Len(writer.batch) ELSE {}) : MirrorFails(landed)
    <3>1. PICK k : k = Len(writer.batch) OBVIOUS
    <3>2. PICK n \in (IF writer.at = "noting" THEN 0..k ELSE {}) : MirrorFails(n) BY <2>9, <3>1
    <3>3. n \in Nat OBVIOUS
    <3> QED BY <2>1, <3>2, <3>3, StepMirrorFails
  <2>10. CASE \E moved \in BOOLEAN : StageLive(moved) BY <2>1, <2>10, StepStageLive
  <2>11. CASE \E i \in DOMAIN staged : \E n \in 1..Len(staged[i].records) : Replay(i, n)
    <3>1. PICK i \in DOMAIN staged : \E n \in 1..Len(staged[i].records) : Replay(i, n) BY <2>11
    <3>2. PICK n \in 1..Len(staged[i].records) : Replay(i, n) BY <3>1
    <3>3. n \in Nat OBVIOUS
    <3> QED BY <2>1, <3>2, <3>3, StepReplay
  <2>12. CASE \E i \in DOMAIN staged : Archive(i) \/ Skip(i) BY <2>1, <2>12, StepArchive, StepSkip
  <2>13. CASE NoteReplayCommits \/ Suspect \/ Trust \/ Forget \/ Crash
    BY <2>1, <2>13, StepNoteReplayCommits, StepSuspect, StepTrust, StepForget, StepCrash
  <2>14. CASE \E refused \in SUBSET Bars : BootFlushed(refused) BY <2>1, <2>14, StepBootFlushed
  <2>15. CASE BootUnreadable \/ BootEnds BY <2>1, <2>15, StepBootUnreadable, StepBootEnds
  <2>16. CASE \E n \in 0..(IF boot.next \in DOMAIN staged THEN Len(BootFile.records) ELSE 0) : BootHalts(n)
    <3>1. PICK k : k = IF boot.next \in DOMAIN staged THEN Len(BootFile.records) ELSE 0 OBVIOUS
    <3>2. PICK n \in 0..k : BootHalts(n) BY <2>16, <3>1
    <3>3. n \in Nat OBVIOUS
    <3> QED BY <2>1, <3>2, <3>3, StepBootHalts
  <2> QED BY <2>1, <2>2, <2>3, <2>4, <2>5, <2>6, <2>7, <2>8, <2>9, <2>10, <2>11, <2>12, <2>13, <2>14, <2>15, <2>16, Zenon
     DEF Steps
<1> QED BY <1>1, <1>2

\* What TypeOK says of the state follows from the invariant.
LEMMA SpillTyped ==
  ASSUME SpillInv
  PROVE  TypeOK
<1>1. PICK G : G = SealsUpTo(sealed) OBVIOUS
<1>2. sealed \in [Bars -> Copy] /\ db \in [Bars -> Copy] /\ best \in [Bars -> Copy] BY DEF SpillInv, Base, Tables, Reached
<1>3. \A b \in Bars : sealed[b] \in Nat /\ db[b] \in Nat /\ best[b] \in Nat BY <1>2, SealFacts
<1>4. \A b \in Bars : db[b] <= best[b] /\ best[b] <= sealed[b] /\ db[b] <= sealed[b] BY DEF SpillInv, Base, Tables, Reached
<1>5. \A b \in Bars : db[b] \in 0..sealed[b] /\ best[b] \in db[b]..sealed[b] BY <1>3, <1>4
<1>6. live \in Seq(G) /\ dlq \in Seq(G) /\ staged \in Seq(StagedFile(G)) BY <1>1 DEF SpillInv, Base, Records
<1>7. OnDisk \subseteq G BY <1>6, OnDiskFacts
<1>8. Held \subseteq G /\ lost \subseteq G BY <1>1, HeldFacts DEF SpillInv, Base, InMemory
<1>9. \A s \in Held \cup OnDisk \cup lost : s \in Seal /\ s.copy <= sealed[s.bar] BY <1>1, <1>7, <1>8 DEF SealsUpTo
<1>10. Cardinality(DOMAIN ledger.bars) <= Capacity BY DEF SpillInv, Claims, IsLedger
<1>11. ASSUME NEW b \in DOMAIN ledger.bars PROVE fullest(ledger.bars[b]) <= sealed[b]
  <2>1. b \in Bars /\ ledger.bars[b] \in SealEntry BY DEF SpillInv, Claims, IsLedger
  <2>2. fullest(ledger.bars[b]) \in Nat BY <2>1, LargerFacts, SealFacts DEF fullest, SealEntry
  <2>3. fullest(ledger.bars[b]) <= best[b] BY DEF SpillInv, Claims, AtMost
  <2> QED BY <1>3, <1>4, <2>1, <2>2, <2>3
<1>12. \A i \in DOMAIN staged : staged[i] \in StagedFile(G) BY <1>6
<1>13. \A i \in DOMAIN staged : /\ staged[i].state \in {"ready", "awaiting", "skipped"}
                                /\ staged[i].offset <= Len(staged[i].records)
  BY <1>12 DEF StagedFile
<1>14. escalation_pending = Len(queue) + run_len /\ staged_through < epoch BY DEF SpillInv, Base, Counters, Indexed
<1> QED BY <1>5, <1>9, <1>10, <1>11, <1>13, <1>14 DEF TypeOK

\* The state of the spill keeps its shape: the escalation counters add up, and
\* the ledger stays within its capacity and claims no copy that was not sealed.
THEOREM TypeCorrect == Spec => []TypeOK
<1>1. Init => SpillInv BY SpillInit
<1>2. SpillInv /\ [Next]_vars => SpillInv' BY SpillStep
<1>3. SpillInv => TypeOK BY SpillTyped
<1> QED BY <1>1, <1>2, <1>3, PTL DEF Spec

\* No seal vanishes, whatever fails: while its process lives each one is on its
\* way, has been reached by a copy at least as full, or is counted as lost.
THEOREM NoSealVanishes == Spec => []NothingVanishes
<1>1. Init => SpillInv BY SpillInit
<1>2. SpillInv /\ [Next]_vars => SpillInv' BY SpillStep
<1>3. SpillInv => NothingVanishes BY DEF SpillInv
<1> QED BY <1>1, <1>2, <1>3, PTL DEF Spec
=============================================================================
