--------------------------- MODULE SequenceLemmas ---------------------------
(***************************************************************************)
(* Facts about numbers, sequences and selections that the proofs of        *)
(* several components need.                                                *)
(***************************************************************************)
EXTENDS Selection, SequencesExt, SequenceTheorems, FiniteSetTheorems, TLAPS

-----------------------------------------------------------------------------
(* Sets of numbers, and sequences.                                         *)

\* < is well founded.
LEMMA LeastNumber ==
  ASSUME NEW T \in SUBSET Nat, T # {}
  PROVE  \E n \in T : \A m \in T : n <= m
<1>1. PICK n \in T : \A m \in T : ~(<<m, n>> \in OpToRel(<, Nat))
  BY NatLessThanWellFounded, WFMin
<1>2. ASSUME NEW m \in T PROVE n <= m
  <2>1. ~(m < n)
    BY <1>1 DEF OpToRel
  <2> QED
    BY <2>1
<1> QED
  BY <1>2

\* Min of a set of numbers.
LEMMA MinIsLeast ==
  ASSUME NEW T \in SUBSET Nat, T # {}
  PROVE  Min(T) \in T /\ \A m \in T : Min(T) <= m
BY LeastNumber DEF Min

\* A sequence without its i-th element.
LEMMA RemoveAtProperties ==
  ASSUME NEW S, NEW s \in Seq(S), NEW i \in 1..Len(s)
  PROVE  /\ RemoveAt(s, i) \in Seq(S)
         /\ Len(RemoveAt(s, i)) = Len(s) - 1
         /\ \A n \in 1..(Len(s) - 1) :
              RemoveAt(s, i)[n] = IF n < i THEN s[n] ELSE s[n + 1]
<1> DEFINE low == SubSeq(s, 1, i - 1)
           high == SubSeq(s, i + 1, Len(s))
<1>1. Len(s) \in Nat /\ \A n \in 1..Len(s) : s[n] \in S
  BY LenProperties, ElementOfSeq
<1>2. /\ low \in Seq(S) /\ Len(low) = i - 1
      /\ \A n \in 1..(i - 1) : low[n] = s[n]
  BY <1>1, SubSeqProperties
<1>3. /\ high \in Seq(S) /\ Len(high) = Len(s) - i
      /\ \A n \in 1..(Len(s) - i) : high[n] = s[i + n]
  BY <1>1, SubSeqProperties
<1> HIDE DEF low, high
<1>4. /\ low \o high \in Seq(S)
      /\ Len(low \o high) = Len(s) - 1
      /\ \A n \in 1..(Len(s) - 1) :
           (low \o high)[n] = IF n <= i - 1 THEN low[n] ELSE high[n - (i - 1)]
  <2>1. /\ low \o high \in Seq(S)
        /\ Len(low \o high) = Len(low) + Len(high)
        /\ \A n \in 1..(Len(low) + Len(high)) :
             (low \o high)[n] = IF n <= Len(low) THEN low[n]
                                                 ELSE high[n - Len(low)]
    BY <1>2, <1>3, ConcatProperties, Zenon
  <2>2. Len(low) = i - 1 /\ Len(low) + Len(high) = Len(s) - 1
    BY <1>1, <1>2, <1>3
  <2> QED
    BY <2>1, <2>2
<1>5. RemoveAt(s, i) = low \o high
  BY DEF RemoveAt, low, high
<1>6. ASSUME NEW n \in 1..(Len(s) - 1)
      PROVE  (low \o high)[n] = IF n < i THEN s[n] ELSE s[n + 1]
  <2>1. CASE n < i
    BY <1>1, <1>2, <1>4, <2>1
  <2>2. CASE ~(n < i)
    <3>1. n - (i - 1) \in 1..(Len(s) - i) /\ i + (n - (i - 1)) = n + 1
      BY <1>1, <2>2
    <3>2. high[n - (i - 1)] = s[n + 1]
      BY <1>3, <3>1
    <3> QED
      BY <1>1, <1>4, <2>2, <3>2
  <2> QED
    BY <2>1, <2>2
<1> QED
  BY <1>1, <1>4, <1>5, <1>6

\* What is appended is a suffix.
LEMMA SuffixOfConcat ==
  ASSUME NEW S, NEW s \in Seq(S), NEW t \in Seq(S) PROVE IsSuffix(s, t \o s)
<1> DEFINE r == Reverse(s)
           u == Reverse(t \o s)
<1>1. /\ Len(s) \in Nat /\ Len(t) \in Nat /\ Len(t \o s) = Len(t) + Len(s)
      /\ \A n \in 1..Len(s) : (t \o s)[Len(t) + n] = s[n]
      /\ t \o s \in Seq(S)
  OBVIOUS
<1>2. /\ r \in Seq(S) /\ Len(r) = Len(s)
      /\ \A n \in 1..Len(s) : r[n] = s[(Len(s) - n) + 1]
  BY <1>1 DEF Reverse
<1>3. /\ u \in Seq(S) /\ Len(u) = Len(t) + Len(s)
      /\ \A n \in 1..Len(s) : u[n] = (t \o s)[(Len(t) + Len(s) - n) + 1]
  BY <1>1 DEF Reverse
<1>4. \A n \in 1..Len(s) : r[n] = u[n]
  <2> TAKE n \in 1..Len(s)
  <2>1. (Len(s) - n) + 1 \in 1..Len(s)
        /\ (Len(t) + Len(s) - n) + 1 = Len(t) + ((Len(s) - n) + 1)
    BY <1>1
  <2> QED
    BY <1>1, <1>2, <1>3, <2>1
<1> HIDE DEF r, u
<1>5. SubSeq(r, 1, Len(r)) = SubSeq(u, 1, Len(r)) /\ Len(r) <= Len(u)
  BY <1>1, <1>2, <1>3, <1>4
<1> QED
  BY <1>5 DEF IsSuffix, IsPrefix, r, u

-----------------------------------------------------------------------------
(* Recursion over numbers.  The principle of induction is stated for a     *)
(* set.                                                                    *)

LEMMA Induction ==
  ASSUME NEW N \in Nat, NEW T, 0 \in T,
         \A n \in 0..(N - 1) : n \in T => n + 1 \in T
  PROVE  \A n \in 0..N : n \in T
<1> DEFINE Rest == {n \in 0..N : n \notin T}
<1>1. SUFFICES ASSUME Rest # {} PROVE FALSE
  OBVIOUS
<1>2. Rest \in SUBSET Nat
  OBVIOUS
<1> HIDE DEF Rest
<1>3. PICK n \in Rest : \A m \in Rest : n <= m
  BY <1>1, <1>2, LeastNumber
<1>4. n \in 0..N /\ n \notin T /\ \A m \in 0..N : m \notin T => n <= m
  BY <1>3 DEF Rest
<1>5. n # 0 /\ n - 1 \in 0..(N - 1) /\ n - 1 \in T
  BY <1>4
<1> QED
  BY <1>4, <1>5

Solves(f, N, V, base, step) ==
  /\ f \in [0..N -> V]
  /\ f[0] = base
  /\ \A n \in 1..N : f[n] = step[n][f[n - 1]]

\* A recursion that stays within V has a solution.
LEMMA Recursion ==
  ASSUME NEW N \in Nat, NEW V, NEW base \in V, NEW step \in [1..N -> [V -> V]]
  PROVE  \E f : Solves(f, N, V, base, step)
<1> DEFINE Upto(f, M) ==
             f[0] = base /\ \A n \in 1..M : f[n] = step[n][f[n - 1]]
           T == {M \in 0..N : \E f \in [0..M -> V] : Upto(f, M)}
<1>1. 0 \in T
  <2> DEFINE g == [n \in 0..0 |-> base]
  <2>1. g \in [0..0 -> V] /\ Upto(g, 0)
    OBVIOUS
  <2> HIDE DEF g, Upto
  <2> QED
    BY <2>1
<1>2. ASSUME NEW M \in 0..(N - 1), M \in T PROVE M + 1 \in T
  <2>1. PICK f \in [0..M -> V] : Upto(f, M)
    BY <1>2
  <2>2. M + 1 \in 1..N /\ f[M] \in V /\ step[M + 1][f[M]] \in V
    OBVIOUS
  <2> DEFINE g == [n \in 0..(M + 1) |->
                     IF n = M + 1 THEN step[M + 1][f[M]] ELSE f[n]]
  <2>3. g \in [0..(M + 1) -> V]
    BY <2>2
  <2>4. Upto(g, M + 1)
    BY <2>1, <2>2
  <2> HIDE DEF g, Upto
  <2> QED
    BY <2>2, <2>3, <2>4
<1> HIDE DEF T
<1>3. \A M \in 0..(N - 1) : M \in T => M + 1 \in T
  BY <1>2
<1>4. \A M \in 0..N : M \in T
  BY <1>1, <1>3, Induction, Zenon
<1>5. N \in T
  BY <1>4
<1> QED
  BY <1>5 DEF T, Solves

\* The solution of a recursion that goes one step further.
LEMMA OneMoreStep ==
  ASSUME NEW N \in Nat, NEW V, NEW base, NEW step, NEW longer, NEW f, NEW g,
         Solves(f, N, V, base, step), Solves(g, N + 1, V, base, longer),
         \A n \in 1..N : longer[n] = step[n]
  PROVE  f[N] \in V /\ g[N + 1] = longer[N + 1][f[N]]
<1> DEFINE T == {n \in 0..N : f[n] = g[n]}
<1>1. \A n \in 0..(N - 1) : f[n] = g[n] => f[n + 1] = g[n + 1]
  <2> TAKE n \in 0..(N - 1)
  <2>1. n + 1 \in 1..N /\ n + 1 \in 1..(N + 1) /\ (n + 1) - 1 = n
    OBVIOUS
  <2> QED
    BY <2>1 DEF Solves
<1>2. 0 \in T /\ \A n \in 0..(N - 1) : n \in T => n + 1 \in T
  <2>1. 0 \in 0..N /\ \A n \in 0..(N - 1) : n + 1 \in 0..N
    OBVIOUS
  <2> QED
    BY <1>1, <2>1 DEF Solves
<1> HIDE DEF T
<1>3. \A n \in 0..N : n \in T
  BY <1>2, Induction, Zenon
<1>4. f[N] = g[N]
  BY <1>3 DEF T
<1>5. N + 1 \in 1..(N + 1) /\ (N + 1) - 1 = N /\ N \in 0..N
  OBVIOUS
<1> QED
  BY <1>4, <1>5 DEF Solves

-----------------------------------------------------------------------------
(* Selections.                                                             *)

SelectStep(S, s, T) ==
  [n \in 1..Len(s) |-> [k \in Seq(S) |->
     IF s[n] \in T THEN Append(k, s[n]) ELSE k]]
IsSelection(t, S, s, T) ==
  Solves(t, Len(s), Seq(S), <<>>, SelectStep(S, s, T))

LEMMA SelectedIsSelection ==
  ASSUME NEW S, NEW s \in Seq(S), NEW T
  PROVE  \E t : IsSelection(t, S, s, T) /\ Selected(s, T) = t[Len(s)]
<1> DEFINE Kept(k, n) == IF s[n] \in T THEN Append(k, s[n]) ELSE k
           Recursive(t) ==
             t = [n \in 0..Len(s) |->
                    IF n = 0 THEN <<>> ELSE Kept(t[n - 1], n)]
<1>1. /\ Len(s) \in Nat /\ \A n \in 1..Len(s) : s[n] \in S
      /\ <<>> \in Seq(S)
  OBVIOUS
<1>2. /\ \A n \in 1..Len(s), k \in Seq(S) : Kept(k, n) \in Seq(S)
      /\ \A n \in 1..Len(s), k \in Seq(S) : SelectStep(S, s, T)[n][k] = Kept(k, n)
      /\ SelectStep(S, s, T) \in [1..Len(s) -> [Seq(S) -> Seq(S)]]
  <2>1. \A n \in 1..Len(s), k \in Seq(S) : Kept(k, n) \in Seq(S)
    BY <1>1
  <2>2. SelectStep(S, s, T) = [n \in 1..Len(s) |-> [k \in Seq(S) |-> Kept(k, n)]]
    BY DEF SelectStep
  <2> HIDE DEF Kept
  <2> QED
    BY <2>1, <2>2
<1>3. Selected(s, T) = (CHOOSE t : Recursive(t))[Len(s)]
  BY DEF Selected
<1> HIDE DEF Kept
<1>4. \E t : Recursive(t)
  <2>1. \E t : IsSelection(t, S, s, T)
    BY <1>1, <1>2, Recursion DEF IsSelection
  <2>2. PICK t : IsSelection(t, S, s, T)
    BY <2>1
  <2>3. \A n \in 1..Len(s) : t[n] = Kept(t[n - 1], n)
    <3> TAKE n \in 1..Len(s)
    <3>1. n - 1 \in 0..Len(s)
      BY <1>1
    <3> QED
      BY <1>2, <2>2, <3>1 DEF IsSelection, Solves
  <2> QED
    BY <2>2, <2>3 DEF IsSelection, Solves
<1>5. PICK t : Recursive(t) /\ Selected(s, T) = t[Len(s)]
  <2> DEFINE t == CHOOSE t : Recursive(t)
  <2>1. Recursive(t)
    BY <1>4
  <2> QED
    BY <1>3, <2>1
<1>6. t[0] = <<>> /\ \A n \in 1..Len(s) : t[n] = Kept(t[n - 1], n)
  <2>1. \A n \in 0..Len(s) : t[n] = IF n = 0 THEN <<>> ELSE Kept(t[n - 1], n)
    BY <1>5
  <2> QED
    BY <1>1, <2>1
<1>7. \A n \in 0..Len(s) : t[n] \in Seq(S)
  <2> DEFINE InSeq == {n \in 0..Len(s) : t[n] \in Seq(S)}
  <2>1. ASSUME NEW n \in 0..(Len(s) - 1), t[n] \in Seq(S)
        PROVE  t[n + 1] \in Seq(S)
    <3>1. n + 1 \in 1..Len(s) /\ (n + 1) - 1 = n
      BY <1>1
    <3> QED
      BY <1>2, <1>6, <2>1, <3>1
  <2>2. 0 \in InSeq /\ \A n \in 0..(Len(s) - 1) : n \in InSeq => n + 1 \in InSeq
    <3>1. 0 \in 0..Len(s) /\ \A n \in 0..(Len(s) - 1) : n + 1 \in 0..Len(s)
      BY <1>1
    <3> QED
      BY <1>1, <1>6, <2>1, <3>1
  <2> HIDE DEF InSeq
  <2>3. \A n \in 0..Len(s) : n \in InSeq
    BY <1>1, <2>2, Induction, Zenon
  <2> QED
    BY <2>3 DEF InSeq
<1>8. \A n \in 1..Len(s) : t[n] = SelectStep(S, s, T)[n][t[n - 1]]
  <2> TAKE n \in 1..Len(s)
  <2>1. n - 1 \in 0..Len(s)
    BY <1>1
  <2> QED
    BY <1>2, <1>6, <1>7, <2>1
<1> QED
  BY <1>5, <1>6, <1>7, <1>8 DEF IsSelection, Solves

\* What a selection is of no elements, and of one more.
LEMMA SelectedEmpty ==
  ASSUME NEW T PROVE Selected(<<>>, T) = <<>>
<1>1. <<>> \in Seq({}) /\ Len(<<>>) = 0
  OBVIOUS
<1>2. PICK t : IsSelection(t, {}, <<>>, T) /\ Selected(<<>>, T) = t[Len(<<>>)]
  BY <1>1, SelectedIsSelection
<1> QED
  BY <1>1, <1>2 DEF IsSelection, Solves

LEMMA SelectedAppend ==
  ASSUME NEW S, NEW s \in Seq(S), NEW T, NEW x \in S
  PROVE  Selected(Append(s, x), T) =
           IF x \in T THEN Append(Selected(s, T), x) ELSE Selected(s, T)
<1> DEFINE longer == Append(s, x)
           N == Len(s)
<1>1. /\ N \in Nat /\ longer \in Seq(S) /\ Len(longer) = N + 1
      /\ longer[N + 1] = x /\ \A n \in 1..N : longer[n] = s[n]
  OBVIOUS
<1> HIDE DEF longer
<1>2. PICK t : IsSelection(t, S, s, T) /\ Selected(s, T) = t[N]
  BY SelectedIsSelection
<1>3. PICK u : IsSelection(u, S, longer, T) /\ Selected(longer, T) = u[N + 1]
  BY <1>1, SelectedIsSelection
<1>4. \A n \in 1..N : SelectStep(S, longer, T)[n] = SelectStep(S, s, T)[n]
  <2>1. \A n \in 1..N : n \in 1..(N + 1)
    BY <1>1
  <2> QED
    BY <1>1, <2>1 DEF SelectStep
<1>5. t[N] \in Seq(S) /\ u[N + 1] = SelectStep(S, longer, T)[N + 1][t[N]]
  <2>1. Solves(t, N, Seq(S), <<>>, SelectStep(S, s, T))
    BY <1>2 DEF IsSelection
  <2>2. Solves(u, N + 1, Seq(S), <<>>, SelectStep(S, longer, T))
    BY <1>1, <1>3 DEF IsSelection
  <2> HIDE DEF N
  <2> QED
    BY <1>1, <1>4, <2>1, <2>2, OneMoreStep
<1>6. SelectStep(S, longer, T)[N + 1][t[N]] = IF x \in T THEN Append(t[N], x) ELSE t[N]
  <2>1. N + 1 \in 1..(N + 1)
    BY <1>1
  <2> QED
    BY <1>1, <1>5, <2>1 DEF SelectStep
<1> QED
  BY <1>2, <1>3, <1>5, <1>6 DEF longer

LEMMA SelectedType ==
  ASSUME NEW S, NEW s \in Seq(S), NEW T PROVE Selected(s, T) \in Seq(S)
<1>1. PICK t : IsSelection(t, S, s, T) /\ Selected(s, T) = t[Len(s)]
  BY SelectedIsSelection
<1>2. Len(s) \in 0..Len(s)
  OBVIOUS
<1> QED
  BY <1>1, <1>2 DEF IsSelection, Solves
=============================================================================
