---------------------------- MODULE RetrievalProofs ----------------------------
(***************************************************************************)
(* Proofs about Retrieval: what is put before the model is sound in        *)
(* itself, and the second wave takes nothing from the first.  For any      *)
(* number of entries, any sizes and topics, whatever the mechanisms find,  *)
(* whatever the cross-encoder thinks of it, and any limits and budgets.    *)
(***************************************************************************)
EXTENDS Retrieval, SequenceTheorems, FiniteSetTheorems, WellFoundedInduction, NaturalsInduction, TLAPS

--------------------------------------------------------------------------------
(* Loops.  A loop over a sequence is a function from the number of items seen
   to the value it has come to; there is one, and Fold is its last value. *)

\* Induction up to a bound, for a set.
LEMMA InductTo ==
  ASSUME NEW m \in Nat, NEW G, 0 \in G, \A n \in 0 .. m - 1 : n \in G => n + 1 \in G
  PROVE  \A n \in 0 .. m : n \in G
<1>. DEFINE Bad == {n \in 0 .. m : n \notin G}
<1>1. SUFFICES ASSUME Bad # {} PROVE FALSE
  OBVIOUS
<1>2. PICK n \in Bad : \A k \in Bad : <<k, n>> \notin OpToRel(<, Nat)
  <2>1. Bad \subseteq Nat
    OBVIOUS
  <2>. QED
    BY <1>1, <2>1, NatLessThanWellFounded, WFMin
<1>3. n # 0 /\ n \in 0 .. m /\ n \notin G
  OBVIOUS
<1>4. n - 1 \in 0 .. m - 1 /\ n - 1 + 1 = n /\ n - 1 < n /\ n - 1 \in Nat /\ n \in Nat /\ n - 1 \in 0 .. m
  BY <1>3
<1>5. n - 1 \notin Bad
  BY <1>2, <1>4 DEF OpToRel
<1>6. n - 1 \in G
  BY <1>4, <1>5
<1>. QED
  BY <1>3, <1>4, <1>6

Loop(s, first, step, f) == f = [n \in 0 .. Len(s) |-> IF n = 0 THEN first ELSE step[f[n - 1]][s[n]]]

\* Fold is the last value of the function that meets its recursion.
LEMMA FoldIs ==
  ASSUME NEW S, NEW s \in Seq(S), NEW first, NEW step, NEW g, Loop(s, first, step, g)
  PROVE  Fold(s, first, step) = g[Len(s)]
<1>. DEFINE h == CHOOSE f : Loop(s, first, step, f)
            Same == {n \in 0 .. Len(s) : h[n] = g[n]}
<1>1. Loop(s, first, step, h)
  OBVIOUS
<1>2. Fold(s, first, step) = h[Len(s)]
  BY DEF Fold, Loop
<1>. HIDE DEF h
<1>3. Len(s) \in Nat
  BY LenProperties
<1>4. \A n \in 0 .. Len(s) : /\ h[n] = IF n = 0 THEN first ELSE step[h[n - 1]][s[n]]
                             /\ g[n] = IF n = 0 THEN first ELSE step[g[n - 1]][s[n]]
  BY <1>1 DEF Loop
<1>5. 0 \in Same
  BY <1>3, <1>4
<1>6. ASSUME NEW n \in 0 .. Len(s) - 1, n \in Same PROVE n + 1 \in Same
  <2>1. n + 1 \in 0 .. Len(s) /\ n + 1 # 0 /\ n + 1 - 1 = n
    BY <1>3
  <2>. QED
    BY <1>4, <1>6, <2>1
<1>7. \A n \in 0 .. Len(s) : n \in Same
  <2>. HIDE DEF Same
  <2>. QED
    BY <1>3, <1>5, <1>6, InductTo
<1>. QED
  BY <1>2, <1>3, <1>7

\* That function exists, and its values are of the type its steps keep.
LEMMA LoopExists ==
  ASSUME NEW S, NEW s \in Seq(S), NEW T, NEW first \in T, NEW step, \A v \in T : \A x \in S : step[v][x] \in T
  PROVE  \E f \in [0 .. Len(s) -> T] : Loop(s, first, step, f)
<1>. DEFINE Begun(n, f) == /\ f \in [0 .. n -> T]
                           /\ \A k \in 0 .. n : f[k] = IF k = 0 THEN first ELSE step[f[k - 1]][s[k]]
            G == {n \in 0 .. Len(s) : \E f : Begun(n, f)}
<1>1. Len(s) \in Nat
  BY LenProperties
<1>2. 0 \in G
  <2>1. Begun(0, [k \in 0 .. 0 |-> first])
    OBVIOUS
  <2>2. 0 \in 0 .. Len(s)
    BY <1>1
  <2>. HIDE DEF Begun
  <2>. QED
    BY <2>1, <2>2
<1>3. ASSUME NEW n \in 0 .. Len(s) - 1, n \in G PROVE n + 1 \in G
  <2>1. PICK f : Begun(n, f)
    BY <1>3
  <2>2. n \in Nat /\ n + 1 \in 1 .. Len(s) /\ s[n + 1] \in S /\ n + 1 \in 0 .. Len(s)
    BY <1>1, ElementOfSeq
  <2>. DEFINE g == [k \in 0 .. n + 1 |-> IF k = n + 1 THEN step[f[n]][s[n + 1]] ELSE f[k]]
  <2>3. f[n] \in T
    BY <2>1, <2>2
  <2>4. g \in [0 .. n + 1 -> T]
    <3>. SUFFICES ASSUME NEW k \in 0 .. n + 1 PROVE g[k] \in T
      OBVIOUS
    <3>1. k # n + 1 => k \in 0 .. n
      BY <2>2
    <3>. QED
      BY <2>1, <2>2, <2>3, <3>1
  <2>5. ASSUME NEW k \in 0 .. n + 1 PROVE g[k] = IF k = 0 THEN first ELSE step[g[k - 1]][s[k]]
    <3>1. CASE k = n + 1
      <4>1. k # 0 /\ k - 1 = n /\ k - 1 \in 0 .. n + 1 /\ k - 1 # n + 1
        BY <2>2, <3>1
      <4>. QED
        BY <3>1, <4>1
    <3>2. CASE k # n + 1
      <4>1. k \in 0 .. n /\ (k # 0 => k - 1 \in 0 .. n + 1 /\ k - 1 # n + 1)
        BY <2>2, <3>2
      <4>. QED
        BY <2>1, <3>2, <4>1
    <3>. QED
      BY <3>1, <3>2
  <2>6. Begun(n + 1, g)
    <3>. HIDE DEF g
    <3>. QED
      BY <2>4, <2>5
  <2>. HIDE DEF g, Begun
  <2>. QED
    BY <2>2, <2>6
<1>4. Len(s) \in G
  <2>. HIDE DEF G
  <2>1. \A n \in 0 .. Len(s) : n \in G
    BY <1>1, <1>2, <1>3, InductTo
  <2>. QED
    BY <1>1, <2>1
<1>5. PICK f : Begun(Len(s), f)
  BY <1>4
<1>6. f \in [0 .. Len(s) -> T] /\ Loop(s, first, step, f)
  BY <1>5 DEF Loop
<1>. QED
  BY <1>6

\* A loop stays in what its steps stay in.
LEMMA FoldTyped ==
  ASSUME NEW S, NEW s \in Seq(S), NEW T, NEW first \in T, NEW step, \A v \in T : \A x \in S : step[v][x] \in T
  PROVE  Fold(s, first, step) \in T
<1>1. PICK f \in [0 .. Len(s) -> T] : Loop(s, first, step, f)
  BY LoopExists
<1>2. Fold(s, first, step) = f[Len(s)] /\ Len(s) \in 0 .. Len(s)
  BY <1>1, FoldIs, LenProperties
<1>. QED
  BY <1>1, <1>2

LEMMA FoldNone ==
  ASSUME NEW first, NEW step
  PROVE  Fold(<<>>, first, step) = first
<1>. DEFINE g == [n \in 0 .. 0 |-> first]
<1>1. <<>> \in Seq({}) /\ Len(<<>>) = 0
  OBVIOUS
<1>2. Loop(<<>>, first, step, g)
  BY <1>1 DEF Loop
<1>3. g[0] = first
  OBVIOUS
<1>. HIDE DEF g
<1>. QED
  BY <1>1, <1>2, <1>3, FoldIs

\* The loop over one item more is one step more.
LEMMA FoldMore ==
  ASSUME NEW S, NEW s \in Seq(S), NEW e \in S, NEW T, NEW first \in T, NEW step,
         \A v \in T : \A x \in S : step[v][x] \in T
  PROVE  Fold(Append(s, e), first, step) = step[Fold(s, first, step)][e]
<1>. DEFINE t == Append(s, e)
<1>1. /\ t \in Seq(S) /\ Len(s) \in Nat /\ Len(t) = Len(s) + 1 /\ t[Len(s) + 1] = e
      /\ \A i \in 1 .. Len(s) : t[i] = s[i]
  BY AppendProperties, LenProperties
<1>. HIDE DEF t
<1>2. PICK f \in [0 .. Len(t) -> T] : Loop(t, first, step, f)
  BY <1>1, LoopExists
<1>3. \A n \in 0 .. Len(t) : f[n] = IF n = 0 THEN first ELSE step[f[n - 1]][t[n]]
  BY <1>2 DEF Loop
<1>. DEFINE g == [n \in 0 .. Len(s) |-> f[n]]
<1>4. Loop(s, first, step, g)
  <2>1. ASSUME NEW n \in 0 .. Len(s) PROVE g[n] = IF n = 0 THEN first ELSE step[g[n - 1]][s[n]]
    <3>1. n \in 0 .. Len(t) /\ (n # 0 => n - 1 \in 0 .. Len(s) /\ n \in 1 .. Len(s))
      BY <1>1
    <3>. QED
      BY <1>1, <1>3, <3>1
  <2>2. g = [n \in 0 .. Len(s) |-> IF n = 0 THEN first ELSE step[g[n - 1]][s[n]]]
    BY <2>1
  <2>. HIDE DEF g
  <2>. QED
    BY <2>2 DEF Loop
<1>5. Fold(s, first, step) = f[Len(s)]
  <2>1. g[Len(s)] = f[Len(s)]
    BY <1>1
  <2>. HIDE DEF g
  <2>. QED
    BY <1>4, <2>1, FoldIs
<1>6. Fold(t, first, step) = f[Len(t)]
  BY <1>1, <1>2, FoldIs
<1>7. Len(t) \in 0 .. Len(t) /\ Len(t) # 0 /\ Len(t) - 1 = Len(s)
  BY <1>1
<1>. QED
  BY <1>1, <1>3, <1>5, <1>6, <1>7 DEF t

\* What holds of no items, and of one item more, holds of every sequence.
LEMMA SeqInduction ==
  ASSUME NEW S, NEW G, <<>> \in G, \A s \in Seq(S) : \A e \in S : s \in G => Append(s, e) \in G
  PROVE  \A s \in Seq(S) : s \in G
<1>. TAKE s \in Seq(S)
<1>. DEFINE H == {n \in 0 .. Len(s) : SubSeq(s, 1, n) \in G}
<1>1. Len(s) \in Nat
  BY LenProperties
<1>2. 0 \in H
  <2>1. 0 \in 0 .. Len(s) /\ 1 > 0
    BY <1>1
  <2>2. SubSeq(s, 1, 0) = <<>>
    BY <2>1, SubSeqEmpty
  <2>. QED
    BY <2>1, <2>2
<1>3. ASSUME NEW n \in 0 .. Len(s) - 1, n \in H PROVE n + 1 \in H
  <2>1. n + 1 \in 1 .. Len(s) /\ n + 1 - 1 = n /\ n + 1 \in 0 .. Len(s)
    BY <1>1
  <2>2. s[n + 1] \in S /\ SubSeq(s, 1, n) \in Seq(S) /\ SubSeq(s, 1, n + 1) = Append(SubSeq(s, 1, n), s[n + 1])
    <3>. DEFINE m == n + 1
    <3>1. m \in 1 .. Len(s) /\ m - 1 = n
      BY <2>1
    <3>. HIDE DEF m
    <3>2. /\ s[m] \in S /\ SubSeq(s, 1, m - 1) \in Seq(S)
          /\ SubSeq(s, 1, m) = SubSeq(s, 1, m - 1) \o <<s[m]>>
      <4>1. m \in Nat /\ m - 1 \in Nat /\ 1 \in 1 .. Len(s) /\ \A i \in 1 .. m - 1 : s[i] \in S
        BY <1>1, <3>1, ElementOfSeq
      <4>. QED
        BY <3>1, <4>1, ElementOfSeq, SubSeqProperties, SubSeqRecursiveSecond
    <3>. QED
      BY <3>1, <3>2, AppendIsConcat DEF m
  <2>. QED
    BY <1>3, <2>1, <2>2
<1>4. Len(s) \in H
  <2>. HIDE DEF H
  <2>1. \A n \in 0 .. Len(s) : n \in H
    BY <1>1, <1>2, <1>3, InductTo
  <2>. QED
    BY <1>1, <2>1
<1>5. SubSeq(s, 1, Len(s)) = s
  BY SubSeqFull
<1>. QED
  BY <1>4, <1>5

--------------------------------------------------------------------------------
(* Sequences and their items. *)

LEMMA AppendToBoth ==
  ASSUME NEW T, NEW a \in Seq(T), NEW f \in Seq(T), NEW x \in T
  PROVE  a \o Append(f, x) = Append(a \o f, x)
<1>1. <<x>> \in Seq(T) /\ a \o f \in Seq(T)
  BY ConcatProperties
<1>2. Append(f, x) = f \o <<x>> /\ Append(a \o f, x) = (a \o f) \o <<x>>
  BY <1>1, AppendIsConcat
<1>. QED
  BY <1>1, <1>2, ConcatAssociative

LEMMA Regroup == \A T : \A p, q, r \in Seq(T) : (p \o q) \o r = p \o (q \o r)
<1>. TAKE T
<1>. TAKE p, q, r \in Seq(T)
<1>. QED
  BY ConcatAssociative

\* Concatenation, item by item.
LEMMA ConcatOver ==
  ASSUME NEW T, NEW p \in Seq(T), NEW q \in Seq(T), NEW m, NEW n, Len(p) = m, Len(q) = n
  PROVE  /\ p \o q \in Seq(T) /\ Len(p \o q) = m + n
         /\ \A i \in 1 .. m + n : (p \o q)[i] = IF i <= m THEN p[i] ELSE q[i - m]
BY ConcatProperties

LEMMA FcnIsSeq ==
  ASSUME NEW T, NEW n \in Nat, NEW f \in [1 .. n -> T]
  PROVE  f \in Seq(T) /\ Len(f) = n
OBVIOUS

LEMMA SeqIsFcn ==
  ASSUME NEW T, NEW s \in Seq(T)
  PROVE  Len(s) \in Nat /\ DOMAIN s = 1 .. Len(s) /\ s \in [1 .. Len(s) -> T]
BY LenProperties

LEMMA ItemsNone == ToSet(<<>>) = {}
BY DEF ToSet

LEMMA ItemsAre ==
  ASSUME NEW T, NEW s \in Seq(T)
  PROVE  ToSet(s) = {s[i] : i \in 1 .. Len(s)} /\ ToSet(s) \subseteq T
BY SeqIsFcn, ElementOfSeq DEF ToSet

\* The items of a sequence grow with it.
LEMMA ItemsMore ==
  ASSUME NEW T, NEW s \in Seq(T), NEW e \in T
  PROVE  ToSet(Append(s, e)) = ToSet(s) \cup {e}
<1>. DEFINE t == Append(s, e)
<1>1. /\ t \in Seq(T) /\ Len(s) \in Nat /\ Len(t) = Len(s) + 1 /\ t[Len(s) + 1] = e
      /\ \A i \in 1 .. Len(s) : t[i] = s[i]
  BY AppendProperties, LenProperties
<1>. HIDE DEF t
<1>2. ToSet(t) = {t[i] : i \in 1 .. Len(s) + 1} /\ ToSet(s) = {s[i] : i \in 1 .. Len(s)}
  BY <1>1, ItemsAre
<1>3. ASSUME NEW x \in ToSet(t) PROVE x \in ToSet(s) \cup {e}
  <2>1. PICK i \in 1 .. Len(s) + 1 : x = t[i]
    BY <1>2
  <2>2. i = Len(s) + 1 \/ i \in 1 .. Len(s)
    BY <1>1
  <2>. QED
    BY <1>1, <1>2, <2>1, <2>2
<1>4. ASSUME NEW x \in ToSet(s) PROVE x \in ToSet(t)
  <2>1. PICK i \in 1 .. Len(s) : x = s[i]
    BY <1>2
  <2>2. i \in 1 .. Len(s) + 1 /\ x = t[i]
    BY <1>1, <2>1
  <2>. QED
    BY <1>2, <2>2
<1>5. e \in ToSet(t)
  <2>1. Len(s) + 1 \in 1 .. Len(s) + 1
    BY <1>1
  <2>. QED
    BY <1>1, <1>2, <2>1
<1>. QED
  BY <1>3, <1>4, <1>5 DEF t

LEMMA ItemsBoth ==
  ASSUME NEW T, NEW p \in Seq(T), NEW q \in Seq(T)
  PROVE  ToSet(p \o q) = ToSet(p) \cup ToSet(q)
<1>. DEFINE G == {s \in Seq(T) : ToSet(p \o s) = ToSet(p) \cup ToSet(s)}
<1>1. <<>> \in G
  BY ItemsNone, EmptySeq, ConcatEmptySeq
<1>2. ASSUME NEW s \in Seq(T), NEW e \in T, s \in G PROVE Append(s, e) \in G
  <2>1. p \o Append(s, e) = Append(p \o s, e) /\ p \o s \in Seq(T) /\ Append(s, e) \in Seq(T)
    BY AppendToBoth, ConcatProperties, AppendProperties
  <2>2. ToSet(Append(p \o s, e)) = ToSet(p \o s) \cup {e} /\ ToSet(Append(s, e)) = ToSet(s) \cup {e}
    <3>. DEFINE both == p \o s
    <3>1. both \in Seq(T)
      BY <2>1
    <3>. HIDE DEF both
    <3>2. ToSet(Append(both, e)) = ToSet(both) \cup {e} /\ ToSet(Append(s, e)) = ToSet(s) \cup {e}
      BY <3>1, ItemsMore
    <3>. QED
      BY <3>2 DEF both
  <2>3. ToSet(p \o Append(s, e)) = ToSet(p) \cup ToSet(Append(s, e))
    BY <1>2, <2>1, <2>2
  <2>. QED
    BY <2>1, <2>3
<1>3. \A s \in Seq(T) : s \in G
  <2>. HIDE DEF G
  <2>. QED
    BY <1>1, <1>2, SeqInduction
<1>. QED
  BY <1>3

LEMMA OfItems ==
  ASSUME NEW T, NEW s \in Seq(T), NEW S, ToSet(s) \subseteq S
  PROVE  s \in Seq(S)
<1>1. Len(s) \in Nat /\ s \in [1 .. Len(s) -> T] /\ \A i \in 1 .. Len(s) : s[i] \in S
  BY SeqIsFcn, ItemsAre
<1>2. s \in [1 .. Len(s) -> S]
  BY <1>1
<1>. QED
  BY <1>1, <1>2, FcnIsSeq

\* A beginning of a sequence.
LEMMA Beginnings ==
  ASSUME NEW T, NEW s \in Seq(T), NEW n \in 0 .. Len(s)
  PROVE  /\ SubSeq(s, 1, n) \in Seq(T) /\ Len(SubSeq(s, 1, n)) = n
         /\ \A i \in 1 .. n : SubSeq(s, 1, n)[i] = s[i]
         /\ ToSet(SubSeq(s, 1, n)) \subseteq ToSet(s)
<1>1. Len(s) \in Nat /\ n \in Int /\ 1 \in Int /\ n <= Len(s) /\ n >= 0 /\ \A i \in 1 .. n : s[i] \in T
  BY SeqIsFcn
<1>2. /\ SubSeq(s, 1, n) \in Seq(T) /\ Len(SubSeq(s, 1, n)) = IF 1 <= n THEN n - 1 + 1 ELSE 0
      /\ \A i \in 1 .. n - 1 + 1 : SubSeq(s, 1, n)[i] = s[1 + i - 1]
  BY <1>1, SubSeqProperties
<1>3. \A i \in 1 .. n : SubSeq(s, 1, n)[i] = s[i]
  BY <1>1, <1>2
<1>4. ToSet(SubSeq(s, 1, n)) \subseteq ToSet(s)
  <2>1. \A i \in 1 .. n : i \in 1 .. Len(s)
    BY <1>1
  <2>. DEFINE t == SubSeq(s, 1, n)
  <2>2. Len(t) = n /\ t \in Seq(T) /\ \A i \in 1 .. n : t[i] = s[i]
    BY <1>1, <1>2, <1>3
  <2>. HIDE DEF t
  <2>3. ToSet(t) \subseteq ToSet(s)
    BY <2>1, <2>2, ItemsAre
  <2>. QED
    BY <2>3 DEF t
<1>. QED
  BY <1>1, <1>2, <1>3, <1>4

\* Top is a beginning, of at most n items.
LEMMA TopIs ==
  ASSUME NEW T, NEW s \in Seq(T), NEW n \in Nat
  PROVE  /\ Top(s, n) \in Seq(T) /\ Len(Top(s, n)) <= n /\ Len(Top(s, n)) \in 0 .. Len(s)
         /\ \A i \in 1 .. Len(Top(s, n)) : Top(s, n)[i] = s[i]
         /\ ToSet(Top(s, n)) \subseteq ToSet(s) /\ (Len(s) <= n => Top(s, n) = s)
<1>. DEFINE m == IF Len(s) < n THEN Len(s) ELSE n
<1>1. Len(s) \in Nat /\ m \in 0 .. Len(s) /\ m <= n /\ (Len(s) <= n => m = Len(s))
  BY SeqIsFcn
<1>2. Top(s, n) = SubSeq(s, 1, m)
  BY DEF Top
<1>. HIDE DEF m
<1>. QED
  BY <1>1, <1>2, Beginnings, SubSeqFull

--------------------------------------------------------------------------------
(* What Only keeps, and that keeping is an algebra: over two sequences, twice,
   and the same for sets that agree on what there is. *)

OnlyStep(S) == [t \in Seq(Results) |-> [r \in Results |-> IF r \in S THEN Append(t, r) ELSE t]]

LEMMA OnlyStepIs ==
  ASSUME NEW S
  PROVE  \A v \in Seq(Results) : \A x \in Results :
           OnlyStep(S)[v][x] \in Seq(Results) /\ OnlyStep(S)[v][x] = IF x \in S THEN Append(v, x) ELSE v
BY AppendProperties DEF OnlyStep

LEMMA OnlyNone == \A S : Only(<<>>, S) = <<>>
BY FoldNone DEF Only

LEMMA OnlyIsSeq ==
  ASSUME NEW S, NEW s \in Seq(Results)
  PROVE  Only(s, S) \in Seq(Results)
<1>. DEFINE step == OnlyStep(S)
            U == Seq(Results)
            first == <<>>
<1>1. Only(s, S) = Fold(s, first, step) /\ first \in U
  BY EmptySeq DEF Only, OnlyStep
<1>2. \A v \in U : \A x \in Results : step[v][x] \in U
  BY OnlyStepIs
<1>. HIDE DEF step, U, first
<1>3. Fold(s, first, step) \in U
  BY <1>1, <1>2, FoldTyped
<1>. QED
  BY <1>1, <1>3 DEF U

\* Only, one item more.
LEMMA OnlyMore ==
  ASSUME NEW S, NEW s \in Seq(Results), NEW e \in Results
  PROVE  Only(Append(s, e), S) = IF e \in S THEN Append(Only(s, S), e) ELSE Only(s, S)
<1>1. Only(s, S) = Fold(s, <<>>, OnlyStep(S)) /\ Only(Append(s, e), S) = Fold(Append(s, e), <<>>, OnlyStep(S))
      /\ <<>> \in Seq(Results)
  BY EmptySeq DEF Only, OnlyStep
<1>2. Fold(Append(s, e), <<>>, OnlyStep(S)) = OnlyStep(S)[Fold(s, <<>>, OnlyStep(S))][e]
  <2>. DEFINE step == OnlyStep(S)
              U == Seq(Results)
              first == <<>>
  <2>1. first \in U /\ \A v \in U : \A x \in Results : step[v][x] \in U
    BY <1>1, OnlyStepIs
  <2>. HIDE DEF step, U, first
  <2>2. Fold(Append(s, e), first, step) = step[Fold(s, first, step)][e]
    BY <2>1, FoldMore
  <2>. QED
    BY <2>2 DEF step, first
<1>3. Only(s, S) \in Seq(Results) /\ Only(Append(s, e), S) = OnlyStep(S)[Only(s, S)][e]
  BY <1>1, <1>2, OnlyIsSeq
<1>4. OnlyStep(S)[Only(s, S)][e] = IF e \in S THEN Append(Only(s, S), e) ELSE Only(s, S)
  BY <1>3, OnlyStepIs
<1>. QED
  BY <1>3, <1>4

\* Only keeps what is in the set, and nothing else.
LEMMA OnlyHas == \A S : \A s \in Seq(Results) : ToSet(Only(s, S)) = ToSet(s) \cap S
<1>. TAKE S
<1>. DEFINE G == {s \in Seq(Results) : ToSet(Only(s, S)) = ToSet(s) \cap S}
<1>1. <<>> \in G
  BY OnlyNone, ItemsNone, EmptySeq
<1>2. ASSUME NEW s \in Seq(Results), NEW e \in Results, s \in G PROVE Append(s, e) \in G
  <2>1. ToSet(Append(s, e)) = ToSet(s) \cup {e} /\ Append(s, e) \in Seq(Results)
    BY ItemsMore, AppendProperties
  <2>. DEFINE t == Only(s, S)
  <2>2. t \in Seq(Results) /\ ToSet(t) = ToSet(s) \cap S /\ Only(Append(s, e), S) = IF e \in S THEN Append(t, e) ELSE t
    BY <1>2, OnlyMore, OnlyIsSeq
  <2>. HIDE DEF t
  <2>3. ToSet(Append(t, e)) = ToSet(t) \cup {e}
    BY <2>2, ItemsMore
  <2>4. ToSet(Only(Append(s, e), S)) = ToSet(Append(s, e)) \cap S
    BY <2>1, <2>2, <2>3
  <2>. QED
    BY <2>1, <2>4
<1>. HIDE DEF G
<1>3. \A s \in Seq(Results) : s \in G
  BY <1>1, <1>2, SeqInduction
<1>. QED
  BY <1>3 DEF G

\* What is kept of two sequences is kept of each.
LEMMA OnlyBoth == \A S : \A p, q \in Seq(Results) : Only(p \o q, S) = Only(p, S) \o Only(q, S)
<1>. TAKE S
<1>. TAKE p \in Seq(Results)
<1>. DEFINE G == {q \in Seq(Results) : Only(p \o q, S) = Only(p, S) \o Only(q, S)}
            a == Only(p, S)
<1>0. a \in Seq(Results)
  BY OnlyIsSeq
<1>1. <<>> \in G
  <2>1. a \o <<>> = a
    BY <1>0, ConcatEmptySeq
  <2>. QED
    BY <2>1, OnlyNone, EmptySeq, ConcatEmptySeq
<1>2. ASSUME NEW q \in Seq(Results), NEW e \in Results, q \in G PROVE Append(q, e) \in G
  <2>. DEFINE b == Only(q, S)
              both == p \o q
  <2>1. /\ b \in Seq(Results) /\ both \in Seq(Results) /\ Only(both, S) = a \o b /\ Append(q, e) \in Seq(Results)
        /\ p \o Append(q, e) = Append(both, e)
    BY <1>2, OnlyIsSeq, ConcatProperties, AppendToBoth, AppendProperties
  <2>2. Only(Append(q, e), S) = IF e \in S THEN Append(b, e) ELSE b
    BY OnlyMore
  <2>. HIDE DEF b, both, a
  <2>3. Only(Append(both, e), S) = IF e \in S THEN Append(Only(both, S), e) ELSE Only(both, S)
    BY <2>1, OnlyMore
  <2>4. a \o Append(b, e) = Append(a \o b, e)
    BY <1>0, <2>1, AppendToBoth
  <2>5. Only(p \o Append(q, e), S) = a \o Only(Append(q, e), S)
    BY <2>1, <2>2, <2>3, <2>4
  <2>. QED
    BY <2>1, <2>5 DEF a
<1>. HIDE DEF G, a
<1>3. \A q \in Seq(Results) : q \in G
  BY <1>1, <1>2, SeqInduction
<1>. QED
  BY <1>3 DEF G, a

\* Only asks no more of a set than which of the items are in it.
LEMMA OnlySame ==
  \A S, T : \A s \in Seq(Results) : ToSet(s) \cap S = ToSet(s) \cap T => Only(s, S) = Only(s, T)
<1>. TAKE S, T
<1>. DEFINE G == {s \in Seq(Results) : ToSet(s) \cap S = ToSet(s) \cap T => Only(s, S) = Only(s, T)}
<1>1. <<>> \in G
  BY OnlyNone, EmptySeq
<1>2. ASSUME NEW s \in Seq(Results), NEW e \in Results, s \in G PROVE Append(s, e) \in G
  <2>1. ToSet(Append(s, e)) = ToSet(s) \cup {e} /\ Append(s, e) \in Seq(Results)
    BY ItemsMore, AppendProperties
  <2>2. Only(Append(s, e), S) = (IF e \in S THEN Append(Only(s, S), e) ELSE Only(s, S))
    BY OnlyMore
  <2>3. Only(Append(s, e), T) = (IF e \in T THEN Append(Only(s, T), e) ELSE Only(s, T))
    BY OnlyMore
  <2>4. ASSUME ToSet(Append(s, e)) \cap S = ToSet(Append(s, e)) \cap T PROVE Only(Append(s, e), S) = Only(Append(s, e), T)
    <3>1. ToSet(s) \cap S = ToSet(s) \cap T /\ (e \in S <=> e \in T)
      BY <2>1, <2>4
    <3>. QED
      BY <1>2, <2>2, <2>3, <3>1
  <2>. QED
    BY <2>1, <2>4
<1>. HIDE DEF G
<1>3. \A s \in Seq(Results) : s \in G
  BY <1>1, <1>2, SeqInduction
<1>. QED
  BY <1>3 DEF G

LEMMA OnlyAll == \A S : \A s \in Seq(Results) : ToSet(s) \subseteq S => Only(s, S) = s
<1>. DEFINE G == {s \in Seq(Results) : Only(s, Results) = s}
<1>1. <<>> \in G
  BY OnlyNone, EmptySeq
<1>2. ASSUME NEW s \in Seq(Results), NEW e \in Results, s \in G PROVE Append(s, e) \in G
  BY <1>2, OnlyMore, AppendProperties
<1>3. \A s \in Seq(Results) : s \in G
  <2>. HIDE DEF G
  <2>. QED
    BY <1>1, <1>2, SeqInduction
<1>. TAKE S
<1>. TAKE s \in Seq(Results)
<1>. HAVE ToSet(s) \subseteq S
<1>4. ToSet(s) \cap S = ToSet(s) \cap Results
  BY ItemsAre
<1>. QED
  BY <1>3, <1>4, OnlySame

LEMMA OnlyNothing == \A S : \A s \in Seq(Results) : ToSet(s) \cap S = {} => Only(s, S) = <<>>
<1>. DEFINE G == {s \in Seq(Results) : Only(s, {}) = <<>>}
<1>1. <<>> \in G
  BY OnlyNone, EmptySeq
<1>2. ASSUME NEW s \in Seq(Results), NEW e \in Results, s \in G PROVE Append(s, e) \in G
  BY <1>2, OnlyMore, AppendProperties
<1>3. \A s \in Seq(Results) : s \in G
  <2>. HIDE DEF G
  <2>. QED
    BY <1>1, <1>2, SeqInduction
<1>. TAKE S
<1>. TAKE s \in Seq(Results)
<1>. HAVE ToSet(s) \cap S = {}
<1>4. ToSet(s) \cap S = ToSet(s) \cap {}
  OBVIOUS
<1>. QED
  BY <1>3, <1>4, OnlySame

\* Keeping twice is keeping what is in both sets.
LEMMA OnlyTwice == \A S, T : \A s \in Seq(Results) : Only(Only(s, S), T) = Only(s, S \cap T)
<1>. TAKE S, T
<1>. DEFINE G == {s \in Seq(Results) : Only(Only(s, S), T) = Only(s, S \cap T)}
<1>1. <<>> \in G
  BY OnlyNone, EmptySeq
<1>2. ASSUME NEW s \in Seq(Results), NEW e \in Results, s \in G PROVE Append(s, e) \in G
  <2>. DEFINE t == Only(s, S)
  <2>1. t \in Seq(Results) /\ Only(t, T) = Only(s, S \cap T) /\ Append(s, e) \in Seq(Results)
    BY <1>2, OnlyIsSeq, AppendProperties
  <2>2. Only(Append(s, e), S) = (IF e \in S THEN Append(t, e) ELSE t)
    BY OnlyMore
  <2>3. Only(Append(s, e), S \cap T) = IF e \in S \cap T THEN Append(Only(s, S \cap T), e) ELSE Only(s, S \cap T)
    BY OnlyMore
  <2>. HIDE DEF t
  <2>4. Only(Append(t, e), T) = IF e \in T THEN Append(Only(t, T), e) ELSE Only(t, T)
    BY <2>1, OnlyMore
  <2>5. Only(Only(Append(s, e), S), T) = Only(Append(s, e), S \cap T)
    <3>1. CASE e \in S
      <4>1. Only(Append(s, e), S) = Append(t, e) /\ (e \in S \cap T <=> e \in T)
        BY <2>2, <3>1
      <4>2. Only(Only(Append(s, e), S), T) = Only(Append(t, e), T)
        BY <4>1
      <4>. QED
        BY <2>1, <2>3, <2>4, <4>1, <4>2
    <3>2. CASE e \notin S
      BY <2>1, <2>2, <2>3, <3>2
    <3>. QED
      BY <3>1, <3>2
  <2>. QED
    BY <2>1, <2>5
<1>. HIDE DEF G
<1>3. \A s \in Seq(Results) : s \in G
  BY <1>1, <1>2, SeqInduction
<1>. QED
  BY <1>3 DEF G

--------------------------------------------------------------------------------
(* Sorting: the same items, in order of their keys, and what is kept of the
   sorted is what is kept, sorted. *)

Keys == [Results -> Int]
Above(key, k) == {x \in Results : key[x] >= k}
Below(key, k) == {x \in Results : key[x] < k}
Descending(s, key) == \A i, j \in 1 .. Len(s) : i < j => key[s[i]] >= key[s[j]]

\* Insert puts an item between those not below it and those below.
LEMMA InsertIs ==
  ASSUME NEW t \in Seq(Results), NEW r \in Results, NEW key \in Keys
  PROVE  /\ Only(t, Above(key, key[r])) \in Seq(Results) /\ Only(t, Below(key, key[r])) \in Seq(Results)
         /\ <<r>> \in Seq(Results) /\ ToSet(<<r>>) = {r}
         /\ Insert(t, r, key) = Only(t, Above(key, key[r])) \o <<r>> \o Only(t, Below(key, key[r]))
         /\ Insert(t, r, key) \in Seq(Results)
         /\ ToSet(Insert(t, r, key)) = ToSet(t) \cup {r}
<1>. DEFINE p == Only(t, Above(key, key[r]))
            q == Only(t, Below(key, key[r]))
            one == <<r>>
<1>1. /\ p \in Seq(Results) /\ q \in Seq(Results)
      /\ ToSet(p) = ToSet(t) \cap Above(key, key[r]) /\ ToSet(q) = ToSet(t) \cap Below(key, key[r])
  BY OnlyIsSeq, OnlyHas
<1>2. Insert(t, r, key) = p \o one \o q
  BY DEF Insert, Above, Below
<1>3. one \in Seq(Results) /\ Len(one) = 1 /\ one[1] = r
  OBVIOUS
<1>. HIDE DEF p, q, one
<1>4. ToSet(one) = {r}
  BY <1>3, ItemsAre
<1>5. p \o one \in Seq(Results) /\ ToSet(p \o one) = ToSet(p) \cup {r}
  <2>1. p \in Seq(Results) /\ one \in Seq(Results)
    BY <1>1, <1>3
  <2>2. p \o one \in Seq(Results) /\ ToSet(p \o one) = ToSet(p) \cup ToSet(one)
    BY <2>1, ItemsBoth, ConcatProperties
  <2>. QED
    BY <1>4, <2>2
<1>6. p \o one \o q \in Seq(Results) /\ ToSet(p \o one \o q) = ToSet(p) \cup {r} \cup ToSet(q)
  <2>. DEFINE both == p \o one
  <2>1. both \in Seq(Results)
    BY <1>5
  <2>. HIDE DEF both
  <2>2. both \o q \in Seq(Results) /\ ToSet(both \o q) = ToSet(both) \cup ToSet(q)
    BY <1>1, <2>1, ItemsBoth, ConcatProperties
  <2>. QED
    BY <1>5, <2>2 DEF both
<1>7. ToSet(t) \subseteq Above(key, key[r]) \cup Below(key, key[r])
  <2>1. ASSUME NEW x \in Results PROVE x \in Above(key, key[r]) \cup Below(key, key[r])
    <3>1. key[x] \in Int /\ key[r] \in Int
      BY DEF Keys
    <3>. QED
      BY <3>1 DEF Above, Below
  <2>. QED
    BY <2>1, ItemsAre
<1>8. ToSet(p) \cup {r} \cup ToSet(q) = ToSet(t) \cup {r}
  BY <1>1, <1>7
<1>9. p \o one \o q \in Seq(Results) /\ ToSet(p \o one \o q) = ToSet(t) \cup {r}
  BY <1>6, <1>8
<1>. QED
  BY <1>1, <1>2, <1>3, <1>4, <1>9 DEF p, q, one

SortStep(key) == [t \in Seq(Results) |-> [r \in Results |-> Insert(t, r, key)]]

LEMMA SortedNone == \A key : Sorted(<<>>, key) = <<>>
BY FoldNone DEF Sorted

\* Sorting one item more is one insertion more.
LEMMA SortedSteps ==
  ASSUME NEW key \in Keys, NEW s \in Seq(Results)
  PROVE  /\ Sorted(s, key) \in Seq(Results)
         /\ \A e \in Results : Sorted(Append(s, e), key) = Insert(Sorted(s, key), e, key)
<1>. DEFINE step == SortStep(key)
            U == Seq(Results)
            first == <<>>
<1>1. /\ Sorted(s, key) = Fold(s, first, step) /\ first \in U
      /\ \A e \in Results : Sorted(Append(s, e), key) = Fold(Append(s, e), first, step)
  BY EmptySeq DEF Sorted, SortStep
<1>2. \A v \in U : \A x \in Results : step[v][x] \in U /\ step[v][x] = Insert(v, x, key)
  BY InsertIs DEF SortStep
<1>. HIDE DEF step, U, first
<1>3. Fold(s, first, step) \in U
  BY <1>1, <1>2, FoldTyped
<1>4. \A e \in Results : Fold(Append(s, e), first, step) = step[Fold(s, first, step)][e]
  <2>. TAKE e \in Results
  <2>1. s \in Seq(Results) /\ first \in U /\ \A v \in U : \A x \in Results : step[v][x] \in U
    BY <1>1, <1>2
  <2>. QED
    BY <2>1, FoldMore
<1>5. Sorted(s, key) \in U
  BY <1>1, <1>3
<1>6. \A e \in Results : Sorted(Append(s, e), key) = Insert(Sorted(s, key), e, key)
  BY <1>1, <1>2, <1>3, <1>4
<1>. QED
  BY <1>5, <1>6 DEF U

\* Sorting loses and makes up nothing.
LEMMA SortedHas == \A key \in Keys : \A s \in Seq(Results) : ToSet(Sorted(s, key)) = ToSet(s)
<1>. TAKE key \in Keys
<1>. DEFINE G == {s \in Seq(Results) : ToSet(Sorted(s, key)) = ToSet(s)}
<1>1. <<>> \in G
  BY SortedNone, EmptySeq
<1>2. ASSUME NEW s \in Seq(Results), NEW e \in Results, s \in G PROVE Append(s, e) \in G
  <2>1. Sorted(s, key) \in Seq(Results) /\ Sorted(Append(s, e), key) = Insert(Sorted(s, key), e, key)
        /\ Append(s, e) \in Seq(Results) /\ ToSet(Append(s, e)) = ToSet(s) \cup {e}
    BY SortedSteps, ItemsMore, AppendProperties
  <2>2. ToSet(Insert(Sorted(s, key), e, key)) = ToSet(Sorted(s, key)) \cup {e}
    BY <2>1, InsertIs
  <2>. QED
    BY <1>2, <2>1, <2>2
<1>. HIDE DEF G
<1>3. \A s \in Seq(Results) : s \in G
  BY <1>1, <1>2, SeqInduction
<1>. QED
  BY <1>3 DEF G

\* A sequence descends when what comes last is least.
LEMMA DescendingMore ==
  ASSUME NEW key \in Keys, NEW t \in Seq(Results), NEW e \in Results
  PROVE  Descending(Append(t, e), key) <=> Descending(t, key) /\ \A x \in ToSet(t) : key[x] >= key[e]
<1>. DEFINE u == Append(t, e)
<1>1. /\ u \in Seq(Results) /\ Len(t) \in Nat /\ Len(u) = Len(t) + 1 /\ u[Len(t) + 1] = e
      /\ \A i \in 1 .. Len(t) : u[i] = t[i]
  BY AppendProperties, LenProperties
<1>. HIDE DEF u
<1>2. ToSet(t) = {t[i] : i \in 1 .. Len(t)}
  BY ItemsAre
<1>3. ASSUME Descending(u, key) PROVE Descending(t, key) /\ \A x \in ToSet(t) : key[x] >= key[e]
  <2>1. ASSUME NEW i \in 1 .. Len(t), NEW j \in 1 .. Len(t), i < j PROVE key[t[i]] >= key[t[j]]
    <3>1. i \in 1 .. Len(u) /\ j \in 1 .. Len(u)
      BY <1>1
    <3>. QED
      BY <1>1, <1>3, <2>1, <3>1 DEF Descending
  <2>2. ASSUME NEW i \in 1 .. Len(t) PROVE key[t[i]] >= key[e]
    <3>1. i \in 1 .. Len(u) /\ Len(t) + 1 \in 1 .. Len(u) /\ i < Len(t) + 1
      BY <1>1
    <3>2. key[u[i]] >= key[u[Len(t) + 1]]
      BY <1>3, <3>1 DEF Descending
    <3>. QED
      BY <1>1, <3>2
  <2>. QED
    BY <1>2, <2>1, <2>2 DEF Descending
<1>4. ASSUME Descending(t, key), \A x \in ToSet(t) : key[x] >= key[e] PROVE Descending(u, key)
  <2>. SUFFICES ASSUME NEW i \in 1 .. Len(u), NEW j \in 1 .. Len(u), i < j PROVE key[u[i]] >= key[u[j]]
    BY DEF Descending
  <2>1. i \in 1 .. Len(t) /\ u[i] = t[i]
    BY <1>1
  <2>2. CASE j = Len(t) + 1
    BY <1>1, <1>2, <1>4, <2>1, <2>2
  <2>3. CASE j # Len(t) + 1
    <3>1. j \in 1 .. Len(t) /\ u[j] = t[j]
      BY <1>1, <2>3
    <3>. QED
      BY <1>4, <2>1, <3>1 DEF Descending
  <2>. QED
    BY <2>2, <2>3
<1>. QED
  BY <1>3, <1>4 DEF u

LEMMA DescendingNone == \A key : Descending(<<>>, key)
<1>1. Len(<<>>) = 0 /\ 1 .. 0 = {}
  OBVIOUS
<1>. QED
  BY <1>1 DEF Descending

LEMMA DescendingBoth ==
  ASSUME NEW key \in Keys, NEW p \in Seq(Results), NEW q \in Seq(Results), Descending(p, key), Descending(q, key),
         \A x \in ToSet(p) : \A y \in ToSet(q) : key[x] >= key[y]
  PROVE  Descending(p \o q, key)
<1>. DEFINE G == {s \in Seq(Results) :
                    Descending(s, key) /\ (\A x \in ToSet(p) : \A y \in ToSet(s) : key[x] >= key[y])
                      => Descending(p \o s, key)}
<1>1. <<>> \in G
  BY EmptySeq, ConcatEmptySeq
<1>2. ASSUME NEW s \in Seq(Results), NEW e \in Results, s \in G PROVE Append(s, e) \in G
  <2>. DEFINE both == p \o s
  <2>1. /\ both \in Seq(Results) /\ p \o Append(s, e) = Append(both, e) /\ ToSet(both) = ToSet(p) \cup ToSet(s)
        /\ Append(s, e) \in Seq(Results) /\ ToSet(Append(s, e)) = ToSet(s) \cup {e}
    BY ItemsBoth, AppendToBoth, ConcatProperties, ItemsMore, AppendProperties
  <2>2. ASSUME Descending(Append(s, e), key), \A x \in ToSet(p) : \A y \in ToSet(Append(s, e)) : key[x] >= key[y]
        PROVE  Descending(p \o Append(s, e), key)
    <3>1. Descending(s, key) /\ \A x \in ToSet(s) : key[x] >= key[e]
      BY <2>2, DescendingMore
    <3>2. Descending(both, key)
      BY <1>2, <2>1, <2>2, <3>1
    <3>3. \A x \in ToSet(both) : key[x] >= key[e]
      BY <2>1, <2>2, <3>1
    <3>. HIDE DEF both
    <3>. QED
      BY <2>1, <3>2, <3>3, DescendingMore
  <2>. QED
    BY <2>1, <2>2
<1>3. \A s \in Seq(Results) : s \in G
  <2>. HIDE DEF G
  <2>. QED
    BY <1>1, <1>2, SeqInduction
<1>. QED
  BY <1>3

\* What is kept of a descending sequence descends.
LEMMA DescendingOnly ==
  \A key \in Keys : \A S : \A s \in Seq(Results) : Descending(s, key) => Descending(Only(s, S), key)
<1>. TAKE key \in Keys
<1>. TAKE S
<1>. DEFINE G == {s \in Seq(Results) : Descending(s, key) => Descending(Only(s, S), key)}
<1>1. <<>> \in G
  BY EmptySeq, OnlyNone
<1>2. ASSUME NEW s \in Seq(Results), NEW e \in Results, s \in G PROVE Append(s, e) \in G
  <2>. DEFINE t == Only(s, S)
  <2>1. Append(s, e) \in Seq(Results) /\ t \in Seq(Results) /\ ToSet(t) \subseteq ToSet(s)
    BY AppendProperties, OnlyIsSeq, OnlyHas
  <2>2. Only(Append(s, e), S) = IF e \in S THEN Append(t, e) ELSE t
    BY OnlyMore
  <2>3. ASSUME Descending(Append(s, e), key) PROVE Descending(Only(Append(s, e), S), key)
    <3>1. Descending(s, key) /\ \A x \in ToSet(s) : key[x] >= key[e]
      BY <2>3, DescendingMore
    <3>2. Descending(t, key) /\ \A x \in ToSet(t) : key[x] >= key[e]
      BY <1>2, <2>1, <3>1
    <3>. HIDE DEF t
    <3>3. Descending(Append(t, e), key)
      BY <2>1, <3>2, DescendingMore
    <3>. QED
      BY <2>2, <3>2, <3>3
  <2>. QED
    BY <2>1, <2>3
<1>. HIDE DEF G
<1>3. \A s \in Seq(Results) : s \in G
  BY <1>1, <1>2, SeqInduction
<1>. QED
  BY <1>3 DEF G

\* A descending sequence is what is above a bound, then what is below.
LEMMA SplitAt ==
  \A key \in Keys : \A k \in Int : \A s \in Seq(Results) :
    Descending(s, key) => s = Only(s, Above(key, k)) \o Only(s, Below(key, k))
<1>. TAKE key \in Keys
<1>. TAKE k \in Int
<1>. DEFINE G == {s \in Seq(Results) : Descending(s, key) => s = Only(s, Above(key, k)) \o Only(s, Below(key, k))}
<1>1. <<>> \in G
  BY EmptySeq, OnlyNone, ConcatEmptySeq
<1>2. ASSUME NEW s \in Seq(Results), NEW e \in Results, s \in G PROVE Append(s, e) \in G
  <2>1. SUFFICES ASSUME Descending(Append(s, e), key)
                 PROVE  Append(s, e) = Only(Append(s, e), Above(key, k)) \o Only(Append(s, e), Below(key, k))
    BY AppendProperties
  <2>. DEFINE p == Only(s, Above(key, k))
              q == Only(s, Below(key, k))
  <2>2. Descending(s, key) /\ \A x \in ToSet(s) : key[x] >= key[e]
    BY <2>1, DescendingMore
  <2>3. p \in Seq(Results) /\ q \in Seq(Results) /\ s = p \o q
    BY <1>2, <2>2, OnlyIsSeq
  <2>4. key[e] \in Int /\ \A x \in Results : key[x] \in Int
    BY DEF Keys
  <2>5. CASE key[e] >= k
    <3>1. e \in Above(key, k) /\ e \notin Below(key, k)
      BY <2>4, <2>5 DEF Above, Below
    <3>2. ToSet(s) \cap Below(key, k) = {}
      <4>1. ASSUME NEW x \in ToSet(s) PROVE x \notin Below(key, k)
        <5>1. x \in Results
          BY ItemsAre
        <5>2. key[x] >= key[e] /\ key[x] \in Int
          BY <2>2, <2>4, <5>1
        <5>. QED
          BY <2>4, <2>5, <5>2 DEF Below
      <4>. QED
        BY <4>1
    <3>3. q = <<>>
      BY <3>2, OnlyNothing
    <3>4. s = p
      BY <2>3, <3>3, ConcatEmptySeq
    <3>5. Only(Append(s, e), Above(key, k)) = Append(p, e) /\ Only(Append(s, e), Below(key, k)) = <<>>
      BY <3>1, <3>3, OnlyMore
    <3>6. Append(p, e) \o <<>> = Append(p, e)
      <4>. HIDE DEF p
      <4>1. Append(p, e) \in Seq(Results)
        BY <2>3, AppendProperties
      <4>. QED
        BY <4>1, ConcatEmptySeq
    <3>. QED
      BY <3>4, <3>5, <3>6
  <2>6. CASE ~(key[e] >= k)
    <3>1. e \notin Above(key, k) /\ e \in Below(key, k)
      BY <2>4, <2>6 DEF Above, Below
    <3>2. Only(Append(s, e), Above(key, k)) = p /\ Only(Append(s, e), Below(key, k)) = Append(q, e)
      BY <3>1, OnlyMore
    <3>. HIDE DEF p, q
    <3>3. p \o Append(q, e) = Append(p \o q, e)
      BY <2>3, AppendToBoth
    <3>. QED
      BY <2>3, <3>2, <3>3
  <2>. QED
    BY <2>5, <2>6
<1>. HIDE DEF G
<1>3. \A s \in Seq(Results) : s \in G
  BY <1>1, <1>2, SeqInduction
<1>. QED
  BY <1>3 DEF G

\* An insertion keeps the order,
LEMMA InsertDescends ==
  ASSUME NEW key \in Keys, NEW t \in Seq(Results), NEW r \in Results, Descending(t, key)
  PROVE  Descending(Insert(t, r, key), key)
<1>. DEFINE p == Only(t, Above(key, key[r]))
            q == Only(t, Below(key, key[r]))
            one == <<r>>
<1>1. /\ p \in Seq(Results) /\ q \in Seq(Results) /\ one \in Seq(Results) /\ ToSet(one) = {r}
      /\ Insert(t, r, key) = p \o one \o q
  BY InsertIs
<1>2. ToSet(p) = ToSet(t) \cap Above(key, key[r]) /\ ToSet(q) = ToSet(t) \cap Below(key, key[r])
  BY OnlyHas
<1>3. Descending(p, key) /\ Descending(q, key)
  BY DescendingOnly
<1>4. Descending(one, key)
  <2>1. Len(one) = 1
    OBVIOUS
  <2>. HIDE DEF one
  <2>. QED
    BY <2>1 DEF Descending
<1>5. key[r] \in Int /\ \A x \in Results : key[x] \in Int
  BY DEF Keys
<1>6. (\A x \in ToSet(p) : x \in Results /\ key[x] >= key[r]) /\ (\A x \in ToSet(q) : x \in Results /\ key[x] < key[r])
  BY <1>2 DEF Above, Below
<1>. HIDE DEF p, q, one
<1>7. Descending(p \o one, key) /\ p \o one \in Seq(Results) /\ ToSet(p \o one) = ToSet(p) \cup ToSet(one)
  BY <1>1, <1>3, <1>4, <1>6, DescendingBoth, ItemsBoth, ConcatProperties
<1>8. \A x \in ToSet(p \o one) : \A y \in ToSet(q) : key[x] >= key[y]
  <2>1. ASSUME NEW x \in ToSet(p) \cup {r}, NEW y \in ToSet(q) PROVE key[x] >= key[y]
    <3>1. key[x] \in Int /\ key[y] \in Int /\ key[y] < key[r] /\ key[x] >= key[r]
      BY <1>5, <1>6
    <3>. QED
      BY <1>5, <3>1
  <2>. QED
    BY <1>1, <1>7, <2>1
<1>9. Descending(p \o one \o q, key)
  <2>. DEFINE both == p \o one
  <2>1. both \in Seq(Results) /\ Descending(both, key) /\ \A x \in ToSet(both) : \A y \in ToSet(q) : key[x] >= key[y]
    BY <1>7, <1>8
  <2>. HIDE DEF both
  <2>2. Descending(both \o q, key)
    BY <1>1, <1>3, <2>1, DescendingBoth
  <2>. QED
    BY <2>2 DEF both
<1>. QED
  BY <1>1, <1>9

\* so what is sorted descends.
LEMMA SortedDescends == \A key \in Keys : \A s \in Seq(Results) : Descending(Sorted(s, key), key)
<1>. TAKE key \in Keys
<1>. DEFINE G == {s \in Seq(Results) : Descending(Sorted(s, key), key)}
<1>1. <<>> \in G
  BY SortedNone, EmptySeq, DescendingNone
<1>2. ASSUME NEW s \in Seq(Results), NEW e \in Results, s \in G PROVE Append(s, e) \in G
  <2>1. Sorted(s, key) \in Seq(Results) /\ Sorted(Append(s, e), key) = Insert(Sorted(s, key), e, key)
        /\ Append(s, e) \in Seq(Results)
    BY SortedSteps, AppendProperties
  <2>. QED
    BY <1>2, <2>1, InsertDescends
<1>. HIDE DEF G
<1>3. \A s \in Seq(Results) : s \in G
  BY <1>1, <1>2, SeqInduction
<1>. QED
  BY <1>3 DEF G

\* Keeping and inserting change places, in a descending sequence,
LEMMA InsertOnly ==
  ASSUME NEW key \in Keys, NEW t \in Seq(Results), NEW r \in Results, NEW S, Descending(t, key)
  PROVE  Only(Insert(t, r, key), S) = IF r \in S THEN Insert(Only(t, S), r, key) ELSE Only(t, S)
<1>. DEFINE A == Above(key, key[r])
            B == Below(key, key[r])
            p == Only(t, A)
            q == Only(t, B)
            one == <<r>>
            u == Only(t, S)
<1>1. /\ p \in Seq(Results) /\ q \in Seq(Results) /\ one \in Seq(Results) /\ ToSet(one) = {r}
      /\ Insert(t, r, key) = p \o one \o q
  BY InsertIs
<1>2. u \in Seq(Results) /\ Only(p, S) = Only(u, A) /\ Only(q, S) = Only(u, B)
  <2>1. A \cap S = S \cap A /\ B \cap S = S \cap B
    OBVIOUS
  <2>. HIDE DEF A, B
  <2>2. Only(p, S) = Only(t, A \cap S) /\ Only(u, A) = Only(t, S \cap A)
        /\ Only(q, S) = Only(t, B \cap S) /\ Only(u, B) = Only(t, S \cap B)
    BY OnlyTwice
  <2>. QED
    BY <2>1, <2>2, OnlyIsSeq
<1>3. key[r] \in Int /\ Descending(u, key)
  BY DescendingOnly DEF Keys
<1>. HIDE DEF A, B, p, q, one, u
<1>4. p \o one \in Seq(Results) /\ Only(p \o one, S) = Only(p, S) \o Only(one, S)
  BY <1>1, OnlyBoth, ConcatProperties
<1>5. Only(p \o one \o q, S) = Only(p \o one, S) \o Only(q, S)
  BY <1>1, <1>4, OnlyBoth
<1>6. Only(Insert(t, r, key), S) = Only(u, A) \o Only(one, S) \o Only(u, B)
  BY <1>1, <1>2, <1>4, <1>5
<1>7. CASE r \in S
  <2>1. Only(one, S) = one
    BY <1>1, <1>7, OnlyAll
  <2>2. Insert(u, r, key) = Only(u, A) \o one \o Only(u, B)
    BY <1>2, InsertIs DEF A, B, one
  <2>. QED
    BY <1>6, <1>7, <2>1, <2>2 DEF u
<1>8. CASE r \notin S
  <2>1. Only(one, S) = <<>>
    BY <1>1, <1>8, OnlyNothing
  <2>2. u = Only(u, A) \o Only(u, B)
    BY <1>2, <1>3, SplitAt DEF A, B
  <2>3. Only(u, A) \in Seq(Results)
    BY <1>2, OnlyIsSeq
  <2>4. Only(u, A) \o <<>> = Only(u, A)
    BY <2>3, ConcatEmptySeq
  <2>. QED
    BY <1>6, <1>8, <2>1, <2>2, <2>4 DEF u
<1>. QED
  BY <1>7, <1>8

\* so keeping and sorting do: the sort is stable.
LEMMA SortedOnly ==
  \A key \in Keys : \A S : \A s \in Seq(Results) : Only(Sorted(s, key), S) = Sorted(Only(s, S), key)
<1>. TAKE key \in Keys
<1>. TAKE S
<1>. DEFINE G == {s \in Seq(Results) : Only(Sorted(s, key), S) = Sorted(Only(s, S), key)}
<1>1. <<>> \in G
  BY EmptySeq, OnlyNone, SortedNone
<1>2. ASSUME NEW s \in Seq(Results), NEW e \in Results, s \in G PROVE Append(s, e) \in G
  <2>. DEFINE t == Only(s, S)
              v == Sorted(s, key)
  <2>1. Append(s, e) \in Seq(Results) /\ t \in Seq(Results) /\ v \in Seq(Results) /\ Descending(v, key)
        /\ Sorted(Append(s, e), key) = Insert(v, e, key) /\ Only(v, S) = Sorted(t, key)
    BY <1>2, AppendProperties, OnlyIsSeq, SortedSteps, SortedDescends
  <2>2. Only(Append(s, e), S) = IF e \in S THEN Append(t, e) ELSE t
    BY OnlyMore
  <2>. HIDE DEF t, v
  <2>3. Only(Insert(v, e, key), S) = IF e \in S THEN Insert(Only(v, S), e, key) ELSE Only(v, S)
    BY <2>1, InsertOnly
  <2>4. Sorted(Append(t, e), key) = Insert(Sorted(t, key), e, key)
    BY <2>1, SortedSteps
  <2>5. Only(Sorted(Append(s, e), key), S) = Sorted(Only(Append(s, e), S), key)
    <3>1. CASE e \in S
      BY <2>1, <2>2, <2>3, <2>4, <3>1
    <3>2. CASE e \notin S
      BY <2>1, <2>2, <2>3, <3>2
    <3>. QED
      BY <3>1, <3>2
  <2>. QED
    BY <2>1, <2>5
<1>. HIDE DEF G
<1>3. \A s \in Seq(Results) : s \in G
  BY <1>1, <1>2, SeqInduction
<1>. QED
  BY <1>3 DEF G

--------------------------------------------------------------------------------
(* Nothing twice: no two items of a sequence are of the same entry. *)

Distinct(s) == \A i, j \in 1 .. Len(s) : s[i].doc = s[j].doc => i = j

LEMMA DocsOfItems ==
  ASSUME NEW s \in Seq(Results)
  PROVE  DocsOf(s) = {s[i].doc : i \in 1 .. Len(s)} /\ DocsOf(s) \subseteq Docs
<1>1. ToSet(s) = {s[i] : i \in 1 .. Len(s)} /\ ToSet(s) \subseteq Results
  BY ItemsAre
<1>2. \A r \in Results : r.doc \in Docs
  BY DEF Results
<1>. QED
  BY <1>1, <1>2 DEF DocsOf

LEMMA DocsMore ==
  ASSUME NEW s \in Seq(Results), NEW e \in Results
  PROVE  DocsOf(Append(s, e)) = DocsOf(s) \cup {e.doc}
BY ItemsMore DEF DocsOf

LEMMA DocsBoth ==
  ASSUME NEW p \in Seq(Results), NEW q \in Seq(Results)
  PROVE  DocsOf(p \o q) = DocsOf(p) \cup DocsOf(q)
BY ItemsBoth DEF DocsOf

LEMMA DistinctNone == Distinct(<<>>)
<1>1. Len(<<>>) = 0 /\ 1 .. 0 = {}
  OBVIOUS
<1>. QED
  BY <1>1 DEF Distinct

\* One item more is a new entry.
LEMMA DistinctMore ==
  ASSUME NEW s \in Seq(Results), NEW e \in Results
  PROVE  Distinct(Append(s, e)) <=> Distinct(s) /\ e.doc \notin DocsOf(s)
<1>. DEFINE u == Append(s, e)
<1>1. /\ u \in Seq(Results) /\ Len(s) \in Nat /\ Len(u) = Len(s) + 1 /\ u[Len(s) + 1] = e
      /\ \A i \in 1 .. Len(s) : u[i] = s[i]
  BY AppendProperties, LenProperties
<1>. HIDE DEF u
<1>2. DocsOf(s) = {s[i].doc : i \in 1 .. Len(s)}
  BY DocsOfItems
<1>3. ASSUME Distinct(u) PROVE Distinct(s) /\ e.doc \notin DocsOf(s)
  <2>1. ASSUME NEW i \in 1 .. Len(s), NEW j \in 1 .. Len(s), s[i].doc = s[j].doc PROVE i = j
    <3>1. i \in 1 .. Len(u) /\ j \in 1 .. Len(u) /\ u[i] = s[i] /\ u[j] = s[j]
      BY <1>1
    <3>. QED
      BY <1>3, <2>1, <3>1 DEF Distinct
  <2>2. ASSUME NEW i \in 1 .. Len(s), s[i].doc = e.doc PROVE FALSE
    <3>1. i \in 1 .. Len(u) /\ Len(s) + 1 \in 1 .. Len(u) /\ u[i] = s[i] /\ i # Len(s) + 1
      BY <1>1
    <3>. QED
      BY <1>1, <1>3, <2>2, <3>1 DEF Distinct
  <2>. QED
    BY <1>2, <2>1, <2>2 DEF Distinct
<1>4. ASSUME Distinct(s), e.doc \notin DocsOf(s) PROVE Distinct(u)
  <2>. SUFFICES ASSUME NEW i \in 1 .. Len(u), NEW j \in 1 .. Len(u), u[i].doc = u[j].doc PROVE i = j
    BY DEF Distinct
  <2>1. (i = Len(s) + 1 /\ u[i] = e) \/ (i \in 1 .. Len(s) /\ u[i] = s[i])
    BY <1>1
  <2>2. (j = Len(s) + 1 /\ u[j] = e) \/ (j \in 1 .. Len(s) /\ u[j] = s[j])
    BY <1>1
  <2>. QED
    BY <1>2, <1>4, <2>1, <2>2 DEF Distinct
<1>. QED
  BY <1>3, <1>4 DEF u

\* Two sequences repeat nothing together if neither does and they share nothing.
LEMMA DistinctBoth ==
  \A p, q \in Seq(Results) :
    Distinct(p \o q) <=> Distinct(p) /\ Distinct(q) /\ DocsOf(p) \cap DocsOf(q) = {}
<1>. TAKE p \in Seq(Results)
<1>. DEFINE G == {q \in Seq(Results) : Distinct(p \o q) <=> Distinct(p) /\ Distinct(q) /\ DocsOf(p) \cap DocsOf(q) = {}}
<1>1. <<>> \in G
  <2>1. DocsOf(<<>>) = {}
    BY ItemsNone DEF DocsOf
  <2>. QED
    BY <2>1, EmptySeq, ConcatEmptySeq, DistinctNone
<1>2. ASSUME NEW q \in Seq(Results), NEW e \in Results, q \in G PROVE Append(q, e) \in G
  <2>. DEFINE both == p \o q
  <2>1. /\ both \in Seq(Results) /\ p \o Append(q, e) = Append(both, e) /\ DocsOf(both) = DocsOf(p) \cup DocsOf(q)
        /\ Append(q, e) \in Seq(Results) /\ DocsOf(Append(q, e)) = DocsOf(q) \cup {e.doc}
        /\ (Distinct(both) <=> Distinct(p) /\ Distinct(q) /\ DocsOf(p) \cap DocsOf(q) = {})
    BY <1>2, DocsBoth, DocsMore, AppendToBoth, ConcatProperties, AppendProperties
  <2>2. Distinct(Append(q, e)) <=> Distinct(q) /\ e.doc \notin DocsOf(q)
    BY DistinctMore
  <2>. HIDE DEF both
  <2>3. Distinct(Append(both, e)) <=> Distinct(both) /\ e.doc \notin DocsOf(both)
    BY <2>1, DistinctMore
  <2>4. Distinct(p \o Append(q, e)) <=> Distinct(p) /\ Distinct(Append(q, e)) /\ DocsOf(p) \cap DocsOf(Append(q, e)) = {}
    BY <2>1, <2>2, <2>3
  <2>. QED
    BY <2>1, <2>4
<1>. HIDE DEF G
<1>3. \A q \in Seq(Results) : q \in G
  BY <1>1, <1>2, SeqInduction
<1>. QED
  BY <1>3 DEF G

LEMMA DistinctItems ==
  ASSUME NEW s \in Seq(Results), Distinct(s), NEW x \in ToSet(s), NEW y \in ToSet(s), x.doc = y.doc
  PROVE  x = y
<1>1. PICK i, j \in 1 .. Len(s) : x = s[i] /\ y = s[j]
  BY ItemsAre
<1>. QED
  BY <1>1 DEF Distinct

LEMMA DistinctOnly == \A S : \A s \in Seq(Results) : Distinct(s) => Distinct(Only(s, S))
<1>. TAKE S
<1>. DEFINE G == {s \in Seq(Results) : Distinct(s) => Distinct(Only(s, S))}
<1>1. <<>> \in G
  BY EmptySeq, OnlyNone
<1>2. ASSUME NEW s \in Seq(Results), NEW e \in Results, s \in G PROVE Append(s, e) \in G
  <2>. DEFINE t == Only(s, S)
  <2>1. Append(s, e) \in Seq(Results) /\ t \in Seq(Results) /\ ToSet(t) \subseteq ToSet(s)
    BY AppendProperties, OnlyIsSeq, OnlyHas
  <2>2. Only(Append(s, e), S) = IF e \in S THEN Append(t, e) ELSE t
    BY OnlyMore
  <2>3. ASSUME Distinct(Append(s, e)) PROVE Distinct(Only(Append(s, e), S))
    <3>1. Distinct(s) /\ e.doc \notin DocsOf(s)
      BY <2>3, DistinctMore
    <3>2. Distinct(t) /\ e.doc \notin DocsOf(t)
      BY <1>2, <2>1, <3>1 DEF DocsOf
    <3>. HIDE DEF t
    <3>3. Distinct(Append(t, e))
      BY <2>1, <3>2, DistinctMore
    <3>. QED
      BY <2>2, <3>2, <3>3
  <2>. QED
    BY <2>1, <2>3
<1>. HIDE DEF G
<1>3. \A s \in Seq(Results) : s \in G
  BY <1>1, <1>2, SeqInduction
<1>. QED
  BY <1>3 DEF G

\* Two parts of a sequence without repetitions, next to each other.
LEMMA DistinctParts ==
  ASSUME NEW s \in Seq(Results), Distinct(s), NEW p \in Seq(Results), NEW q \in Seq(Results),
         Distinct(p), Distinct(q), ToSet(p) \subseteq ToSet(s), ToSet(q) \subseteq ToSet(s), ToSet(p) \cap ToSet(q) = {}
  PROVE  Distinct(p \o q)
<1>1. DocsOf(p) \cap DocsOf(q) = {}
  <2>1. ASSUME NEW x \in ToSet(p), NEW y \in ToSet(q), x.doc = y.doc PROVE FALSE
    BY <2>1, DistinctItems
  <2>. QED
    BY <2>1 DEF DocsOf
<1>. QED
  BY <1>1, DistinctBoth

\* Inserting a new entry repeats nothing,
LEMMA DistinctInsert ==
  ASSUME NEW key \in Keys, NEW t \in Seq(Results), NEW r \in Results, Distinct(t), r.doc \notin DocsOf(t)
  PROVE  Distinct(Insert(t, r, key))
<1>. DEFINE p == Only(t, Above(key, key[r]))
            q == Only(t, Below(key, key[r]))
            one == <<r>>
<1>1. /\ p \in Seq(Results) /\ q \in Seq(Results) /\ one \in Seq(Results) /\ ToSet(one) = {r}
      /\ Insert(t, r, key) = p \o one \o q
  BY InsertIs
<1>2. ToSet(p) = ToSet(t) \cap Above(key, key[r]) /\ ToSet(q) = ToSet(t) \cap Below(key, key[r])
      /\ Distinct(p) /\ Distinct(q)
  BY OnlyHas, DistinctOnly
<1>3. key[r] \in Int /\ \A x \in Results : key[x] \in Int
  BY DEF Keys
<1>4. ToSet(p) \cap ToSet(q) = {} /\ ToSet(p) \subseteq ToSet(t) /\ ToSet(q) \subseteq ToSet(t)
  <2>1. ASSUME NEW x \in Results, x \in Above(key, key[r]), x \in Below(key, key[r]) PROVE FALSE
    BY <1>3, <2>1 DEF Above, Below
  <2>2. ToSet(t) \subseteq Results
    BY ItemsAre
  <2>. QED
    BY <1>2, <2>1, <2>2
<1>5. Distinct(one)
  <2>1. Len(one) = 1
    OBVIOUS
  <2>. HIDE DEF one
  <2>. QED
    BY <2>1 DEF Distinct
<1>. HIDE DEF p, q, one
<1>6. DocsOf(p) \cap DocsOf(q) = {}
  <2>1. Distinct(p \o q)
    BY <1>1, <1>2, <1>4, DistinctParts
  <2>. QED
    BY <1>1, <2>1, DistinctBoth
<1>7. DocsOf(one) = {r.doc} /\ r.doc \notin DocsOf(p) /\ r.doc \notin DocsOf(q)
  BY <1>1, <1>4 DEF DocsOf
<1>8. p \o one \in Seq(Results) /\ DocsOf(p \o one) = DocsOf(p) \cup {r.doc} /\ Distinct(p \o one)
  BY <1>1, <1>2, <1>5, <1>7, DistinctBoth, DocsBoth, ConcatProperties
<1>9. DocsOf(p \o one) \cap DocsOf(q) = {}
  BY <1>6, <1>7, <1>8
<1>10. Distinct(p \o one \o q)
  <2>. DEFINE both == p \o one
  <2>1. both \in Seq(Results) /\ Distinct(both) /\ DocsOf(both) \cap DocsOf(q) = {}
    BY <1>8, <1>9
  <2>. HIDE DEF both
  <2>2. Distinct(both \o q)
    BY <1>1, <1>2, <2>1, DistinctBoth
  <2>. QED
    BY <2>2 DEF both
<1>. QED
  BY <1>1, <1>10

\* so sorting repeats nothing.
LEMMA DistinctSorted == \A key \in Keys : \A s \in Seq(Results) : Distinct(s) => Distinct(Sorted(s, key))
<1>. TAKE key \in Keys
<1>. DEFINE G == {s \in Seq(Results) : Distinct(s) => Distinct(Sorted(s, key))}
<1>1. <<>> \in G
  BY SortedNone, EmptySeq
<1>2. ASSUME NEW s \in Seq(Results), NEW e \in Results, s \in G PROVE Append(s, e) \in G
  <2>. DEFINE v == Sorted(s, key)
  <2>1. v \in Seq(Results) /\ Sorted(Append(s, e), key) = Insert(v, e, key)
        /\ Append(s, e) \in Seq(Results) /\ ToSet(v) = ToSet(s) /\ (Distinct(s) => Distinct(v))
    BY <1>2, SortedSteps, AppendProperties, SortedHas
  <2>2. DocsOf(v) = DocsOf(s)
    BY <2>1 DEF DocsOf
  <2>. HIDE DEF v
  <2>3. ASSUME Distinct(Append(s, e)) PROVE Distinct(Insert(v, e, key))
    <3>1. Distinct(s) /\ e.doc \notin DocsOf(v)
      BY <2>2, <2>3, DistinctMore
    <3>. QED
      BY <2>1, <3>1, DistinctInsert
  <2>. QED
    BY <2>1, <2>3
<1>. HIDE DEF G
<1>3. \A s \in Seq(Results) : s \in G
  BY <1>1, <1>2, SeqInduction
<1>. QED
  BY <1>3 DEF G

LEMMA DistinctTop ==
  ASSUME NEW s \in Seq(Results), Distinct(s), NEW n \in Nat
  PROVE  Distinct(Top(s, n))
<1>1. /\ Len(s) \in Nat /\ Len(Top(s, n)) \in 0 .. Len(s)
      /\ \A i \in 1 .. Len(Top(s, n)) : Top(s, n)[i] = s[i]
  BY TopIs, SeqIsFcn
<1>2. \A i \in 1 .. Len(Top(s, n)) : i \in 1 .. Len(s)
  BY <1>1
<1>. QED
  BY <1>1, <1>2 DEF Distinct

\* A sequence without repetitions has as many entries as items.
LEMMA DocsCounted ==
  \A s \in Seq(Results) : Distinct(s) => IsFiniteSet(DocsOf(s)) /\ Cardinality(DocsOf(s)) = Len(s)
<1>. DEFINE G == {s \in Seq(Results) : Distinct(s) => IsFiniteSet(DocsOf(s)) /\ Cardinality(DocsOf(s)) = Len(s)}
<1>1. <<>> \in G
  <2>1. DocsOf(<<>>) = {} /\ Len(<<>>) = 0
    BY ItemsNone DEF DocsOf
  <2>. QED
    BY <2>1, EmptySeq, FS_EmptySet
<1>2. ASSUME NEW s \in Seq(Results), NEW e \in Results, s \in G PROVE Append(s, e) \in G
  <2>1. /\ Append(s, e) \in Seq(Results) /\ Len(Append(s, e)) = Len(s) + 1
        /\ DocsOf(Append(s, e)) = DocsOf(s) \cup {e.doc}
        /\ (Distinct(Append(s, e)) <=> Distinct(s) /\ e.doc \notin DocsOf(s))
    BY AppendProperties, DocsMore, DistinctMore
  <2>2. ASSUME Distinct(s), e.doc \notin DocsOf(s)
        PROVE  IsFiniteSet(DocsOf(s) \cup {e.doc}) /\ Cardinality(DocsOf(s) \cup {e.doc}) = Len(s) + 1
    <3>1. IsFiniteSet(DocsOf(s)) /\ Cardinality(DocsOf(s)) = Len(s)
      BY <1>2, <2>2
    <3>. QED
      BY <2>2, <3>1, FS_AddElement
  <2>. QED
    BY <2>1, <2>2
<1>. HIDE DEF G
<1>3. \A s \in Seq(Results) : s \in G
  BY <1>1, <1>2, SeqInduction
<1>. QED
  BY <1>3 DEF G

--------------------------------------------------------------------------------
(* The results, and the keys they are sorted by. *)

\* What the assumptions say of the constants.
LEMMA Constants ==
  /\ Entries \in Nat /\ Docs \subseteq Nat /\ None = 0 /\ None \notin Docs /\ None \in 0 .. Entries
  /\ Docs \subseteq 0 .. Entries /\ Size \in [Docs -> Nat \ {0}]
  /\ Limit \in Nat /\ TopK \in Nat /\ ToolLimit \in Nat /\ Seeds \in Nat /\ PerSeed \in Nat /\ 2 * Limit \in Nat
  /\ Budgets \subseteq Nat /\ Moments \subseteq Nat /\ Logits \subseteq Int
BY RetrievalAssumption DEF Docs, None

LEMMA ResultsAre ==
  /\ \A r \in Results : /\ r.doc \in Docs /\ r.doc \in Nat /\ r.score \in Int /\ r.seed \in 0 .. Entries
                        /\ r.mechanisms \in (SUBSET Labels) \cup {{Wave}}
  /\ \A d \in Docs, n \in Int, how \in (SUBSET Labels) \cup {{Wave}}, seed \in 0 .. Entries :
       /\ Result(d, n, how, seed) \in Results
       /\ Result(d, n, how, seed).doc = d /\ Result(d, n, how, seed).seed = seed
       /\ Result(d, n, how, seed).mechanisms = how
BY Constants DEF Results, Result

\* A result is an original or a neighbour; only originals are dated.
LEMMA TwoKinds ==
  /\ Originals \cap Waves = {} /\ Originals \cup Waves = Results /\ Dated \subseteq Originals
  /\ \A r \in Results : r.mechanisms \in SUBSET Labels => r \in Originals
  /\ \A r \in Results : r.mechanisms = {Wave} => r \in Waves
  /\ \A r \in Originals : r.mechanisms \in SUBSET Labels
<1>1. Wave \notin Labels /\ "temporal" \notin {Wave}
  BY DEF Wave, Labels
<1>2. \A r \in Results : r.mechanisms \in (SUBSET Labels) \cup {{Wave}}
  BY ResultsAre
<1>3. Originals \cap Waves = {} /\ Originals \cup Waves = Results
  BY DEF Originals, Waves
<1>4. ASSUME NEW r \in Results PROVE /\ r.mechanisms \in SUBSET Labels => r \in Originals
                                     /\ r.mechanisms = {Wave} => r \in Waves
                                     /\ r \in Originals => r.mechanisms \in SUBSET Labels
                                     /\ r \in Dated => r \in Originals
  <2>1. r \in Waves <=> Wave \in r.mechanisms
    BY DEF Waves
  <2>2. r \in Originals <=> Wave \notin r.mechanisms
    BY <2>1 DEF Originals
  <2>3. r \in Dated <=> "temporal" \in r.mechanisms
    BY DEF Dated
  <2>4. r.mechanisms \in SUBSET Labels \/ r.mechanisms = {Wave}
    BY <1>2
  <2>. QED
    BY <1>1, <2>1, <2>2, <2>3, <2>4
<1>5. Dated \subseteq Results /\ Originals \subseteq Results
  BY DEF Dated, Originals
<1>. QED
  BY <1>3, <1>4, <1>5

LEMMA DistanceIs == \A d, e \in Nat : Distance(d, e) \in Int
BY DEF Distance

LEMMA KeysAre ==
  /\ ByScore \in Keys
  /\ \A center \in Nat : Nearness(center) \in Keys
  /\ \A d \in Docs : [r \in Results |-> -Distance(r.doc, d)] \in Keys
<1>1. ByScore \in Keys
  BY ResultsAre DEF ByScore, Keys
<1>2. ASSUME NEW center \in Nat, NEW r \in Results
      PROVE  -(IF center = None THEN r.doc ELSE Distance(r.doc, center)) \in Int
  BY ResultsAre, DistanceIs
<1>3. \A center \in Nat : Nearness(center) \in Keys
  BY <1>2 DEF Nearness, Keys
<1>4. ASSUME NEW d \in Docs, NEW r \in Results PROVE -Distance(r.doc, d) \in Int
  <2>1. Distance(r.doc, d) \in Int
    BY ResultsAre, Constants, DistanceIs
  <2>. QED
    BY <2>1
<1>5. \A d \in Docs : [r \in Results |-> -Distance(r.doc, d)] \in Keys
  BY <1>4 DEF Keys
<1>. QED
  BY <1>1, <1>3, <1>5

\* Sorting by score keeps the items, and changes places with keeping.
LEMMA BestFirstIs ==
  /\ BestFirst(<<>>) = <<>>
  /\ \A s \in Seq(Results) : /\ BestFirst(s) \in Seq(Results) /\ ToSet(BestFirst(s)) = ToSet(s)
                             /\ Distinct(s) => Distinct(BestFirst(s))
                             /\ \A S : Only(BestFirst(s), S) = BestFirst(Only(s, S))
BY KeysAre, SortedNone, SortedSteps, SortedHas, DistinctSorted, SortedOnly DEF BestFirst

--------------------------------------------------------------------------------
(* What the first wave finds: originals, none of them twice. *)

Firsts == {s \in Seq(Results) : ToSet(s) \subseteq Originals /\ Distinct(s)}

LEMMA FirstsNone == <<>> \in Firsts
BY EmptySeq, ItemsNone, DistinctNone DEF Firsts

LEMMA FirstsOnly == \A s \in Firsts : Only(s, Originals) = s /\ Only(s, Waves) = <<>>
<1>. TAKE s \in Firsts
<1>1. s \in Seq(Results) /\ ToSet(s) \subseteq Originals /\ ToSet(s) \cap Waves = {}
  BY TwoKinds DEF Firsts
<1>. QED
  BY <1>1, OnlyAll, OnlyNothing

LEMMA FirstsTop == \A s \in Firsts : \A n \in Nat : Top(s, n) \in Firsts
<1>. TAKE s \in Firsts
<1>. TAKE n \in Nat
<1>1. s \in Seq(Results) /\ ToSet(s) \subseteq Originals /\ Distinct(s)
  BY DEF Firsts
<1>2. Top(s, n) \in Seq(Results) /\ ToSet(Top(s, n)) \subseteq ToSet(s) /\ Distinct(Top(s, n))
  BY <1>1, TopIs, DistinctTop
<1>. QED
  BY <1>1, <1>2 DEF Firsts

LEMMA FirstsSorted == \A s \in Firsts : BestFirst(s) \in Firsts
BY BestFirstIs DEF Firsts

\* Other scores for the same entries are still what the first wave found.
LEMMA FirstsReworked ==
  ASSUME NEW s \in Firsts, NEW t \in Seq(Originals), Len(t) = Len(s), \A i \in 1 .. Len(s) : t[i].doc = s[i].doc
  PROVE  t \in Firsts
<1>1. s \in Seq(Results) /\ Distinct(s)
  BY DEF Firsts
<1>2. ToSet(t) \subseteq Originals
  BY ItemsAre
<1>3. Distinct(t)
  BY <1>1 DEF Distinct
<1>4. t \in Seq(Results)
  BY <1>2, OfItems, TwoKinds
<1>. QED
  BY <1>2, <1>3, <1>4 DEF Firsts

LEMMA OriginalFields ==
  \A r \in Originals : \A n \in Int : [r EXCEPT !.score = n] \in Originals /\ [r EXCEPT !.score = n].doc = r.doc
<1>. TAKE r \in Originals
<1>. TAKE n \in Int
<1>1. r \in Results /\ r.mechanisms \in SUBSET Labels
  BY TwoKinds
<1>2. [r EXCEPT !.score = n] \in Results /\ [r EXCEPT !.score = n].mechanisms = r.mechanisms
      /\ [r EXCEPT !.score = n].doc = r.doc
  BY <1>1 DEF Results
<1>. QED
  BY <1>1, <1>2, TwoKinds

LEMMA SharesAre == Scale \in Nat /\ Boost \in Int /\ \A rank \in Nat : Reciprocal(rank) \in Int
<1>1. Scale \in Nat
  BY DEF Scale
<1>2. Boost \in Int
  BY <1>1 DEF Boost
<1>3. ASSUME NEW rank \in Nat PROVE Reciprocal(rank) \in Int
  <2>1. 60 + rank \in Nat /\ 60 + rank > 0
    OBVIOUS
  <2>. QED
    BY <1>1, <2>1 DEF Reciprocal
<1>. QED
  BY <1>1, <1>2, <1>3

Sight == [doc : Docs, rank : Nat, label : Labels]

\* One more sight keeps the fused results originals, each once,
LEMMA SightedAre == \A s \in Firsts : \A sight \in Sight : Sighted(s, sight) \in Firsts
<1>. TAKE s \in Firsts
<1>. TAKE sight \in Sight
<1>. DEFINE share == Reciprocal(sight.rank)
            Again(r) == [r EXCEPT !.score = @ + share, !.mechanisms = @ \cup {sight.label}]
            t == [i \in DOMAIN s |-> IF s[i].doc = sight.doc THEN Again(s[i]) ELSE s[i]]
            new == Result(sight.doc, share, {sight.label}, None)
<1>1. s \in Seq(Results) /\ ToSet(s) \subseteq Originals /\ Distinct(s)
  BY DEF Firsts
<1>2. s \in Seq(Originals) /\ Len(s) \in Nat /\ DOMAIN s = 1 .. Len(s) /\ \A i \in 1 .. Len(s) : s[i] \in Originals
  BY <1>1, OfItems, SeqIsFcn, ElementOfSeq
<1>3. sight.doc \in Docs /\ sight.label \in Labels /\ share \in Int
  BY SharesAre DEF Sight
<1>4. ASSUME NEW r \in Originals PROVE Again(r) \in Originals /\ Again(r).doc = r.doc
  <2>1. r \in Results /\ r.mechanisms \in SUBSET Labels /\ r.score \in Int
    BY TwoKinds, ResultsAre
  <2>. DEFINE n == r.score + share
              how == r.mechanisms \cup {sight.label}
  <2>3. n \in Int /\ how \in SUBSET Labels /\ Again(r) = [r EXCEPT !.score = n, !.mechanisms = how]
    BY <1>3, <2>1
  <2>. HIDE DEF n, how, share, Again
  <2>2. Again(r) \in Results /\ Again(r).mechanisms \in SUBSET Labels /\ Again(r).doc = r.doc
    BY <2>1, <2>3 DEF Results
  <2>. QED
    BY <2>2, TwoKinds
<1>5. t \in Firsts
  <2>1. \A i \in 1 .. Len(s) : t[i] \in Originals /\ t[i].doc = s[i].doc
    BY <1>2, <1>4
  <2>2. t \in [1 .. Len(s) -> Originals]
    BY <1>2, <2>1
  <2>. HIDE DEF t
  <2>3. t \in Seq(Originals) /\ Len(t) = Len(s)
    BY <1>2, <2>2, FcnIsSeq
  <2>. QED
    BY <2>1, <2>3, FirstsReworked
<1>6. CASE sight.doc \in DocsOf(s)
  <2>1. Sighted(s, sight) = t
    BY <1>6 DEF Sighted
  <2>. QED
    BY <1>5, <2>1
<1>7. CASE sight.doc \notin DocsOf(s)
  <2>1. Sighted(s, sight) = Append(s, new)
    BY <1>7 DEF Sighted
  <2>2. {sight.label} \in SUBSET Labels
    BY <1>3
  <2>. DEFINE how == {sight.label}
  <2>. HIDE DEF how, share
  <2>3. new \in Results /\ new.doc = sight.doc /\ new.mechanisms = {sight.label}
    <3>1. how \in (SUBSET Labels) \cup {{Wave}} /\ None \in 0 .. Entries
      BY <2>2, Constants DEF how
    <3>2. Result(sight.doc, share, how, None) \in Results /\ Result(sight.doc, share, how, None).doc = sight.doc
          /\ Result(sight.doc, share, how, None).mechanisms = how
      BY <1>3, <3>1, ResultsAre
    <3>. QED
      BY <3>2 DEF how
  <2>4. new \in Originals
    BY <2>2, <2>3, TwoKinds
  <2>. HIDE DEF new
  <2>5. Append(s, new) \in Seq(Results) /\ ToSet(Append(s, new)) = ToSet(s) \cup {new} /\ Distinct(Append(s, new))
    BY <1>1, <1>7, <2>3, AppendProperties, ItemsMore, DistinctMore
  <2>. QED
    BY <1>1, <2>1, <2>4, <2>5 DEF Firsts
<1>. QED
  BY <1>6, <1>7

\* What the three mechanisms have found.
Groups == [label : Labels, hits : Seq(Results)]

LEMMA SightsAre == \A g \in Groups : Sights(g) \in Seq(Sight)
<1>. TAKE g \in Groups
<1>1. g.hits \in Seq(Results) /\ g.label \in Labels
  BY DEF Groups
<1>2. Len(g.hits) \in Nat /\ DOMAIN g.hits = 1 .. Len(g.hits) /\ \A k \in 1 .. Len(g.hits) : g.hits[k] \in Results
  BY <1>1, SeqIsFcn, ElementOfSeq
<1>3. \A k \in 1 .. Len(g.hits) : [doc |-> g.hits[k].doc, rank |-> k, label |-> g.label] \in Sight
  BY <1>1, <1>2, ResultsAre DEF Sight
<1>4. Sights(g) \in [1 .. Len(g.hits) -> Sight]
  BY <1>2, <1>3 DEF Sights
<1>. QED
  BY <1>2, <1>4, FcnIsSeq

\* so the fusion does,
LEMMA MergedAre == ASSUME NEW found \in [1 .. 3 -> Groups] PROVE MergeResults(found) \in Firsts
<1>. DEFINE step == [results \in Seq(Results) |-> [sight \in Sight |-> Sighted(results, sight)]]
            sights == Sights(found[1]) \o Sights(found[2]) \o Sights(found[3])
            first == <<>>
<1>1. sights \in Seq(Sight)
  <2>1. Sights(found[1]) \in Seq(Sight) /\ Sights(found[2]) \in Seq(Sight) /\ Sights(found[3]) \in Seq(Sight)
    BY SightsAre
  <2>. QED
    BY <2>1, ConcatProperties
<1>2. MergeResults(found) = BestFirst(Fold(sights, first, step))
  BY DEF MergeResults, Sight
<1>3. \A v \in Firsts : \A x \in Sight : step[v][x] \in Firsts
  <2>1. Firsts \subseteq Seq(Results)
    BY DEF Firsts
  <2>. QED
    BY <2>1, SightedAre
<1>4. first \in Firsts
  BY FirstsNone
<1>. HIDE DEF step, sights, first
<1>5. Fold(sights, first, step) \in Firsts
  BY <1>1, <1>3, <1>4, FoldTyped
<1>. QED
  BY <1>2, <1>5, FirstsSorted

\* whatever texts are too short for it.
LEMMA DroppedAre == ASSUME NEW found \in [1 .. 3 -> Groups] PROVE DropTiny(found) \in [1 .. 3 -> Groups]
<1>1. DropTiny(found) = [m \in 1 .. 3 |-> [found[m] EXCEPT !.hits = Only(@, {r \in Results : r.doc \notin Tiny})]]
  BY DEF DropTiny
<1>2. ASSUME NEW m \in 1 .. 3 PROVE [found[m] EXCEPT !.hits = Only(@, {r \in Results : r.doc \notin Tiny})] \in Groups
  <2>1. found[m] \in Groups /\ found[m].hits \in Seq(Results)
    BY DEF Groups
  <2>2. Only(found[m].hits, {r \in Results : r.doc \notin Tiny}) \in Seq(Results)
    BY <2>1, OnlyIsSeq
  <2>. QED
    BY <2>1, <2>2 DEF Groups
<1>. QED
  BY <1>1, <1>2

\* The boost changes scores and order only.
LEMMA BoostedAre == \A s \in Firsts : EntityBoost(s) \in Firsts
<1>. TAKE s \in Firsts
<1>. DEFINE t == [i \in DOMAIN s |-> IF s[i].doc \in Naming THEN [s[i] EXCEPT !.score = @ + Boost] ELSE s[i]]
<1>1. s \in Seq(Results) /\ ToSet(s) \subseteq Originals
  BY DEF Firsts
<1>2. s \in Seq(Originals) /\ Len(s) \in Nat /\ DOMAIN s = 1 .. Len(s) /\ \A i \in 1 .. Len(s) : s[i] \in Originals
  BY <1>1, OfItems, SeqIsFcn, ElementOfSeq
<1>3. ASSUME NEW i \in 1 .. Len(s) PROVE t[i] \in Originals /\ t[i].doc = s[i].doc
  <2>1. s[i] \in Originals /\ s[i].score + Boost \in Int
    BY <1>2, TwoKinds, ResultsAre, SharesAre
  <2>. QED
    BY <1>2, <2>1, OriginalFields
<1>4. t \in [1 .. Len(s) -> Originals]
  BY <1>2, <1>3
<1>5. EntityBoost(s) = BestFirst(t)
  BY DEF EntityBoost
<1>. HIDE DEF t
<1>6. t \in Firsts
  BY <1>2, <1>3, <1>4, FcnIsSeq, FirstsReworked
<1>. QED
  BY <1>5, <1>6, FirstsSorted

\* The cross-encoder drops entries, and changes scores and order.
LEMMA RerankedAre ==
  ASSUME NEW s \in Firsts, NEW logit \in [DocsOf(Top(s, TopK)) -> Logits]
  PROVE  Rerank(s, logit) \in Firsts
<1>. DEFINE u == Top(s, TopK)
            t == [i \in DOMAIN u |-> [s[i] EXCEPT !.score = logit[s[i].doc]]]
<1>1. u \in Firsts
  BY FirstsTop, Constants
<1>2. u \in Seq(Results) /\ s \in Seq(Results) /\ ToSet(u) \subseteq Originals /\ DocsOf(u) = {u[i].doc : i \in 1 .. Len(u)}
  BY <1>1, DocsOfItems DEF Firsts
<1>3. Len(u) \in Nat /\ DOMAIN u = 1 .. Len(u) /\ \A i \in 1 .. Len(u) : u[i] \in Originals /\ u[i] = s[i]
  BY <1>2, SeqIsFcn, ItemsAre, TopIs, Constants
<1>4. ASSUME NEW i \in 1 .. Len(u) PROVE t[i] \in Originals /\ t[i].doc = u[i].doc
  <2>1. s[i] \in Originals /\ s[i].doc \in DocsOf(u) /\ s[i] = u[i] /\ t[i] = [s[i] EXCEPT !.score = logit[s[i].doc]]
    BY <1>2, <1>3
  <2>2. logit[s[i].doc] \in Int
    BY <2>1, Constants
  <2>. QED
    BY <2>1, <2>2, OriginalFields
<1>5. t \in [1 .. Len(u) -> Originals]
  BY <1>3, <1>4
<1>6. Rerank(s, logit) = BestFirst(t)
  BY DEF Rerank
<1>. HIDE DEF t, u
<1>7. t \in Firsts
  <2>1. t \in Seq(Originals) /\ Len(t) = Len(u)
    BY <1>3, <1>5, FcnIsSeq
  <2>. QED
    BY <1>1, <1>4, <2>1, FirstsReworked
<1>. QED
  BY <1>6, <1>7, FirstsSorted

--------------------------------------------------------------------------------
(* What the first wave loses.  None of its steps drops an entry, but for a cut,
   and a cut that drops one is full. *)

LEMMA TopFull == \A s \in Seq(Results) : \A n \in Nat : Len(s) > n => Len(Top(s, n)) = n
<1>. TAKE s \in Seq(Results)
<1>. TAKE n \in Nat
<1>1. Len(s) \in Nat
  BY SeqIsFcn
<1>. SUFFICES ASSUME Len(s) > n PROVE Len(Top(s, n)) = n
  OBVIOUS
<1>2. Top(s, n) = SubSeq(s, 1, n)
  BY <1>1 DEF Top
<1>. QED
  BY <1>1, <1>2, Beginnings

LEMMA SameLength == \A s, t \in Firsts : DocsOf(s) = DocsOf(t) => Len(s) = Len(t)
<1>. TAKE s, t \in Firsts
<1>1. Cardinality(DocsOf(s)) = Len(s) /\ Cardinality(DocsOf(t)) = Len(t)
  BY DocsCounted DEF Firsts
<1>. QED
  BY <1>1

LEMMA SameDocs ==
  ASSUME NEW s \in Seq(Results), NEW t \in Seq(Results), Len(t) = Len(s), \A i \in 1 .. Len(s) : t[i].doc = s[i].doc
  PROVE  DocsOf(t) = DocsOf(s)
<1>1. DocsOf(s) = {s[i].doc : i \in 1 .. Len(s)} /\ DocsOf(t) = {t[i].doc : i \in 1 .. Len(s)}
  BY DocsOfItems
<1>. QED
  BY <1>1

LEMMA SightedHas == \A s \in Firsts : \A sight \in Sight : DocsOf(Sighted(s, sight)) = DocsOf(s) \cup {sight.doc}
<1>. TAKE s \in Firsts
<1>. TAKE sight \in Sight
<1>. DEFINE share == Reciprocal(sight.rank)
            Again(r) == [r EXCEPT !.score = @ + share, !.mechanisms = @ \cup {sight.label}]
            t == [i \in DOMAIN s |-> IF s[i].doc = sight.doc THEN Again(s[i]) ELSE s[i]]
            new == Result(sight.doc, share, {sight.label}, None)
<1>1. s \in Seq(Results) /\ Sighted(s, sight) \in Seq(Results)
  BY SightedAre DEF Firsts
<1>2. Len(s) \in Nat /\ DOMAIN s = 1 .. Len(s) /\ \A i \in 1 .. Len(s) : s[i] \in Results
  BY <1>1, SeqIsFcn, ElementOfSeq
<1>3. CASE sight.doc \in DocsOf(s)
  <2>1. Sighted(s, sight) = t
    BY <1>3 DEF Sighted
  <2>2. \A i \in 1 .. Len(s) : t[i].doc = s[i].doc
    <3>. TAKE i \in 1 .. Len(s)
    <3>1. t[i] = IF s[i].doc = sight.doc THEN Again(s[i]) ELSE s[i]
      BY <1>2
    <3>2. Again(s[i]).doc = s[i].doc
      BY <1>2 DEF Results
    <3>. QED
      BY <3>1, <3>2
  <2>3. Len(t) = Len(s)
    <3>1. DOMAIN t = 1 .. Len(s)
      BY <1>2
    <3>. HIDE DEF t
    <3>. QED
      BY <1>1, <1>2, <2>1, <3>1, SeqIsFcn
  <2>. HIDE DEF t
  <2>4. DocsOf(t) = DocsOf(s)
    BY <1>1, <2>1, <2>2, <2>3, SameDocs
  <2>. QED
    BY <1>3, <2>1, <2>4
<1>4. CASE sight.doc \notin DocsOf(s)
  <2>1. Sighted(s, sight) = Append(s, new)
    BY <1>4 DEF Sighted
  <2>2. new.doc = sight.doc
    BY DEF Result
  <2>3. DocsOf(Append(s, new)) = DocsOf(s) \cup {new.doc}
    <3>1. new \in Results
      <4>1. {sight.label} \in (SUBSET Labels) \cup {{Wave}} /\ sight.doc \in Docs /\ share \in Int /\ None \in 0 .. Entries
        BY SharesAre, Constants DEF Sight
      <4>. HIDE DEF share
      <4>. QED
        BY <4>1, ResultsAre
    <3>. HIDE DEF new
    <3>. QED
      BY <1>1, <3>1, DocsMore
  <2>. QED
    BY <2>1, <2>2, <2>3
<1>. QED
  BY <1>3, <1>4

LEMMA SightsHave == \A g \in Groups : {x.doc : x \in ToSet(Sights(g))} = DocsOf(g.hits)
<1>. TAKE g \in Groups
<1>1. g.hits \in Seq(Results) /\ Sights(g) \in Seq(Sight)
  BY SightsAre DEF Groups
<1>2. Len(g.hits) \in Nat /\ DOMAIN g.hits = 1 .. Len(g.hits)
  BY <1>1, SeqIsFcn
<1>3. DOMAIN Sights(g) = 1 .. Len(g.hits) /\ \A k \in 1 .. Len(g.hits) : Sights(g)[k].doc = g.hits[k].doc
  BY <1>2 DEF Sights
<1>4. Len(Sights(g)) = Len(g.hits)
  BY <1>1, <1>2, <1>3, SeqIsFcn
<1>5. ToSet(Sights(g)) = {Sights(g)[k] : k \in 1 .. Len(g.hits)}
  BY <1>1, <1>4, ItemsAre
<1>6. DocsOf(g.hits) = {g.hits[k].doc : k \in 1 .. Len(g.hits)}
  BY <1>1, DocsOfItems
<1>. QED
  BY <1>3, <1>5, <1>6

\* The fusion has every entry that any mechanism found,
LEMMA MergedHas ==
  ASSUME NEW found \in [1 .. 3 -> Groups], NEW m \in 1 .. 3
  PROVE  DocsOf(found[m].hits) \subseteq DocsOf(MergeResults(found))
<1>. DEFINE step == [results \in Seq(Results) |-> [sight \in Sight |-> Sighted(results, sight)]]
            a == Sights(found[1])
            b == Sights(found[2])
            c == Sights(found[3])
            sights == a \o b \o c
            first == <<>>
            L(s) == Fold(s, first, step)
            G == {s \in Seq(Sight) : L(s) \in Firsts /\ \A x \in ToSet(s) : x.doc \in DocsOf(L(s))}
<1>1. a \in Seq(Sight) /\ b \in Seq(Sight) /\ c \in Seq(Sight)
  BY SightsAre
<1>2. \A x \in ToSet(a) \cup ToSet(b) \cup ToSet(c) : x \in ToSet(sights)
  <2>. HIDE DEF a, b, c
  <2>. DEFINE ab == a \o b
  <2>1. ab \in Seq(Sight) /\ ToSet(ab) = ToSet(a) \cup ToSet(b)
    BY <1>1, ConcatProperties, ItemsBoth
  <2>. HIDE DEF ab
  <2>2. ToSet(ab \o c) = ToSet(ab) \cup ToSet(c)
    BY <1>1, <2>1, ItemsBoth
  <2>. QED
    BY <2>1, <2>2 DEF ab
<1>3. sights \in Seq(Sight)
  <2>. HIDE DEF a, b, c
  <2>. QED
    BY <1>1, ConcatProperties
<1>4. MergeResults(found) = BestFirst(L(sights))
  BY DEF MergeResults, Sight
<1>5. \A v \in Firsts : \A x \in Sight : step[v][x] \in Firsts /\ DocsOf(step[v][x]) = DocsOf(v) \cup {x.doc}
  <2>1. Firsts \subseteq Seq(Results)
    BY DEF Firsts
  <2>. QED
    BY <2>1, SightedAre, SightedHas
<1>6. first \in Firsts /\ L(first) = first /\ ToSet(first) = {}
  BY FirstsNone, FoldNone, ItemsNone
<1>7. DocsOf(found[m].hits) \subseteq {x.doc : x \in ToSet(sights)}
  <2>1. DocsOf(found[1].hits) = {x.doc : x \in ToSet(a)} /\ DocsOf(found[2].hits) = {x.doc : x \in ToSet(b)}
        /\ DocsOf(found[3].hits) = {x.doc : x \in ToSet(c)}
    BY SightsHave
  <2>2. m = 1 \/ m = 2 \/ m = 3
    OBVIOUS
  <2>. HIDE DEF a, b, c, sights
  <2>. QED
    BY <1>2, <2>1, <2>2
<1>. HIDE DEF step, sights
<1>8. \A s \in Seq(Sight) : \A e \in Sight : L(s) \in Firsts => L(Append(s, e)) = step[L(s)][e]
  <2>. HIDE DEF first
  <2>. QED
    BY <1>5, <1>6, FoldMore
<1>9. first \in G
  BY <1>6
<1>10. ASSUME NEW s \in Seq(Sight), NEW e \in Sight, s \in G PROVE Append(s, e) \in G
  <2>. HIDE DEF L
  <2>1. L(Append(s, e)) \in Firsts /\ DocsOf(L(Append(s, e))) = DocsOf(L(s)) \cup {e.doc}
    BY <1>5, <1>8, <1>10
  <2>2. Append(s, e) \in Seq(Sight) /\ ToSet(Append(s, e)) = ToSet(s) \cup {e}
    BY AppendProperties, ItemsMore
  <2>. QED
    BY <1>10, <2>1, <2>2
<1>. HIDE DEF L
<1>11. \A s \in Seq(Sight) : s \in G
  <2>1. <<>> \in G
    BY <1>9 DEF first
  <2>. HIDE DEF G
  <2>. QED
    BY <1>10, <2>1, SeqInduction
<1>12. L(sights) \in Seq(Results) /\ {x.doc : x \in ToSet(sights)} \subseteq DocsOf(L(sights))
  BY <1>3, <1>11 DEF Firsts
<1>13. DocsOf(BestFirst(L(sights))) = DocsOf(L(sights))
  BY <1>12, BestFirstIs DEF DocsOf
<1>. QED
  BY <1>4, <1>7, <1>12, <1>13

\* and the boost and the cross-encoder have what they were given.
LEMMA BoostedHas == \A s \in Firsts : DocsOf(EntityBoost(s)) = DocsOf(s)
<1>. TAKE s \in Firsts
<1>. DEFINE t == [i \in DOMAIN s |-> IF s[i].doc \in Naming THEN [s[i] EXCEPT !.score = @ + Boost] ELSE s[i]]
<1>1. s \in Seq(Results) /\ ToSet(s) \subseteq Originals
  BY DEF Firsts
<1>2. s \in Seq(Originals) /\ Len(s) \in Nat /\ DOMAIN s = 1 .. Len(s) /\ \A i \in 1 .. Len(s) : s[i] \in Originals
  BY <1>1, OfItems, SeqIsFcn, ElementOfSeq
<1>3. \A i \in 1 .. Len(s) : t[i] \in Results /\ t[i].doc = s[i].doc
  <2>. TAKE i \in 1 .. Len(s)
  <2>1. s[i] \in Originals /\ s[i].score + Boost \in Int
    BY <1>2, TwoKinds, ResultsAre, SharesAre
  <2>. QED
    BY <1>2, <2>1, OriginalFields, TwoKinds
<1>4. t \in [1 .. Len(s) -> Results]
  BY <1>2, <1>3
<1>5. EntityBoost(s) = BestFirst(t)
  BY DEF EntityBoost
<1>. HIDE DEF t
<1>6. t \in Seq(Results) /\ Len(t) = Len(s)
  BY <1>2, <1>4, FcnIsSeq
<1>7. DocsOf(t) = DocsOf(s)
  BY <1>1, <1>3, <1>6, SameDocs
<1>8. DocsOf(BestFirst(t)) = DocsOf(t)
  BY <1>6, BestFirstIs DEF DocsOf
<1>. QED
  BY <1>5, <1>7, <1>8

LEMMA RerankedHas ==
  ASSUME NEW s \in Firsts, NEW logit \in [DocsOf(Top(s, TopK)) -> Logits]
  PROVE  DocsOf(Rerank(s, logit)) = DocsOf(Top(s, TopK))
<1>. DEFINE u == Top(s, TopK)
            t == [i \in DOMAIN u |-> [s[i] EXCEPT !.score = logit[s[i].doc]]]
<1>1. u \in Seq(Results) /\ s \in Seq(Results) /\ ToSet(u) \subseteq Originals
  BY FirstsTop, Constants DEF Firsts
<1>2. DocsOf(u) = {u[i].doc : i \in 1 .. Len(u)}
  BY <1>1, DocsOfItems
<1>3. Len(u) \in Nat /\ DOMAIN u = 1 .. Len(u) /\ \A i \in 1 .. Len(u) : u[i] \in Originals /\ u[i] = s[i]
  BY <1>1, SeqIsFcn, ItemsAre, TopIs, Constants
<1>4. ASSUME NEW i \in 1 .. Len(u) PROVE t[i] \in Results /\ t[i].doc = u[i].doc
  <2>1. s[i] \in Originals /\ s[i].doc \in DocsOf(u) /\ s[i] = u[i] /\ t[i] = [s[i] EXCEPT !.score = logit[s[i].doc]]
    BY <1>2, <1>3
  <2>2. logit[s[i].doc] \in Int
    BY <2>1, Constants
  <2>. QED
    BY <2>1, <2>2, OriginalFields, TwoKinds
<1>5. t \in [1 .. Len(u) -> Results]
  BY <1>3, <1>4
<1>6. Rerank(s, logit) = BestFirst(t)
  BY DEF Rerank
<1>. HIDE DEF t, u
<1>7. t \in Seq(Results) /\ Len(t) = Len(u)
  BY <1>3, <1>5, FcnIsSeq
<1>8. DocsOf(t) = DocsOf(u)
  BY <1>1, <1>3, <1>4, <1>7, SameDocs
<1>9. DocsOf(BestFirst(t)) = DocsOf(t)
  BY <1>7, BestFirstIs DEF DocsOf
<1>. QED
  BY <1>6, <1>8, <1>9 DEF u

--------------------------------------------------------------------------------
(* The second wave.  Followed(m, o): m is o and neighbours of o, each behind
   an entry of o that it knows as its seed, and still nothing is there twice. *)

Followed(m, o) ==
  /\ m \in Seq(Results) /\ Distinct(m) /\ Only(m, Originals) = o
  /\ \A r \in ToSet(m) : r \in Waves => r.seed \in DocsOf(o)

\* Without a second wave nothing follows.
LEMMA FirstsFollowed == \A s \in Firsts : Followed(s, s)
<1>. TAKE s \in Firsts
<1>1. s \in Seq(Results) /\ ToSet(s) \subseteq Originals /\ Distinct(s) /\ Only(s, Originals) = s
  BY FirstsOnly DEF Firsts
<1>. QED
  BY <1>1, TwoKinds DEF Followed

LEMMA StoreIs == Store \in Seq(Results) /\ Distinct(Store)
<1>1. \A d \in Docs : Result(d, 0, {}, None) \in Results /\ Result(d, 0, {}, None).doc = d
  <2>1. {} \in (SUBSET Labels) \cup {{Wave}} /\ 0 \in Int
    OBVIOUS
  <2>. QED
    BY <2>1, ResultsAre, Constants
<1>2. Store \in [1 .. Entries -> Results] /\ Entries \in Nat /\ \A d \in 1 .. Entries : Store[d].doc = d
  BY <1>1, Constants DEF Store, Docs
<1>3. Store \in Seq(Results) /\ Len(Store) = Entries
  BY <1>2, FcnIsSeq
<1>. QED
  BY <1>2, <1>3 DEF Distinct

LEMMA NeighboursAre == \A d \in Docs : Neighbours(d) \in Seq(Results) /\ Distinct(Neighbours(d))
BY StoreIs, OnlyIsSeq, DistinctOnly DEF Neighbours

\* What a seed pulls in is new, its own, and no original.
LEMMA PulledAre ==
  ASSUME NEW s \in Seq(Results), NEW seed \in Results
  PROVE  /\ Pulled(s, seed) \in Seq(Results) /\ Distinct(Pulled(s, seed))
         /\ \A r \in ToSet(Pulled(s, seed)) : r \in Waves /\ r.seed = seed.doc
         /\ DocsOf(s) \cap DocsOf(Pulled(s, seed)) = {}
<1>. DEFINE Unseen == {r \in Results : r.doc \notin DocsOf(s)}
            key == [r \in Results |-> -Distance(r.doc, seed.doc)]
            found == Only(Neighbours(seed.doc), Unseen)
            near == Sorted(found, key)
            new == Top(near, PerSeed)
            more == [k \in DOMAIN new |-> Result(new[k].doc, seed.score - k, {Wave}, seed.doc)]
<1>1. Pulled(s, seed) = more
  BY DEF Pulled
<1>2. seed.doc \in Docs /\ seed.doc \in 0 .. Entries /\ seed.score \in Int /\ key \in Keys
  BY ResultsAre, KeysAre, Constants
<1>3. found \in Seq(Results) /\ Distinct(found) /\ ToSet(found) \subseteq Unseen
  <2>1. Neighbours(seed.doc) \in Seq(Results) /\ Distinct(Neighbours(seed.doc))
    BY <1>2, NeighboursAre
  <2>2. ToSet(found) = ToSet(Neighbours(seed.doc)) \cap Unseen
    BY <2>1, OnlyHas
  <2>. QED
    BY <2>1, <2>2, OnlyIsSeq, DistinctOnly
<1>. HIDE DEF found, key
<1>4. near \in Seq(Results) /\ Distinct(near) /\ ToSet(near) \subseteq Unseen
  <2>1. near \in Seq(Results) /\ ToSet(near) = ToSet(found) /\ Distinct(near)
    BY <1>2, <1>3, SortedSteps, SortedHas, DistinctSorted
  <2>. QED
    BY <1>3, <2>1
<1>. HIDE DEF near
<1>5. new \in Seq(Results) /\ Distinct(new) /\ ToSet(new) \subseteq Unseen
  <2>1. new \in Seq(Results) /\ ToSet(new) \subseteq ToSet(near) /\ Distinct(new)
    BY <1>4, Constants, TopIs, DistinctTop
  <2>. QED
    BY <1>4, <2>1
<1>. HIDE DEF new
<1>6. Len(new) \in Nat /\ DOMAIN new = 1 .. Len(new) /\ ToSet(new) = {new[i] : i \in 1 .. Len(new)}
  BY <1>5, SeqIsFcn, ItemsAre
<1>7. ASSUME NEW k \in 1 .. Len(new)
      PROVE  /\ more[k] \in Results /\ more[k].doc = new[k].doc /\ more[k].seed = seed.doc /\ more[k] \in Waves
             /\ new[k].doc \notin DocsOf(s)
  <2>1. new[k] \in Results /\ new[k].doc \in Docs /\ new[k].doc \notin DocsOf(s)
    BY <1>5, <1>6, ResultsAre
  <2>. DEFINE how == {Wave}
              score == seed.score - k
              it == Result(new[k].doc, score, how, seed.doc)
  <2>2. how \in (SUBSET Labels) \cup {{Wave}} /\ score \in Int /\ more[k] = it
    BY <1>2, <1>6
  <2>3. it \in Results /\ it.doc = new[k].doc /\ it.seed = seed.doc /\ it.mechanisms = {Wave}
    <3>. HIDE DEF how, score
    <3>1. it \in Results /\ it.doc = new[k].doc /\ it.seed = seed.doc /\ it.mechanisms = how
      BY <1>2, <2>1, <2>2, ResultsAre
    <3>. QED
      BY <3>1 DEF how
  <2>. HIDE DEF it, more
  <2>. QED
    BY <2>1, <2>2, <2>3, TwoKinds
<1>8. more \in [1 .. Len(new) -> Results]
  BY <1>6, <1>7
<1>. HIDE DEF more, Unseen
<1>9. more \in Seq(Results) /\ Len(more) = Len(new)
  BY <1>6, <1>8, FcnIsSeq
<1>10. ToSet(more) = {more[k] : k \in 1 .. Len(new)} /\ DocsOf(more) = {more[k].doc : k \in 1 .. Len(new)}
  BY <1>9, ItemsAre, DocsOfItems
<1>11. Distinct(more)
  BY <1>5, <1>7, <1>9 DEF Distinct
<1>12. DocsOf(s) \cap DocsOf(more) = {}
  BY <1>7, <1>10
<1>13. \A r \in ToSet(more) : r \in Waves /\ r.seed = seed.doc
  BY <1>7, <1>10
<1>. QED
  BY <1>1, <1>9, <1>11, <1>12, <1>13

\* The second wave adds neighbours of seeds behind what there was, whichever lookups fail.
LEMMA AddedAre == ASSUME NEW o \in Firsts, NEW failing PROVE Followed(AddNeighbours(o, failing), o)
<1>. DEFINE U == {m \in Seq(Results) : Followed(m, o)}
            seeds == Top(o, Seeds)
            step == [acc \in Seq(Results) |-> [seed \in Results |-> IF seed.doc \in failing THEN acc ELSE acc \o Pulled(acc, seed)]]
<1>1. AddNeighbours(o, failing) = Fold(seeds, o, step)
  BY DEF AddNeighbours
<1>2. o \in Seq(Results) /\ o \in U
  BY FirstsFollowed DEF Firsts
<1>3. seeds \in Seq(Results) /\ ToSet(seeds) \subseteq ToSet(o) /\ seeds \in Seq(ToSet(o)) /\ ToSet(o) \subseteq Results
  <2>1. seeds \in Seq(Results) /\ ToSet(seeds) \subseteq ToSet(o)
    BY <1>2, Constants, TopIs
  <2>. QED
    BY <1>2, <2>1, OfItems, ItemsAre
<1>4. ASSUME NEW v \in U, NEW x \in ToSet(o) PROVE step[v][x] \in U
  <2>1. v \in Seq(Results) /\ Followed(v, o) /\ x \in Results
    BY <1>3
  <2>. DEFINE more == Pulled(v, x)
  <2>2. /\ more \in Seq(Results) /\ Distinct(more) /\ DocsOf(v) \cap DocsOf(more) = {}
        /\ \A r \in ToSet(more) : r \in Waves /\ r.seed = x.doc
    BY <2>1, PulledAre
  <2>3. step[v][x] = IF x.doc \in failing THEN v ELSE v \o more
    BY <2>1
  <2>. HIDE DEF more, step
  <2>4. v \o more \in Seq(Results) /\ ToSet(v \o more) = ToSet(v) \cup ToSet(more) /\ Distinct(v \o more)
    BY <2>1, <2>2, ConcatProperties, ItemsBoth, DistinctBoth DEF Followed
  <2>5. Only(v \o more, Originals) = o
    <3>1. ToSet(more) \cap Originals = {}
      BY <2>2, TwoKinds
    <3>2. Only(v \o more, Originals) = Only(v, Originals) \o Only(more, Originals) /\ Only(more, Originals) = <<>>
      BY <2>1, <2>2, <3>1, OnlyBoth, OnlyNothing
    <3>3. Only(v, Originals) = o
      BY <2>1 DEF Followed
    <3>. QED
      BY <1>2, <3>2, <3>3, ConcatEmptySeq
  <2>6. x.doc \in DocsOf(o)
    BY DEF DocsOf
  <2>7. Followed(v \o more, o)
    BY <2>1, <2>2, <2>4, <2>5, <2>6 DEF Followed
  <2>. QED
    BY <2>1, <2>3, <2>4, <2>7
<1>5. Fold(seeds, o, step) \in U
  <2>. HIDE DEF step, seeds, U
  <2>. QED
    BY <1>2, <1>3, <1>4, FoldTyped
<1>. QED
  BY <1>1, <1>5

\* The cap counts originals only, and takes a neighbour with its seed.
LEMMA CappedAre ==
  ASSUME NEW o \in Firsts, NEW m, Followed(m, o)
  PROVE  Followed(CapKeepNeighbours(m), Top(o, Limit))
<1>. DEFINE kept == Top(o, Limit)
            near == Only(m, SeededBy(kept))
<1>1. m \in Seq(Results) /\ Distinct(m) /\ Only(m, Originals) = o /\ (\A r \in ToSet(m) : r \in Waves => r.seed \in DocsOf(o))
      /\ Len(m) \in Nat /\ Limit \in Nat
  BY Constants, SeqIsFcn DEF Followed
<1>2. CapKeepNeighbours(m) = IF Len(m) <= Limit THEN m ELSE kept \o near
  BY <1>1 DEF CapKeepNeighbours
<1>3. kept \in Firsts /\ o \in Seq(Results) /\ ToSet(o) = ToSet(m) \cap Originals
  BY <1>1, FirstsTop, OnlyHas DEF Firsts
<1>4. kept \in Seq(Results) /\ Distinct(kept) /\ ToSet(kept) \subseteq Originals /\ ToSet(kept) \subseteq ToSet(m)
  BY <1>1, <1>3, TopIs DEF Firsts
<1>5. near \in Seq(Results) /\ Distinct(near) /\ ToSet(near) = ToSet(m) \cap SeededBy(kept)
  BY <1>1, OnlyIsSeq, DistinctOnly, OnlyHas
<1>6. SeededBy(kept) = {r \in Waves : r.seed \in DocsOf(kept)}
  BY DEF SeededBy
<1>7. CASE Len(m) <= Limit
  <2>1. Len(o) <= Len(m)
    <3>1. Cardinality(DocsOf(m)) = Len(m) /\ IsFiniteSet(DocsOf(m)) /\ Cardinality(DocsOf(o)) = Len(o)
      BY <1>1, <1>3, DocsCounted DEF Firsts
    <3>2. DocsOf(o) \subseteq DocsOf(m)
      BY <1>3 DEF DocsOf
    <3>. QED
      BY <3>1, <3>2, FS_Subset
  <2>2. kept = o
    <3>1. Len(o) \in Nat /\ Len(o) <= Limit
      BY <1>1, <1>3, <1>7, <2>1, SeqIsFcn
    <3>. QED
      BY <1>1, <1>3, <3>1, TopIs
  <2>. QED
    BY <1>2, <1>7, <2>2
<1>8. CASE ~(Len(m) <= Limit)
  <2>. HIDE DEF kept, near
  <2>1. ToSet(kept) \cap ToSet(near) = {}
    BY <1>4, <1>5, <1>6, TwoKinds
  <2>2. kept \o near \in Seq(Results) /\ ToSet(kept \o near) = ToSet(kept) \cup ToSet(near)
    BY <1>4, <1>5, ConcatProperties, ItemsBoth
  <2>3. Distinct(kept \o near)
    BY <1>1, <1>4, <1>5, <2>1, DistinctParts
  <2>4. Only(kept \o near, Originals) = kept
    <3>1. ToSet(near) \cap Originals = {}
      BY <1>5, <1>6, TwoKinds
    <3>2. Only(kept \o near, Originals) = Only(kept, Originals) \o Only(near, Originals)
      BY <1>4, <1>5, OnlyBoth
    <3>3. Only(near, Originals) = <<>> /\ Only(kept, Originals) = kept
      BY <1>3, <1>5, <3>1, OnlyNothing, FirstsOnly
    <3>. QED
      BY <1>4, <3>2, <3>3, ConcatEmptySeq
  <2>5. \A r \in ToSet(kept \o near) : r \in Waves => r.seed \in DocsOf(kept)
    BY <1>4, <1>5, <1>6, <2>2, TwoKinds
  <2>. QED
    BY <1>2, <1>8, <2>2, <2>3, <2>4, <2>5 DEF Followed, kept
<1>. QED
  BY <1>7, <1>8

\* Without neighbours the cap is a plain one.
LEMMA CappedFirsts == \A s \in Firsts : CapKeepNeighbours(s) = Top(s, Limit)
<1>. TAKE s \in Firsts
<1>. DEFINE kept == Top(s, Limit)
<1>1. s \in Seq(Results) /\ kept \in Seq(Results) /\ Only(s, Originals) = s /\ ToSet(s) \subseteq Originals /\ Limit \in Nat
  BY FirstsOnly, FirstsTop, Constants DEF Firsts
<1>2. CapKeepNeighbours(s) = IF Len(s) <= Limit THEN s ELSE kept \o Only(s, SeededBy(kept))
  BY <1>1 DEF CapKeepNeighbours
<1>3. ToSet(s) \cap SeededBy(kept) = {}
  BY <1>1, TwoKinds DEF SeededBy
<1>4. Only(s, SeededBy(kept)) = <<>>
  BY <1>1, <1>3, OnlyNothing
<1>5. kept \o <<>> = kept /\ (Len(s) <= Limit => kept = s)
  BY <1>1, TopIs, ConcatEmptySeq
<1>. QED
  BY <1>2, <1>4, <1>5

--------------------------------------------------------------------------------
(* The prompt.  What the gap filter lets through, and in which order it is
   packed: for the originals it is the same with neighbours and without. *)

\* The filter cuts the originals without regard to the neighbours, and nothing dated.
LEMMA GapFilterIs ==
  ASSUME NEW s \in Seq(Results)
  PROVE  /\ GapFilter(s) \in Seq(Results) /\ ToSet(GapFilter(s)) \subseteq ToSet(s)
         /\ Distinct(s) => Distinct(GapFilter(s))
         /\ Only(GapFilter(s), Originals) = GapFilter(Only(s, Originals))
         /\ ToSet(s) \cap Dated \subseteq ToSet(GapFilter(s))
<1>. DEFINE o == Only(s, Originals)
            stays == DocsOf(AboveGap(o)) \cup DocsOf(Only(o, Dated))
            stay == Only(s, Staying(o))
<1>1. o \in Seq(Results) /\ ToSet(o) = ToSet(s) \cap Originals /\ Only(o, Originals) = o
  BY OnlyIsSeq, OnlyHas, OnlyAll
<1>2. stay \in Seq(Results) /\ ToSet(stay) = ToSet(s) \cap Staying(o) /\ (Distinct(s) => Distinct(stay))
  BY OnlyIsSeq, OnlyHas, DistinctOnly
<1>3. GapFilter(s) = (IF o = <<>> THEN <<>> ELSE BestFirst(stay))
  BY DEF GapFilter
<1>4. GapFilter(o) = (IF o = <<>> THEN <<>> ELSE BestFirst(Only(o, Staying(o))))
  BY <1>1 DEF GapFilter
<1>5. CASE o = <<>>
  <2>1. GapFilter(s) = <<>> /\ GapFilter(o) = <<>>
    BY <1>3, <1>4, <1>5
  <2>2. ToSet(s) \cap Dated = {}
    BY <1>1, <1>5, ItemsNone, TwoKinds
  <2>. QED
    BY <2>1, <2>2, EmptySeq, ItemsNone, DistinctNone, OnlyNone
<1>6. CASE o # <<>>
  <2>1. GapFilter(s) = BestFirst(stay) /\ GapFilter(o) = BestFirst(Only(o, Staying(o)))
    BY <1>3, <1>4, <1>6
  <2>2. Only(stay, Originals) = Only(o, Staying(o))
    <3>. DEFINE St == Staying(o)
    <3>1. St \cap Originals = Originals \cap St
      OBVIOUS
    <3>. HIDE DEF St
    <3>2. Only(Only(s, St), Originals) = Only(s, St \cap Originals) /\ Only(Only(s, Originals), St) = Only(s, Originals \cap St)
      BY OnlyTwice
    <3>. QED
      BY <3>1, <3>2 DEF St
  <2>3. ToSet(s) \cap Dated \subseteq ToSet(stay)
    <3>1. ASSUME NEW x \in ToSet(s), x \in Dated PROVE x \in Staying(o)
      <4>1. x \in Originals /\ x \in ToSet(o)
        BY <1>1, <3>1, TwoKinds
      <4>2. x \in ToSet(Only(o, Dated))
        BY <1>1, <3>1, <4>1, OnlyHas
      <4>3. x.doc \in stays
        BY <4>2 DEF DocsOf
      <4>4. Staying(o) = {r \in Originals : r.doc \in stays} \cup {r \in Waves : r.seed \in stays}
        BY DEF Staying
      <4>. HIDE DEF stays
      <4>. QED
        BY <4>1, <4>3, <4>4
    <3>. QED
      BY <1>2, <3>1
  <2>. HIDE DEF stay, o
  <2>4. /\ BestFirst(stay) \in Seq(Results) /\ ToSet(BestFirst(stay)) = ToSet(stay)
        /\ (Distinct(stay) => Distinct(BestFirst(stay)))
        /\ Only(BestFirst(stay), Originals) = BestFirst(Only(stay, Originals))
    BY <1>2, BestFirstIs
  <2>. QED
    BY <1>2, <2>1, <2>2, <2>3, <2>4 DEF o
<1>. QED
  BY <1>5, <1>6

\* The order of packing takes no notice of the neighbours.
LEMMA PackOrderIs ==
  ASSUME NEW s \in Seq(Results), NEW center \in Nat
  PROVE  /\ PackOrder(s, center) \in Seq(Results) /\ ToSet(PackOrder(s, center)) = ToSet(s)
         /\ Distinct(s) => Distinct(PackOrder(s, center))
         /\ Only(PackOrder(s, center), Originals) = PackOrder(Only(s, Originals), center)
<1>. DEFINE key == Nearness(center)
            dated == Only(s, Dated)
            first == Sorted(dated, key)
            other == Only(s, Results \ Dated)
<1>1. key \in Keys
  BY KeysAre
<1>2. /\ dated \in Seq(Results) /\ other \in Seq(Results) /\ ToSet(dated) = ToSet(s) \cap Dated
      /\ ToSet(other) = ToSet(s) \cap (Results \ Dated) /\ (Distinct(s) => Distinct(dated) /\ Distinct(other))
  BY OnlyIsSeq, OnlyHas, DistinctOnly
<1>3. PackOrder(s, center) = first \o other
  BY DEF PackOrder
<1>4. ToSet(s) \subseteq Results
  BY ItemsAre
<1>5. Only(first, Originals) = Sorted(Only(Only(s, Originals), Dated), key)
  <2>1. Dated \cap Originals = Originals \cap Dated
    OBVIOUS
  <2>2. Only(first, Originals) = Sorted(Only(dated, Originals), key)
    BY <1>1, <1>2, SortedOnly
  <2>3. Only(dated, Originals) = Only(s, Dated \cap Originals) /\ Only(Only(s, Originals), Dated) = Only(s, Originals \cap Dated)
    BY OnlyTwice
  <2>. QED
    BY <2>1, <2>2, <2>3
<1>6. Only(other, Originals) = Only(Only(s, Originals), Results \ Dated)
  <2>. DEFINE Rest == Results \ Dated
  <2>1. Rest \cap Originals = Originals \cap Rest
    OBVIOUS
  <2>. HIDE DEF Rest
  <2>2. Only(Only(s, Rest), Originals) = Only(s, Rest \cap Originals) /\ Only(Only(s, Originals), Rest) = Only(s, Originals \cap Rest)
    BY OnlyTwice
  <2>. QED
    BY <2>1, <2>2 DEF Rest
<1>7. PackOrder(Only(s, Originals), center) = Only(first, Originals) \o Only(other, Originals)
  BY <1>5, <1>6 DEF PackOrder
<1>. HIDE DEF key, dated, other
<1>8. first \in Seq(Results) /\ ToSet(first) = ToSet(dated) /\ (Distinct(s) => Distinct(first))
  BY <1>1, <1>2, SortedSteps, SortedHas, DistinctSorted
<1>. HIDE DEF first
<1>9. /\ first \o other \in Seq(Results) /\ ToSet(first \o other) = ToSet(first) \cup ToSet(other)
      /\ Only(first \o other, Originals) = Only(first, Originals) \o Only(other, Originals)
  <2>1. first \in Seq(Results) /\ other \in Seq(Results)
    BY <1>2, <1>8
  <2>2. first \o other \in Seq(Results) /\ ToSet(first \o other) = ToSet(first) \cup ToSet(other)
    BY <2>1, ConcatProperties, ItemsBoth
  <2>3. Only(first \o other, Originals) = Only(first, Originals) \o Only(other, Originals)
    BY <2>1, OnlyBoth
  <2>. QED
    BY <2>2, <2>3
<1>10. ToSet(first \o other) = ToSet(s)
  BY <1>2, <1>4, <1>8, <1>9
<1>11. ASSUME Distinct(s) PROVE Distinct(first \o other)
  <2>1. ToSet(first) \cap ToSet(other) = {} /\ ToSet(first) \subseteq ToSet(s) /\ ToSet(other) \subseteq ToSet(s)
    BY <1>2, <1>8
  <2>. QED
    BY <1>2, <1>8, <1>11, <2>1, DistinctParts
<1>. QED
  BY <1>3, <1>7, <1>9, <1>10, <1>11

--------------------------------------------------------------------------------
(* The budget.  The tokens of a sequence, and of the part of another that it
   chooses. *)

LEMMA TokensNone == Tokens(<<>>) = 0
BY FoldNone DEF Tokens

LEMMA SizesAre == \A r \in Results : Size[r.doc] \in Nat
BY Constants, ResultsAre

\* The tokens of one line more.
LEMMA TokensMore ==
  ASSUME NEW s \in Seq(Results)
  PROVE  /\ Tokens(s) \in Nat
         /\ \A e \in Results : Tokens(Append(s, e)) = Tokens(s) + Size[e.doc]
<1>. DEFINE step == [n \in Nat |-> [r \in Results |-> n + Size[r.doc]]]
<1>1. /\ Tokens(s) = Fold(s, 0, step)
      /\ \A e \in Results : Tokens(Append(s, e)) = Fold(Append(s, e), 0, step)
  BY DEF Tokens
<1>2. \A v \in Nat : \A x \in Results : step[v][x] \in Nat /\ step[v][x] = v + Size[x.doc]
  BY SizesAre
<1>. HIDE DEF step
<1>3. Fold(s, 0, step) \in Nat
  BY <1>2, FoldTyped
<1>4. \A e \in Results : Fold(Append(s, e), 0, step) = step[Fold(s, 0, step)][e]
  <2>. TAKE e \in Results
  <2>. DEFINE U == Nat
              first == 0
  <2>1. first \in U /\ \A v \in U : \A x \in Results : step[v][x] \in U
    BY <1>2
  <2>. HIDE DEF U, first
  <2>2. Fold(Append(s, e), first, step) = step[Fold(s, first, step)][e]
    BY <2>1, FoldMore
  <2>. QED
    BY <2>2 DEF first
<1>. QED
  BY <1>1, <1>2, <1>3, <1>4

\* One line more in the set costs at most its tokens, where nothing is repeated,
LEMMA TokensOfOneMore ==
  \A S : \A e \in Results : \A s \in Seq(Results) :
    Distinct(s) => Tokens(Only(s, S \cup {e})) <= Tokens(Only(s, S)) + Size[e.doc]
<1>. TAKE S
<1>. TAKE e \in Results
<1>. DEFINE more == S \cup {e}
            G == {s \in Seq(Results) : Distinct(s) => Tokens(Only(s, more)) <= Tokens(Only(s, S)) + Size[e.doc]}
<1>0. Size[e.doc] \in Nat
  BY SizesAre
<1>1. <<>> \in G
  <2>1. Tokens(Only(<<>>, more)) = 0 /\ Tokens(Only(<<>>, S)) = 0
    BY OnlyNone, TokensNone
  <2>. QED
    BY <1>0, <2>1, EmptySeq
<1>2. ASSUME NEW s \in Seq(Results), NEW x \in Results, s \in G PROVE Append(s, x) \in G
  <2>. DEFINE a == Only(s, more)
              b == Only(s, S)
  <2>1. Append(s, x) \in Seq(Results) /\ a \in Seq(Results) /\ b \in Seq(Results)
    BY AppendProperties, OnlyIsSeq
  <2>2. Only(Append(s, x), more) = (IF x \in more THEN Append(a, x) ELSE a)
    BY OnlyMore
  <2>3. Only(Append(s, x), S) = (IF x \in S THEN Append(b, x) ELSE b)
    BY OnlyMore
  <2>4. SUFFICES ASSUME Distinct(Append(s, x))
                 PROVE  Tokens(Only(Append(s, x), more)) <= Tokens(Only(Append(s, x), S)) + Size[e.doc]
    BY <2>1
  <2>5. Distinct(s) /\ x.doc \notin DocsOf(s)
    BY <2>4, DistinctMore
  <2>6. Tokens(a) <= Tokens(b) + Size[e.doc]
    BY <1>2, <2>5
  <2>7. CASE x = e /\ x \notin S
    <3>1. x \notin ToSet(s)
      BY <2>5 DEF DocsOf
    <3>2. ToSet(s) \cap more = ToSet(s) \cap S
      BY <2>7, <3>1
    <3>3. a = b
      BY <3>2, OnlySame
    <3>4. Only(Append(s, x), more) = Append(b, x) /\ Only(Append(s, x), S) = b
      BY <2>2, <2>3, <2>7, <3>3
    <3>. HIDE DEF a, b
    <3>5. Tokens(Append(b, x)) = Tokens(b) + Size[e.doc] /\ Tokens(b) \in Nat
      BY <2>1, <2>7, TokensMore
    <3>6. Tokens(Only(Append(s, x), more)) = Tokens(Append(b, x)) /\ Tokens(Only(Append(s, x), S)) = Tokens(b)
      BY <3>4
    <3>. HIDE DEF more
    <3>. QED
      BY <1>0, <3>5, <3>6
  <2>8. CASE x \in S
    <3>1. Only(Append(s, x), more) = Append(a, x) /\ Only(Append(s, x), S) = Append(b, x)
      BY <2>2, <2>3, <2>8
    <3>. HIDE DEF a, b
    <3>2. Tokens(Append(b, x)) = Tokens(b) + Size[x.doc] /\ Tokens(b) \in Nat
          /\ Tokens(Append(a, x)) = Tokens(a) + Size[x.doc] /\ Tokens(a) \in Nat /\ Size[x.doc] \in Nat
      BY <2>1, TokensMore, SizesAre
    <3>3. /\ Tokens(Only(Append(s, x), more)) = Tokens(Append(a, x))
          /\ Tokens(Only(Append(s, x), S)) = Tokens(Append(b, x))
      BY <3>1
    <3>. HIDE DEF more
    <3>. QED
      BY <1>0, <2>6, <3>2, <3>3
  <2>9. CASE x # e /\ x \notin S
    <3>1. Only(Append(s, x), more) = a /\ Only(Append(s, x), S) = b
      BY <2>2, <2>3, <2>9
    <3>. QED
      BY <2>6, <3>1
  <2>. QED
    BY <2>7, <2>8, <2>9
<1>. HIDE DEF G
<1>3. \A s \in Seq(Results) : s \in G
  BY <1>1, <1>2, SeqInduction
<1>. QED
  BY <1>3 DEF G

\* so what is chosen costs at most the tokens of the choice.
LEMMA TokensOfChosen ==
  ASSUME NEW s \in Seq(Results), Distinct(s)
  PROVE  \A q \in Seq(Results) : Tokens(Only(s, ToSet(q))) <= Tokens(q)
<1>. DEFINE G == {q \in Seq(Results) : Tokens(Only(s, ToSet(q))) <= Tokens(q)}
<1>1. <<>> \in G
  <2>1. ToSet(s) \cap ToSet(<<>>) = {}
    BY ItemsNone
  <2>2. Only(s, ToSet(<<>>)) = <<>>
    BY <2>1, OnlyNothing
  <2>. QED
    BY <2>2, TokensNone, EmptySeq
<1>2. ASSUME NEW q \in Seq(Results), NEW e \in Results, q \in G PROVE Append(q, e) \in G
  <2>. DEFINE S == ToSet(q)
  <2>1. Append(q, e) \in Seq(Results) /\ ToSet(Append(q, e)) = S \cup {e}
    BY AppendProperties, ItemsMore
  <2>2. Tokens(Only(s, S)) <= Tokens(q)
    BY <1>2
  <2>. HIDE DEF S
  <2>3. Tokens(Only(s, S \cup {e})) <= Tokens(Only(s, S)) + Size[e.doc]
    BY TokensOfOneMore
  <2>4. Only(s, S) \in Seq(Results) /\ Only(s, S \cup {e}) \in Seq(Results)
    BY OnlyIsSeq
  <2>5. Tokens(Only(s, S)) \in Nat /\ Tokens(Only(s, S \cup {e})) \in Nat /\ Tokens(q) \in Nat
        /\ Tokens(Append(q, e)) = Tokens(q) + Size[e.doc] /\ Size[e.doc] \in Nat
    BY <2>4, TokensMore, SizesAre
  <2>6. Tokens(Only(s, S \cup {e})) <= Tokens(Append(q, e))
    BY <2>2, <2>3, <2>5
  <2>. QED
    BY <2>1, <2>6
<1>. HIDE DEF G
<1>3. \A q \in Seq(Results) : q \in G
  BY <1>1, <1>2, SeqInduction
<1>. QED
  BY <1>3 DEF G

Fitting(order, budget, n) == \A k \in 2 .. n : Tokens(SubSeq(order, 1, k)) <= budget

\* pack_lines takes a beginning of the order in which every line but the first fits.
LEMMA PackLinesIs ==
  ASSUME NEW s \in Seq(Results), NEW budget, NEW center \in Nat
  PROVE  \E n \in 0 .. Len(PackOrder(s, center)) :
           /\ PackLines(s, budget, center) = SubSeq(PackOrder(s, center), 1, n)
           /\ Fitting(PackOrder(s, center), budget, n)
<1>. DEFINE order == PackOrder(s, center)
            Fits(n) == Fitting(order, budget, n)
            Final(n) == Fits(n) /\ (n = Len(order) \/ ~Fits(n + 1))
            G == {n \in 0 .. Len(order) : Fits(n)}
<1>1. order \in Seq(Results) /\ Len(order) \in Nat
  BY PackOrderIs, LenProperties
<1>2. PackLines(s, budget, center) = SubSeq(order, 1, CHOOSE n \in 0 .. Len(order) : Final(n))
  BY DEF PackLines, Fitting
<1>. HIDE DEF order
<1>3. \E n \in 0 .. Len(order) : Final(n)
  <2>1. SUFFICES ASSUME \A n \in 0 .. Len(order) : ~Final(n) PROVE FALSE
    OBVIOUS
  <2>2. 0 \in G
    <3>1. 2 .. 0 = {} /\ 0 \in 0 .. Len(order)
      BY <1>1
    <3>. QED
      BY <3>1 DEF Fitting
  <2>3. ASSUME NEW n \in 0 .. Len(order) - 1, n \in G PROVE n + 1 \in G
    <3>1. n \in 0 .. Len(order) /\ n # Len(order) /\ n + 1 \in 0 .. Len(order)
      BY <1>1
    <3>. HIDE DEF Fits
    <3>. QED
      BY <2>1, <2>3, <3>1
  <2>4. \A n \in 0 .. Len(order) : n \in G
    <3>. HIDE DEF G
    <3>. QED
      BY <1>1, <2>2, <2>3, InductTo
  <2>5. Len(order) \in 0 .. Len(order) /\ Fits(Len(order))
    BY <1>1, <2>4
  <2>. HIDE DEF Fits
  <2>. QED
    BY <2>1, <2>5
<1>. HIDE DEF Fits
<1>4. PICK n \in 0 .. Len(order) : n = CHOOSE k \in 0 .. Len(order) : Final(k)
  BY <1>3
<1>5. Final(n)
  BY <1>3, <1>4
<1>. QED
  BY <1>2, <1>4, <1>5 DEF order, Fits

(* What the date found and the budget leaves out comes after all that is in. *)
LEMMA PackedBefore ==
  ASSUME NEW s \in Seq(Results), NEW budget, NEW center \in Nat,
         NEW lost \in ToSet(s), lost \in Dated, lost \notin ToSet(PackLines(s, budget, center)),
         NEW r \in ToSet(PackLines(s, budget, center))
  PROVE  r \in Dated /\ Nearness(center)[r] >= Nearness(center)[lost]
<1>. DEFINE key == Nearness(center)
            dated == Only(s, Dated)
            first == Sorted(dated, key)
            other == Only(s, Results \ Dated)
            base == PackLines(s, budget, center)
            order == first \o other
            m == Len(first)
<1>1. key \in Keys
  BY KeysAre
<1>2. dated \in Seq(Results) /\ other \in Seq(Results) /\ ToSet(dated) = ToSet(s) \cap Dated
  BY OnlyIsSeq, OnlyHas
<1>3. PackOrder(s, center) = order
  BY DEF PackOrder
<1>4. PICK n \in 0 .. Len(order) : base = SubSeq(order, 1, n)
  BY <1>3, PackLinesIs
<1>. HIDE DEF key, dated, other, base
<1>5. first \in Seq(Results) /\ ToSet(first) = ToSet(dated) /\ Descending(first, key) /\ m \in Nat
  BY <1>1, <1>2, SortedSteps, SortedHas, SortedDescends, LenProperties
<1>. HIDE DEF first
<1>6. PICK j \in 1 .. m : lost = first[j]
  BY <1>2, <1>5, ItemsAre
<1>7. order \in Seq(Results) /\ \A i \in 1 .. m : order[i] = first[i] /\ i <= Len(order)
  <2>. DEFINE k == Len(other)
              w == Len(first)
  <2>1. Len(other) = k /\ Len(first) = w /\ k \in Nat /\ w \in Nat
    BY <1>2, <1>5, LenProperties
  <2>4. first \in Seq(Results) /\ other \in Seq(Results)
    BY <1>2, <1>5
  <2>. HIDE DEF k, w
  <2>2. order \in Seq(Results) /\ Len(order) = w + k /\ \A i \in 1 .. w + k : order[i] = IF i <= w THEN first[i] ELSE other[i - w]
    BY <2>1, <2>4, ConcatOver
  <2>3. \A i \in 1 .. w : i \in 1 .. w + k /\ i <= w /\ i <= w + k
    BY <2>1
  <2>. QED
    BY <2>1, <2>2, <2>3
<1>. HIDE DEF order
<1>8. /\ base \in Seq(Results) /\ Len(base) = n /\ n \in Nat
      /\ \A i \in 1 .. n : base[i] = order[i]
  BY <1>4, <1>7, Beginnings, LenProperties
<1>9. ToSet(base) = {base[i] : i \in 1 .. n}
  BY <1>8, ItemsAre
<1>10. n < j
  <2>1. SUFFICES ASSUME j <= n PROVE FALSE
    BY <1>5, <1>8
  <2>2. j \in 1 .. n
    BY <1>5, <1>8, <2>1
  <2>3. base[j] = lost
    BY <1>6, <1>7, <1>8, <2>2
  <2>. QED
    BY <1>9, <2>2, <2>3 DEF base
<1>11. PICK i \in 1 .. n : r = base[i]
  BY <1>9 DEF base
<1>12. i \in 1 .. m /\ i < j
  BY <1>5, <1>8, <1>10
<1>13. r = first[i]
  BY <1>7, <1>8, <1>11, <1>12
<1>14. r \in ToSet(first)
  BY <1>5, <1>12, <1>13, ItemsAre
<1>. QED
  BY <1>2, <1>5, <1>6, <1>12, <1>13, <1>14 DEF Descending, key

(* fit_originals_first: the originals are those that pack_lines has chosen among
   the originals; a neighbour comes with its seed; more than one line keeps to
   the budget. *)
LEMMA FitIs ==
  ASSUME NEW s \in Seq(Results), Distinct(s), NEW budget \in Nat, NEW center \in Nat,
         NEW o, o = Only(s, Originals), NEW base, base = PackLines(o, budget, center),
         NEW lines, lines = FitOriginalsFirst(s, budget, center)
  PROVE  /\ lines \in Seq(Results) /\ Distinct(lines) /\ ToSet(lines) \subseteq ToSet(s)
         /\ ToSet(base) \subseteq ToSet(o)
         /\ Only(lines, Originals) = Only(PackOrder(o, center), ToSet(base))
         /\ ToSet(lines) \cap Originals = ToSet(base)
         /\ \A r \in ToSet(lines) : r \in Waves => r.seed \in DocsOf(base)
         /\ Len(lines) > 1 => Tokens(lines) <= budget
<1>. DEFINE P == PackOrder(s, center)
            order == PackOrder(o, center)
            Fit(acc, r) == IF r.seed \in DocsOf(base) /\ Tokens(acc) + Size[r.doc] <= budget THEN Append(acc, r) ELSE acc
            step == [acc \in Seq(Results) |-> [r \in Results |-> Fit(acc, r)]]
            waves == Only(s, Waves)
            chosen == Fold(waves, base, step)
            Fine(acc) == \A r \in ToSet(acc) : r \in ToSet(base) \/ (r \in ToSet(s) /\ r \in Waves /\ r.seed \in DocsOf(base))
            U == {acc \in Seq(Results) : /\ ToSet(base) \subseteq ToSet(acc) /\ Fine(acc)
                                         /\ acc = base \/ Tokens(acc) <= budget}
<1>1. lines = Only(P, ToSet(chosen))
  BY DEF FitOriginalsFirst
<1>2. o \in Seq(Results) /\ ToSet(o) = ToSet(s) \cap Originals /\ Distinct(o)
      /\ waves \in Seq(Results) /\ ToSet(waves) = ToSet(s) \cap Waves /\ waves \in Seq(ToSet(s) \cap Waves)
  BY OnlyIsSeq, OnlyHas, DistinctOnly, OfItems
<1>3. P \in Seq(Results) /\ ToSet(P) = ToSet(s) /\ Distinct(P) /\ Only(P, Originals) = order
  BY PackOrderIs
<1>4. order \in Seq(Results) /\ ToSet(order) = ToSet(o) /\ Distinct(order) /\ Len(order) \in Nat
  BY <1>2, PackOrderIs, LenProperties
<1>5. PICK n \in 0 .. Len(order) : base = SubSeq(order, 1, n) /\ Fitting(order, budget, n)
  BY <1>2, PackLinesIs
<1>. HIDE DEF P, order, waves
<1>6. base \in Seq(Results) /\ Len(base) = n /\ ToSet(base) \subseteq ToSet(o) /\ n \in Nat
  BY <1>4, <1>5, Beginnings
<1>7. ToSet(s) \subseteq Results /\ base \in U
  BY <1>6, ItemsAre
<1>8. ASSUME NEW v \in U, NEW x \in ToSet(s) \cap Waves PROVE step[v][x] \in U
  <2>1. v \in Seq(Results) /\ x \in Results /\ ToSet(base) \subseteq ToSet(v) /\ Fine(v)
    BY <1>7
  <2>2. step[v][x] = IF x.seed \in DocsOf(base) /\ Tokens(v) + Size[x.doc] <= budget THEN Append(v, x) ELSE v
    BY <2>1
  <2>3. CASE x.seed \in DocsOf(base) /\ Tokens(v) + Size[x.doc] <= budget
    <3>1. Append(v, x) \in Seq(Results) /\ ToSet(Append(v, x)) = ToSet(v) \cup {x} /\ Tokens(Append(v, x)) = Tokens(v) + Size[x.doc]
      BY <2>1, AppendProperties, ItemsMore, TokensMore
    <3>2. Fine(Append(v, x)) /\ ToSet(base) \subseteq ToSet(Append(v, x)) /\ Tokens(Append(v, x)) <= budget
      BY <2>1, <2>3, <3>1
    <3>3. step[v][x] = Append(v, x)
      BY <2>2, <2>3
    <3>. HIDE DEF step, Fine
    <3>. QED
      BY <3>1, <3>2, <3>3
  <2>4. CASE ~(x.seed \in DocsOf(base) /\ Tokens(v) + Size[x.doc] <= budget)
    <3>1. step[v][x] = v
      BY <2>2, <2>4
    <3>. QED
      BY <3>1
  <2>. QED
    BY <2>3, <2>4
<1>9. chosen \in U
  <2>. HIDE DEF U, step
  <2>. QED
    BY <1>2, <1>7, <1>8, FoldTyped
<1>. HIDE DEF step, chosen
<1>10. chosen \in Seq(Results) /\ ToSet(base) \subseteq ToSet(chosen) /\ (chosen = base \/ Tokens(chosen) <= budget)
       /\ \A r \in ToSet(chosen) : r \in ToSet(base) \/ (r \in ToSet(s) /\ r \in Waves /\ r.seed \in DocsOf(base))
  BY <1>9
<1>11. ToSet(base) \subseteq ToSet(s) \cap Originals
  BY <1>2, <1>6
<1>12. lines \in Seq(Results) /\ Distinct(lines) /\ ToSet(lines) = ToSet(s) \cap ToSet(chosen)
  BY <1>1, <1>3, OnlyIsSeq, OnlyHas, DistinctOnly
<1>13. ToSet(lines) \cap Originals = ToSet(base) /\ ToSet(chosen) \cap Originals = ToSet(base)
  BY <1>10, <1>11, <1>12, TwoKinds
<1>14. \A r \in ToSet(lines) : r \in Waves => r.seed \in DocsOf(base)
  BY <1>10, <1>11, <1>12, TwoKinds
<1>15. Only(lines, Originals) = Only(order, ToSet(base))
  <2>1. Only(lines, Originals) = Only(P, ToSet(chosen) \cap Originals)
    BY <1>1, <1>3, OnlyTwice
  <2>2. Only(order, ToSet(base)) = Only(P, Originals \cap ToSet(base))
    BY <1>3, OnlyTwice
  <2>3. Originals \cap ToSet(base) = ToSet(base)
    BY <1>11
  <2>. QED
    BY <1>13, <2>1, <2>2, <2>3
<1>16. ASSUME Len(lines) > 1 PROVE Tokens(lines) <= budget
  <2>1. Tokens(lines) <= Tokens(chosen) /\ Tokens(lines) \in Nat /\ Tokens(chosen) \in Nat
    BY <1>1, <1>3, <1>10, <1>12, TokensOfChosen, TokensMore
  <2>2. CASE Tokens(chosen) <= budget
    BY <2>1, <2>2
  <2>3. CASE chosen = base
    <3>1. n >= 2
      <4>1. SUFFICES ASSUME ~(n >= 2) PROVE FALSE
        OBVIOUS
      <4>2. Len(lines) \in Nat /\ 1 \in 1 .. Len(lines) /\ 2 \in 1 .. Len(lines)
        BY <1>12, <1>16, LenProperties
      <4>3. lines[1] \in ToSet(base) /\ lines[2] \in ToSet(base)
        BY <1>12, <2>3, <4>2, ItemsAre
      <4>4. ToSet(base) = {base[i] : i \in 1 .. n}
        BY <1>6, ItemsAre
      <4>5. \A i \in 1 .. n : i = 1
        BY <1>6, <4>1
      <4>6. lines[1] = base[1] /\ lines[2] = base[1]
        BY <4>3, <4>4, <4>5
      <4>. QED
        BY <1>12, <4>2, <4>6 DEF Distinct
    <3>2. n \in 2 .. n
      BY <1>6, <3>1
    <3>3. Tokens(SubSeq(order, 1, n)) <= budget
      BY <1>5, <3>2 DEF Fitting
    <3>. QED
      BY <1>5, <2>1, <2>3, <3>3
  <2>. QED
    BY <1>10, <2>2, <2>3
<1>. QED
  BY <1>6, <1>12, <1>13, <1>14, <1>15, <1>16 DEF order

(* assemble_blocks: the same originals with neighbours and without; no
   neighbour without its seed; and what the date found goes first. *)
LEMMA AssembleIs ==
  ASSUME NEW o \in Firsts, NEW m, Followed(m, o), NEW budget \in Nat, NEW center \in Nat,
         NEW lines, lines = Assemble(m, budget, center)
  PROVE  /\ lines \in Seq(Results) /\ Distinct(lines)
         /\ Only(lines, Originals) = Assemble(o, budget, center)
         /\ \A r \in ToSet(lines) : r \in Waves => r.seed \in DocsOf(Only(lines, Originals))
         /\ Len(lines) > 1 => Tokens(lines) <= budget
         /\ \A lost \in (ToSet(m) \cap Dated) \ ToSet(lines) : \A r \in ToSet(lines) :
              /\ r \in Dated \cup Waves
              /\ center # None /\ r \in Dated => Distance(r.doc, center) <= Distance(lost.doc, center)
<1>. DEFINE s == GapFilter(BestFirst(m))
            t == GapFilter(BestFirst(o))
            base == PackLines(t, budget, center)
            full == FitOriginalsFirst(s, budget, center)
            bare == FitOriginalsFirst(t, budget, center)
<1>1. m \in Seq(Results) /\ Distinct(m) /\ Only(m, Originals) = o /\ o \in Seq(Results) /\ Distinct(o)
      /\ ToSet(o) \subseteq Originals
  BY DEF Followed, Firsts
<1>2. s \in Seq(Results) /\ Distinct(s) /\ Only(s, Originals) = t /\ ToSet(m) \cap Dated \subseteq ToSet(s)
  <2>. DEFINE b == BestFirst(m)
  <2>1. b \in Seq(Results) /\ Distinct(b) /\ ToSet(b) = ToSet(m) /\ Only(b, Originals) = BestFirst(o)
    BY <1>1, BestFirstIs
  <2>. HIDE DEF b
  <2>2. /\ GapFilter(b) \in Seq(Results) /\ Distinct(GapFilter(b))
        /\ Only(GapFilter(b), Originals) = GapFilter(Only(b, Originals))
        /\ ToSet(b) \cap Dated \subseteq ToSet(GapFilter(b))
    BY <2>1, GapFilterIs
  <2>. QED
    BY <2>1, <2>2 DEF b
<1>3. t \in Seq(Results) /\ Distinct(t) /\ ToSet(t) \subseteq Originals /\ Only(t, Originals) = t
  <2>1. t \in Seq(Results) /\ ToSet(t) = ToSet(s) \cap Originals /\ Distinct(t)
    BY <1>2, OnlyIsSeq, OnlyHas, DistinctOnly
  <2>. QED
    BY <2>1, OnlyAll
<1>4. Assemble(m, budget, center) = (IF budget = 0 \/ m = <<>> THEN <<>> ELSE full)
      /\ Assemble(o, budget, center) = (IF budget = 0 \/ o = <<>> THEN <<>> ELSE bare)
  BY DEF Assemble
<1>. HIDE DEF s, t
<1>5. /\ full \in Seq(Results) /\ Distinct(full) /\ ToSet(full) \subseteq ToSet(s)
      /\ ToSet(base) \subseteq ToSet(t)
      /\ Only(full, Originals) = Only(PackOrder(t, center), ToSet(base))
      /\ ToSet(full) \cap Originals = ToSet(base)
      /\ \A r \in ToSet(full) : r \in Waves => r.seed \in DocsOf(base)
      /\ Len(full) > 1 => Tokens(full) <= budget
  BY <1>2, FitIs
<1>6. /\ bare \in Seq(Results) /\ ToSet(bare) \subseteq ToSet(t)
      /\ Only(bare, Originals) = Only(PackOrder(t, center), ToSet(base))
  BY <1>3, FitIs
<1>. HIDE DEF base, full, bare
<1>7. bare = Only(full, Originals)
  <2>1. Only(bare, Originals) = bare
    BY <1>3, <1>6, OnlyAll
  <2>. QED
    BY <1>5, <1>6, <2>1
<1>8. CASE budget = 0 \/ m = <<>>
  <2>1. lines = <<>> /\ Assemble(o, budget, center) = <<>>
    <3>1. m = <<>> => o = <<>>
      BY <1>1, OnlyNone
    <3>. QED
      BY <1>4, <1>8, <3>1
  <2>2. ToSet(lines) = {} /\ Only(lines, Originals) = <<>> /\ lines \in Seq(Results) /\ Distinct(lines) /\ Len(lines) = 0
    BY <2>1, ItemsNone, OnlyNone, EmptySeq, DistinctNone
  <2>. QED
    BY <2>1, <2>2
<1>9. CASE ~(budget = 0 \/ m = <<>>)
  <2>1. lines = full
    BY <1>4, <1>9
  <2>2. Assemble(o, budget, center) = bare
    <3>1. CASE o = <<>>
      <4>1. t = <<>>
        BY <3>1, BestFirstIs, OnlyNone DEF t, GapFilter
      <4>2. ToSet(full) \cap Originals = {}
        BY <1>5, <4>1, ItemsNone
      <4>3. Only(full, Originals) = <<>>
        BY <1>5, <4>2, OnlyNothing
      <4>. QED
        BY <1>4, <1>7, <3>1, <4>3
    <3>2. CASE o # <<>>
      BY <1>4, <1>9, <3>2
    <3>. QED
      BY <3>1, <3>2
  <2>3. DocsOf(Only(full, Originals)) = DocsOf(base)
    BY <1>5, OnlyHas DEF DocsOf
  <2>4. ASSUME NEW lost \in (ToSet(m) \cap Dated) \ ToSet(lines), NEW r \in ToSet(lines)
        PROVE  /\ r \in Dated \cup Waves
               /\ center # None /\ r \in Dated => Distance(r.doc, center) <= Distance(lost.doc, center)
    <3>1. lost \in ToSet(t) /\ lost \in Dated /\ lost \in Results
      <4>1. ToSet(t) = ToSet(s) \cap Originals
        BY <1>2, OnlyHas
      <4>. QED
        BY <1>2, <4>1, TwoKinds
    <3>2. lost \notin ToSet(base)
      BY <1>5, <2>1
    <3>3. r \in Results
      BY <1>5, <2>1, ItemsAre
    <3>4. CASE r \in Waves
      BY <3>4, TwoKinds
    <3>5. CASE r \notin Waves
      <4>1. r \in ToSet(base)
        BY <1>5, <2>1, <3>3, <3>5, TwoKinds
      <4>2. r \in Dated /\ Nearness(center)[r] >= Nearness(center)[lost]
        BY <1>3, <3>1, <3>2, <4>1, PackedBefore DEF base
      <4>3. ASSUME center # None PROVE Distance(r.doc, center) <= Distance(lost.doc, center)
        <5>1. Nearness(center)[r] = -Distance(r.doc, center) /\ Nearness(center)[lost] = -Distance(lost.doc, center)
          BY <3>1, <3>3, <4>3 DEF Nearness
        <5>2. Distance(r.doc, center) \in Int /\ Distance(lost.doc, center) \in Int
          BY <3>1, <3>3, ResultsAre, DistanceIs
        <5>. QED
          BY <4>2, <5>1, <5>2
      <4>. QED
        BY <4>2, <4>3
    <3>. QED
      BY <3>4, <3>5
  <2>5. /\ lines \in Seq(Results) /\ Distinct(lines) /\ Only(lines, Originals) = Assemble(o, budget, center)
        /\ Len(lines) > 1 => Tokens(lines) <= budget
        /\ \A r \in ToSet(lines) : r \in Waves => r.seed \in DocsOf(Only(lines, Originals))
    BY <1>5, <1>7, <2>1, <2>2, <2>3
  <2>. QED
    BY <2>4, <2>5
<1>. QED
  BY <1>8, <1>9

--------------------------------------------------------------------------------
(* The answer of the tool: each original with its neighbours behind it. *)

Adjacent(s) ==
  \A i \in 1 .. Len(s) : s[i] \in Waves => i > 1 /\ s[i].seed \in {s[i - 1].doc, s[i - 1].seed}

\* An original and its neighbours after what is shown.
LEMMA AdjacentMore ==
  ASSUME NEW s \in Seq(Results), NEW r \in Originals, NEW q \in Seq(Results), Adjacent(s),
         \A x \in ToSet(q) : x \in Waves /\ x.seed = r.doc
  PROVE  Adjacent(Append(s, r) \o q)
<1>. DEFINE p == Append(s, r)
            all == p \o q
            n == Len(s)
            m == Len(p)
            k == Len(q)
<1>1. r \in Results /\ r \notin Waves
  BY TwoKinds
<1>2. /\ p \in Seq(Results) /\ n \in Nat /\ m = n + 1 /\ p[n + 1] = r /\ k \in Nat
      /\ \A i \in 1 .. n : p[i] = s[i]
  BY <1>1, AppendProperties, LenProperties
<1>3. \A i \in 1 .. k : q[i] \in Waves /\ q[i].seed = r.doc
  BY ItemsAre
<1>4. Len(p) = m /\ Len(q) = k /\ Len(s) = n
  OBVIOUS
<1>. HIDE DEF p, n, m, k
<1>5. Len(all) = m + k /\ \A i \in 1 .. m + k : all[i] = IF i <= m THEN p[i] ELSE q[i - m]
  <2>1. p \in Seq(Results) /\ q \in Seq(Results)
    BY <1>2
  <2>. QED
    BY <1>4, <2>1, ConcatOver
<1>. HIDE DEF all
<1>6. (\A i \in 1 .. n : all[i] = s[i]) /\ all[n + 1] = r /\ \A i \in 1 .. k : all[n + 1 + i] = q[i]
  <2>1. \A i \in 1 .. n : i \in 1 .. m + k /\ i <= m
    BY <1>2
  <2>2. n + 1 \in 1 .. m + k /\ n + 1 <= m
    BY <1>2
  <2>3. \A i \in 1 .. k : n + 1 + i \in 1 .. m + k /\ ~(n + 1 + i <= m) /\ n + 1 + i - m = i
    BY <1>2
  <2>. QED
    BY <1>2, <1>5, <2>1, <2>2, <2>3
<1>7. ASSUME NEW i \in 1 .. Len(all), all[i] \in Waves PROVE i > 1 /\ all[i].seed \in {all[i - 1].doc, all[i - 1].seed}
  <2>1. i \in Nat /\ i >= 1 /\ i <= n + 1 + k
    BY <1>2, <1>5
  <2>2. CASE i <= n
    <3>1. i \in 1 .. n
      BY <1>2, <2>1, <2>2
    <3>2. i > 1 /\ s[i].seed \in {s[i - 1].doc, s[i - 1].seed}
      BY <1>4, <1>6, <1>7, <3>1 DEF Adjacent
    <3>3. i - 1 \in 1 .. n
      BY <1>2, <3>1, <3>2
    <3>. QED
      BY <1>6, <3>1, <3>2, <3>3
  <2>3. CASE i = n + 1
    BY <1>1, <1>6, <1>7, <2>3
  <2>4. CASE i = n + 2
    <3>1. 1 \in 1 .. k /\ n + 1 + 1 = i /\ i - 1 = n + 1
      BY <1>2, <2>1, <2>4
    <3>2. all[i] = q[1] /\ all[i - 1] = r
      BY <1>6, <3>1
    <3>. QED
      BY <1>2, <1>3, <2>4, <3>1, <3>2
  <2>5. CASE i > n + 2
    <3>. DEFINE j == i - n - 1
    <3>1. j \in 1 .. k /\ j - 1 \in 1 .. k /\ n + 1 + j = i /\ n + 1 + (j - 1) = i - 1
      BY <1>2, <2>1, <2>5
    <3>. HIDE DEF j
    <3>2. all[i] = q[j] /\ all[i - 1] = q[j - 1]
      BY <1>6, <3>1
    <3>3. q[j].seed = r.doc /\ q[j - 1].seed = r.doc
      BY <1>3, <3>1
    <3>. QED
      BY <1>2, <2>5, <3>2, <3>3
  <2>. QED
    BY <1>2, <2>1, <2>2, <2>3, <2>4, <2>5
<1>. QED
  BY <1>7 DEF Adjacent, all, p

\* What was before the last of the first wave is of the first wave.
LEMMA FirstsMore ==
  ASSUME NEW s \in Seq(Results), NEW e \in Results, Append(s, e) \in Firsts
  PROVE  s \in Firsts /\ e \in Originals /\ e.doc \notin DocsOf(s)
<1>1. ToSet(Append(s, e)) \subseteq Originals /\ Distinct(Append(s, e)) /\ ToSet(Append(s, e)) = ToSet(s) \cup {e}
  BY ItemsMore DEF Firsts
<1>2. Distinct(s) /\ e.doc \notin DocsOf(s)
  BY <1>1, DistinctMore
<1>. QED
  BY <1>1, <1>2 DEF Firsts

\* _with_seed_neighbours shows the first limit originals, each followed by its neighbours, and nothing twice.
LEMMA ListingIs ==
  ASSUME NEW o \in Firsts, NEW m \in Seq(Results), Distinct(m), Only(m, Originals) = o,
         NEW limit \in Nat, NEW top, top = Top(o, limit), NEW shown, shown = WithSeedNeighbours(m, limit)
  PROVE  /\ shown \in Seq(Results) /\ Distinct(shown) /\ Adjacent(shown)
         /\ Only(shown, Originals) = top
         /\ \A r \in ToSet(shown) : r \in Waves => r.seed \in DocsOf(top)
<1>. DEFINE Of(r) == {n \in Waves : n.seed = r.doc /\ n.doc \notin DocsOf(top)}
            step == [acc \in Seq(Results) |-> [r \in Results |-> Append(acc, r) \o Only(m, Of(r))]]
            L(s) == Fold(s, <<>>, step)
            Fine(s) == \A x \in ToSet(L(s)) :
                         x \in ToSet(s) \/ (x \in Waves /\ x \in ToSet(m) /\ x.seed \in DocsOf(s) /\ x.doc \notin DocsOf(top))
            Good(s) == L(s) \in Seq(Results) /\ Distinct(L(s)) /\ Adjacent(L(s)) /\ Only(L(s), Originals) = s /\ Fine(s)
            G == {s \in Seq(Results) : s \in Firsts /\ DocsOf(s) \subseteq DocsOf(top) => Good(s)}
<1>1. m \in Seq(Results) /\ Distinct(m) /\ Only(m, Originals) = o /\ top \in Firsts /\ top \in Seq(Results)
  <2>1. top \in Firsts
    BY FirstsTop
  <2>. QED
    BY <2>1 DEF Firsts
<1>2. shown = L(top)
  BY <1>1 DEF WithSeedNeighbours
<1>3. \A v \in Seq(Results) : \A x \in Results :
        step[v][x] \in Seq(Results) /\ step[v][x] = Append(v, x) \o Only(m, Of(x))
  <2>. TAKE v \in Seq(Results)
  <2>. TAKE x \in Results
  <2>1. Append(v, x) \in Seq(Results) /\ Only(m, Of(x)) \in Seq(Results)
    BY <1>1, AppendProperties, OnlyIsSeq
  <2>2. Append(v, x) \o Only(m, Of(x)) \in Seq(Results)
    BY <2>1, ConcatProperties
  <2>3. step[v][x] = Append(v, x) \o Only(m, Of(x))
    OBVIOUS
  <2>. HIDE DEF step
  <2>. QED
    BY <2>2, <2>3
<1>. HIDE DEF step
<1>4. L(<<>>) = <<>>
  BY FoldNone
<1>5. \A s \in Seq(Results) : \A e \in Results : L(Append(s, e)) = step[L(s)][e]
  <2>. TAKE s \in Seq(Results)
  <2>. TAKE e \in Results
  <2>. DEFINE U == Seq(Results)
              first == <<>>
  <2>1. first \in U /\ \A v \in U : \A x \in Results : step[v][x] \in U
    BY <1>3, EmptySeq
  <2>. HIDE DEF U, first
  <2>2. Fold(Append(s, e), first, step) = step[Fold(s, first, step)][e]
    BY <2>1, FoldMore
  <2>. QED
    BY <2>2 DEF first
<1>. HIDE DEF L
<1>6. <<>> \in G
  <2>1. Len(<<>>) = 0 /\ 1 .. 0 = {}
    OBVIOUS
  <2>2. Adjacent(<<>>)
    BY <2>1 DEF Adjacent
  <2>3. Good(<<>>)
    BY <1>4, <2>2, EmptySeq, ItemsNone, DistinctNone, OnlyNone
  <2>. HIDE DEF Good
  <2>. QED
    BY <2>3, EmptySeq
<1>7. ASSUME NEW s \in Seq(Results), NEW e \in Results, s \in G PROVE Append(s, e) \in G
  <2>1. Append(s, e) \in Seq(Results) /\ ToSet(Append(s, e)) = ToSet(s) \cup {e} /\ DocsOf(Append(s, e)) = DocsOf(s) \cup {e.doc}
    BY AppendProperties, ItemsMore, DocsMore
  <2>2. SUFFICES ASSUME Append(s, e) \in Firsts, DocsOf(Append(s, e)) \subseteq DocsOf(top) PROVE Good(Append(s, e))
    BY <2>1
  <2>3. s \in Firsts /\ e \in Originals /\ e.doc \notin DocsOf(s) /\ DocsOf(s) \subseteq DocsOf(top) /\ e.doc \in DocsOf(top)
    BY <2>1, <2>2, FirstsMore
  <2>. DEFINE l == L(s)
              q == Only(m, Of(e))
              p == Append(l, e)
  <2>4. l \in Seq(Results) /\ Distinct(l) /\ Adjacent(l) /\ Only(l, Originals) = s /\ Fine(s)
    BY <1>7, <2>3
  <2>5. q \in Seq(Results) /\ Distinct(q) /\ ToSet(q) = ToSet(m) \cap Of(e)
    BY <1>1, OnlyIsSeq, DistinctOnly, OnlyHas
  <2>6. L(Append(s, e)) = p \o q
    BY <1>3, <1>5, <2>4
  <2>7. \A x \in ToSet(q) : x \in Waves /\ x.seed = e.doc /\ x.doc \notin DocsOf(top) /\ x \in ToSet(m)
    BY <2>5
  <2>8. \A x \in ToSet(l) :
          x \in ToSet(s) \/ (x \in Waves /\ x \in ToSet(m) /\ x.seed \in DocsOf(s) /\ x.doc \notin DocsOf(top))
    BY <2>4
  <2>. HIDE DEF l, q
  <2>9. Adjacent(p \o q)
    BY <2>3, <2>4, <2>5, <2>7, AdjacentMore
  <2>10. p \in Seq(Results) /\ ToSet(p) = ToSet(l) \cup {e} /\ DocsOf(p) = DocsOf(l) \cup {e.doc}
    BY <2>4, AppendProperties, ItemsMore, DocsMore
  <2>11. Distinct(p)
    <3>1. ASSUME NEW x \in ToSet(l), x.doc = e.doc PROVE FALSE
      <4>1. x \in ToSet(s) => x.doc \in DocsOf(s)
        BY DEF DocsOf
      <4>. QED
        BY <2>3, <2>8, <3>1, <4>1
    <3>2. e.doc \notin DocsOf(l)
      BY <3>1 DEF DocsOf
    <3>. QED
      BY <2>4, <3>2, DistinctMore
  <2>12. DocsOf(p) \cap DocsOf(q) = {}
    <3>1. ASSUME NEW x \in ToSet(p), NEW y \in ToSet(q), x.doc = y.doc PROVE FALSE
      <4>1. x \in ToSet(s) => x.doc \in DocsOf(top)
        BY <2>3 DEF DocsOf
      <4>2. y.doc \notin DocsOf(top) /\ y \in ToSet(m) /\ y.seed = e.doc
        BY <2>7
      <4>3. x \in ToSet(m) /\ x.seed \in DocsOf(s)
        BY <2>3, <2>8, <2>10, <3>1, <4>1, <4>2
      <4>4. x = y
        BY <1>1, <3>1, <4>2, <4>3, DistinctItems
      <4>. QED
        BY <2>3, <4>2, <4>3, <4>4
    <3>. QED
      BY <3>1 DEF DocsOf
  <2>. HIDE DEF p
  <2>13. p \o q \in Seq(Results) /\ ToSet(p \o q) = ToSet(p) \cup ToSet(q) /\ Distinct(p \o q)
    <3>1. p \o q \in Seq(Results) /\ ToSet(p \o q) = ToSet(p) \cup ToSet(q)
      BY <2>5, <2>10, ConcatProperties, ItemsBoth
    <3>2. Distinct(p \o q)
      BY <2>5, <2>10, <2>11, <2>12, DistinctBoth
    <3>. QED
      BY <3>1, <3>2
  <2>14. Only(p \o q, Originals) = Append(s, e)
    <3>1. ToSet(q) \cap Originals = {}
      BY <2>7, TwoKinds
    <3>2. Only(p \o q, Originals) = Only(p, Originals) \o Only(q, Originals) /\ Only(q, Originals) = <<>>
      BY <2>5, <2>10, <3>1, OnlyBoth, OnlyNothing
    <3>3. Only(p, Originals) = Append(s, e)
      BY <2>3, <2>4, OnlyMore DEF p
    <3>. QED
      BY <2>1, <3>2, <3>3, ConcatEmptySeq
  <2>15. \A x \in ToSet(p \o q) :
           x \in ToSet(Append(s, e))
             \/ (x \in Waves /\ x \in ToSet(m) /\ x.seed \in DocsOf(Append(s, e)) /\ x.doc \notin DocsOf(top))
    BY <2>1, <2>7, <2>8, <2>10, <2>13
  <2>. QED
    BY <2>6, <2>9, <2>13, <2>14, <2>15
<1>8. \A s \in Seq(Results) : s \in G
  <2>. HIDE DEF G
  <2>. QED
    BY <1>6, <1>7, SeqInduction
<1>9. Good(top)
  BY <1>1, <1>8
<1>10. \A r \in ToSet(shown) : r \in Waves => r.seed \in DocsOf(top)
  <2>1. ToSet(top) \cap Waves = {}
    BY <1>1, TwoKinds DEF Firsts
  <2>. QED
    BY <1>2, <1>9, <2>1
<1>. QED
  BY <1>2, <1>9, <1>10

--------------------------------------------------------------------------------
(* The invariant: what is found are results; what is fused, and what is ranked,
   are originals, none twice; and what is merged is the best of the ranked and
   neighbours of theirs, of which the prompt and the answer are made. *)

GroupsOK == rstage # "asked" => groups \in [1 .. 3 -> Groups]
FusedOK ==
  rstage \notin {"asked", "found"} =>
    fused \in Firsts /\ (FoundDocs \subseteq DocsOf(fused) \/ Len(fused) = 2 * Limit)
MergedOK ==
  rstage \in {"ranked", "shown", "told"} =>
    /\ ranked \in Firsts /\ Followed(merged, Top(ranked, Limit))
    /\ FoundDocs \subseteq DocsOf(Top(ranked, Limit)) \/ Len(Top(ranked, Limit)) \in {Limit, TopK}
ShownOK ==
  /\ rstage = "shown" =>
       /\ prompt.tokens \in Nat /\ prompt.center \in Nat
       /\ prompt.lines = Assemble(merged, prompt.tokens, prompt.center)
  /\ rstage = "told" => listing.results = WithSeedNeighbours(Within(merged, listing.after, listing.before), ToolLimit)
RetrievalInv ==
  rstage \in {"asked", "found", "fused", "ranked", "shown", "told"} /\ GroupsOK /\ FusedOK /\ MergedOK /\ ShownOK

\* The invariant holds before the search, and every step keeps it.
LEMMA RetrievalBegins == RetrievalInit => RetrievalInv
BY DEF RetrievalInit, RetrievalInv, GroupsOK, FusedOK, MergedOK, ShownOK

\* What a mechanism has found is a group of results.
LEMMA GroupIs == \A label \in Labels : \A hits \in Hits : Group(label, hits) \in Groups
<1>. TAKE label \in Labels
<1>. TAKE hits \in Hits
<1>. DEFINE found == [k \in DOMAIN hits |-> Store[hits[k]]]
<1>1. hits \in Seq(Docs)
  BY RetrievalAssumption
<1>2. Len(hits) \in Nat /\ DOMAIN hits = 1 .. Len(hits) /\ \A k \in 1 .. Len(hits) : hits[k] \in Docs
  BY <1>1, SeqIsFcn, ElementOfSeq
<1>3. \A d \in Docs : Store[d] \in Results
  <2>1. \A d \in Docs : Store[d] = Result(d, 0, {}, None)
    BY DEF Store
  <2>2. {} \in (SUBSET Labels) \cup {{Wave}} /\ 0 \in Int
    OBVIOUS
  <2>. QED
    BY <2>1, <2>2, ResultsAre, Constants
<1>4. found \in [1 .. Len(hits) -> Results]
  BY <1>2, <1>3
<1>5. Group(label, hits) = [label |-> label, hits |-> found]
  BY DEF Group
<1>. HIDE DEF found
<1>6. found \in Seq(Results)
  BY <1>2, <1>4, FcnIsSeq
<1>. QED
  BY <1>5, <1>6 DEF Groups

LEMMA GatherKeeps == ASSUME RetrievalInv, Gather PROVE RetrievalInv'
<1>1. PICK dense, lexical, dated \in Hits :
        groups' = <<Group("semantic", dense), Group("bm25", lexical), Group("temporal", dated)>>
  BY DEF Gather
<1>2. rstage' = "found"
  BY DEF Gather
<1>. DEFINE a == Group("semantic", dense)
            b == Group("bm25", lexical)
            c == Group("temporal", dated)
<1>3. a \in Groups /\ b \in Groups /\ c \in Groups
  BY GroupIs DEF Labels
<1>. HIDE DEF a, b, c
<1>4. <<a, b, c>> \in [1 .. 3 -> Groups]
  BY <1>3
<1>5. groups' \in [1 .. 3 -> Groups]
  BY <1>1, <1>4 DEF a, b, c
<1>. QED
  BY <1>2, <1>5 DEF RetrievalInv, GroupsOK, FusedOK, MergedOK, ShownOK

LEMMA FuseKeeps == ASSUME RetrievalInv, Fuse PROVE RetrievalInv'
<1>1. groups \in [1 .. 3 -> Groups] /\ groups' = groups /\ rstage' = "fused"
      /\ pool' = Top(MergeResults(DropTiny(groups)), 2 * Limit) /\ fused' = EntityBoost(pool')
  BY DEF Fuse, RetrievalInv, GroupsOK
<1>2. pool' \in Firsts
  <2>1. MergeResults(DropTiny(groups)) \in Firsts
    BY <1>1, DroppedAre, MergedAre
  <2>2. 2 * Limit \in Nat
    BY Constants
  <2>. HIDE DEF Firsts
  <2>. QED
    BY <1>1, <2>1, <2>2, FirstsTop
<1>3. fused' \in Firsts
  BY <1>1, <1>2, BoostedAre
<1>4. FoundDocs' \subseteq DocsOf(fused') \/ Len(fused') = 2 * Limit
  <2>. DEFINE all == MergeResults(DropTiny(groups))
  <2>1. all \in Firsts /\ all \in Seq(Results) /\ Len(all) \in Nat /\ 2 * Limit \in Nat
    BY <1>1, DroppedAre, MergedAre, Constants, SeqIsFcn DEF Firsts
  <2>2. FoundDocs \subseteq DocsOf(all)
    <3>1. ASSUME NEW m \in 1 .. 3 PROVE DocsOf(groups[m].hits) \ Tiny \subseteq DocsOf(all)
      <4>. DEFINE S == {r \in Results : r.doc \notin Tiny}
      <4>1. groups[m].hits \in Seq(Results)
        BY <1>1 DEF Groups
      <4>2. DropTiny(groups)[m].hits = Only(groups[m].hits, S)
        BY <1>1 DEF DropTiny, Groups
      <4>3. ToSet(Only(groups[m].hits, S)) = ToSet(groups[m].hits) \cap S
        BY <4>1, OnlyHas
      <4>4. DocsOf(groups[m].hits) \ Tiny \subseteq DocsOf(Only(groups[m].hits, S))
        BY <4>1, <4>3, ItemsAre DEF DocsOf
      <4>5. DocsOf(DropTiny(groups)[m].hits) \subseteq DocsOf(all)
        BY <1>1, DroppedAre, MergedHas
      <4>. QED
        BY <4>2, <4>4, <4>5
    <3>2. ASSUME NEW d \in FoundDocs PROVE d \in DocsOf(all)
      <4>1. PICK m \in 1 .. 3 : d \in DocsOf(groups[m].hits) \ Tiny
        BY <1>1 DEF FoundDocs
      <4>. QED
        BY <3>1, <4>1
    <3>. QED
      BY <3>2
  <2>3. DocsOf(fused') = DocsOf(pool') /\ Len(fused') = Len(pool')
    BY <1>1, <1>2, <1>3, BoostedHas, SameLength
  <2>4. FoundDocs' = FoundDocs
    BY <1>1 DEF FoundDocs
  <2>5. pool' = Top(all, 2 * Limit)
    BY <1>1
  <2>. HIDE DEF all
  <2>6. (Len(all) <= 2 * Limit => pool' = all) /\ (Len(all) > 2 * Limit => Len(pool') = 2 * Limit)
    BY <2>1, <2>5, TopIs, TopFull
  <2>. QED
    BY <2>1, <2>2, <2>3, <2>4, <2>6
<1>. QED
  BY <1>1, <1>3, <1>4 DEF RetrievalInv, GroupsOK, FusedOK, MergedOK, ShownOK

\* What the cuts leave of the ranked.
LEMMA CutIsFull ==
  ASSUME NEW s \in Firsts, NEW F, F \subseteq DocsOf(s) \/ Len(s) = 2 * Limit,
         NEW t \in Firsts, t = s \/ DocsOf(t) = DocsOf(Top(s, TopK))
  PROVE  F \subseteq DocsOf(Top(t, Limit)) \/ Len(Top(t, Limit)) \in {Limit, TopK}
<1>1. s \in Seq(Results) /\ t \in Seq(Results) /\ Len(s) \in Nat /\ Len(t) \in Nat /\ Limit \in Nat /\ TopK \in Nat
  BY Constants, SeqIsFcn DEF Firsts
<1>2. (Len(t) <= Limit => Top(t, Limit) = t) /\ (Len(t) > Limit => Len(Top(t, Limit)) = Limit)
  BY <1>1, TopIs, TopFull
<1>3. CASE t = s
  BY <1>1, <1>2, <1>3
<1>4. CASE DocsOf(t) = DocsOf(Top(s, TopK))
  <2>1. Top(s, TopK) \in Firsts
    BY <1>1, FirstsTop
  <2>2. Len(t) = Len(Top(s, TopK))
    BY <1>4, <2>1, SameLength
  <2>3. (Len(s) <= TopK => Top(s, TopK) = s) /\ (Len(s) > TopK => Len(Top(s, TopK)) = TopK)
    BY <1>1, TopIs, TopFull
  <2>. QED
    BY <1>1, <1>2, <1>4, <2>2, <2>3
<1>. QED
  BY <1>3, <1>4

LEMMA RankKeeps == ASSUME RetrievalInv, Rank PROVE RetrievalInv'
<1>1. rstage' = "ranked" /\ groups' = groups /\ fused' = fused /\ fused \in Firsts /\ groups \in [1 .. 3 -> Groups]
  BY DEF Rank, RetrievalInv, FusedOK, GroupsOK
<1>2. ranked' \in Firsts /\ Followed(merged', Top(ranked', Limit))
  <2>1. CASE ranked' = fused /\ merged' = CapKeepNeighbours(fused)
    BY <1>1, <2>1, FirstsFollowed, CappedAre
  <2>2. CASE /\ \E logit \in [DocsOf(Top(fused, TopK)) -> Logits] : ranked' = Rerank(fused, logit)
             /\ \E failing \in {{}, DocsOf(Top(ranked', 1))} :
                  merged' = CapKeepNeighbours(AddNeighbours(ranked', failing))
    <3>1. PICK logit \in [DocsOf(Top(fused, TopK)) -> Logits] : ranked' = Rerank(fused, logit)
      BY <2>2
    <3>2. ranked' \in Firsts
      BY <1>1, <3>1, RerankedAre
    <3>3. PICK failing \in {{}, DocsOf(Top(ranked', 1))} : merged' = CapKeepNeighbours(AddNeighbours(ranked', failing))
      BY <2>2
    <3>4. Followed(AddNeighbours(ranked', failing), ranked')
      BY <3>2, AddedAre
    <3>. QED
      BY <3>2, <3>3, <3>4, CappedAre
  <2>. QED
    BY <2>1, <2>2 DEF Rank
<1>3. FoundDocs \subseteq DocsOf(Top(ranked', Limit)) \/ Len(Top(ranked', Limit)) \in {Limit, TopK}
  <2>1. ranked' = fused \/ DocsOf(ranked') = DocsOf(Top(fused, TopK))
    BY <1>1, RerankedHas DEF Rank
  <2>2. FoundDocs \subseteq DocsOf(fused) \/ Len(fused) = 2 * Limit
    BY DEF Rank, RetrievalInv, FusedOK
  <2>. QED
    BY <1>1, <1>2, <2>1, <2>2, CutIsFull
<1>4. FoundDocs' = FoundDocs
  BY <1>1 DEF FoundDocs
<1>5. GroupsOK' /\ ShownOK'
  BY <1>1 DEF GroupsOK, ShownOK
<1>6. FusedOK'
  BY <1>1, <1>4 DEF Rank, RetrievalInv, FusedOK
<1>7. MergedOK'
  BY <1>1, <1>2, <1>3, <1>4 DEF MergedOK
<1>. QED
  BY <1>1, <1>5, <1>6, <1>7 DEF RetrievalInv

LEMMA ShowKeeps == ASSUME RetrievalInv, Show PROVE RetrievalInv'
<1>1. rstage = "ranked" /\ rstage' = "shown" /\ groups' = groups /\ fused' = fused /\ ranked' = ranked /\ merged' = merged
  BY DEF Show
<1>2. PICK budget \in Budgets, center \in Moments :
        prompt' = [tokens |-> budget, center |-> center, lines |-> Assemble(merged, budget, center)]
  BY DEF Show
<1>3. prompt'.tokens = budget /\ prompt'.center = center /\ prompt'.lines = Assemble(merged, budget, center)
      /\ budget \in Nat /\ center \in Nat
  BY <1>2, Constants
<1>. QED
  BY <1>1, <1>3 DEF RetrievalInv, GroupsOK, FusedOK, MergedOK, ShownOK, FoundDocs

LEMMA TellKeeps == ASSUME RetrievalInv, Tell PROVE RetrievalInv'
<1>1. rstage = "ranked" /\ rstage' = "told" /\ groups' = groups /\ fused' = fused /\ ranked' = ranked /\ merged' = merged
  BY DEF Tell
<1>2. listing'.results = WithSeedNeighbours(Within(merged, listing'.after, listing'.before), ToolLimit)
  BY DEF Tell
<1>. QED
  BY <1>1, <1>2 DEF RetrievalInv, GroupsOK, FusedOK, MergedOK, ShownOK, FoundDocs

LEMMA RetrievalGoesOn == RetrievalInv /\ [RetrievalNext]_retvars => RetrievalInv'
<1>1. CASE UNCHANGED retvars
  BY <1>1 DEF retvars, RetrievalInv, GroupsOK, FusedOK, MergedOK, ShownOK, FoundDocs
<1>. QED
  BY <1>1, GatherKeeps, FuseKeeps, RankKeeps, ShowKeeps, TellKeeps DEF RetrievalNext

\* Before the packing nothing is lost to a cut with room.
LEMMA InvCutsWhenFull == RetrievalInv => CutWhenFull
<1>. SUFFICES ASSUME RetrievalInv, rstage \in {"ranked", "shown", "told"} PROVE CutWhenFull
  BY DEF RetrievalInv, CutWhenFull
<1>1. Only(merged, Originals) = Top(ranked, Limit)
  BY DEF RetrievalInv, MergedOK, Followed
<1>. QED
  BY <1>1 DEF RetrievalInv, MergedOK, CutWhenFull

\* The prompt of a turn.
LEMMA PromptsAreSound ==
  ASSUME RetrievalInv, rstage = "shown"
  PROVE  WaveTakesNothing /\ PromptIsSound
<1>. DEFINE top == Top(ranked, Limit)
            lines == prompt.lines
            budget == prompt.tokens
            center == prompt.center
<1>1. /\ ranked \in Firsts /\ Followed(merged, top)
      /\ budget \in Nat /\ center \in Nat /\ lines = Assemble(merged, budget, center)
  BY DEF RetrievalInv, MergedOK, ShownOK
<1>2. top \in Firsts /\ CapKeepNeighbours(ranked) = top
  BY <1>1, FirstsTop, Constants, CappedFirsts
<1>. HIDE DEF lines, budget, center
<1>3. /\ lines \in Seq(Results) /\ Distinct(lines)
      /\ Only(lines, Originals) = Assemble(top, budget, center)
      /\ \A r \in ToSet(lines) : r \in Waves => r.seed \in DocsOf(Only(lines, Originals))
      /\ Len(lines) > 1 => Tokens(lines) <= budget
      /\ \A lost \in (ToSet(merged) \cap Dated) \ ToSet(lines) : \A r \in ToSet(lines) :
           /\ r \in Dated \cup Waves
           /\ center # None /\ r \in Dated => Distance(r.doc, center) <= Distance(lost.doc, center)
  <2>. HIDE DEF top
  <2>. QED
    BY <1>1, <1>2, AssembleIs
<1>4. WaveTakesNothing
  BY <1>2, <1>3 DEF WaveTakesNothing, lines, budget, center
<1>5. Cardinality(DocsOf(lines)) = Len(lines)
  BY <1>3, DocsCounted
<1>6. SeedsAndOnce(lines)
  BY <1>3, <1>5 DEF SeedsAndOnce
<1>7. PromptIsSound
  BY <1>3, <1>6 DEF PromptIsSound, lines, budget, center
<1>. QED
  BY <1>4, <1>7

\* What is within a range of time of the merged.
LEMMA WithinIs ==
  ASSUME NEW o \in Firsts, NEW m, Followed(m, o), NEW after, NEW before
  PROVE  /\ Within(o, after, before) \in Firsts
         /\ Within(m, after, before) \in Seq(Results) /\ Distinct(Within(m, after, before))
         /\ Only(Within(m, after, before), Originals) = Within(o, after, before)
<1>. DEFINE S == {r \in Results : (after = None \/ r.doc >= after) /\ (before = None \/ r.doc <= before)}
<1>1. \A s : Within(s, after, before) = Only(s, S)
  BY DEF Within
<1>. HIDE DEF S
<1>2. m \in Seq(Results) /\ Distinct(m) /\ Only(m, Originals) = o
  BY DEF Followed
<1>3. o \in Seq(Results) /\ Distinct(o) /\ ToSet(o) \subseteq Originals
  BY DEF Firsts
<1>4. Only(o, S) \in Firsts
  <2>1. Only(o, S) \in Seq(Results) /\ Distinct(Only(o, S)) /\ ToSet(Only(o, S)) = ToSet(o) \cap S
    BY <1>3, OnlyIsSeq, DistinctOnly, OnlyHas
  <2>. QED
    BY <1>3, <2>1 DEF Firsts
<1>5. Only(m, S) \in Seq(Results) /\ Distinct(Only(m, S))
  BY <1>2, OnlyIsSeq, DistinctOnly
<1>6. Only(Only(m, S), Originals) = Only(Only(m, Originals), S)
  <2>1. Only(Only(m, S), Originals) = Only(m, S \cap Originals) /\ Only(Only(m, Originals), S) = Only(m, Originals \cap S)
    BY <1>2, OnlyTwice
  <2>2. S \cap Originals = Originals \cap S
    OBVIOUS
  <2>. QED
    BY <2>1, <2>2
<1>. QED
  BY <1>1, <1>2, <1>4, <1>5, <1>6

\* The answer of the tool.
LEMMA AnswersAreSound ==
  ASSUME RetrievalInv, rstage = "told"
  PROVE  WaveTakesNothing /\ PromptIsSound
<1>. DEFINE top == Top(ranked, Limit)
            m == Within(merged, listing.after, listing.before)
            o == Within(top, listing.after, listing.before)
            answers == listing.results
            shorter == Top(o, ToolLimit)
<1>1. ranked \in Firsts /\ Followed(merged, top) /\ answers = WithSeedNeighbours(m, ToolLimit)
  BY DEF RetrievalInv, MergedOK, ShownOK
<1>2. top \in Firsts /\ CapKeepNeighbours(ranked) = top
  BY <1>1, FirstsTop, Constants, CappedFirsts
<1>3. o \in Firsts /\ m \in Seq(Results) /\ Distinct(m) /\ Only(m, Originals) = o
  <2>. HIDE DEF top
  <2>. QED
    BY <1>1, <1>2, WithinIs
<1>4. /\ answers \in Seq(Results) /\ Distinct(answers) /\ Adjacent(answers)
      /\ Only(answers, Originals) = shorter
      /\ \A r \in ToSet(answers) : r \in Waves => r.seed \in DocsOf(shorter)
  <2>1. ToolLimit \in Nat
    BY Constants
  <2>. HIDE DEF o, m, answers
  <2>. QED
    BY <1>1, <1>3, <2>1, ListingIs
<1>5. WaveTakesNothing
  BY <1>2, <1>4 DEF WaveTakesNothing
<1>6. Cardinality(DocsOf(answers)) = Len(answers)
  BY <1>4, DocsCounted
<1>7. SeedsAndOnce(answers)
  <2>. HIDE DEF answers, shorter
  <2>. QED
    BY <1>4, <1>6 DEF SeedsAndOnce
<1>8. \A i \in DOMAIN answers : answers[i] \in Waves => answers[i].seed \in {answers[i - 1].doc, answers[i - 1].seed}
  <2>1. DOMAIN answers = 1 .. Len(answers)
    BY <1>4, SeqIsFcn
  <2>. QED
    BY <1>4, <2>1 DEF Adjacent
<1>9. PromptIsSound
  BY <1>7, <1>8 DEF PromptIsSound
<1>. QED
  BY <1>5, <1>9

\* The invariant gives the parts of the property.
LEMMA RetrievalInvIsSound == RetrievalInv => RetrievalSound
<1>1. RetrievalInv /\ rstage \notin {"shown", "told"} => WaveTakesNothing /\ PromptIsSound
  BY DEF WaveTakesNothing, PromptIsSound
<1>. QED
  BY <1>1, InvCutsWhenFull, PromptsAreSound, AnswersAreSound DEF RetrievalSound

(* memory/l3_pack.py, memory/wave2.py, tools/memory_tools.py: whatever is found
   and however it is ranked, the second wave takes no place, no token and no
   rank from the first; no neighbour is shown without its seed, and none away
   from it; nothing is shown twice; more than one line keeps to the budget; what
   was found is lost before the packing only to a cut that is full, and what the
   date of the query found and the cuts left, in the packing only to what is
   nearer. *)
THEOREM RetrievalIsSound == RetrievalSpec => []RetrievalSound
<1>1. RetrievalInv /\ UNCHANGED retvars => RetrievalInv'
  BY RetrievalGoesOn
<1>. QED
  BY RetrievalBegins, RetrievalGoesOn, RetrievalInvIsSound, PTL DEF RetrievalSpec

================================================================================
