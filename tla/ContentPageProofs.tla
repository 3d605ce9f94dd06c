--------------------------- MODULE ContentPageProofs ---------------------------
(***************************************************************************)
(* Pages and their stored rows, for any number of sections, blocks,        *)
(* locales, columns and spellings of ids: the types of what a page is      *)
(* flattened to and of what is rebuilt, that both runtimes rebuild the same *)
(* page, that rows that are checked one by one come back as the same rows, *)
(* and that the TypeScript runtime opens the rows of a page it accepts.    *)
(*                                                                         *)
(* The last three rest on the shape of a page (PageShaped): rows that the  *)
(* TypeScript runtime accepts have it (TsShaped), rows that are checked    *)
(* one by one (CheckedShaped), and the rows of a page (SavedShaped).       *)
(*                                                                         *)
(* Before that, what the operators give for rows of any number: helpers on *)
(* sequences, distinct ids, the placement order, lineages.  Induction is   *)
(* over a set of natural numbers: a set that holds 0 and with each number  *)
(* the next holds all (SetInduction).                                      *)
(***************************************************************************)
EXTENDS ContentUniverse, WellFoundedInduction, FiniteSetTheorems, SequenceTheorems, TLAPS

-------------------------------------------------------------------------------
(***************************************************************************)
(* Sequences.                                                              *)
(***************************************************************************)

\* A sequence has one length.
LEMMA SameLength ==
    ASSUME NEW n \in Nat, NEW m \in Nat, 1..n = 1..m
    PROVE  n = m
<1>1. \A k \in Int : k \in 1..n <=> k \in 1..m
  OBVIOUS
<1>2. \A k \in Int : (1 <= k /\ k <= n) <=> (1 <= k /\ k <= m)
  BY <1>1
<1>3. n <= m
  BY <1>2
<1>4. m <= n
  BY <1>2
<1> QED BY <1>3, <1>4

\* A set of natural numbers that is not empty has a least element.
LEMMA LeastElement ==
    ASSUME NEW T \in SUBSET Nat, T # {}
    PROVE  \E x \in T : \A y \in T : x <= y
<1> DEFINE Less == {pair \in Nat \X Nat : pair[1] < pair[2]}
<1>1. IsWellFoundedOn(Less, Nat)
  BY NatLessThanWellFounded DEF OpToRel
<1>2. \E x \in T : \A y \in T : ~(<<y, x>> \in Less)
  <2> HIDE DEF Less
  <2> QED BY <1>1, WFMin
<1>3. \A x, y \in Nat : x < y => <<x, y>> \in Less
  OBVIOUS
<1>4. PICK x \in T : \A y \in T : ~(<<y, x>> \in Less)
  BY <1>2
<1> HIDE DEF Less
<1>5. \A y \in T : y \in Nat /\ x \in Nat /\ ~(y < x)
  BY <1>3, <1>4
<1>6. \A y \in T : x <= y
  BY <1>5
<1> QED BY <1>6

\* A set that holds 0 and with each natural number the next one holds all of them.
LEMMA SetInduction ==
    ASSUME NEW S, 0 \in S, \A n \in Nat : n \in S => n + 1 \in S
    PROVE  Nat \subseteq S
<1> SUFFICES ASSUME Nat \ S # {} PROVE FALSE
  OBVIOUS
<1>1. PICK x \in Nat \ S : \A y \in Nat \ S : x <= y
  BY LeastElement
<1>2. x # 0 /\ x - 1 \in Nat /\ x - 1 \in S
  BY <1>1
<1> QED BY <1>1, <1>2

\* A set that holds the empty sequence and is kept by appending holds all sequences.
LEMMA SequenceInduction ==
    ASSUME NEW S, NEW P, <<>> \in P,
           \A s \in Seq(S), x \in S : s \in P => Append(s, x) \in P
    PROVE  Seq(S) \subseteq P
<1> DEFINE T == {n \in Nat : \A s \in Seq(S) : Len(s) = n => s \in P}
<1>1. 0 \in T
  BY EmptySeq
<1>2. ASSUME NEW n \in Nat, n \in T PROVE n + 1 \in T
  <2> SUFFICES ASSUME NEW s \in Seq(S), Len(s) = n + 1 PROVE s \in P
    OBVIOUS
  <2>1. s # <<>>
    BY EmptySeq
  <2>2. PICK t \in Seq(S), x \in S : s = Append(t, x)
    BY <2>1, SequenceEmptyOrAppend
  <2>3. Len(t) = n
    BY <2>2, AppendProperties, LenProperties
  <2> QED BY <1>2, <2>2, <2>3
<1>3. Nat \subseteq T
  <2> HIDE DEF T
  <2> QED BY <1>1, <1>2, SetInduction
<1> QED BY <1>3, LenProperties

-------------------------------------------------------------------------------
(***************************************************************************)
(* FlattenSeq.                                                             *)
(***************************************************************************)
\* The sequences joined from the first on.
IsFlattening(f, seqs, n) ==
    f = [i \in 1..n |-> IF i = 1 THEN seqs[i] ELSE f[i - 1] \o seqs[i]]

\* The partial flattenings of a sequence of sequences exist as one function.
LEMMA FlatteningExists ==
    ASSUME NEW seqs, NEW n \in Nat
    PROVE  \E f : IsFlattening(f, seqs, n)
<1> DEFINE S == {k \in Nat : \E f : IsFlattening(f, seqs, k)}
<1>1. 0 \in S
  <2> DEFINE f == [i \in 1..0 |-> <<>>]
  <2>1. IsFlattening(f, seqs, 0)
    BY DEF IsFlattening
  <2> QED BY <2>1
<1>2. ASSUME NEW k \in Nat, k \in S PROVE k + 1 \in S
  <2>1. PICK f : IsFlattening(f, seqs, k)
    BY <1>2
  <2> DEFINE g == [i \in 1..(k + 1) |->
                    IF i <= k THEN f[i] ELSE IF i = 1 THEN seqs[i] ELSE f[k] \o seqs[i]]
  <2>2. \A i \in 1..k : f[i] = IF i = 1 THEN seqs[i] ELSE f[i - 1] \o seqs[i]
    BY <2>1 DEF IsFlattening
  <2>3. \A i \in 1..(k + 1) : g[i] = IF i = 1 THEN seqs[i] ELSE g[i - 1] \o seqs[i]
    BY <2>2
  <2>4. IsFlattening(g, seqs, k + 1)
    BY <2>3 DEF IsFlattening
  <2> QED BY <2>4
<1> HIDE DEF S
<1>3. n \in S
  BY <1>1, <1>2, SetInduction
<1> QED BY <1>3 DEF S

\* FlattenSeq is the last of its partial flattenings.
LEMMA FlatteningOf ==
    ASSUME NEW seqs, Len(seqs) \in Nat \ {0}
    PROVE  \E f : IsFlattening(f, seqs, Len(seqs)) /\ FlattenSeq(seqs) = f[Len(seqs)]
<1> DEFINE flatten == CHOOSE f : IsFlattening(f, seqs, Len(seqs))
<1>1. IsFlattening(flatten, seqs, Len(seqs))
  BY FlatteningExists
<1>2. FlattenSeq(seqs) = flatten[Len(seqs)]
  BY DEF FlattenSeq, IsFlattening
<1> QED BY <1>1, <1>2

\* The elements of two sequences put one after the other.
LEMMA ConcatElements ==
    ASSUME NEW S, NEW s \in Seq(S), NEW t \in Seq(S)
    PROVE  /\ s \o t \in Seq(S)
           /\ ToSet(s \o t) = ToSet(s) \cup ToSet(t)
<1>1. s \o t \in Seq(S) /\ Range(s \o t) = Range(s) \cup Range(t)
  BY RangeConcatenation, ConcatProperties
<1> QED BY <1>1 DEF ToSet, Range

\* A flattened sequence has the elements of the sequences it is made from.
LEMMA FlattenElements ==
    ASSUME NEW S, NEW seqs \in Seq(Seq(S))
    PROVE  /\ FlattenSeq(seqs) \in Seq(S)
           /\ \A x : x \in ToSet(FlattenSeq(seqs)) <=> \E i \in DOMAIN seqs : x \in ToSet(seqs[i])
<1> DEFINE n == Len(seqs)
<1>0. n \in Nat /\ DOMAIN seqs = 1..n /\ \A i \in 1..n : seqs[i] \in Seq(S)
  BY LenProperties, ElementOfSeq
<1>1. CASE n = 0
  <2>1. seqs = <<>> /\ FlattenSeq(seqs) = <<>>
    BY <1>0, <1>1 DEF FlattenSeq
  <2>2. FlattenSeq(seqs) \in Seq(S)
    BY <2>1, EmptySeq
  <2>3. ToSet(FlattenSeq(seqs)) = {}
    BY <2>1 DEF ToSet
  <2>4. DOMAIN seqs = {}
    BY <1>0, <1>1
  <2> QED BY <2>2, <2>3, <2>4
<1>2. CASE n # 0
  <2>1. PICK f : IsFlattening(f, seqs, n) /\ FlattenSeq(seqs) = f[n]
    BY <1>0, <1>2, FlatteningOf
  <2>2. \A i \in 1..n : f[i] = IF i = 1 THEN seqs[i] ELSE f[i - 1] \o seqs[i]
    BY <2>1 DEF IsFlattening
  <2> DEFINE Good(i) == f[i] \in Seq(S) /\ \A x : x \in ToSet(f[i]) <=> \E j \in 1..i : x \in ToSet(seqs[j])
             T == {k \in Nat : k + 1 \in 1..n => Good(k + 1)}
  <2>3. 0 \in T
    <3>1. 1 \in 1..n /\ f[1] = seqs[1]
      BY <1>0, <1>2, <2>2
    <3>3. Good(1)
      BY <3>1, <1>0
    <3> QED BY <3>3
  <2>4. ASSUME NEW k \in Nat, k \in T PROVE k + 1 \in T
    <3>0. SUFFICES ASSUME k + 2 \in 1..n PROVE Good(k + 2)
      <4>1. (k + 1) + 1 = k + 2 /\ k + 1 \in Nat
        OBVIOUS
      <4> HIDE DEF Good, n
      <4> QED BY <4>1
    <3>1. Good(k + 1)
      BY <2>4, <3>0, <1>0
    <3>2. f[k + 2] = f[k + 1] \o seqs[k + 2]
      <4>1. (k + 2) - 1 = k + 1 /\ k + 2 # 1
        OBVIOUS
      <4> QED BY <2>2, <3>0, <4>1
    <3>3. f[k + 1] \in Seq(S) /\ seqs[k + 2] \in Seq(S)
      BY <3>0, <3>1, <1>0
    <3>4. f[k + 2] \in Seq(S) /\ ToSet(f[k + 2]) = ToSet(f[k + 1]) \cup ToSet(seqs[k + 2])
      BY <3>2, <3>3, ConcatElements
    <3>5. 1..(k + 2) = 1..(k + 1) \cup {k + 2}
      OBVIOUS
    <3> HIDE DEF n
    <3> QED BY <3>1, <3>4, <3>5
  <2>5. n - 1 \in T
    <3> HIDE DEF T
    <3>1. Nat \subseteq T
      BY <2>3, <2>4, SetInduction
    <3>2. n - 1 \in Nat
      BY <1>0, <1>2
    <3> QED BY <3>1, <3>2
  <2>6. Good(n)
    BY <2>5, <1>0, <1>2
  <2> HIDE DEF n
  <2> QED BY <2>1, <2>6, <1>0
<1> QED BY <1>1, <1>2

\* One sequence more adds its elements at the end.
LEMMA FlattenAppend ==
    ASSUME NEW S, NEW seqs \in Seq(Seq(S)), NEW s \in Seq(S)
    PROVE  FlattenSeq(Append(seqs, s)) = FlattenSeq(seqs) \o s
<1> DEFINE n == Len(seqs)
           more == Append(seqs, s)
<1>0. /\ n \in Nat /\ more \in Seq(Seq(S)) /\ Len(more) = n + 1 /\ more[n + 1] = s
      /\ \A i \in 1..n : more[i] = seqs[i]
  BY AppendProperties, LenProperties
<1>1. PICK g : IsFlattening(g, more, n + 1) /\ FlattenSeq(more) = g[n + 1]
  <2> HIDE DEF more
  <2>1. Len(more) \in Nat \ {0}
    BY <1>0
  <2>2. \E f : IsFlattening(f, more, Len(more)) /\ FlattenSeq(more) = f[Len(more)]
    BY <2>1, FlatteningOf
  <2> QED BY <1>0, <2>2
<1>2. \A i \in 1..(n + 1) : g[i] = IF i = 1 THEN more[i] ELSE g[i - 1] \o more[i]
  BY <1>1 DEF IsFlattening
<1>3. CASE n = 0
  <2>1. seqs = <<>> /\ FlattenSeq(seqs) = <<>>
    BY <1>0, <1>3 DEF FlattenSeq
  <2>2. FlattenSeq(more) = s
    BY <1>0, <1>1, <1>2, <1>3
  <2> QED BY <2>1, <2>2, ConcatEmptySeq
<1>4. CASE n # 0
  <2>1. PICK f : IsFlattening(f, seqs, n) /\ FlattenSeq(seqs) = f[n]
    BY <1>0, <1>4, FlatteningOf
  <2>2. \A i \in 1..n : f[i] = IF i = 1 THEN seqs[i] ELSE f[i - 1] \o seqs[i]
    BY <2>1 DEF IsFlattening
  <2> DEFINE T == {k \in Nat : k + 1 \in 1..n => f[k + 1] = g[k + 1]}
  <2>3. 0 \in T
    BY <1>0, <1>2, <2>2
  <2>4. ASSUME NEW k \in Nat, k \in T PROVE k + 1 \in T
    <3> SUFFICES ASSUME k + 2 \in 1..n PROVE f[k + 2] = g[k + 2]
      OBVIOUS
    <3>1. f[k + 1] = g[k + 1] /\ k + 2 # 1 /\ (k + 2) - 1 = k + 1 /\ k + 2 \in 1..(n + 1)
      BY <2>4, <1>0
    <3> QED BY <3>1, <1>0, <1>2, <2>2
  <2>5. n - 1 \in T
    <3> HIDE DEF T
    <3>1. Nat \subseteq T
      BY <2>3, <2>4, SetInduction
    <3>2. n - 1 \in Nat
      BY <1>0, <1>4
    <3> QED BY <3>1, <3>2
  <2>6. f[n] = g[n]
    BY <2>5, <1>0, <1>4
  <2>7. n + 1 # 1 /\ (n + 1) - 1 = n /\ n + 1 \in 1..(n + 1)
    BY <1>0, <1>4
  <2>8. g[n + 1] = g[n] \o s
    BY <1>0, <1>2, <2>7
  <2> QED BY <1>1, <2>1, <2>6, <2>8
<1> QED BY <1>3, <1>4

-------------------------------------------------------------------------------
(***************************************************************************)
(* The elements of a sequence.                                             *)
(***************************************************************************)
LEMMA SequenceElements ==
    ASSUME NEW S, NEW s \in Seq(S)
    PROVE  /\ Len(s) \in Nat
           /\ DOMAIN s = 1..Len(s)
           /\ s \in [1..Len(s) -> S]
           /\ ToSet(s) \subseteq S
           /\ s = <<>> <=> ToSet(s) = {}
<1>1. Len(s) \in Nat /\ DOMAIN s = 1..Len(s) /\ s \in [1..Len(s) -> S]
  BY LenProperties
<1>2. ToSet(s) \subseteq S
  BY <1>1 DEF ToSet
<1>3. s = <<>> <=> ToSet(s) = {}
  <2>1. s = <<>> <=> Len(s) = 0
    BY EmptySeq
  <2>2. Len(s) # 0 => 1 \in DOMAIN s
    BY <1>1
  <2>3. Len(s) = 0 => DOMAIN s = {}
    BY <1>1
  <2> QED BY <2>1, <2>2, <2>3 DEF ToSet
<1> QED BY <1>1, <1>2, <1>3

\* A sequence has as many elements as its length exactly when none repeats.
LEMMA InjectiveLength ==
    ASSUME NEW S, NEW s \in Seq(S)
    PROVE  /\ IsFiniteSet(ToSet(s))
           /\ Cardinality(ToSet(s)) \in Nat
           /\ Cardinality(ToSet(s)) <= Len(s)
           /\ IsInjective(s) <=> Cardinality(ToSet(s)) = Len(s)
<1>1. Len(s) \in Nat /\ DOMAIN s = 1..Len(s) /\ s \in [1..Len(s) -> S]
  BY SequenceElements
<1>2. s \in Surjection(1..Len(s), ToSet(s))
  BY <1>1 DEF Surjection, ToSet
<1>3. IsFiniteSet(1..Len(s)) /\ Cardinality(1..Len(s)) = Len(s)
  BY <1>1, FS_Interval
<1>4. /\ IsFiniteSet(ToSet(s))
      /\ Cardinality(ToSet(s)) <= Len(s)
      /\ Cardinality(ToSet(s)) = Len(s) <=> s \in Injection(1..Len(s), ToSet(s))
  BY <1>2, <1>3, FS_Surjection
<1>5. s \in Injection(1..Len(s), ToSet(s)) <=> IsInjective(s)
  BY <1>1, <1>2 DEF Injection, Surjection, IsInjective
<1> QED BY <1>4, <1>5, FS_CardinalityType

\* Reversing keeps the length and the elements.
LEMMA ReverseProperties ==
    ASSUME NEW S, NEW s \in Seq(S)
    PROVE  /\ Reverse(s) \in Seq(S)
           /\ Len(Reverse(s)) = Len(s)
           /\ ToSet(Reverse(s)) = ToSet(s)
<1>1. Len(s) \in Nat /\ DOMAIN s = 1..Len(s) /\ s \in [1..Len(s) -> S]
  BY SequenceElements
<1>2. \A i \in 1..Len(s) : (Len(s) - i) + 1 \in 1..Len(s)
  BY <1>1
<1>3. Reverse(s) \in [1..Len(s) -> S] /\ DOMAIN Reverse(s) = 1..Len(s)
  BY <1>1, <1>2 DEF Reverse
<1>4. Reverse(s) \in Seq(S)
  BY <1>1, <1>3, SeqDef
<1>5. Len(Reverse(s)) = Len(s)
  BY <1>1, <1>3, <1>4, LenProperties
<1>6. \A i \in 1..Len(s) : Reverse(s)[i] = s[(Len(s) - i) + 1]
  BY DEF Reverse
<1>7. \A i \in 1..Len(s) : s[i] = Reverse(s)[(Len(s) - i) + 1]
  <2> TAKE i \in 1..Len(s)
  <2>1. (Len(s) - i) + 1 \in 1..Len(s) /\ (Len(s) - ((Len(s) - i) + 1)) + 1 = i
    BY <1>1
  <2> QED BY <2>1, <1>6
<1>8. ToSet(Reverse(s)) = ToSet(s)
  BY <1>1, <1>2, <1>3, <1>6, <1>7 DEF ToSet
<1> QED BY <1>4, <1>5, <1>8

(***************************************************************************)
(* Positions in a strict total order: one more than the number of smaller  *)
(* elements, each position taken by one element.                           *)
(***************************************************************************)
Position(n, LT, i) == 1 + Cardinality({j \in 1..n : <<j, i>> \in LT})

\* In a strict total order of 1..n the positions are a permutation of 1..n.
LEMMA Positioned ==
    ASSUME NEW n \in Nat, NEW LT,
           \A i \in 1..n : <<i, i>> \notin LT,
           \A i, j, k \in 1..n : <<i, j>> \in LT /\ <<j, k>> \in LT => <<i, k>> \in LT,
           \A i, j \in 1..n : i # j => <<i, j>> \in LT \/ <<j, i>> \in LT
    PROVE  /\ \A i \in 1..n : Position(n, LT, i) \in 1..n
           /\ \A k \in 1..n : \E i \in 1..n : Position(n, LT, i) = k
           /\ \A i, j \in 1..n : Position(n, LT, i) = Position(n, LT, j) => i = j
<1> DEFINE Less(i) == {j \in 1..n : <<j, i>> \in LT}
           place == [i \in 1..n |-> Position(n, LT, i)]
<1>1. IsFiniteSet(1..n) /\ Cardinality(1..n) = n
  BY FS_Interval
<1>2. \A i \in 1..n : Less(i) \in SUBSET (1..n) /\ i \notin Less(i)
  OBVIOUS
<1>3. \A i, j \in 1..n : <<i, j>> \in LT => Less(i) \in SUBSET Less(j) /\ i \in Less(j)
  OBVIOUS
<1>4. \A i \in 1..n : place[i] = 1 + Cardinality(Less(i)) /\ place[i] = Position(n, LT, i)
  BY DEF Position
<1>0. place = [i \in 1..n |-> place[i]]
  OBVIOUS
<1> HIDE DEF Less, place
<1>5. \A i \in 1..n : IsFiniteSet(Less(i)) /\ Cardinality(Less(i)) \in Nat /\ Cardinality(Less(i)) < n
  <2> TAKE i \in 1..n
  <2>1. IsFiniteSet(Less(i)) /\ Cardinality(Less(i)) <= n /\ Cardinality(Less(i)) # n
    BY <1>1, <1>2, FS_Subset
  <2>2. Cardinality(Less(i)) \in Nat
    BY <2>1, FS_CardinalityType
  <2> QED BY <2>1, <2>2
<1>6. \A i, j \in 1..n : <<i, j>> \in LT => Cardinality(Less(i)) < Cardinality(Less(j))
  <2> SUFFICES ASSUME NEW i \in 1..n, NEW j \in 1..n, <<i, j>> \in LT
               PROVE  Cardinality(Less(i)) < Cardinality(Less(j))
    OBVIOUS
  <2>1. Cardinality(Less(i)) <= Cardinality(Less(j)) /\ Cardinality(Less(i)) # Cardinality(Less(j))
    BY <1>2, <1>3, <1>5, FS_Subset
  <2>2. Cardinality(Less(i)) \in Nat /\ Cardinality(Less(j)) \in Nat
    BY <1>5
  <2> QED BY <2>1, <2>2
<1>7. place \in [1..n -> 1..n]
  <2>1. \A i \in 1..n : 1 + Cardinality(Less(i)) \in 1..n
    BY <1>5
  <2> QED BY <2>1, <1>0, <1>4
<1>8. \A i, j \in 1..n : place[i] = place[j] => i = j
  <2> SUFFICES ASSUME NEW i \in 1..n, NEW j \in 1..n, place[i] = place[j], i # j PROVE FALSE
    OBVIOUS
  <2>1. 1 + Cardinality(Less(i)) = 1 + Cardinality(Less(j))
    BY <1>4
  <2>2. Cardinality(Less(i)) < Cardinality(Less(j)) \/ Cardinality(Less(j)) < Cardinality(Less(i))
    BY <1>6
  <2>3. Cardinality(Less(i)) \in Nat /\ Cardinality(Less(j)) \in Nat
    BY <1>5
  <2> QED BY <2>1, <2>2, <2>3
<1>9. place \in Injection(1..n, 1..n)
  BY <1>7, <1>8 DEF Injection, IsInjective
<1>10. place \in Surjection(1..n, 1..n)
  BY <1>1, <1>9, FS_Injection
<1>11. \A k \in 1..n : \E i \in 1..n : place[i] = k
  BY <1>10 DEF Surjection
<1>12. \A i \in 1..n : place[i] \in 1..n
  BY <1>7
<1>13. \A i \in 1..n : place[i] = Position(n, LT, i)
  BY <1>4
<1> QED BY <1>8, <1>11, <1>12, <1>13

\* In a sequence without repetitions the positions of some elements are as many as these elements.
LEMMA CountElements ==
    ASSUME NEW S, NEW s \in Seq(S), IsInjective(s), NEW T
    PROVE  Cardinality({i \in DOMAIN s : s[i] \in T}) = Cardinality({x \in ToSet(s) : x \in T})
<1> DEFINE I == {i \in DOMAIN s : s[i] \in T}
           X == {x \in ToSet(s) : x \in T}
           f == [i \in I |-> s[i]]
<1>1. Len(s) \in Nat /\ DOMAIN s = 1..Len(s)
  BY SequenceElements
<1>2. f \in [I -> X] /\ (\A i, j \in I : f[i] = f[j] => i = j) /\ (\A x \in X : \E i \in I : f[i] = x)
  BY DEF IsInjective, ToSet
<1>3. I \in SUBSET (1..Len(s))
  BY <1>1
<1> HIDE DEF I, X, f
<1>4. f \in Bijection(I, X)
  BY <1>2 DEF Bijection, Injection, Surjection, IsInjective
<1>5. IsFiniteSet(I)
  <2>1. IsFiniteSet(1..Len(s))
    BY <1>1, FS_Interval
  <2> QED BY <1>3, <2>1, FS_Subset
<1>6. Cardinality(I) = Cardinality(X)
  BY <1>4, <1>5, FS_Bijection DEF ExistsBijection
<1> QED BY <1>6 DEF I, X

-------------------------------------------------------------------------------
(***************************************************************************)
(* Distinct ids.                                                           *)
(***************************************************************************)
DistinctIds(s) == \A i, j \in DOMAIN s : s[i].id = s[j].id => i = j

\* UniqueIds counts ids; it says that no two rows share one.
LEMMA UniqueIdsDistinct ==
    ASSUME NEW S, NEW s \in Seq(S)
    PROVE  UniqueIds(s) <=> DistinctIds(s)
<1> DEFINE T == {x.id : x \in S}
           ids == [i \in DOMAIN s |-> s[i].id]
<1>1. Len(s) \in Nat /\ DOMAIN s = 1..Len(s) /\ s \in [1..Len(s) -> S]
  BY SequenceElements
<1>2. ids \in [1..Len(s) -> T]
  BY <1>1
<1>3. ids \in Seq(T) /\ Len(ids) = Len(s)
  <2>1. ids \in Seq(T)
    BY <1>1, <1>2, SeqDef
  <2>2. DOMAIN ids = 1..Len(s)
    BY <1>1
  <2> HIDE DEF ids
  <2> QED BY <1>1, <2>1, <2>2, LenProperties
<1>4. ToSet(ids) = Ids(s)
  BY DEF ToSet, Ids
<1>5. IsInjective(ids) <=> DistinctIds(s)
  BY DEF IsInjective, DistinctIds
<1> HIDE DEF ids, T
<1>6. IsInjective(ids) <=> Cardinality(ToSet(ids)) = Len(ids)
  BY <1>3, InjectiveLength
<1> QED BY <1>3, <1>4, <1>5, <1>6 DEF UniqueIds

\* Rows with distinct ids do not repeat and are told apart by their ids.
LEMMA DistinctIdsInjective ==
    ASSUME NEW S, NEW s \in Seq(S), DistinctIds(s)
    PROVE  /\ IsInjective(s)
           /\ Len(s) = Cardinality(ToSet(s))
           /\ \A x, y \in ToSet(s) : x.id = y.id => x = y
<1>1. IsInjective(s)
  BY DEF IsInjective, DistinctIds
<1>2. \A x, y \in ToSet(s) : x.id = y.id => x = y
  BY DEF ToSet, DistinctIds
<1> QED BY <1>1, <1>2, InjectiveLength

\* When rows that are put after others have distinct ids.
LEMMA DistinctConcat ==
    ASSUME NEW S, NEW s \in Seq(S), NEW t \in Seq(S)
    PROVE  DistinctIds(s \o t) <=>
             /\ DistinctIds(s) /\ DistinctIds(t)
             /\ \A x \in ToSet(s), y \in ToSet(t) : x.id # y.id
<1>1. /\ Len(s) \in Nat /\ DOMAIN s = 1..Len(s) /\ Len(t) \in Nat /\ DOMAIN t = 1..Len(t)
      /\ s \o t \in Seq(S) /\ DOMAIN (s \o t) = 1..(Len(s) + Len(t))
      /\ \A i \in 1..(Len(s) + Len(t)) : (s \o t)[i] = IF i <= Len(s) THEN s[i] ELSE t[i - Len(s)]
  BY LenProperties, ConcatProperties
<1> DEFINE st == s \o t
<1>2. \A i \in DOMAIN s : i \in DOMAIN st /\ st[i] = s[i]
  BY <1>1
<1>3. \A j \in DOMAIN t : j + Len(s) \in DOMAIN st /\ st[j + Len(s)] = t[j]
  <2> TAKE j \in DOMAIN t
  <2>1. j + Len(s) \in 1..(Len(s) + Len(t)) /\ ~(j + Len(s) <= Len(s)) /\ (j + Len(s)) - Len(s) = j
    BY <1>1
  <2> QED BY <1>1, <2>1
<1>4. \A k \in DOMAIN st : k \in DOMAIN s \/ \E j \in DOMAIN t : k = j + Len(s)
  <2> SUFFICES ASSUME NEW k \in DOMAIN st, k \notin DOMAIN s PROVE \E j \in DOMAIN t : k = j + Len(s)
    OBVIOUS
  <2>1. k - Len(s) \in DOMAIN t /\ k = (k - Len(s)) + Len(s)
    BY <1>1
  <2> QED BY <2>1
<1> HIDE DEF st
<1>5. ASSUME DistinctIds(st)
      PROVE  DistinctIds(s) /\ DistinctIds(t) /\ \A x \in ToSet(s), y \in ToSet(t) : x.id # y.id
  <2>1. DistinctIds(s)
    BY <1>2, <1>5 DEF DistinctIds
  <2>2. DistinctIds(t)
    <3> SUFFICES ASSUME NEW i \in DOMAIN t, NEW j \in DOMAIN t, t[i].id = t[j].id PROVE i = j
      BY DEF DistinctIds
    <3>1. i + Len(s) = j + Len(s)
      BY <1>3, <1>5 DEF DistinctIds
    <3> QED BY <1>1, <3>1
  <2>3. \A x \in ToSet(s), y \in ToSet(t) : x.id # y.id
    <3> SUFFICES ASSUME NEW i \in DOMAIN s, NEW j \in DOMAIN t, s[i].id = t[j].id PROVE FALSE
      BY DEF ToSet
    <3>1. i = j + Len(s)
      BY <1>2, <1>3, <1>5 DEF DistinctIds
    <3> QED BY <1>1, <3>1
  <2> QED BY <2>1, <2>2, <2>3
<1>6. ASSUME DistinctIds(s), DistinctIds(t), \A x \in ToSet(s), y \in ToSet(t) : x.id # y.id
      PROVE  DistinctIds(st)
  <2> SUFFICES ASSUME NEW i \in DOMAIN st, NEW j \in DOMAIN st, st[i].id = st[j].id PROVE i = j
    BY DEF DistinctIds
  <2>1. CASE i \in DOMAIN s /\ j \in DOMAIN s
    BY <1>2, <1>6, <2>1 DEF DistinctIds
  <2>2. ASSUME NEW k \in DOMAIN t, NEW m \in DOMAIN t, i = k + Len(s), j = m + Len(s) PROVE i = j
    BY <1>3, <1>6, <2>2 DEF DistinctIds
  <2>3. ASSUME NEW k \in DOMAIN t, i = k + Len(s), j \in DOMAIN s PROVE FALSE
    BY <1>2, <1>3, <1>6, <2>3 DEF ToSet
  <2>4. ASSUME NEW k \in DOMAIN t, j = k + Len(s), i \in DOMAIN s PROVE FALSE
    BY <1>2, <1>3, <1>6, <2>4 DEF ToSet
  <2> QED BY <1>4, <2>1, <2>2, <2>3, <2>4
<1> QED BY <1>5, <1>6 DEF st

\* No two rows of the sequences share an id.
DistinctAcross(seqs) ==
    /\ \A i \in DOMAIN seqs : DistinctIds(seqs[i])
    /\ \A i, j \in DOMAIN seqs : \A x \in ToSet(seqs[i]), y \in ToSet(seqs[j]) : x.id = y.id => i = j

\* When one more sequence of rows keeps ids distinct across all.
LEMMA DistinctAppend ==
    ASSUME NEW S, NEW seqs \in Seq(Seq(S)), NEW s \in Seq(S)
    PROVE  DistinctAcross(Append(seqs, s)) <=>
             /\ DistinctAcross(seqs) /\ DistinctIds(s)
             /\ \A i \in DOMAIN seqs : \A x \in ToSet(seqs[i]), y \in ToSet(s) : x.id # y.id
<1> DEFINE more == Append(seqs, s)
           n == Len(seqs) + 1
<1>1. /\ DOMAIN seqs = 1..Len(seqs) /\ Len(seqs) \in Nat /\ DOMAIN more = 1..n /\ more[n] = s
      /\ \A i \in DOMAIN seqs : more[i] = seqs[i]
  BY AppendProperties, LenProperties
<1>2. DOMAIN more = DOMAIN seqs \cup {n} /\ n \notin DOMAIN seqs
  BY <1>1
<1>3. more[n] = s /\ \A i \in DOMAIN seqs : more[i] = seqs[i]
  BY <1>1
<1> HIDE DEF more, n
<1>4. ASSUME DistinctAcross(more)
      PROVE  /\ DistinctAcross(seqs) /\ DistinctIds(s)
             /\ \A i \in DOMAIN seqs : \A x \in ToSet(seqs[i]), y \in ToSet(s) : x.id # y.id
  <2>1. DistinctAcross(seqs)
    BY <1>2, <1>3, <1>4 DEF DistinctAcross
  <2>2. DistinctIds(s)
    BY <1>2, <1>3, <1>4 DEF DistinctAcross
  <2>3. \A i \in DOMAIN seqs : \A x \in ToSet(seqs[i]), y \in ToSet(s) : x.id # y.id
    BY <1>2, <1>3, <1>4 DEF DistinctAcross
  <2> QED BY <2>1, <2>2, <2>3
<1>5. ASSUME DistinctAcross(seqs), DistinctIds(s),
             \A i \in DOMAIN seqs : \A x \in ToSet(seqs[i]), y \in ToSet(s) : x.id # y.id
      PROVE  DistinctAcross(more)
  <2>1. \A i \in DOMAIN more : DistinctIds(more[i])
    BY <1>2, <1>3, <1>5 DEF DistinctAcross
  <2>2. ASSUME NEW i \in DOMAIN more, NEW j \in DOMAIN more,
               NEW x \in ToSet(more[i]), NEW y \in ToSet(more[j]), x.id = y.id
        PROVE  i = j
    <3>1. CASE i \in DOMAIN seqs /\ j \in DOMAIN seqs
      BY <1>3, <1>5, <2>2, <3>1 DEF DistinctAcross
    <3>2. CASE i = n /\ j \in DOMAIN seqs
      BY <1>3, <1>5, <2>2, <3>2
    <3>3. CASE i \in DOMAIN seqs /\ j = n
      BY <1>3, <1>5, <2>2, <3>3
    <3> QED BY <1>2, <3>1, <3>2, <3>3
  <2> QED BY <2>1, <2>2 DEF DistinctAcross
<1> QED BY <1>4, <1>5 DEF more

\* Flattened rows have distinct ids exactly when ids are distinct within and across the parts.
LEMMA FlattenDistinct ==
    ASSUME NEW S, NEW seqs \in Seq(Seq(S))
    PROVE  DistinctIds(FlattenSeq(seqs)) <=> DistinctAcross(seqs)
<1> DEFINE P == {ss \in Seq(Seq(S)) : DistinctIds(FlattenSeq(ss)) <=> DistinctAcross(ss)}
<1>1. <<>> \in P
  <2>1. FlattenSeq(<<>>) = <<>>
    BY DEF FlattenSeq
  <2>2. DistinctIds(<<>>) /\ DistinctAcross(<<>>)
    BY DEF DistinctIds, DistinctAcross
  <2>3. <<>> \in Seq(Seq(S))
    BY EmptySeq
  <2> QED BY <2>1, <2>2, <2>3
<1>2. ASSUME NEW ss \in Seq(Seq(S)), NEW s \in Seq(S), ss \in P PROVE Append(ss, s) \in P
  <2>1. Append(ss, s) \in Seq(Seq(S))
    BY AppendProperties
  <2>2. FlattenSeq(Append(ss, s)) = FlattenSeq(ss) \o s /\ FlattenSeq(ss) \in Seq(S)
    BY FlattenAppend, FlattenElements
  <2>3. DistinctIds(FlattenSeq(ss)) <=> DistinctAcross(ss)
    BY <1>2
  <2>4. (\A x \in ToSet(FlattenSeq(ss)), y \in ToSet(s) : x.id # y.id)
          <=> \A i \in DOMAIN ss : \A x \in ToSet(ss[i]), y \in ToSet(s) : x.id # y.id
    BY FlattenElements
  <2>5. DistinctIds(FlattenSeq(Append(ss, s))) <=> DistinctAcross(Append(ss, s))
    BY <2>2, <2>3, <2>4, DistinctConcat, DistinctAppend
  <2> QED BY <2>1, <2>5
<1>3. Seq(Seq(S)) \subseteq P
  <2> HIDE DEF P
  <2> QED BY <1>1, <1>2, SequenceInduction
<1> QED BY <1>3

(***************************************************************************)
(* Filtering keeps elements of T only, in rows with distinct ids.          *)
(***************************************************************************)
LEMMA Filtered ==
    ASSUME NEW S, NEW s \in Seq(S), NEW T, NEW parts,
           parts = [i \in DOMAIN s |-> IF s[i] \in T THEN <<s[i]>> ELSE <<>>]
    PROVE  /\ FlattenSeq(parts) \in Seq(S)
           /\ \A x : x \in ToSet(FlattenSeq(parts)) <=> x \in ToSet(s) /\ x \in T
           /\ DistinctIds(s) => DistinctIds(FlattenSeq(parts))
<1>1. Len(s) \in Nat /\ DOMAIN s = 1..Len(s) /\ s \in [1..Len(s) -> S]
  BY SequenceElements
<1>2. \A i \in 1..Len(s) : <<s[i]>> \in Seq(S) /\ ToSet(<<s[i]>>) = {s[i]} /\ DistinctIds(<<s[i]>>)
  <2> TAKE i \in 1..Len(s)
  <2>1. <<s[i]>> \in Seq(S) /\ DOMAIN <<s[i]>> = {1} /\ <<s[i]>>[1] = s[i]
    BY <1>1
  <2> QED BY <2>1 DEF ToSet, DistinctIds
<1>3. <<>> \in Seq(S) /\ ToSet(<<>>) = {} /\ DistinctIds(<<>>)
  BY EmptySeq DEF ToSet, DistinctIds
<1>4. /\ parts \in [1..Len(s) -> Seq(S)]
      /\ \A i \in DOMAIN s : ToSet(parts[i]) = {x \in {s[i]} : x \in T} /\ DistinctIds(parts[i])
  BY <1>1, <1>2, <1>3
<1>5. parts \in Seq(Seq(S)) /\ DOMAIN parts = DOMAIN s
  BY <1>1, <1>4, SeqDef
<1>6. \A x : x \in ToSet(FlattenSeq(parts)) <=> x \in ToSet(s) /\ x \in T
  <2> TAKE x
  <2>1. x \in ToSet(FlattenSeq(parts)) <=> \E i \in DOMAIN s : x \in ToSet(parts[i])
    BY <1>5, FlattenElements
  <2> QED BY <1>4, <2>1 DEF ToSet
<1>7. ASSUME DistinctIds(s) PROVE DistinctIds(FlattenSeq(parts))
  <2>1. DistinctAcross(parts)
    BY <1>4, <1>5, <1>7 DEF DistinctAcross, DistinctIds
  <2> QED BY <1>5, <2>1, FlattenDistinct
<1> QED BY <1>5, <1>6, <1>7, FlattenElements

-------------------------------------------------------------------------------
(***************************************************************************)
(* Sets of rows.  What kinds, payloads and translated values are is left   *)
(* open; making a row a root keeps it in the set.                          *)
(***************************************************************************)
Slots == {Sections, Content} \cup {Column(c) : c \in Nat}

AnyRow(kinds, payloads, values) ==
    [id : Nat \ {0}, parent : Nat, slot : Slots, pos : Int, kind : kinds, shared : payloads, locales : values]

AsRoot(r) == [r EXCEPT !.parent = 0]

RowSet(S) ==
    /\ \E kinds, payloads, values : S \subseteq AnyRow(kinds, payloads, values)
    /\ \A r \in S : AsRoot(r) \in S

\* The fields of a row and of the row made a root.
LEMMA RowFacts ==
    ASSUME NEW S, RowSet(S), NEW r \in S
    PROVE  /\ r.id \in Nat \ {0} /\ r.parent \in Nat /\ r.slot \in Slots /\ r.pos \in Int
           /\ AsRoot(r) \in S
           /\ AsRoot(r).id = r.id /\ AsRoot(r).parent = 0 /\ AsRoot(r).slot = r.slot /\ AsRoot(r).pos = r.pos
           /\ AsRoot(r).kind = r.kind /\ AsRoot(r).shared = r.shared /\ AsRoot(r).locales = r.locales
<1>1. PICK kinds, payloads, values : S \subseteq AnyRow(kinds, payloads, values)
  BY DEF RowSet
<1>2. AsRoot(r) \in S
  BY DEF RowSet
<1>3. r \in AnyRow(kinds, payloads, values)
  BY <1>1
<1> QED BY <1>2, <1>3 DEF AnyRow, AsRoot

\* A slot is told by the rank of its name and its column.
LEMMA SlotFacts ==
    /\ \A s \in Slots : SlotRank[s[1]] \in Int /\ s[2] \in Int
    /\ \A s, t \in Slots : SlotRank[s[1]] = SlotRank[t[1]] => s[1] = t[1]
    /\ \A s, t \in Slots : s[1] = t[1] /\ s[2] = t[2] => s = t
  BY DEF Slots, SlotRank, Sections, Content, Column

(***************************************************************************)
(* The placement of rows is a strict order, total on distinct ids.         *)
(***************************************************************************)
LEMMA PlacementIrreflexive ==
    ASSUME NEW S, RowSet(S), NEW r \in S
    PROVE  ~compareContentStorageRowPlacement(r, r)
<1>1. r.id \in Int /\ r.parent \in Int /\ r.slot \in Slots /\ r.pos \in Int
  BY RowFacts
<1>2. SlotRank[r.slot[1]] \in Int /\ r.slot[2] \in Int
  BY <1>1, SlotFacts
<1> QED BY <1>1, <1>2 DEF compareContentStorageRowPlacement

\* Of two rows with different ids one is placed before the other.
LEMMA PlacementTotal ==
    ASSUME NEW S, RowSet(S), NEW r \in S, NEW s \in S, r.id # s.id
    PROVE  compareContentStorageRowPlacement(r, s) \/ compareContentStorageRowPlacement(s, r)
<1>1. r.id \in Int /\ r.parent \in Int /\ r.slot \in Slots /\ r.pos \in Int
  BY RowFacts
<1>2. s.id \in Int /\ s.parent \in Int /\ s.slot \in Slots /\ s.pos \in Int
  BY RowFacts
<1>3. /\ SlotRank[r.slot[1]] \in Int /\ r.slot[2] \in Int
      /\ SlotRank[s.slot[1]] \in Int /\ s.slot[2] \in Int
      /\ SlotRank[r.slot[1]] = SlotRank[s.slot[1]] => r.slot[1] = s.slot[1]
      /\ r.slot[1] = s.slot[1] /\ r.slot[2] = s.slot[2] => r.slot = s.slot
  BY <1>1, <1>2, SlotFacts
<1> QED BY <1>1, <1>2, <1>3 DEF compareContentStorageRowPlacement

\* Placement is transitive.
LEMMA PlacementTransitive ==
    ASSUME NEW S, RowSet(S), NEW r \in S, NEW s \in S, NEW t \in S,
           compareContentStorageRowPlacement(r, s), compareContentStorageRowPlacement(s, t)
    PROVE  compareContentStorageRowPlacement(r, t)
<1>1. /\ r.id \in Int /\ r.parent \in Int /\ r.slot \in Slots /\ r.pos \in Int
      /\ s.id \in Int /\ s.parent \in Int /\ s.slot \in Slots /\ s.pos \in Int
      /\ t.id \in Int /\ t.parent \in Int /\ t.slot \in Slots /\ t.pos \in Int
  BY RowFacts
<1>2. /\ SlotRank[r.slot[1]] \in Int /\ r.slot[2] \in Int
      /\ SlotRank[s.slot[1]] \in Int /\ s.slot[2] \in Int
      /\ SlotRank[t.slot[1]] \in Int /\ t.slot[2] \in Int
  BY <1>1, SlotFacts
<1> QED BY <1>1, <1>2 DEF compareContentStorageRowPlacement

(***************************************************************************)
(* Rows in placement order are the same rows, and their order is that of   *)
(* the set of them.                                                        *)
(***************************************************************************)
Before(rows, r) == {i \in DOMAIN rows : compareContentStorageRowPlacement(rows[i], r)}
PlaceIn(rows, r) == 1 + Cardinality(Before(rows, r))

\* Rows with distinct ids have the places 1 to their number, each one row.
LEMMA RowsPositioned ==
    ASSUME NEW S, RowSet(S), NEW rows \in Seq(S), DistinctIds(rows)
    PROVE  /\ \A i \in DOMAIN rows : PlaceIn(rows, rows[i]) \in DOMAIN rows
           /\ \A k \in DOMAIN rows : \E i \in DOMAIN rows : PlaceIn(rows, rows[i]) = k
           /\ \A i, j \in DOMAIN rows : PlaceIn(rows, rows[i]) = PlaceIn(rows, rows[j]) => i = j
<1> DEFINE n == Len(rows)
           LT == {p \in (1..n) \X (1..n) : compareContentStorageRowPlacement(rows[p[1]], rows[p[2]])}
<1>1. n \in Nat /\ DOMAIN rows = 1..n /\ rows \in [1..n -> S]
  BY SequenceElements
<1>2. \A i, j \in 1..n : <<i, j>> \in LT <=> compareContentStorageRowPlacement(rows[i], rows[j])
  OBVIOUS
<1> HIDE DEF n, LT
<1>5. \A i \in 1..n : <<i, i>> \notin LT
  BY <1>1, <1>2, PlacementIrreflexive
<1>6. \A i, j, k \in 1..n : <<i, j>> \in LT /\ <<j, k>> \in LT => <<i, k>> \in LT
  BY <1>1, <1>2, PlacementTransitive
<1>7. \A i, j \in 1..n : i # j => <<i, j>> \in LT \/ <<j, i>> \in LT
  <2> SUFFICES ASSUME NEW i \in 1..n, NEW j \in 1..n, i # j PROVE <<i, j>> \in LT \/ <<j, i>> \in LT
    OBVIOUS
  <2>1. rows[i].id # rows[j].id /\ rows[i] \in S /\ rows[j] \in S
    BY <1>1 DEF DistinctIds
  <2> QED BY <1>2, <2>1, PlacementTotal
<1>8. /\ \A i \in 1..n : Position(n, LT, i) \in 1..n
      /\ \A k \in 1..n : \E i \in 1..n : Position(n, LT, i) = k
      /\ \A i, j \in 1..n : Position(n, LT, i) = Position(n, LT, j) => i = j
  BY <1>1, <1>5, <1>6, <1>7, Positioned
<1>9. \A i \in 1..n : PlaceIn(rows, rows[i]) = Position(n, LT, i)
  <2> TAKE i \in 1..n
  <2>1. Before(rows, rows[i]) = {j \in 1..n : <<j, i>> \in LT}
    BY <1>1, <1>2 DEF Before
  <2> QED BY <2>1 DEF PlaceIn, Position
<1> QED BY <1>1, <1>8, <1>9

\* Rows put in placement order are the same rows, each at its place.
LEMMA PlacementOrder ==
    ASSUME NEW S, RowSet(S), NEW rows \in Seq(S), DistinctIds(rows)
    PROVE  /\ InPlacementOrder(rows) \in Seq(S)
           /\ Len(InPlacementOrder(rows)) = Len(rows)
           /\ ToSet(InPlacementOrder(rows)) = ToSet(rows)
           /\ DistinctIds(InPlacementOrder(rows))
           /\ \A k \in DOMAIN rows : PlaceIn(rows, InPlacementOrder(rows)[k]) = k
<1> DEFINE at(k) == CHOOSE i \in DOMAIN rows : PlaceIn(rows, rows[i]) = k
           ordered == [k \in DOMAIN rows |-> rows[at(k)]]
<1>1. Len(rows) \in Nat /\ DOMAIN rows = 1..Len(rows) /\ rows \in [1..Len(rows) -> S]
  BY SequenceElements
<1>2. InPlacementOrder(rows) = ordered
  BY DEF InPlacementOrder, PlaceIn, Before
<1>3. \A k \in DOMAIN rows : at(k) \in DOMAIN rows /\ PlaceIn(rows, rows[at(k)]) = k
  BY RowsPositioned
<1>4. \A k \in DOMAIN rows : ordered[k] = rows[at(k)]
  OBVIOUS
<1>5. DOMAIN ordered = DOMAIN rows
  OBVIOUS
<1>6. \A i \in DOMAIN rows : PlaceIn(rows, rows[i]) \in DOMAIN rows /\ at(PlaceIn(rows, rows[i])) = i
  <2> TAKE i \in DOMAIN rows
  <2>1. PlaceIn(rows, rows[i]) \in DOMAIN rows
    BY RowsPositioned
  <2> QED BY <2>1, <1>3, RowsPositioned
<1>7. ordered \in [1..Len(rows) -> S]
  BY <1>1, <1>3
<1> HIDE DEF at, ordered
<1>8. ordered \in Seq(S) /\ Len(ordered) = Len(rows)
  <2>1. ordered \in Seq(S)
    BY <1>1, <1>7, SeqDef
  <2> QED BY <1>1, <1>5, <2>1, LenProperties
<1>9. ToSet(ordered) = ToSet(rows)
  <2>1. \A k \in DOMAIN ordered : ordered[k] \in ToSet(rows)
    BY <1>3, <1>4, <1>5 DEF ToSet
  <2>2. \A i \in DOMAIN rows : rows[i] \in ToSet(ordered)
    BY <1>4, <1>5, <1>6 DEF ToSet
  <2> QED BY <2>1, <2>2 DEF ToSet
<1>10. DistinctIds(ordered)
  <2> SUFFICES ASSUME NEW k \in DOMAIN rows, NEW m \in DOMAIN rows, ordered[k].id = ordered[m].id PROVE k = m
    BY <1>5 DEF DistinctIds
  <2>1. at(k) = at(m)
    BY <1>3, <1>4 DEF DistinctIds
  <2> QED BY <1>3, <2>1
<1> QED BY <1>2, <1>3, <1>4, <1>8, <1>9, <1>10

-------------------------------------------------------------------------------
(***************************************************************************)
(* Rows by their id.                                                       *)
(***************************************************************************)
LEMMA IdsOfRows ==
    ASSUME NEW rows, NEW id
    PROVE  id \in Ids(rows) <=> \E x \in ToSet(rows) : x.id = id
  BY DEF Ids, ToSet

\* The row found for an id has that id.
LEMMA RowOfId ==
    ASSUME NEW rows, NEW id \in Ids(rows)
    PROVE  RowOf(rows, id) \in ToSet(rows) /\ RowOf(rows, id).id = id
<1> DEFINE c == CHOOSE i \in DOMAIN rows : rows[i].id = id
<1>1. c \in DOMAIN rows /\ rows[c].id = id
  BY DEF Ids
<1> QED BY <1>1 DEF RowOf, ToSet

\* With distinct ids a row is what is found for its id.
LEMMA RowOfRow ==
    ASSUME NEW rows, DistinctIds(rows), NEW x \in ToSet(rows)
    PROVE  x.id \in Ids(rows) /\ RowOf(rows, x.id) = x
<1>1. x.id \in Ids(rows)
  BY IdsOfRows
<1>2. RowOf(rows, x.id) \in ToSet(rows) /\ RowOf(rows, x.id).id = x.id
  BY <1>1, RowOfId
<1> QED BY <1>1, <1>2 DEF ToSet, DistinctIds

(***************************************************************************)
(* Sequences of the same rows.                                             *)
(***************************************************************************)
SameRows(S, r, s) ==
    /\ r \in Seq(S) /\ DistinctIds(r)
    /\ s \in Seq(S) /\ DistinctIds(s)
    /\ ToSet(r) = ToSet(s)

\* The same rows in another order: lookups by id agree.
LEMMA SameLookup ==
    ASSUME NEW S, NEW r, NEW s, SameRows(S, r, s)
    PROVE  /\ Len(r) = Len(s) /\ DOMAIN r = DOMAIN s
           /\ Ids(r) = Ids(s)
           /\ \A id \in Ids(r) : RowOf(r, id) = RowOf(s, id)
<1> USE DEF SameRows
<1>1. Len(r) = Len(s)
  BY DistinctIdsInjective
<1>2. DOMAIN r = DOMAIN s
  BY <1>1, SequenceElements
<1>3. \A id : id \in Ids(r) <=> id \in Ids(s)
  BY IdsOfRows
<1>4. \A id \in Ids(r) : RowOf(r, id) = RowOf(s, id)
  <2> TAKE id \in Ids(r)
  <2>1. RowOf(r, id) \in ToSet(r) /\ RowOf(r, id).id = id
    BY RowOfId
  <2>2. RowOf(s, id) = RowOf(r, id)
    BY <2>1, RowOfRow
  <2> QED BY <2>2
<1>5. Ids(r) = Ids(s)
  BY <1>3
<1> QED BY <1>1, <1>2, <1>4, <1>5

\* The same rows have the same lineages.
LEMMA SameLineage ==
    ASSUME NEW S, NEW r, NEW s, SameRows(S, r, s), NEW id
    PROVE  Lineage(r, id) = Lineage(s, id)
<1> DEFINE IsUp(rows, up) ==
      up = [k \in 0..Len(rows) |->
              IF k = 0 THEN id
              ELSE IF up[k-1] \in Ids(rows) THEN RowOf(rows, up[k-1]).parent ELSE up[k-1]]
<1>1. \A up : IsUp(r, up) <=> IsUp(s, up)
  <2> TAKE up
  <2>1. \A k \in 0..Len(r) :
          (IF k = 0 THEN id ELSE IF up[k-1] \in Ids(r) THEN RowOf(r, up[k-1]).parent ELSE up[k-1])
        = (IF k = 0 THEN id ELSE IF up[k-1] \in Ids(s) THEN RowOf(s, up[k-1]).parent ELSE up[k-1])
    BY SameLookup
  <2>2. Len(r) = Len(s)
    BY SameLookup
  <2> QED BY <2>1, <2>2
<1>2. Chain(r, id) = CHOOSE up : IsUp(r, up)
  BY DEF Chain
<1>3. Chain(s, id) = CHOOSE up : IsUp(s, up)
  BY DEF Chain
<1> HIDE DEF IsUp
<1>4. Chain(r, id) = Chain(s, id)
  BY <1>1, <1>2, <1>3
<1>5. Len(r) = Len(s)
  BY SameLookup
<1> QED BY <1>4, <1>5 DEF Lineage

\* The same rows have the same sections.
LEMMA SameIsSection ==
    ASSUME NEW S, NEW r, NEW s, SameRows(S, r, s), NEW id
    PROVE  IsSection(r, id) <=> IsSection(s, id)
<1>1. Lineage(r, id) = Lineage(s, id)
  BY SameLineage
<1>2. Ids(r) = Ids(s) /\ \A a \in Ids(r) : RowOf(r, a) = RowOf(s, a)
  BY SameLookup
<1> QED BY <1>1, <1>2 DEF IsSection

\* The same rows are grounded alike.
LEMMA SameGrounded ==
    ASSUME NEW S, NEW r, NEW s, SameRows(S, r, s)
    PROVE  Grounded(r) <=> Grounded(s)
<1>1. Ids(r) = Ids(s)
  BY SameLookup
<1>2. \A id : Lineage(r, id) = Lineage(s, id)
  BY SameLineage
<1> QED BY <1>1, <1>2 DEF Grounded

\* A row has the same place among the same rows.
LEMMA SamePlaces ==
    ASSUME NEW S, NEW r, NEW s, SameRows(S, r, s), NEW x
    PROVE  PlaceIn(r, x) = PlaceIn(s, x)
<1> DEFINE T == {y \in ToSet(r) : compareContentStorageRowPlacement(y, x)}
<1>1. ASSUME NEW q, q \in Seq(S), DistinctIds(q), ToSet(q) = ToSet(r)
      PROVE  Cardinality(Before(q, x)) = Cardinality(T)
  <2>1. Before(q, x) = {i \in DOMAIN q : q[i] \in T}
    BY <1>1 DEF Before, ToSet
  <2>2. T = {y \in ToSet(q) : y \in T}
    BY <1>1
  <2> HIDE DEF T
  <2>3. IsInjective(q)
    BY <1>1, DistinctIdsInjective
  <2>4. Cardinality({i \in DOMAIN q : q[i] \in T}) = Cardinality({y \in ToSet(q) : y \in T})
    BY <1>1, <2>3, CountElements
  <2> QED BY <2>1, <2>2, <2>4
<1> HIDE DEF T
<1>2. Cardinality(Before(r, x)) = Cardinality(T) /\ Cardinality(Before(s, x)) = Cardinality(T)
  BY <1>1 DEF SameRows
<1> QED BY <1>2 DEF PlaceIn

\* The placement order of the same rows is the same sequence.
LEMMA SameOrder ==
    ASSUME NEW S, RowSet(S), NEW r, NEW s, SameRows(S, r, s)
    PROVE  InPlacementOrder(r) = InPlacementOrder(s)
<1> DEFINE p == InPlacementOrder(r)
           q == InPlacementOrder(s)
<1>1. p \in Seq(S) /\ Len(p) = Len(r) /\ ToSet(p) = ToSet(r) /\ \A k \in DOMAIN r : PlaceIn(r, p[k]) = k
  BY PlacementOrder DEF SameRows
<1>2. q \in Seq(S) /\ Len(q) = Len(s) /\ ToSet(q) = ToSet(s) /\ \A k \in DOMAIN s : PlaceIn(s, q[k]) = k
  BY PlacementOrder DEF SameRows
<1>3. Len(r) = Len(s) /\ DOMAIN r = DOMAIN s /\ DOMAIN p = DOMAIN r /\ DOMAIN q = DOMAIN s
  BY <1>1, <1>2, SameLookup, SequenceElements DEF SameRows
<1> HIDE DEF p, q
<1>4. \A k \in DOMAIN p : p[k] = q[k]
  <2> TAKE k \in DOMAIN p
  <2>1. PlaceIn(r, p[k]) = k /\ PlaceIn(r, q[k]) = k
    BY <1>1, <1>2, <1>3, SamePlaces
  <2>2. p[k] \in ToSet(r) /\ q[k] \in ToSet(r)
    BY <1>1, <1>2, <1>3 DEF ToSet, SameRows
  <2>3. PICK i \in DOMAIN r, j \in DOMAIN r : p[k] = r[i] /\ q[k] = r[j]
    BY <2>2 DEF ToSet
  <2>4. i = j
    BY <2>1, <2>3, RowsPositioned DEF SameRows
  <2> QED BY <2>3, <2>4
<1>5. p \in [1..Len(r) -> S] /\ q \in [1..Len(r) -> S]
  BY <1>1, <1>2, <1>3, SequenceElements
<1>6. p = q
  BY <1>3, <1>4, <1>5
<1> QED BY <1>6 DEF p, q

-------------------------------------------------------------------------------
(***************************************************************************)
(* The rows of the sections and the rows below one of them.                *)
(***************************************************************************)
LEMMA SectionRowsElements ==
    ASSUME NEW S, NEW rows \in Seq(S)
    PROVE  /\ SectionRows(rows) \in Seq(S) /\ RichTextRows(rows) \in Seq(S)
           /\ \A x : x \in ToSet(SectionRows(rows)) <=> x \in ToSet(rows) /\ IsSection(rows, x.id)
           /\ \A x : x \in ToSet(RichTextRows(rows)) <=> x \in ToSet(rows) /\ ~IsSection(rows, x.id)
           /\ DistinctIds(rows) => DistinctIds(SectionRows(rows)) /\ DistinctIds(RichTextRows(rows))
<1> DEFINE T == {x \in ToSet(rows) : IsSection(rows, x.id)}
           U == {x \in ToSet(rows) : ~IsSection(rows, x.id)}
           sections == [i \in DOMAIN rows |-> IF rows[i] \in T THEN <<rows[i]>> ELSE <<>>]
           richText == [i \in DOMAIN rows |-> IF rows[i] \in U THEN <<rows[i]>> ELSE <<>>]
<1>1. \A i \in DOMAIN rows : rows[i] \in ToSet(rows)
  BY DEF ToSet
<1>2. sections = [i \in DOMAIN rows |-> IF IsSection(rows, rows[i].id) THEN <<rows[i]>> ELSE <<>>]
  BY <1>1
<1>3. SectionRows(rows) = FlattenSeq(sections)
  BY <1>2 DEF SectionRows, Where
<1>4. richText = [i \in DOMAIN rows |-> IF ~IsSection(rows, rows[i].id) THEN <<rows[i]>> ELSE <<>>]
  BY <1>1
<1>5. RichTextRows(rows) = FlattenSeq(richText)
  BY <1>4 DEF RichTextRows, Where
<1>6. /\ FlattenSeq(sections) \in Seq(S)
      /\ \A x : x \in ToSet(FlattenSeq(sections)) <=> x \in ToSet(rows) /\ x \in T
      /\ DistinctIds(rows) => DistinctIds(FlattenSeq(sections))
  <2> HIDE DEF T
  <2> QED BY Filtered
<1>7. /\ FlattenSeq(richText) \in Seq(S)
      /\ \A x : x \in ToSet(FlattenSeq(richText)) <=> x \in ToSet(rows) /\ x \in U
      /\ DistinctIds(rows) => DistinctIds(FlattenSeq(richText))
  <2> HIDE DEF U
  <2> QED BY Filtered
<1>8. \A x : x \in ToSet(rows) /\ x \in T <=> x \in ToSet(rows) /\ IsSection(rows, x.id)
  OBVIOUS
<1>9. \A x : x \in ToSet(rows) /\ x \in U <=> x \in ToSet(rows) /\ ~IsSection(rows, x.id)
  OBVIOUS
<1> HIDE DEF T, U, sections, richText
<1> QED BY <1>3, <1>5, <1>6, <1>7, <1>8, <1>9

\* A child of the section becomes a root of the section's blocks.
Rooted(section, r) == IF r.parent = section THEN AsRoot(r) ELSE r
RootedRows(section, below) == [i \in DOMAIN below |-> Rooted(section, below[i])]

\* The rows below a section, its own children made roots.
LEMMA RootedRowsElements ==
    ASSUME NEW S, RowSet(S), NEW section, NEW below \in Seq(S)
    PROVE  /\ RootedRows(section, below) \in Seq(S)
           /\ DOMAIN RootedRows(section, below) = DOMAIN below
           /\ \A i \in DOMAIN below : RootedRows(section, below)[i] = Rooted(section, below[i])
           /\ \A x : x \in ToSet(RootedRows(section, below)) <=> \E r \in ToSet(below) : x = Rooted(section, r)
           /\ DistinctIds(below) => DistinctIds(RootedRows(section, below))
<1> DEFINE rooted == RootedRows(section, below)
<1>1. Len(below) \in Nat /\ DOMAIN below = 1..Len(below) /\ below \in [1..Len(below) -> S]
  BY SequenceElements
<1>2. DOMAIN rooted = DOMAIN below /\ \A i \in DOMAIN below : rooted[i] = Rooted(section, below[i])
  BY DEF RootedRows
<1>3. \A i \in DOMAIN below : Rooted(section, below[i]) \in S /\ Rooted(section, below[i]).id = below[i].id
  BY <1>1, RowFacts DEF Rooted
<1>4. rooted \in [1..Len(below) -> S]
  BY <1>1, <1>3 DEF RootedRows
<1> HIDE DEF rooted
<1>5. rooted \in Seq(S)
  BY <1>1, <1>4, SeqDef
<1>6. \A x : x \in ToSet(rooted) <=> \E r \in ToSet(below) : x = Rooted(section, r)
  BY <1>2 DEF ToSet
<1>7. ASSUME DistinctIds(below) PROVE DistinctIds(rooted)
  BY <1>2, <1>3, <1>7 DEF DistinctIds
<1> QED BY <1>2, <1>5, <1>6, <1>7 DEF rooted

\* Whether a row is among the blocks of a section.
BlockOf(rows, section, r) ==
    r \in ToSet(rows) /\ ~IsSection(rows, r.id) /\ section \in Lineage(rows, r.id)

\* The descendants of a section are its blocks, as rows of the nested graph.
LEMMA DescendantsElements ==
    ASSUME NEW S, RowSet(S), NEW rows \in Seq(S), NEW section
    PROVE  /\ Descendants(rows, section) \in Seq(S)
           /\ \A x : x \in ToSet(Descendants(rows, section))
                       <=> \E r : BlockOf(rows, section, r) /\ x = Rooted(section, r)
           /\ DistinctIds(rows) => DistinctIds(Descendants(rows, section))
<1> DEFINE rich  == RichTextRows(rows)
           T     == {x \in ToSet(rich) : section \in Lineage(rows, x.id)}
           parts == [i \in DOMAIN rich |-> IF rich[i] \in T THEN <<rich[i]>> ELSE <<>>]
           below == FlattenSeq(parts)
<1>1. /\ rich \in Seq(S)
      /\ \A x : x \in ToSet(rich) <=> x \in ToSet(rows) /\ ~IsSection(rows, x.id)
      /\ DistinctIds(rows) => DistinctIds(rich)
  BY SectionRowsElements
<1>2. \A i \in DOMAIN rich : rich[i] \in ToSet(rich)
  BY DEF ToSet
<1> HIDE DEF rich
<1>3. parts = [i \in DOMAIN rich |-> IF section \in Lineage(rows, rich[i].id) THEN <<rich[i]>> ELSE <<>>]
  BY <1>2
<1>4. below = Where(rich, LAMBDA r : section \in Lineage(rows, r.id))
  BY <1>3 DEF Where
<1>5. Descendants(rows, section) = RootedRows(section, below)
  BY <1>4 DEF Descendants, RootedRows, Rooted, AsRoot, rich
<1>6. /\ below \in Seq(S)
      /\ \A x : x \in ToSet(below) <=> x \in ToSet(rich) /\ x \in T
      /\ DistinctIds(rich) => DistinctIds(below)
  <2> HIDE DEF T
  <2> QED BY <1>1, Filtered
<1>7. \A x : x \in ToSet(below) <=> BlockOf(rows, section, x)
  <2>1. \A x : x \in ToSet(rich) /\ x \in T <=> x \in ToSet(rich) /\ section \in Lineage(rows, x.id)
    OBVIOUS
  <2> HIDE DEF T, below
  <2> QED BY <1>1, <1>6, <2>1 DEF BlockOf
<1> HIDE DEF T, parts, below
<1> QED BY <1>1, <1>5, <1>6, <1>7, RootedRowsElements

\* The same rows have the same descendants of a section.
LEMMA SameDescendants ==
    ASSUME NEW S, RowSet(S), NEW r, NEW s, SameRows(S, r, s), NEW section
    PROVE  SameRows(S, Descendants(r, section), Descendants(s, section))
<1>1. \A x : BlockOf(r, section, x) <=> BlockOf(s, section, x)
  BY SameLineage, SameIsSection DEF BlockOf, SameRows
<1>2. \A x : x \in ToSet(Descendants(r, section)) <=> x \in ToSet(Descendants(s, section))
  BY <1>1, DescendantsElements DEF SameRows
<1>3. /\ Descendants(r, section) \in Seq(S) /\ DistinctIds(Descendants(r, section))
      /\ Descendants(s, section) \in Seq(S) /\ DistinctIds(Descendants(s, section))
  BY DescendantsElements DEF SameRows
<1> QED BY <1>2, <1>3 DEF SameRows

\* The same rows have the same section rows.
LEMMA SameSections ==
    ASSUME NEW S, NEW r, NEW s, SameRows(S, r, s)
    PROVE  SameRows(S, SectionRows(r), SectionRows(s))
<1>1. \A x : x \in ToSet(SectionRows(r)) <=> x \in ToSet(SectionRows(s))
  BY SameIsSection, SectionRowsElements DEF SameRows
<1>2. /\ SectionRows(r) \in Seq(S) /\ DistinctIds(SectionRows(r))
      /\ SectionRows(s) \in Seq(S) /\ DistinctIds(SectionRows(s))
  BY SectionRowsElements DEF SameRows
<1> QED BY <1>1, <1>2 DEF SameRows

-------------------------------------------------------------------------------
(***************************************************************************)
(* What is rebuilt from the same rows is the same.                         *)
(***************************************************************************)
LEMMA SameRichNodes ==
    ASSUME NEW S, RowSet(S), NEW r, NEW s, SameRows(S, r, s)
    PROVE  RichNodes(r) = RichNodes(s)
  BY SameOrder DEF RichNodes

\* The same rows have values in the same locales.
LEMMA SameLocales ==
    ASSUME NEW S, NEW r, NEW s, SameRows(S, r, s)
    PROVE  RowLocales(r) = RowLocales(s)
<1>1. \A q, l : l \in RowLocales(q) <=> \E x \in ToSet(q) : l \in DOMAIN x.locales
  BY DEF RowLocales, ToSet
<1>2. \A l : l \in RowLocales(r) <=> l \in RowLocales(s)
  BY <1>1 DEF SameRows
<1> QED BY <1>2

\* The ids of the rows with a value in a locale.
IdsIn(rows, l) == {rows[i].id : i \in {i \in DOMAIN rows : l \in DOMAIN rows[i].locales}}

\* The ids of the rows with a value in a locale.
LEMMA IdsInLocale ==
    ASSUME NEW rows, NEW l, NEW id
    PROVE  id \in IdsIn(rows, l) <=> \E x \in ToSet(rows) : x.id = id /\ l \in DOMAIN x.locales
  BY DEF IdsIn, ToSet

\* The same rows give the same overlays of a rich text.
LEMMA SameRichOverlays ==
    ASSUME NEW source, NEW S, NEW r, NEW s, SameRows(S, r, s)
    PROVE  RichOverlays(source, r) = RichOverlays(source, s)
<1>1. RowLocales(r) = RowLocales(s)
  BY SameLocales
<1>2. \A l : IdsIn(r, l) = IdsIn(s, l)
  <2> TAKE l
  <2>1. \A id : id \in IdsIn(r, l) <=> id \in IdsIn(s, l)
    BY IdsInLocale DEF SameRows
  <2> QED BY <2>1
<1>3. \A l : \A id \in IdsIn(r, l) : RowOf(r, id) = RowOf(s, id)
  <2> TAKE l
  <2> TAKE id \in IdsIn(r, l)
  <2>1. id \in Ids(r)
    BY IdsOfRows, IdsInLocale
  <2> QED BY <2>1, SameLookup
<1>4. \A l : [id \in IdsIn(r, l) |-> RowOf(r, id).locales[l]] = [id \in IdsIn(s, l) |-> RowOf(s, id).locales[l]]
  BY <1>2, <1>3
<1>5. /\ RichOverlays(source, r) = [l \in RowLocales(r) \cup {source} |-> [id \in IdsIn(r, l) |-> RowOf(r, id).locales[l]]]
      /\ RichOverlays(source, s) = [l \in RowLocales(s) \cup {source} |-> [id \in IdsIn(s, l) |-> RowOf(s, id).locales[l]]]
  BY DEF RichOverlays, IdsIn
<1> QED BY <1>1, <1>4, <1>5

\* The same rows are accepted alike as a rich text.
LEMMA SameRichAccepts ==
    ASSUME NEW S, RowSet(S), NEW r, NEW s, SameRows(S, r, s), NEW profile
    PROVE  MaterializeRichTextDocumentStorageAccepts(Source, profile, r)
             <=> MaterializeRichTextDocumentStorageAccepts(Source, profile, s)
<1>1. UniqueIds(r) /\ UniqueIds(s)
  BY UniqueIdsDistinct DEF SameRows
<1>2. (\A i \in DOMAIN r : r[i].kind \in RichKinds) <=> (\A i \in DOMAIN s : s[i].kind \in RichKinds)
  <2>1. \A q : (\A i \in DOMAIN q : q[i].kind \in RichKinds) <=> (\A x \in ToSet(q) : x.kind \in RichKinds)
    BY DEF ToSet
  <2> QED BY <2>1 DEF SameRows
<1>3. RichNodes(r) = RichNodes(s) /\ RichOverlays(Source, r) = RichOverlays(Source, s)
  BY SameRichNodes, SameRichOverlays
<1> QED BY <1>1, <1>2, <1>3 DEF MaterializeRichTextDocumentStorageAccepts

\* A section is rebuilt alike from the same blocks.
LEMMA SameSectionParts ==
    ASSUME NEW source, NEW S, RowSet(S), NEW b, NEW c, NEW x, x.kind = "rich-text" => SameRows(S, b[x.id], c[x.id])
    PROVE  /\ SectionNode(b, x) = SectionNode(c, x)
           /\ LocalesOf(source, b, x) = LocalesOf(source, c, x)
           /\ \A l : SectionValue(source, b, x, l) = SectionValue(source, c, x, l)
<1>1. x.kind = "rich-text" => RichNodes(b[x.id]) = RichNodes(c[x.id])
  BY SameRichNodes
<1>2. x.kind = "rich-text" => RichOverlays(source, b[x.id]) = RichOverlays(source, c[x.id])
  BY SameRichOverlays
<1>3. x.kind = "rich-text" => RowLocales(b[x.id]) = RowLocales(c[x.id])
  BY SameLocales
<1>4. SectionNode(b, x) = SectionNode(c, x)
  BY <1>1 DEF SectionNode
<1>5. LocalesOf(source, b, x) = LocalesOf(source, c, x)
  BY <1>3 DEF LocalesOf
<1>6. \A l : SectionValue(source, b, x, l) = SectionValue(source, c, x, l)
  BY <1>2 DEF SectionValue
<1> QED BY <1>4, <1>5, <1>6

\* The ids of the sections with a value in a locale.
SectionsIn(source, sections, blocks, l) ==
    {sections[i].id : i \in {i \in DOMAIN sections : l \in LocalesOf(source, blocks, sections[i])}}
PageLocales(source, sections, blocks) ==
    {source} \cup UNION {LocalesOf(source, blocks, sections[i]) : i \in DOMAIN sections}

\* A page by its nodes and its overlays.
LEMMA PageOfParts ==
    ASSUME NEW source, NEW sections, NEW blocks
    PROVE  PageOf(source, sections, blocks) =
             [nodes |-> [i \in DOMAIN sections |-> SectionNode(blocks, sections[i])],
              overlays |-> [l \in PageLocales(source, sections, blocks) |->
                [id \in SectionsIn(source, sections, blocks, l) |-> SectionValue(source, blocks, RowOf(sections, id), l)]]]
  BY DEF PageOf, PageLocales, SectionsIn

\* A page is rebuilt alike from sections with the same blocks.
LEMMA SamePage ==
    ASSUME NEW source, NEW S, RowSet(S), NEW sections, NEW b, NEW c,
           \A x \in ToSet(sections) : x.kind = "rich-text" => SameRows(S, b[x.id], c[x.id])
    PROVE  PageOf(source, sections, b) = PageOf(source, sections, c)
<1>1. \A x \in ToSet(sections) : /\ SectionNode(b, x) = SectionNode(c, x)
                                 /\ LocalesOf(source, b, x) = LocalesOf(source, c, x)
                                 /\ \A l : SectionValue(source, b, x, l) = SectionValue(source, c, x, l)
  BY SameSectionParts
<1>2. \A i \in DOMAIN sections : sections[i] \in ToSet(sections)
  BY DEF ToSet
<1>3. [i \in DOMAIN sections |-> SectionNode(b, sections[i])] = [i \in DOMAIN sections |-> SectionNode(c, sections[i])]
  BY <1>1, <1>2
<1>4. PageLocales(source, sections, b) = PageLocales(source, sections, c)
  <2>1. \A l : l \in PageLocales(source, sections, b) <=> l \in PageLocales(source, sections, c)
    BY <1>1, <1>2 DEF PageLocales
  <2> QED BY <2>1 DEF PageLocales
<1>5. \A l : SectionsIn(source, sections, b, l) = SectionsIn(source, sections, c, l)
  <2> TAKE l
  <2>1. \A id : id \in SectionsIn(source, sections, b, l) <=> id \in SectionsIn(source, sections, c, l)
    BY <1>1, <1>2 DEF SectionsIn
  <2> QED BY <2>1 DEF SectionsIn
<1>6. \A l : \A id \in SectionsIn(source, sections, b, l) :
         SectionValue(source, b, RowOf(sections, id), l) = SectionValue(source, c, RowOf(sections, id), l)
  <2> TAKE l
  <2> TAKE id \in SectionsIn(source, sections, b, l)
  <2>1. id \in Ids(sections)
    BY DEF SectionsIn, Ids
  <2>2. RowOf(sections, id) \in ToSet(sections)
    BY <2>1, RowOfId
  <2> QED BY <1>1, <2>2
<1>7. \A l : [id \in SectionsIn(source, sections, b, l) |-> SectionValue(source, b, RowOf(sections, id), l)]
           = [id \in SectionsIn(source, sections, c, l) |-> SectionValue(source, c, RowOf(sections, id), l)]
  BY <1>5, <1>6
<1>8. [l \in PageLocales(source, sections, b) |-> [id \in SectionsIn(source, sections, b, l) |-> SectionValue(source, b, RowOf(sections, id), l)]]
    = [l \in PageLocales(source, sections, c) |-> [id \in SectionsIn(source, sections, c, l) |-> SectionValue(source, c, RowOf(sections, id), l)]]
  BY <1>4, <1>7
<1> QED BY <1>3, <1>8, PageOfParts

\* The Go runtime rebuilds the same page from the same rows.
LEMMA SameMaterialized ==
    ASSUME NEW S, RowSet(S), NEW r, NEW s, SameRows(S, r, s)
    PROVE  MaterializePageDocumentStorage(Source, r) = MaterializePageDocumentStorage(Source, s)
<1> DEFINE sections == InPlacementOrder(SectionRows(r))
<1>1. sections = InPlacementOrder(SectionRows(s))
  BY SameSections, SameOrder
<1>2. \A x \in ToSet(sections) : x.id \in Ids(r)
  <2>1. SectionRows(r) \in Seq(S) /\ DistinctIds(SectionRows(r)) /\ ToSet(SectionRows(r)) \subseteq ToSet(r)
    BY SectionRowsElements DEF SameRows
  <2>2. ToSet(sections) = ToSet(SectionRows(r))
    BY <2>1, PlacementOrder
  <2> QED BY <2>1, <2>2, IdsOfRows
<1>3. \A x \in ToSet(sections) : SameRows(S, BlocksOf(r)[x.id], BlocksOf(s)[x.id])
  <2> TAKE x \in ToSet(sections)
  <2>1. x.id \in Ids(r) /\ x.id \in Ids(s)
    BY <1>2, SameLookup
  <2>2. BlocksOf(r)[x.id] = Descendants(r, x.id) /\ BlocksOf(s)[x.id] = Descendants(s, x.id)
    BY <2>1 DEF BlocksOf
  <2> QED BY <2>2, SameDescendants
<1> HIDE DEF sections
<1>4. PageOf(Source, sections, BlocksOf(r)) = PageOf(Source, sections, BlocksOf(s))
  BY <1>3, SamePage
<1> QED BY <1>1, <1>4 DEF MaterializePageDocumentStorage, sections

\* What the Go runtime asks of one row when it rebuilds a page.
RowRebuilds(source, rows, r) ==
    IF ~IsSection(rows, r.id) THEN r.kind \in RichKinds
    ELSE /\ r.kind \in PageKinds
         /\ r.kind = "rich-text" =>
               /\ MaterializeRichTextDocumentStorageAccepts(source, "page", Descendants(rows, r.id))
               /\ \A l \in DOMAIN r.locales \cap (RowLocales(Descendants(rows, r.id)) \cup {source}) :
                     SectionValue(source, BlocksOf(rows), r, l).case = "rich-text"

\* The Go runtime accepts the same rows in any order.
LEMMA SameAccepted ==
    ASSUME NEW S, RowSet(S), NEW r, NEW s, SameRows(S, r, s), MaterializePageDocumentStorageAccepts(Source, r)
    PROVE  MaterializePageDocumentStorageAccepts(Source, s)
<1>1. UniqueIds(s) /\ Grounded(s)
  BY UniqueIdsDistinct, SameGrounded DEF SameRows, MaterializePageDocumentStorageAccepts
<1>2. \A q : MaterializePageDocumentStorageAccepts(Source, q) <=>
               UniqueIds(q) /\ Grounded(q) /\ \A i \in DOMAIN q : RowRebuilds(Source, q, q[i])
  BY DEF MaterializePageDocumentStorageAccepts, RowRebuilds
<1>3. \A x \in ToSet(r) : RowRebuilds(Source, r, x)
  BY <1>2 DEF ToSet
<1>4. ASSUME NEW x \in ToSet(r) PROVE RowRebuilds(Source, s, x)
  <2>1. IsSection(r, x.id) <=> IsSection(s, x.id)
    BY SameIsSection
  <2>2. SameRows(S, Descendants(r, x.id), Descendants(s, x.id))
    BY SameDescendants
  <2>3. RowLocales(Descendants(r, x.id)) = RowLocales(Descendants(s, x.id))
    BY <2>2, SameLocales
  <2>4. MaterializeRichTextDocumentStorageAccepts(Source, "page", Descendants(r, x.id))
          <=> MaterializeRichTextDocumentStorageAccepts(Source, "page", Descendants(s, x.id))
    BY <2>2, SameRichAccepts
  <2>5. x.id \in Ids(r) /\ x.id \in Ids(s)
    BY IdsOfRows, SameLookup
  <2>6. BlocksOf(r)[x.id] = Descendants(r, x.id) /\ BlocksOf(s)[x.id] = Descendants(s, x.id)
    BY <2>5 DEF BlocksOf
  <2>7. \A l : SectionValue(Source, BlocksOf(r), x, l) = SectionValue(Source, BlocksOf(s), x, l)
    BY <2>2, <2>6, SameSectionParts
  <2> QED BY <1>3, <2>1, <2>3, <2>4, <2>7 DEF RowRebuilds
<1>5. \A i \in DOMAIN s : RowRebuilds(Source, s, s[i])
  BY <1>4 DEF SameRows, ToSet
<1> QED BY <1>1, <1>2, <1>5

-------------------------------------------------------------------------------
(***************************************************************************)
(* Following parents.  With a number of steps equal to the number of rows  *)
(* every ancestor is reached: the lineage of an id is the least set that   *)
(* holds it and with the id of a row the row's parent.                     *)
(***************************************************************************)
ParentOf(rows, a) == IF a \in Ids(rows) THEN RowOf(rows, a).parent ELSE a

IsChain(up, rows, id, n) ==
    up = [k \in 0..n |-> IF k = 0 THEN id
                         ELSE IF up[k-1] \in Ids(rows) THEN RowOf(rows, up[k-1]).parent ELSE up[k-1]]

\* The parents of an id, step by step, exist as a function.
LEMMA ChainExists ==
    ASSUME NEW rows, NEW id, NEW n \in Nat
    PROVE  \E up : IsChain(up, rows, id, n)
<1> DEFINE S == {k \in Nat : \E up : IsChain(up, rows, id, k)}
<1>1. 0 \in S
  <2> DEFINE up == [k \in 0..0 |-> id]
  <2>1. \A k \in 0..0 : k = 0
    OBVIOUS
  <2>2. IsChain(up, rows, id, 0)
    BY <2>1 DEF IsChain
  <2> QED BY <2>2
<1>2. ASSUME NEW k \in Nat, k \in S PROVE k + 1 \in S
  <2>1. PICK up : IsChain(up, rows, id, k)
    BY <1>2
  <2> DEFINE next == [j \in 0..(k + 1) |-> IF j <= k THEN up[j] ELSE ParentOf(rows, up[k])]
  <2>2. \A j \in 0..k : up[j] = IF j = 0 THEN id ELSE ParentOf(rows, up[j-1])
    BY <2>1 DEF IsChain, ParentOf
  <2>3. \A j \in 0..(k + 1) : next[j] = IF j = 0 THEN id ELSE ParentOf(rows, next[j-1])
    <3> TAKE j \in 0..(k + 1)
    <3>1. CASE j \in 0..k
      BY <2>2, <3>1
    <3>2. CASE j = k + 1
      <4>1. j - 1 = k /\ k \in 0..(k + 1) /\ k <= k /\ ~(k + 1 <= k) /\ j # 0
        BY <3>2
      <4>2. next[k] = up[k] /\ next[j] = ParentOf(rows, up[k])
        BY <3>2, <4>1
      <4> HIDE DEF next
      <4> QED BY <4>1, <4>2
    <3> QED BY <3>1, <3>2
  <2>4. next = [j \in 0..(k + 1) |-> next[j]]
    OBVIOUS
  <2> HIDE DEF next
  <2>5. next = [j \in 0..(k + 1) |-> IF j = 0 THEN id ELSE ParentOf(rows, next[j-1])]
    BY <2>3, <2>4
  <2>6. IsChain(next, rows, id, k + 1)
    BY <2>5 DEF IsChain, ParentOf
  <2> QED BY <2>6
<1> HIDE DEF S
<1>3. n \in S
  BY <1>1, <1>2, SetInduction
<1> QED BY <1>3 DEF S

\* Chain follows one parent link per step.
LEMMA ChainSteps ==
    ASSUME NEW rows, Len(rows) \in Nat, NEW id
    PROVE  /\ DOMAIN Chain(rows, id) = 0..Len(rows)
           /\ Chain(rows, id)[0] = id
           /\ \A k \in 0..Len(rows) : k # 0 => Chain(rows, id)[k] = ParentOf(rows, Chain(rows, id)[k-1])
           /\ \A a : a \in Lineage(rows, id) <=> \E k \in 0..Len(rows) : a = Chain(rows, id)[k]
<1> DEFINE up == CHOOSE up : IsChain(up, rows, id, Len(rows))
<1>1. IsChain(up, rows, id, Len(rows))
  BY ChainExists
<1>2. Chain(rows, id) = up
  BY DEF Chain, IsChain
<1> HIDE DEF up
<1>3. /\ DOMAIN up = 0..Len(rows)
      /\ up[0] = id
      /\ \A k \in 0..Len(rows) : k # 0 => up[k] = ParentOf(rows, up[k-1])
  BY <1>1 DEF IsChain, ParentOf
<1>4. Lineage(rows, id) = {up[k] : k \in 0..Len(rows)}
  BY <1>2 DEF Lineage
<1> QED BY <1>2, <1>3, <1>4

\* There are no more ids than rows.
LEMMA IdsFinite ==
    ASSUME NEW S, NEW rows \in Seq(S)
    PROVE  IsFiniteSet(Ids(rows)) /\ Cardinality(Ids(rows)) \in Nat /\ Cardinality(Ids(rows)) <= Len(rows)
<1> DEFINE n == Len(rows)
           ids == [i \in 1..n |-> rows[i].id]
<1>1. n \in Nat /\ DOMAIN rows = 1..n
  BY SequenceElements
<1>2. ids \in [1..n -> Ids(rows)]
  BY <1>1 DEF Ids
<1>3. ids \in Seq(Ids(rows)) /\ Len(ids) = n
  <2>1. ids \in Seq(Ids(rows)) /\ DOMAIN ids = 1..n
    BY <1>1, <1>2, SeqDef
  <2> HIDE DEF ids
  <2> QED BY <1>1, <2>1, LenProperties
<1>4. ToSet(ids) = Ids(rows)
  BY <1>1 DEF ToSet, Ids
<1> HIDE DEF ids
<1> QED BY <1>3, <1>4, InjectiveLength

\* Steps that start from the same id lead to the same ids.
LEMMA ChainRepeats ==
    ASSUME NEW rows, Len(rows) \in Nat, NEW id, NEW i \in 0..Len(rows), NEW j \in 0..Len(rows),
           Chain(rows, id)[i] = Chain(rows, id)[j], NEW m \in Nat, i + m \in 0..Len(rows), j + m \in 0..Len(rows)
    PROVE  Chain(rows, id)[i + m] = Chain(rows, id)[j + m]
<1> DEFINE up == Chain(rows, id)
           n == Len(rows)
           T == {k \in Nat : i + k \in 0..n /\ j + k \in 0..n => up[i + k] = up[j + k]}
<1>1. 0 \in T
  BY DEF T
<1>2. ASSUME NEW k \in Nat, k \in T PROVE k + 1 \in T
  <2> SUFFICES ASSUME i + (k + 1) \in 0..n, j + (k + 1) \in 0..n PROVE up[i + (k + 1)] = up[j + (k + 1)]
    OBVIOUS
  <2>1. /\ i + k \in 0..n /\ j + k \in 0..n
        /\ (i + (k + 1)) - 1 = i + k /\ (j + (k + 1)) - 1 = j + k /\ i + (k + 1) # 0 /\ j + (k + 1) # 0
    OBVIOUS
  <2>2. up[i + k] = up[j + k]
    BY <1>2, <2>1
  <2> HIDE DEF up
  <2>3. /\ up[i + (k + 1)] = ParentOf(rows, up[(i + (k + 1)) - 1])
        /\ up[j + (k + 1)] = ParentOf(rows, up[(j + (k + 1)) - 1])
    BY <2>1, ChainSteps DEF up
  <2> QED BY <2>1, <2>2, <2>3
<1> HIDE DEF T
<1>3. m \in T
  BY <1>1, <1>2, SetInduction
<1> QED BY <1>3 DEF T

\* A lineage holds its id and with a row its parent.
LEMMA LineageClosed ==
    ASSUME NEW S, NEW rows \in Seq(S), NEW id
    PROVE  /\ id \in Lineage(rows, id)
           /\ \A a \in Lineage(rows, id) \cap Ids(rows) : RowOf(rows, a).parent \in Lineage(rows, id)
<1> DEFINE up == Chain(rows, id)
           n == Len(rows)
<1>1. n \in Nat
  BY SequenceElements
<1>2. /\ up[0] = id
      /\ \A k \in 0..n : k # 0 => up[k] = ParentOf(rows, up[k-1])
      /\ \A a : a \in Lineage(rows, id) <=> \E k \in 0..n : a = up[k]
  BY <1>1, ChainSteps
<1>3. \A i, j \in 0..n, m \in Nat : up[i] = up[j] /\ i + m \in 0..n /\ j + m \in 0..n => up[i + m] = up[j + m]
  BY <1>1, ChainRepeats
<1> HIDE DEF up
<1>4. id \in Lineage(rows, id)
  BY <1>1, <1>2
<1>5. ASSUME NEW k \in 0..n, k < n, up[k] \in Ids(rows)
      PROVE  RowOf(rows, up[k]).parent \in Lineage(rows, id)
  <2>1. k + 1 \in 0..n /\ (k + 1) - 1 = k /\ k + 1 # 0
    BY <1>1, <1>5
  <2>2. up[k + 1] = ParentOf(rows, up[k])
    BY <1>2, <2>1
  <2> QED BY <1>2, <1>5, <2>1, <2>2 DEF ParentOf
<1>6. ASSUME NEW j \in 0..n, up[j] \notin Ids(rows) PROVE up[n] \notin Ids(rows)
  <2> DEFINE T == {m \in Nat : j + m \in 0..n => up[j + m] = up[j]}
  <2>1. 0 \in T
    OBVIOUS
  <2>2. ASSUME NEW k \in Nat, k \in T PROVE k + 1 \in T
    <3> SUFFICES ASSUME j + (k + 1) \in 0..n PROVE up[j + (k + 1)] = up[j]
      OBVIOUS
    <3>1. j + k \in 0..n /\ (j + (k + 1)) - 1 = j + k /\ j + (k + 1) # 0
      BY <1>1
    <3>2. up[j + k] = up[j]
      BY <2>2, <3>1
    <3>3. up[j + (k + 1)] = ParentOf(rows, up[(j + (k + 1)) - 1])
      BY <1>2, <3>1
    <3> QED BY <1>6, <3>1, <3>2, <3>3 DEF ParentOf
  <2> HIDE DEF T
  <2>3. n - j \in Nat /\ j + (n - j) = n /\ n \in 0..n
    BY <1>1
  <2>4. n - j \in T
    BY <2>1, <2>2, <2>3, SetInduction
  <2>5. up[n] = up[j]
    BY <2>3, <2>4 DEF T
  <2> QED BY <1>6, <2>5
<1>7. ASSUME up[n] \in Ids(rows)
      PROVE  \E k \in 0..n : k < n /\ up[k] = up[n]
  <2> DEFINE f == [k \in 0..n |-> up[k]]
  <2>1. \A k \in 0..n : up[k] \in Ids(rows)
    BY <1>6, <1>7
  <2>2. f \in [0..n -> Ids(rows)]
    BY <2>1
  <2>3. IsFiniteSet(0..n) /\ Cardinality(0..n) = n + 1
    BY <1>1, FS_Interval
  <2>4. IsFiniteSet(Ids(rows)) /\ Cardinality(Ids(rows)) < n + 1
    BY <1>1, IdsFinite
  <2>5. PICK x, y \in 0..n : x # y /\ f[x] = f[y]
    <3> HIDE DEF f
    <3> QED BY <2>2, <2>3, <2>4, FS_PigeonHole
  <2>6. \E i, j \in 0..n : i < j /\ up[i] = up[j]
    BY <1>1, <2>5
  <2>7. PICK i, j \in 0..n : i < j /\ up[i] = up[j]
    BY <2>6
  <2>8. /\ n - j \in Nat /\ i + (n - j) \in 0..n /\ j + (n - j) \in 0..n
        /\ j + (n - j) = n /\ i + (n - j) < n
    BY <1>1, <2>7
  <2>9. up[i + (n - j)] = up[j + (n - j)]
    BY <1>3, <2>7, <2>8
  <2> QED BY <2>8, <2>9
<1>8. ASSUME NEW a \in Lineage(rows, id) \cap Ids(rows)
      PROVE  RowOf(rows, a).parent \in Lineage(rows, id)
  <2>1. PICK k \in 0..n : a = up[k]
    BY <1>2
  <2>2. CASE k < n
    BY <1>5, <2>1, <2>2
  <2>3. CASE ~(k < n)
    <3>1. k = n
      BY <1>1, <2>3
    <3>2. PICK j \in 0..n : j < n /\ up[j] = up[n]
      BY <1>7, <2>1, <3>1
    <3> QED BY <1>5, <2>1, <3>1, <3>2
  <2> QED BY <2>2, <2>3
<1> QED BY <1>4, <1>8

\* What holds id and is closed under parents holds the lineage; only ids of the lineage need be looked at.
LEMMA LineageLeast ==
    ASSUME NEW S, NEW rows \in Seq(S), NEW id, NEW T, id \in T,
           \A a \in T \cap Ids(rows) : a \in Lineage(rows, id) => RowOf(rows, a).parent \in T
    PROVE  Lineage(rows, id) \subseteq T
<1> DEFINE up == Chain(rows, id)
           n == Len(rows)
           K == {k \in Nat : k \in 0..n => up[k] \in T}
<1>1. n \in Nat
  BY SequenceElements
<1>2. /\ up[0] = id
      /\ \A k \in 0..n : k # 0 => up[k] = ParentOf(rows, up[k-1])
      /\ \A a : a \in Lineage(rows, id) <=> \E k \in 0..n : a = up[k]
  BY <1>1, ChainSteps
<1> HIDE DEF up
<1>3. 0 \in K
  BY <1>2
<1>4. ASSUME NEW k \in Nat, k \in K PROVE k + 1 \in K
  <2> SUFFICES ASSUME k + 1 \in 0..n PROVE up[k + 1] \in T
    OBVIOUS
  <2>1. k \in 0..n /\ (k + 1) - 1 = k /\ k + 1 # 0
    BY <1>1
  <2>2. up[k] \in T /\ up[k] \in Lineage(rows, id) /\ up[k + 1] = ParentOf(rows, up[k])
    BY <1>2, <1>4, <2>1
  <2> QED BY <2>2 DEF ParentOf
<1> HIDE DEF K
<1>5. Nat \subseteq K
  BY <1>3, <1>4, SetInduction
<1>6. \A k \in 0..n : up[k] \in T
  BY <1>1, <1>5 DEF K
<1> QED BY <1>2, <1>6

\* The lineage of a row is its id and its parent's lineage.
LEMMA LineageStep ==
    ASSUME NEW S, NEW rows \in Seq(S), NEW id
    PROVE  Lineage(rows, id) = IF id \in Ids(rows) THEN {id} \cup Lineage(rows, RowOf(rows, id).parent) ELSE {id}
<1>1. CASE id \notin Ids(rows)
  <2>1. Lineage(rows, id) \subseteq {id}
    BY <1>1, LineageLeast
  <2> QED BY <1>1, <2>1, LineageClosed
<1>2. CASE id \in Ids(rows)
  <2> DEFINE p == RowOf(rows, id).parent
  <2>1. p \in Lineage(rows, id) /\ id \in Lineage(rows, id)
    BY <1>2, LineageClosed
  <2>2. Lineage(rows, p) \subseteq Lineage(rows, id)
    BY <2>1, LineageClosed, LineageLeast
  <2> DEFINE T == {id} \cup Lineage(rows, p)
  <2>3. id \in T /\ \A a \in T \cap Ids(rows) : RowOf(rows, a).parent \in T
    BY LineageClosed
  <2>4. Lineage(rows, id) \subseteq T
    <3> HIDE DEF T
    <3> QED BY <2>3, LineageLeast
  <2> QED BY <1>2, <2>1, <2>2, <2>4
<1> QED BY <1>1, <1>2

-------------------------------------------------------------------------------
(***************************************************************************)
(* The shape of a page: a section is at the root or in one that is, which  *)
(* is not of rich text; a block is below a block or a section of rich      *)
(* text.                                                                   *)
(***************************************************************************)
PageShaped(rows) ==
    \A r \in ToSet(rows) :
        /\ ~IsRichFamily(r) /\ r.parent # 0 =>
              \E p \in ToSet(rows) : p.id = r.parent /\ ~IsRichFamily(p) /\ p.parent = 0 /\ p.kind # "rich-text"
        /\ IsRichFamily(r) =>
              /\ r.kind # "rich-text"
              /\ \E p \in ToSet(rows) : p.id = r.parent /\ (IsRichFamily(p) \/ p.kind = "rich-text")

ShapedRows(S, rows) == RowSet(S) /\ rows \in Seq(S) /\ DistinctIds(rows) /\ PageShaped(rows)

\* What a page of this shape has of rows and ids.
LEMMA ShapedFacts ==
    ASSUME NEW S, NEW rows, ShapedRows(S, rows)
    PROVE  /\ rows \in Seq(S) /\ DistinctIds(rows) /\ 0 \notin Ids(rows)
           /\ \A r \in ToSet(rows) : r \in S /\ r.id \in Ids(rows) /\ r.id # 0 /\ RowOf(rows, r.id) = r
           /\ \A a \in Ids(rows) : RowOf(rows, a) \in ToSet(rows) /\ RowOf(rows, a).id = a
<1>1. RowSet(S) /\ rows \in Seq(S) /\ DistinctIds(rows)
  BY DEF ShapedRows
<1>2. \A r \in ToSet(rows) : r \in S /\ r.id \in Ids(rows) /\ r.id # 0 /\ RowOf(rows, r.id) = r
  <2> TAKE r \in ToSet(rows)
  <2>1. r \in S
    BY <1>1, SequenceElements
  <2> QED BY <1>1, <2>1, RowFacts, RowOfRow
<1>3. \A a \in Ids(rows) : RowOf(rows, a) \in ToSet(rows) /\ RowOf(rows, a).id = a
  BY RowOfId
<1> QED BY <1>1, <1>2, <1>3

\* The lineage of a section holds sections only and ends at 0.
LEMMA SectionLineage ==
    ASSUME NEW S, NEW rows, ShapedRows(S, rows), NEW r \in ToSet(rows), ~IsRichFamily(r)
    PROVE  /\ 0 \in Lineage(rows, r.id)
           /\ \A a \in Lineage(rows, r.id) : a = 0 \/ a = r.id \/ (a = r.parent /\ a # 0)
           /\ \A a \in Lineage(rows, r.id) \cap Ids(rows) :
                 ~IsRichFamily(RowOf(rows, a)) /\ (a # r.id => RowOf(rows, a).kind # "rich-text")
           /\ IsSection(rows, r.id)
<1> DEFINE T == {0, r.id, r.parent}
<1>1. /\ rows \in Seq(S) /\ 0 \notin Ids(rows)
      /\ \A x \in ToSet(rows) : x.id \in Ids(rows) /\ RowOf(rows, x.id) = x
  BY ShapedFacts
<1>2. r.parent # 0 => /\ r.parent \in Ids(rows) /\ ~IsRichFamily(RowOf(rows, r.parent))
                     /\ RowOf(rows, r.parent).parent = 0 /\ RowOf(rows, r.parent).kind # "rich-text"
  BY <1>1 DEF ShapedRows, PageShaped
<1>3. Lineage(rows, r.id) \subseteq T
  <2>1. r.id \in T /\ \A a \in T \cap Ids(rows) : RowOf(rows, a).parent \in T
    BY <1>1, <1>2
  <2> HIDE DEF T
  <2> QED BY <1>1, <2>1, LineageLeast
<1>4. r.id \in Lineage(rows, r.id) /\ r.parent \in Lineage(rows, r.id)
  BY <1>1, LineageClosed
<1>5. 0 \in Lineage(rows, r.id)
  BY <1>1, <1>2, <1>4, LineageClosed
<1>6. \A a \in Lineage(rows, r.id) \cap Ids(rows) :
         ~IsRichFamily(RowOf(rows, a)) /\ (a # r.id => RowOf(rows, a).kind # "rich-text")
  BY <1>1, <1>2, <1>3
<1>7. IsSection(rows, r.id)
  BY <1>6 DEF IsSection, IsRichFamily
<1> QED BY <1>3, <1>5, <1>6, <1>7

\* The ids of blocks.
BlockIds(rows) == {x.id : x \in {x \in ToSet(rows) : IsRichFamily(x)}}

\* A block that ends at a root has a section of rich text above it.
LEMMA BlockLineage ==
    ASSUME NEW S, NEW rows, ShapedRows(S, rows), NEW r \in ToSet(rows), IsRichFamily(r), 0 \in Lineage(rows, r.id)
    PROVE  /\ ~IsSection(rows, r.id)
           /\ \E s \in ToSet(rows) : s.kind = "rich-text" /\ ~IsRichFamily(s) /\ s.id \in Lineage(rows, r.id)
<1>1. /\ rows \in Seq(S) /\ 0 \notin Ids(rows)
      /\ \A x \in ToSet(rows) : x.id \in Ids(rows) /\ RowOf(rows, x.id) = x /\ x.id # 0
  BY ShapedFacts
<1>2. r.id \in BlockIds(rows) /\ 0 \notin BlockIds(rows)
  BY <1>1 DEF BlockIds
<1>3. PICK a \in BlockIds(rows) \cap Ids(rows) : a \in Lineage(rows, r.id) /\ RowOf(rows, a).parent \notin BlockIds(rows)
  BY <1>1, <1>2, LineageLeast
<1>4. PICK x \in ToSet(rows) : IsRichFamily(x) /\ x.id = a
  BY <1>3 DEF BlockIds
<1>5. PICK p \in ToSet(rows) : p.id = x.parent /\ (IsRichFamily(p) \/ p.kind = "rich-text")
  BY <1>4 DEF ShapedRows, PageShaped
<1>6. RowOf(rows, a) = x /\ p.id \notin BlockIds(rows)
  BY <1>1, <1>3, <1>4, <1>5
<1>7. ~IsRichFamily(p)
  BY <1>6 DEF BlockIds
<1>8. p.id \in Lineage(rows, r.id)
  BY <1>1, <1>3, <1>5, <1>6, LineageClosed
<1>9. ~IsSection(rows, r.id)
  BY <1>1, <1>3, <1>4, <1>5, <1>6, <1>7 DEF IsSection, IsRichFamily
<1> QED BY <1>5, <1>7, <1>8, <1>9

\* No block is below two sections of rich text.
LEMMA BlockOwner ==
    ASSUME NEW S, NEW rows, ShapedRows(S, rows), NEW r \in ToSet(rows), IsRichFamily(r),
           NEW s \in ToSet(rows), s.kind = "rich-text", s.id \in Lineage(rows, r.id),
           NEW t \in ToSet(rows), t.kind = "rich-text", t.id \in Lineage(rows, r.id)
    PROVE  s = t
<1>1. /\ rows \in Seq(S) /\ 0 \notin Ids(rows)
      /\ \A x \in ToSet(rows) : x.id \in Ids(rows) /\ RowOf(rows, x.id) = x /\ x.id # 0
  BY ShapedFacts
<1>2. ~IsRichFamily(s) /\ ~IsRichFamily(t)
  BY DEF ShapedRows, PageShaped
<1> DEFINE Below == {x.id : x \in {x \in ToSet(rows) : IsRichFamily(x) /\ s.id \in Lineage(rows, x.id)}}
           T == Below \cup {s.id, s.parent, 0}
<1>3. r.id \in T
  OBVIOUS
<1>4. ASSUME NEW a \in Below PROVE RowOf(rows, a).parent \in T
  <2>1. PICK x \in ToSet(rows) : IsRichFamily(x) /\ s.id \in Lineage(rows, x.id) /\ x.id = a
    BY <1>4
  <2>2. RowOf(rows, a) = x /\ x.id \in Ids(rows)
    BY <1>1, <2>1
  <2>3. s.id # x.id
    BY <1>1, <1>2, <2>1
  <2>4. s.id \in Lineage(rows, x.parent)
    BY <1>1, <2>1, <2>2, <2>3, LineageStep
  <2>5. PICK p \in ToSet(rows) : p.id = x.parent /\ (IsRichFamily(p) \/ p.kind = "rich-text")
    BY <2>1 DEF ShapedRows, PageShaped
  <2>6. CASE IsRichFamily(p)
    BY <2>2, <2>4, <2>5, <2>6
  <2>7. CASE ~IsRichFamily(p)
    <3>1. s.id \in Lineage(rows, p.id) /\ s.id \in Ids(rows) /\ RowOf(rows, s.id) = s
      BY <1>1, <2>4, <2>5
    <3>2. s.id = p.id
      BY <2>7, <3>1, SectionLineage
    <3> QED BY <2>2, <2>5, <3>2
  <2> QED BY <2>6, <2>7
<1>5. \A a \in {s.id, s.parent, 0} \cap Ids(rows) : RowOf(rows, a).parent \in {s.id, s.parent, 0}
  <2>1. s.parent # 0 => s.parent \in Ids(rows) /\ RowOf(rows, s.parent).parent = 0
    BY <1>1, <1>2 DEF ShapedRows, PageShaped
  <2> QED BY <1>1, <2>1
<1>6. Lineage(rows, r.id) \subseteq T
  <2>1. \A a \in T \cap Ids(rows) : RowOf(rows, a).parent \in T
    BY <1>4, <1>5
  <2> HIDE DEF T
  <2> QED BY <1>1, <1>3, <2>1, LineageLeast
<1>7. t.id \notin Below
  <2> SUFFICES ASSUME NEW x \in ToSet(rows), IsRichFamily(x), x.id = t.id PROVE FALSE
    OBVIOUS
  <2> QED BY <1>1, <1>2
<1>8. t.id # s.parent
  <2>1. s.parent # 0 => s.parent \in Ids(rows) /\ RowOf(rows, s.parent).kind # "rich-text"
    BY <1>1, <1>2 DEF ShapedRows, PageShaped
  <2> QED BY <1>1, <2>1
<1>9. t.id = s.id
  <2> HIDE DEF Below
  <2> QED BY <1>1, <1>6, <1>7, <1>8
<1> QED BY <1>1, <1>9

-------------------------------------------------------------------------------
(***************************************************************************)
(* On a page of this shape both runtimes tell blocks from sections alike,  *)
(* and find the same blocks in a section.                                  *)
(***************************************************************************)
LEMMA TsRowsElements ==
    ASSUME NEW S, NEW rows \in Seq(S)
    PROVE  /\ TsSectionRows(rows) \in Seq(S) /\ TsRichRows(rows) \in Seq(S)
           /\ \A x : x \in ToSet(TsSectionRows(rows)) <=> x \in ToSet(rows) /\ ~IsRichFamily(x)
           /\ \A x : x \in ToSet(TsRichRows(rows)) <=> x \in ToSet(rows) /\ IsRichFamily(x)
           /\ DistinctIds(rows) => DistinctIds(TsSectionRows(rows)) /\ DistinctIds(TsRichRows(rows))
<1> DEFINE T == {x \in ToSet(rows) : IsRichFamily(x)}
           U == {x \in ToSet(rows) : ~IsRichFamily(x)}
           rich == [i \in DOMAIN rows |-> IF rows[i] \in T THEN <<rows[i]>> ELSE <<>>]
           sections == [i \in DOMAIN rows |-> IF rows[i] \in U THEN <<rows[i]>> ELSE <<>>]
<1>1. \A i \in DOMAIN rows : rows[i] \in ToSet(rows)
  BY DEF ToSet
<1>2. TsRichRows(rows) = FlattenSeq(rich)
  <2>1. rich = [i \in DOMAIN rows |-> IF IsRichFamily(rows[i]) THEN <<rows[i]>> ELSE <<>>]
    BY <1>1
  <2> QED BY <2>1 DEF TsRichRows, Where
<1>3. TsSectionRows(rows) = FlattenSeq(sections)
  <2>1. sections = [i \in DOMAIN rows |-> IF ~IsRichFamily(rows[i]) THEN <<rows[i]>> ELSE <<>>]
    BY <1>1
  <2> QED BY <2>1 DEF TsSectionRows, Where
<1>4. /\ FlattenSeq(rich) \in Seq(S)
      /\ \A x : x \in ToSet(FlattenSeq(rich)) <=> x \in ToSet(rows) /\ x \in T
      /\ DistinctIds(rows) => DistinctIds(FlattenSeq(rich))
  <2> HIDE DEF T
  <2> QED BY Filtered
<1>5. /\ FlattenSeq(sections) \in Seq(S)
      /\ \A x : x \in ToSet(FlattenSeq(sections)) <=> x \in ToSet(rows) /\ x \in U
      /\ DistinctIds(rows) => DistinctIds(FlattenSeq(sections))
  <2> HIDE DEF U
  <2> QED BY Filtered
<1> HIDE DEF rich, sections
<1> QED BY <1>2, <1>3, <1>4, <1>5

\* The two runtimes' section rows and rich-text rows are the same.
LEMMA TsRows ==
    ASSUME NEW S, NEW rows, ShapedRows(S, rows), Grounded(rows)
    PROVE  TsSectionRows(rows) = SectionRows(rows) /\ TsRichRows(rows) = RichTextRows(rows)
<1>1. \A i \in DOMAIN rows : IsSection(rows, rows[i].id) <=> ~IsRichFamily(rows[i])
  <2> TAKE i \in DOMAIN rows
  <2>1. rows[i] \in ToSet(rows) /\ rows[i].id \in Ids(rows)
    BY DEF ToSet, Ids
  <2>2. 0 \in Lineage(rows, rows[i].id)
    BY <2>1 DEF Grounded
  <2> QED BY <2>1, <2>2, SectionLineage, BlockLineage
<1>2. [i \in DOMAIN rows |-> IF ~IsRichFamily(rows[i]) THEN <<rows[i]>> ELSE <<>>]
        = [i \in DOMAIN rows |-> IF IsSection(rows, rows[i].id) THEN <<rows[i]>> ELSE <<>>]
  BY <1>1
<1>3. [i \in DOMAIN rows |-> IF IsRichFamily(rows[i]) THEN <<rows[i]>> ELSE <<>>]
        = [i \in DOMAIN rows |-> IF ~IsSection(rows, rows[i].id) THEN <<rows[i]>> ELSE <<>>]
  BY <1>1
<1>4. TsSectionRows(rows) = SectionRows(rows)
  BY <1>2 DEF TsSectionRows, SectionRows, Where
<1>5. TsRichRows(rows) = RichTextRows(rows)
  BY <1>3 DEF TsRichRows, RichTextRows, Where
<1> QED BY <1>4, <1>5

\* Followed through rich-text rows only, a lineage reaches the same section.
LEMMA TsLineage ==
    ASSUME NEW S, NEW rows, ShapedRows(S, rows), NEW r \in ToSet(rows), IsRichFamily(r),
           NEW s \in ToSet(rows), s.kind = "rich-text"
    PROVE  s.id \in Lineage(TsRichRows(rows), r.id) <=> s.id \in Lineage(rows, r.id)
<1> DEFINE rich == TsRichRows(rows)
           L == Lineage(rich, r.id)
<1>1. /\ rows \in Seq(S) /\ 0 \notin Ids(rows) /\ DistinctIds(rows)
      /\ \A x \in ToSet(rows) : x.id \in Ids(rows) /\ RowOf(rows, x.id) = x /\ x.id # 0
  BY ShapedFacts
<1>2. /\ rich \in Seq(S) /\ DistinctIds(rich)
      /\ \A x : x \in ToSet(rich) <=> x \in ToSet(rows) /\ IsRichFamily(x)
  BY <1>1, TsRowsElements
<1> HIDE DEF rich
<1>3. \A x \in ToSet(rich) : x.id \in Ids(rich) /\ RowOf(rich, x.id) = x
  BY <1>2, RowOfRow
<1>4. \A a \in Ids(rich) : a \in Ids(rows) /\ RowOf(rich, a) = RowOf(rows, a) /\ RowOf(rows, a) \in ToSet(rich)
  <2> TAKE a \in Ids(rich)
  <2>1. RowOf(rich, a) \in ToSet(rich) /\ RowOf(rich, a).id = a
    BY RowOfId
  <2> QED BY <1>1, <1>2, <2>1
<1>5. ~IsRichFamily(s) /\ s.id \notin Ids(rich)
  <2>1. ~IsRichFamily(s)
    BY DEF ShapedRows, PageShaped
  <2> QED BY <1>1, <1>2, <1>4, <2>1
<1>6. r.id \in L /\ \A a \in L \cap Ids(rich) : RowOf(rows, a).parent \in L
  BY <1>2, <1>4, LineageClosed
<1>7. L \subseteq Lineage(rows, r.id)
  <2>1. /\ r.id \in Lineage(rows, r.id)
        /\ \A a \in Lineage(rows, r.id) \cap Ids(rich) : RowOf(rich, a).parent \in Lineage(rows, r.id)
    BY <1>1, <1>4, LineageClosed
  <2> QED BY <1>2, <2>1, LineageLeast
<1>8. ASSUME s.id \in Lineage(rows, r.id) PROVE s.id \in L
  <2>1. \E e \in L : e \notin Ids(rich)
    <3> SUFFICES ASSUME L \subseteq Ids(rich) PROVE FALSE
      OBVIOUS
    <3>1. Lineage(rows, r.id) \subseteq L
      <4> HIDE DEF L
      <4> QED BY <1>1, <1>6, LineageLeast
    <3> QED BY <1>5, <1>8, <3>1
  <2>2. PICK e \in L : e \notin Ids(rich)
    BY <2>1
  <2> DEFINE T == Ids(rich) \cup {p.id : p \in {p \in ToSet(rows) : p.kind = "rich-text"}}
  <2>3. ASSUME NEW a \in Ids(rich) PROVE RowOf(rich, a).parent \in T
    <3> DEFINE x == RowOf(rows, a)
    <3>1. x \in ToSet(rows) /\ IsRichFamily(x) /\ RowOf(rich, a) = x
      BY <1>2, <1>4
    <3> HIDE DEF x
    <3>2. PICK p \in ToSet(rows) : p.id = x.parent /\ (IsRichFamily(p) \/ p.kind = "rich-text")
      BY <3>1 DEF ShapedRows, PageShaped
    <3> QED BY <1>2, <1>3, <3>1, <3>2
  <2>4. r.id \in T
    BY <1>2, <1>3
  <2>5. L \subseteq T
    <3>1. \A a \in T \cap Ids(rich) : RowOf(rich, a).parent \in T
      BY <2>3
    <3> HIDE DEF T
    <3> QED BY <1>2, <2>4, <3>1, LineageLeast
  <2>6. PICK p \in ToSet(rows) : p.kind = "rich-text" /\ p.id = e
    BY <2>2, <2>5
  <2>7. p.id \in Lineage(rows, r.id)
    BY <1>7, <2>2, <2>6
  <2>8. p = s
    BY <1>8, <2>6, <2>7, BlockOwner
  <2> QED BY <2>2, <2>6, <2>8
<1> QED BY <1>7, <1>8 DEF rich

\* Both runtimes find the same blocks below a section.
LEMMA TsBlocks ==
    ASSUME NEW S, NEW rows, ShapedRows(S, rows), Grounded(rows), NEW s \in ToSet(rows), s.kind = "rich-text"
    PROVE  TsDescendants(rows, s.id) = Descendants(rows, s.id)
<1> DEFINE rich == RichTextRows(rows)
<1>1. rows \in Seq(S)
  BY ShapedFacts
<1>2. TsRichRows(rows) = rich
  BY TsRows
<1>3. \A i \in DOMAIN rich : s.id \in Lineage(rich, rich[i].id) <=> s.id \in Lineage(rows, rich[i].id)
  <2> TAKE i \in DOMAIN rich
  <2>1. rich[i] \in ToSet(TsRichRows(rows))
    BY <1>2 DEF ToSet
  <2>2. rich[i] \in ToSet(rows) /\ IsRichFamily(rich[i])
    BY <1>1, <2>1, TsRowsElements
  <2> HIDE DEF rich
  <2>3. s.id \in Lineage(TsRichRows(rows), rich[i].id) <=> s.id \in Lineage(rows, rich[i].id)
    BY <2>2, TsLineage
  <2> QED BY <1>2, <2>3
<1> HIDE DEF rich
<1>4. [i \in DOMAIN rich |-> IF s.id \in Lineage(rich, rich[i].id) THEN <<rich[i]>> ELSE <<>>]
        = [i \in DOMAIN rich |-> IF s.id \in Lineage(rows, rich[i].id) THEN <<rich[i]>> ELSE <<>>]
  BY <1>3
<1> DEFINE below == FlattenSeq([i \in DOMAIN rich |-> IF s.id \in Lineage(rows, rich[i].id) THEN <<rich[i]>> ELSE <<>>])
<1>5. below = Where(rich, LAMBDA r : s.id \in Lineage(rows, r.id))
  BY DEF Where
<1>6. below = Where(rich, LAMBDA r : s.id \in Lineage(rich, r.id))
  BY <1>4 DEF Where
<1>7. Descendants(rows, s.id) = RootedRows(s.id, below)
  BY <1>5 DEF Descendants, RootedRows, Rooted, AsRoot, rich
<1>8. TsDescendants(rows, s.id) = RootedRows(s.id, below)
  <2>1. rich = TsRichRows(rows)
    BY <1>2 DEF rich
  <2> HIDE DEF below
  <2> QED BY <1>6, <2>1 DEF TsDescendants, RootedRows, Rooted, AsRoot
<1> QED BY <1>7, <1>8

-------------------------------------------------------------------------------
(***************************************************************************)
(* Lengths.                                                                *)
(***************************************************************************)
\* A function that tells the elements of a sequence apart has as many values.
LEMMA Tagged ==
    ASSUME NEW S, NEW s \in Seq(S), NEW t, DOMAIN t = DOMAIN s, t = [i \in DOMAIN t |-> t[i]]
    PROVE  Cardinality({t[i] : i \in DOMAIN s}) = Len(s) <=> \A i, j \in DOMAIN s : t[i] = t[j] => i = j
<1> DEFINE T == {t[i] : i \in DOMAIN s}
<1>1. Len(s) \in Nat /\ DOMAIN s = 1..Len(s)
  BY SequenceElements
<1>2. t \in [1..Len(s) -> T]
  BY <1>1
<1>3. t \in Seq(T) /\ Len(t) = Len(s)
  <2> HIDE DEF T
  <2>1. t \in Seq(T)
    BY <1>1, <1>2, SeqDef
  <2> QED BY <1>1, <1>2, <2>1, LenProperties
<1>4. ToSet(t) = T
  BY DEF ToSet
<1>5. IsInjective(t) <=> Cardinality(T) = Len(s)
  <2> HIDE DEF T
  <2> QED BY <1>3, <1>4, InjectiveLength
<1> QED BY <1>5 DEF IsInjective

\* Rows with distinct ids among those of others are no more than these.
LEMMA ShorterBelow ==
    ASSUME NEW S, NEW T, NEW s \in Seq(S), NEW t \in Seq(T), DistinctIds(s), Ids(s) \subseteq Ids(t)
    PROVE  Len(s) <= Len(t)
<1>1. Cardinality(Ids(s)) = Len(s)
  BY UniqueIdsDistinct DEF UniqueIds
<1>2. IsFiniteSet(Ids(t)) /\ Cardinality(Ids(t)) \in Nat /\ Cardinality(Ids(t)) <= Len(t) /\ Len(t) \in Nat
  BY IdsFinite, SequenceElements
<1>3. Cardinality(Ids(s)) <= Cardinality(Ids(t)) /\ Cardinality(Ids(s)) \in Nat
  BY <1>2, FS_Subset, FS_CardinalityType
<1> QED BY <1>1, <1>2, <1>3

\* A section has no more blocks than there are rows.
LEMMA BlocksLength ==
    ASSUME NEW S, RowSet(S), NEW s \in Seq(S), DistinctIds(s), NEW section
    PROVE  Len(Descendants(s, section)) <= Len(s)
<1> DEFINE below == Descendants(s, section)
<1>1. below \in Seq(S) /\ DistinctIds(below)
  BY DescendantsElements
<1>2. \A id \in Ids(below) : id \in Ids(s)
  <2> TAKE id \in Ids(below)
  <2>1. PICK x \in ToSet(below) : x.id = id
    BY IdsOfRows
  <2>2. PICK r : BlockOf(s, section, r) /\ x = Rooted(section, r)
    BY DescendantsElements
  <2>3. r \in ToSet(s) /\ r \in S
    BY <2>2, SequenceElements DEF BlockOf
  <2>4. x.id = r.id
    BY <2>2, <2>3, RowFacts DEF Rooted
  <2> QED BY <2>1, <2>3, <2>4, IdsOfRows
<1> HIDE DEF below
<1> QED BY <1>1, <1>2, ShorterBelow DEF below


-------------------------------------------------------------------------------
(***************************************************************************)
(* Types.                                                                  *)
(***************************************************************************)

PartialFunctions(A, B) == UNION {[D -> B] : D \in SUBSET A}

AnyKind == Kinds \cap (PageKinds \cup RichKinds)

Payloads == [case : AnyKind, settings : BOOLEAN, columns : SUBSET Columns, media : {"none", "active", "missing"}]

Texts == {"text", "new", ""}

Values == [case : PageKinds \cup RichKinds, text : Texts]

Block == [id : Spellings, parent : Uuid \cup {0}, index : UInt32, shared : Payloads]

Node == [id : Spellings, parent : Uuid \cup {0}, column : Columns \cup {0, NotAColumn}, index : UInt32,
         shared : Payloads, blocks : Seq(Block)]

BlockValues == PartialFunctions(Spellings, Values)

SectionValues == [case : PageKinds \cup RichKinds, text : Texts, blocks : BlockValues]

PageValues == PartialFunctions(Spellings, SectionValues)

Page == [nodes : Seq(Node), overlays : PartialFunctions(Locales, PageValues)]

RowSlots == {Sections, Content} \cup {Column(c) : c \in Columns \cup {NotAColumn}}

Row == [id : Uuid, parent : Uuid \cup {0}, slot : RowSlots, pos : Int32, kind : AnyKind,
        shared : Payloads, locales : PartialFunctions(Locales, Values)]

\* An index and the position it is stored as are one another's.
LEMMA Conversions ==
    /\ UInt32 \subseteq Nat /\ Int32 \subseteq Int
    /\ \A n \in UInt32 : int32(n) \in Int32 /\ uint32(int32(n)) = n /\ (int32(n) >= 0 <=> n < HalfRange)
    /\ \A p \in Int32 : uint32(p) \in UInt32 /\ int32(uint32(p)) = p
<1>1. HalfRange \in Nat /\ HalfRange > 0
  BY HalfRangeAssumption
<1>2. UInt32 \subseteq Nat /\ Int32 \subseteq Int
  BY <1>1 DEF UInt32, Int32
<1>3. ASSUME NEW n \in UInt32 PROVE int32(n) \in Int32 /\ uint32(int32(n)) = n /\ (int32(n) >= 0 <=> n < HalfRange)
  BY <1>1 DEF UInt32, Int32, int32, uint32
<1>4. ASSUME NEW p \in Int32 PROVE uint32(p) \in UInt32 /\ int32(uint32(p)) = p
  BY <1>1 DEF UInt32, Int32, int32, uint32
<1> QED BY <1>2, <1>3, <1>4

\* What it is to be a partial function from A to B.
LEMMA PartialFunctionOf ==
    ASSUME NEW A, NEW B, NEW f
    PROVE  f \in PartialFunctions(A, B) <=>
             f = [x \in DOMAIN f |-> f[x]] /\ DOMAIN f \subseteq A /\ \A x \in DOMAIN f : f[x] \in B
<1>1. ASSUME f \in PartialFunctions(A, B)
      PROVE  f = [x \in DOMAIN f |-> f[x]] /\ DOMAIN f \subseteq A /\ \A x \in DOMAIN f : f[x] \in B
  <2>1. PICK D \in SUBSET A : f \in [D -> B]
    BY <1>1 DEF PartialFunctions
  <2> QED BY <2>1
<1>2. ASSUME f = [x \in DOMAIN f |-> f[x]], DOMAIN f \subseteq A, \A x \in DOMAIN f : f[x] \in B
      PROVE  f \in PartialFunctions(A, B)
  <2>1. f \in [DOMAIN f -> B]
    BY <1>2
  <2> QED BY <1>2, <2>1 DEF PartialFunctions
<1> QED BY <1>1, <1>2

\* The values of a page in a locale, by section and by block.
LEMMA ValuesTyped ==
    /\ \A f \in BlockValues : DOMAIN f \subseteq Spellings /\ \A id \in DOMAIN f : f[id] \in Values
    /\ \A f \in PageValues : DOMAIN f \subseteq Spellings /\ \A id \in DOMAIN f : f[id] \in SectionValues
<1>1. \A f \in BlockValues : DOMAIN f \subseteq Spellings /\ \A id \in DOMAIN f : f[id] \in Values
  BY PartialFunctionOf DEF BlockValues
<1>2. \A f \in PageValues : DOMAIN f \subseteq Spellings /\ \A id \in DOMAIN f : f[id] \in SectionValues
  BY PartialFunctionOf DEF PageValues
<1> QED BY <1>1, <1>2

\* The rows of this model are rows as the lemmas on rows take them.
LEMMA RowIsRowSet == RowSet(Row)
<1>1. Row \subseteq AnyRow(AnyKind, Payloads, PartialFunctions(Locales, Values))
  <2>1. RowSlots \subseteq Slots
    BY ColumnsAssumption DEF RowSlots, Slots, NotAColumn
  <2>2. Uuid \subseteq Nat \ {0} /\ Uuid \cup {0} \subseteq Nat
    BY UuidAssumption
  <2> QED BY <2>1, <2>2, Conversions DEF Row, AnyRow
<1>2. \A r \in Row : AsRoot(r) \in Row
  BY DEF Row, AsRoot
<1> QED BY <1>1, <1>2 DEF RowSet

\* A spelling becomes an id in lower case.
LEMMA Spelt ==
    \A s \in Spellings : s \in Int /\ normalizeUUID(s) \in Uuid /\ (s \in Uuid => normalizeUUID(s) = s) /\ s # 0
<1>1. \A s \in Uuid : s \in Nat \ {0} /\ normalizeUUID(s) = s
  BY UuidAssumption DEF normalizeUUID
<1>2. \A s \in {-u : u \in Uuid} : s \in Int /\ normalizeUUID(s) \in Uuid /\ s # 0
  BY UuidAssumption DEF normalizeUUID
<1> QED BY <1>1, <1>2 DEF Spellings

\* An id in lower case stays as it is.
LEMMA StoredIds ==
    /\ \A p \in Uuid \cup {0} : normalizeUUID(p) = p
    /\ \A c \in Columns \cup {0, NotAColumn} : normalizeUUID(c) = c
  BY UuidAssumption, ColumnsAssumption DEF normalizeUUID, NotAColumn

-------------------------------------------------------------------------------
(***************************************************************************)
(* The rows a page is flattened to.                                        *)
(***************************************************************************)
LEMMA NoValuesTyped == NoValues \in BlockValues /\ NoValues \in PageValues
<1>1. NoValues \in [{} -> Values] /\ NoValues \in [{} -> SectionValues]
  BY DEF NoValues
<1>2. {} \in SUBSET Spellings
  OBVIOUS
<1> QED BY <1>1, <1>2 DEF BlockValues, PageValues, PartialFunctions

\* The row of a block as its rich text is flattened.
LEMMA RichRowTyped ==
    ASSUME NEW node \in Block, NEW overlays \in PartialFunctions(Locales, BlockValues)
    PROVE  /\ RichRow(node, overlays) \in Row
           /\ RichRow(node, overlays).slot = Content
           /\ RichRow(node, overlays).id = normalizeUUID(node.id)
           /\ RichRow(node, overlays).parent = node.parent /\ RichRow(node, overlays).pos = int32(node.index)
           /\ RichRow(node, overlays).kind = node.shared.case
           /\ RichRow(node, overlays).shared = node.shared
           /\ DOMAIN RichRow(node, overlays).locales = LocalesWith(overlays, normalizeUUID(node.id))
<1> DEFINE id == normalizeUUID(node.id)
           ls == LocalesWith(overlays, id)
           values == [l \in ls |-> overlays[l][id]]
<1>1. node.id \in Spellings /\ node.parent \in Uuid \cup {0} /\ node.index \in UInt32 /\ node.shared \in Payloads
  BY DEF Block
<1>2. id \in Uuid /\ normalizeUUID(node.parent) = node.parent
  BY <1>1, Spelt, StoredIds
<1>3. DOMAIN overlays \subseteq Locales /\ \A l \in DOMAIN overlays : overlays[l] \in BlockValues
  BY PartialFunctionOf
<1>4. values \in PartialFunctions(Locales, Values)
  <2>1. ls \subseteq Locales
    BY <1>3 DEF LocalesWith
  <2>2. \A l \in ls : overlays[l][id] \in Values
    BY <1>3, ValuesTyped DEF LocalesWith
  <2> HIDE DEF ls
  <2>3. values \in [ls -> Values]
    BY <2>2
  <2> QED BY <2>1, <2>3 DEF PartialFunctions
<1>5. node.shared.case \in AnyKind
  BY <1>1 DEF Payloads
<1>6. RichRow(node, overlays) = [id |-> id, parent |-> node.parent, slot |-> Content, pos |-> int32(node.index),
                                 kind |-> node.shared.case, shared |-> node.shared, locales |-> values]
  BY <1>2 DEF RichRow
<1>7. Content \in RowSlots
  BY DEF RowSlots
<1>8. DOMAIN values = ls
  OBVIOUS
<1>9. int32(node.index) \in Int32
  BY <1>1, Conversions
<1> HIDE DEF id, ls, values
<1> QED BY <1>1, <1>2, <1>4, <1>5, <1>6, <1>7, <1>8, <1>9 DEF Row, id, ls

\* The row of a section.
LEMMA SectionRowTyped ==
    ASSUME NEW node \in Node, NEW overlays \in PartialFunctions(Locales, PageValues)
    PROVE  /\ SectionRow(node, overlays) \in Row
           /\ SectionRow(node, overlays).slot = IF node.column = 0 THEN Sections ELSE Column(node.column)
           /\ SectionRow(node, overlays).id = normalizeUUID(node.id)
           /\ SectionRow(node, overlays).parent = node.parent /\ SectionRow(node, overlays).pos = int32(node.index)
           /\ SectionRow(node, overlays).kind = node.shared.case
           /\ SectionRow(node, overlays).shared = node.shared
           /\ DOMAIN SectionRow(node, overlays).locales = LocalesWith(overlays, normalizeUUID(node.id))
<1> DEFINE id == normalizeUUID(node.id)
           ls == LocalesWith(overlays, id)
           values == [l \in ls |-> [case |-> overlays[l][id].case, text |-> overlays[l][id].text]]
           slot == IF node.column = 0 THEN Sections ELSE Column(node.column)
<1>1. /\ node.id \in Spellings /\ node.parent \in Uuid \cup {0} /\ node.index \in UInt32 /\ node.shared \in Payloads
      /\ node.column \in Columns \cup {0, NotAColumn}
  BY DEF Node
<1>2. id \in Uuid /\ normalizeUUID(node.parent) = node.parent /\ normalizeUUID(node.column) = node.column
  BY <1>1, Spelt, StoredIds
<1>3. DOMAIN overlays \subseteq Locales /\ \A l \in DOMAIN overlays : overlays[l] \in PageValues
  BY PartialFunctionOf
<1>4. values \in PartialFunctions(Locales, Values)
  <2>1. ls \subseteq Locales
    BY <1>3 DEF LocalesWith
  <2>2. \A l \in ls : overlays[l][id] \in SectionValues
    BY <1>3, ValuesTyped DEF LocalesWith
  <2>3. \A l \in ls : [case |-> overlays[l][id].case, text |-> overlays[l][id].text] \in Values
    BY <2>2 DEF Values, SectionValues
  <2> HIDE DEF ls
  <2>4. values \in [ls -> Values]
    BY <2>3
  <2> QED BY <2>1, <2>4 DEF PartialFunctions
<1>5. node.shared.case \in AnyKind
  BY <1>1 DEF Payloads
<1>6. SectionRow(node, overlays) = [id |-> id, parent |-> node.parent, slot |-> slot, pos |-> int32(node.index),
                                    kind |-> node.shared.case, shared |-> node.shared, locales |-> values]
  BY <1>2 DEF SectionRow, SectionSlot
<1>7. slot \in RowSlots
  BY <1>1 DEF RowSlots
<1>8. DOMAIN values = ls
  OBVIOUS
<1> HIDE DEF id, ls, values, slot
<1>9. int32(node.index) \in Int32
  BY <1>1, Conversions
<1>10. SectionRow(node, overlays) \in Row
  BY <1>1, <1>2, <1>4, <1>5, <1>6, <1>7, <1>9 DEF Row
<1> QED BY <1>6, <1>8, <1>10 DEF id, ls, slot

\* The overlays of the rich text of a section are overlays.
LEMMA NestedOverlaysTyped ==
    ASSUME NEW node, NEW overlays \in PartialFunctions(Locales, PageValues)
    PROVE  NestedOverlays(node, overlays) \in PartialFunctions(Locales, BlockValues)
<1> DEFINE id == normalizeUUID(node.id)
           nested(l) == IF id \in DOMAIN overlays[l] /\ overlays[l][id].case = "rich-text"
                        THEN overlays[l][id].blocks ELSE NoValues
<1>1. DOMAIN overlays \subseteq Locales /\ \A l \in DOMAIN overlays : overlays[l] \in PageValues
  BY PartialFunctionOf
<1>2. \A l \in DOMAIN overlays : nested(l) \in BlockValues
  <2> TAKE l \in DOMAIN overlays
  <2>1. id \in DOMAIN overlays[l] => overlays[l][id] \in SectionValues
    BY <1>1, ValuesTyped
  <2> QED BY <2>1, NoValuesTyped DEF SectionValues
<1>3. NestedOverlays(node, overlays) = [l \in DOMAIN overlays |-> nested(l)]
  BY DEF NestedOverlays
<1> HIDE DEF nested, id
<1>4. [l \in DOMAIN overlays |-> nested(l)] \in [DOMAIN overlays -> BlockValues]
  BY <1>2
<1> QED BY <1>1, <1>3, <1>4 DEF PartialFunctions

\* A root of a section's blocks becomes its child.
OwnedRow(id, r) == IF r.parent = 0 THEN [r EXCEPT !.parent = id] ELSE r

\* A row whose section becomes its parent differs in the parent only.
LEMMA OwnedRowTyped ==
    ASSUME NEW id \in Uuid, NEW r \in Row
    PROVE  /\ OwnedRow(id, r) \in Row
           /\ OwnedRow(id, r).id = r.id /\ OwnedRow(id, r).slot = r.slot /\ OwnedRow(id, r).pos = r.pos
           /\ OwnedRow(id, r).kind = r.kind /\ OwnedRow(id, r).shared = r.shared
           /\ OwnedRow(id, r).locales = r.locales
           /\ OwnedRow(id, r).parent = IF r.parent = 0 THEN id ELSE r.parent
  BY DEF OwnedRow, Row

\* The row of the j-th block of a section.
BlockRow(node, overlays, j) ==
    OwnedRow(normalizeUUID(node.id), RichRow(node.blocks[j], NestedOverlays(node, overlays)))

HasBlocks(node) == node.shared.case = "rich-text"

\* The row of a block of a section.
LEMMA BlockRowTyped ==
    ASSUME NEW node \in Node, NEW overlays \in PartialFunctions(Locales, PageValues), NEW j \in DOMAIN node.blocks
    PROVE  /\ node.blocks[j] \in Block
           /\ BlockRow(node, overlays, j) \in Row
           /\ BlockRow(node, overlays, j).slot = Content
           /\ BlockRow(node, overlays, j).id = normalizeUUID(node.blocks[j].id)
           /\ BlockRow(node, overlays, j).parent =
                 IF node.blocks[j].parent = 0 THEN normalizeUUID(node.id) ELSE node.blocks[j].parent
           /\ BlockRow(node, overlays, j).pos = int32(node.blocks[j].index)
           /\ BlockRow(node, overlays, j).kind = node.blocks[j].shared.case
           /\ BlockRow(node, overlays, j).shared = node.blocks[j].shared
           /\ DOMAIN BlockRow(node, overlays, j).locales =
                 LocalesWith(NestedOverlays(node, overlays), normalizeUUID(node.blocks[j].id))
<1>1. node.blocks[j] \in Block
  BY ElementOfSeq, LenProperties DEF Node
<1>2. normalizeUUID(node.id) \in Uuid
  BY Spelt DEF Node
<1>3. NestedOverlays(node, overlays) \in PartialFunctions(Locales, BlockValues)
  BY NestedOverlaysTyped
<1> QED BY <1>1, <1>2, <1>3, RichRowTyped, OwnedRowTyped DEF BlockRow

\* A section is flattened to its row and the rows of its blocks.
LEMMA NodeRowsElements ==
    ASSUME NEW node \in Node, NEW overlays \in PartialFunctions(Locales, PageValues)
    PROVE  /\ NodeRows(node, overlays) \in Seq(Row)
           /\ \A x : x \in ToSet(NodeRows(node, overlays)) <=>
                      \/ x = SectionRow(node, overlays)
                      \/ HasBlocks(node) /\ \E j \in DOMAIN node.blocks : x = BlockRow(node, overlays, j)
           /\ DistinctIds(NodeRows(node, overlays)) <=>
                (HasBlocks(node) =>
                    /\ \A j, k \in DOMAIN node.blocks :
                          BlockRow(node, overlays, j).id = BlockRow(node, overlays, k).id => j = k
                    /\ \A j \in DOMAIN node.blocks :
                          BlockRow(node, overlays, j).id # SectionRow(node, overlays).id)
<1> DEFINE section == SectionRow(node, overlays)
           id == normalizeUUID(node.id)
           nested == RichRows(node.blocks, NestedOverlays(node, overlays))
           owned == IF HasBlocks(node) THEN Owned(nested, id) ELSE <<>>
           first == <<section>>
           n == Len(node.blocks)
<1>1. node.blocks \in Seq(Block) /\ n \in Nat /\ DOMAIN node.blocks = 1..n
  BY SequenceElements DEF Node
<1>2. section \in Row /\ section.id = id
  BY SectionRowTyped
<1>3. NodeRows(node, overlays) = first \o owned
  BY <1>2 DEF NodeRows, HasBlocks
<1>4. DOMAIN Owned(nested, id) = 1..n /\ \A j \in 1..n : Owned(nested, id)[j] = BlockRow(node, overlays, j)
  BY <1>1 DEF Owned, RichRows, BlockRow, OwnedRow
<1>5. \A j \in 1..n : BlockRow(node, overlays, j) \in Row
  BY <1>1, BlockRowTyped
<1>6. Owned(nested, id) = [j \in 1..n |-> Owned(nested, id)[j]]
  BY <1>1 DEF Owned, RichRows
<1>7. Owned(nested, id) \in Seq(Row)
  <2>1. Owned(nested, id) \in [1..n -> Row]
    BY <1>4, <1>5, <1>6
  <2> QED BY <1>1, <2>1, SeqDef
<1>8. first \in Seq(Row) /\ ToSet(first) = {section} /\ DistinctIds(first)
  <2>1. first \in Seq(Row) /\ DOMAIN first = {1} /\ first[1] = section
    BY <1>2
  <2> QED BY <2>1 DEF ToSet, DistinctIds
<1>9. owned \in Seq(Row) /\ \A x : x \in ToSet(owned) <=>
            HasBlocks(node) /\ \E j \in DOMAIN node.blocks : x = BlockRow(node, overlays, j)
  <2>1. CASE HasBlocks(node)
    <3>1. owned = Owned(nested, id)
      BY <2>1
    <3> HIDE DEF owned, nested, id
    <3> QED BY <1>1, <1>4, <1>7, <2>1, <3>1 DEF ToSet
  <2>2. CASE ~HasBlocks(node)
    <3>1. owned = <<>>
      BY <2>2
    <3> HIDE DEF owned
    <3>2. owned \in Seq(Row) /\ ToSet(owned) = {}
      BY <3>1, EmptySeq DEF ToSet
    <3> QED BY <2>2, <3>2
  <2> QED BY <2>1, <2>2
<1>10. HasBlocks(node) => owned = Owned(nested, id)
  OBVIOUS
<1> HIDE DEF section, id, nested, owned, first, n
<1>11. /\ NodeRows(node, overlays) \in Seq(Row)
       /\ \A x : x \in ToSet(NodeRows(node, overlays)) <=>
                  \/ x = section
                  \/ HasBlocks(node) /\ \E j \in DOMAIN node.blocks : x = BlockRow(node, overlays, j)
  BY <1>3, <1>8, <1>9, ConcatElements
<1>12. ASSUME DistinctIds(NodeRows(node, overlays)), HasBlocks(node)
       PROVE  /\ \A j, k \in DOMAIN node.blocks :
                    BlockRow(node, overlays, j).id = BlockRow(node, overlays, k).id => j = k
              /\ \A j \in DOMAIN node.blocks : BlockRow(node, overlays, j).id # section.id
  <2>1. /\ DistinctIds(owned)
        /\ \A x \in ToSet(first), y \in ToSet(owned) : x.id # y.id
    BY <1>3, <1>8, <1>9, <1>12, DistinctConcat
  <2>2. \A j, k \in DOMAIN node.blocks : BlockRow(node, overlays, j).id = BlockRow(node, overlays, k).id => j = k
    BY <1>1, <1>4, <1>10, <1>12, <2>1 DEF DistinctIds
  <2>3. \A j \in DOMAIN node.blocks : BlockRow(node, overlays, j).id # section.id
    BY <1>8, <1>9, <1>12, <2>1
  <2> QED BY <2>2, <2>3
<1>13. ASSUME HasBlocks(node) =>
                /\ \A j, k \in DOMAIN node.blocks :
                      BlockRow(node, overlays, j).id = BlockRow(node, overlays, k).id => j = k
                /\ \A j \in DOMAIN node.blocks : BlockRow(node, overlays, j).id # section.id
       PROVE  DistinctIds(NodeRows(node, overlays))
  <2>1. CASE HasBlocks(node)
    <3>1. DistinctIds(owned)
      BY <1>1, <1>4, <1>10, <1>13, <2>1 DEF DistinctIds
    <3>2. \A x \in ToSet(first), y \in ToSet(owned) : x.id # y.id
      BY <1>8, <1>9, <1>13, <2>1
    <3> QED BY <1>3, <1>8, <1>9, <3>1, <3>2, DistinctConcat
  <2>2. CASE ~HasBlocks(node)
    <3>1. ToSet(owned) = {}
      BY <1>9, <2>2
    <3>2. DistinctIds(owned)
      BY <1>9, <3>1, SequenceElements DEF DistinctIds
    <3> QED BY <1>3, <1>8, <1>9, <3>1, <3>2, DistinctConcat
  <2> QED BY <2>1, <2>2
<1> QED BY <1>11, <1>12, <1>13 DEF section

\* A page is flattened to the rows of its sections and blocks.
LEMMA FlatElements ==
    ASSUME NEW page \in Page
    PROVE  /\ FlattenPageDocumentStorage(page) \in Seq(Row)
           /\ \A x : x \in ToSet(FlattenPageDocumentStorage(page)) <=>
                \E i \in DOMAIN page.nodes :
                   \/ x = SectionRow(page.nodes[i], page.overlays)
                   \/ /\ HasBlocks(page.nodes[i])
                      /\ \E j \in DOMAIN page.nodes[i].blocks : x = BlockRow(page.nodes[i], page.overlays, j)
           /\ DistinctIds(FlattenPageDocumentStorage(page)) <=>
                /\ \A i \in DOMAIN page.nodes : DistinctIds(NodeRows(page.nodes[i], page.overlays))
                /\ \A i, k \in DOMAIN page.nodes :
                     \A x \in ToSet(NodeRows(page.nodes[i], page.overlays)),
                        y \in ToSet(NodeRows(page.nodes[k], page.overlays)) : x.id = y.id => i = k
<1> DEFINE seqs == [i \in DOMAIN page.nodes |-> NodeRows(page.nodes[i], page.overlays)]
           n == Len(page.nodes)
<1>1. page.nodes \in Seq(Node) /\ page.overlays \in PartialFunctions(Locales, PageValues)
  BY DEF Page
<1>2. n \in Nat /\ DOMAIN page.nodes = 1..n /\ \A i \in 1..n : page.nodes[i] \in Node
  BY <1>1, SequenceElements
<1>3. \A i \in 1..n : NodeRows(page.nodes[i], page.overlays) \in Seq(Row)
  BY <1>1, <1>2, NodeRowsElements
<1>4. seqs \in [1..n -> Seq(Row)]
  BY <1>2, <1>3
<1>5. DOMAIN seqs = DOMAIN page.nodes /\ \A i \in DOMAIN page.nodes : seqs[i] = NodeRows(page.nodes[i], page.overlays)
  OBVIOUS
<1>6. FlattenPageDocumentStorage(page) = FlattenSeq(seqs)
  BY DEF FlattenPageDocumentStorage
<1> HIDE DEF seqs, n
<1>7. seqs \in Seq(Seq(Row))
  BY <1>2, <1>4, SeqDef
<1>8. FlattenSeq(seqs) \in Seq(Row) /\ \A x : x \in ToSet(FlattenSeq(seqs)) <=> \E i \in DOMAIN seqs : x \in ToSet(seqs[i])
  BY <1>7, FlattenElements
<1>9. DistinctIds(FlattenSeq(seqs)) <=> DistinctAcross(seqs)
  BY <1>7, FlattenDistinct
<1>10. \A x : x \in ToSet(FlattenSeq(seqs)) <=> \E i \in DOMAIN page.nodes : x \in ToSet(NodeRows(page.nodes[i], page.overlays))
  BY <1>5, <1>8
<1>11. \A i \in DOMAIN page.nodes : \A x :
          x \in ToSet(NodeRows(page.nodes[i], page.overlays)) <=>
             \/ x = SectionRow(page.nodes[i], page.overlays)
             \/ /\ HasBlocks(page.nodes[i])
                /\ \E j \in DOMAIN page.nodes[i].blocks : x = BlockRow(page.nodes[i], page.overlays, j)
  BY <1>1, <1>2, NodeRowsElements
<1>12. DistinctAcross(seqs) <=>
                /\ \A i \in DOMAIN page.nodes : DistinctIds(NodeRows(page.nodes[i], page.overlays))
                /\ \A i, k \in DOMAIN page.nodes :
                     \A x \in ToSet(NodeRows(page.nodes[i], page.overlays)),
                        y \in ToSet(NodeRows(page.nodes[k], page.overlays)) : x.id = y.id => i = k
  BY <1>5 DEF DistinctAcross
<1> QED BY <1>6, <1>8, <1>9, <1>10, <1>11, <1>12

\* What is asked of a stored row whatever the mode.
StoredRow(r) ==
    /\ r \in Row
    /\ RowValid(Source, "page", r, "RESTORE_SNAPSHOT")
    /\ r.slot = Content => r.kind \in RichKinds

StoredRows(s) == s \in Seq(Row) /\ \A r \in ToSet(s) : StoredRow(r)

\* The slots of sections, blocks and columns are told apart.
LEMMA SlotsDiffer ==
    /\ Sections # Content
    /\ \A c : Column(c) # Content /\ Column(c) # Sections /\ Column(c)[1] = "column" /\ Column(c)[2] = c
    /\ Sections[1] # "column" /\ Content[1] # "column"
  BY DEF Sections, Content, Column

\* Whether a row is valid depends on its kind, payload and values; a restore accepts what a write does.
LEMMA RowValidParts ==
    ASSUME NEW source, NEW r, NEW s, NEW mode, s.kind = r.kind, s.shared = r.shared, s.locales = r.locales,
           RowValid(source, "page", r, mode)
    PROVE  RowValid(source, "page", s, mode) /\ RowValid(source, "page", s, "RESTORE_SNAPSHOT")
  BY DEF RowValid, NormalizeContentStorageShared

\* What a valid row has.
LEMMA RowValidFacts ==
    ASSUME NEW source, NEW r, NEW mode, RowValid(source, "page", r, mode)
    PROVE  /\ r.shared.case = r.kind
           /\ source \in DOMAIN r.locales
           /\ r.kind \in RichKinds => ~r.shared.settings /\ r.shared.columns = {}
           /\ r.shared.media = "missing" => mode = "RESTORE_SNAPSHOT"
           /\ \A l \in DOMAIN r.locales : r.locales[l].case = r.kind
           /\ r.kind \in PageKinds \cup RichKinds
  BY DEF RowValid, NormalizeContentStorageShared, NormalizeContentStorageLocale, KindAllowed, ProfileBlocks

\* The rows of an accepted page are rows the store may hold.
LEMMA FlatStored ==
    ASSUME NEW page \in Page, NEW mode, FlattenPageDocumentStorageAccepts(page, mode)
    PROVE  \A x \in ToSet(FlattenPageDocumentStorage(page)) : StoredRow(x) /\ RowValid(Source, "page", x, mode)
<1> SUFFICES ASSUME NEW x \in ToSet(FlattenPageDocumentStorage(page))
             PROVE  StoredRow(x) /\ RowValid(Source, "page", x, mode)
  OBVIOUS
<1>1. page.nodes \in Seq(Node) /\ page.overlays \in PartialFunctions(Locales, PageValues)
  BY DEF Page
<1>2. PICK i \in DOMAIN page.nodes :
         \/ x = SectionRow(page.nodes[i], page.overlays)
         \/ /\ HasBlocks(page.nodes[i])
            /\ \E j \in DOMAIN page.nodes[i].blocks : x = BlockRow(page.nodes[i], page.overlays, j)
  BY FlatElements
<1> DEFINE node == page.nodes[i]
<1>3. node \in Node
  BY <1>1, SequenceElements
<1>4. /\ RowValid(Source, "page", SectionRow(node, page.overlays), mode)
      /\ HasBlocks(node) => FlattenRichTextDocumentStorageAccepts(Source, "page", node.blocks, NestedOverlays(node, page.overlays), mode)
  BY DEF FlattenPageDocumentStorageAccepts, HasBlocks
<1> HIDE DEF node
<1>5. CASE x = SectionRow(node, page.overlays)
  <2>1. x \in Row /\ (x.slot = IF node.column = 0 THEN Sections ELSE Column(node.column))
    BY <1>1, <1>3, <1>5, SectionRowTyped
  <2>3. x.slot # Content
    BY <2>1, SlotsDiffer
  <2>2. RowValid(Source, "page", x, mode) /\ RowValid(Source, "page", x, "RESTORE_SNAPSHOT")
    BY <1>4, <1>5, RowValidParts
  <2> QED BY <2>1, <2>2, <2>3 DEF StoredRow
<1>6. ASSUME HasBlocks(node), NEW j \in DOMAIN node.blocks, x = BlockRow(node, page.overlays, j)
      PROVE  StoredRow(x) /\ RowValid(Source, "page", x, mode)
  <2> DEFINE nested == NestedOverlays(node, page.overlays)
             rich == RichRow(node.blocks[j], nested)
  <2>1. x \in Row
    BY <1>1, <1>3, <1>6, BlockRowTyped
  <2>2. rich.kind \in RichKinds /\ RowValid(Source, "page", rich, mode)
    <3>1. RichRows(node.blocks, nested)[j] = rich /\ j \in DOMAIN RichRows(node.blocks, nested)
      BY DEF RichRows
    <3> QED BY <1>4, <1>6, <3>1 DEF FlattenRichTextDocumentStorageAccepts
  <2>3. node.blocks[j] \in Block /\ nested \in PartialFunctions(Locales, BlockValues) /\ normalizeUUID(node.id) \in Uuid
    BY <1>1, <1>3, BlockRowTyped, NestedOverlaysTyped, Spelt DEF Node
  <2>4. rich \in Row
    BY <2>3, RichRowTyped
  <2>5. x.kind = rich.kind /\ x.shared = rich.shared /\ x.locales = rich.locales
    <3> HIDE DEF rich
    <3>1. x = OwnedRow(normalizeUUID(node.id), rich)
      BY <1>6 DEF BlockRow, rich
    <3> QED BY <3>1, <2>3, <2>4, OwnedRowTyped
  <2> HIDE DEF rich
  <2>6. RowValid(Source, "page", x, mode) /\ RowValid(Source, "page", x, "RESTORE_SNAPSHOT")
    BY <2>2, <2>5, RowValidParts
  <2> QED BY <2>1, <2>2, <2>5, <2>6 DEF StoredRow
<1> QED BY <1>2, <1>5, <1>6 DEF node

-------------------------------------------------------------------------------
(***************************************************************************)
(* The page that is rebuilt.                                               *)
(***************************************************************************)
LEMMA RichNodesTyped ==
    ASSUME NEW s \in Seq(Row), DistinctIds(s)
    PROVE  /\ RichNodes(s) \in Seq(Block)
           /\ DOMAIN RichNodes(s) = DOMAIN InPlacementOrder(s)
           /\ \A k \in DOMAIN RichNodes(s) :
                LET r == InPlacementOrder(s)[k]
                IN RichNodes(s)[k] = [id |-> r.id, parent |-> r.parent, index |-> uint32(r.pos), shared |-> r.shared]
<1> DEFINE ordered == InPlacementOrder(s)
           nodes == RichNodes(s)
<1>1. ordered \in Seq(Row)
  BY RowIsRowSet, PlacementOrder
<1>2. Len(ordered) \in Nat /\ DOMAIN ordered = 1..Len(ordered) /\ \A k \in 1..Len(ordered) : ordered[k] \in Row
  BY <1>1, SequenceElements
<1>3. nodes = [k \in DOMAIN ordered |-> [id |-> ordered[k].id, parent |-> ordered[k].parent,
                                         index |-> uint32(ordered[k].pos), shared |-> ordered[k].shared]]
  BY DEF RichNodes
<1> HIDE DEF ordered, nodes
<1>4. \A k \in 1..Len(ordered) : [id |-> ordered[k].id, parent |-> ordered[k].parent,
                                  index |-> uint32(ordered[k].pos), shared |-> ordered[k].shared] \in Block
  BY <1>2, Conversions DEF Row, Block, Spellings
<1>5. nodes \in [1..Len(ordered) -> Block]
  BY <1>2, <1>3, <1>4
<1>6. nodes \in Seq(Block)
  BY <1>2, <1>5, SeqDef
<1> QED BY <1>3, <1>6 DEF ordered, nodes

\* The overlays a rich text is rebuilt with.
LEMMA RichOverlaysLocales ==
    ASSUME NEW source, NEW s
    PROVE  DOMAIN RichOverlays(source, s) = RowLocales(s) \cup {source}
  BY DEF RichOverlays

\* In a locale they have the values of the rows that have one in it.
LEMMA RichOverlaysAt ==
    ASSUME NEW source, NEW s, NEW l \in DOMAIN RichOverlays(source, s)
    PROVE  /\ DOMAIN RichOverlays(source, s)[l] = IdsIn(s, l)
           /\ \A id \in IdsIn(s, l) : RichOverlays(source, s)[l][id] = RowOf(s, id).locales[l]
<1> DEFINE ls == RowLocales(s) \cup {source}
           values(k) == [id \in IdsIn(s, k) |-> RowOf(s, id).locales[k]]
<1>1. RichOverlays(source, s) = [k \in ls |-> values(k)]
  BY DEF RichOverlays, IdsIn
<1>2. \A k : DOMAIN values(k) = IdsIn(s, k) /\ \A id \in IdsIn(s, k) : values(k)[id] = RowOf(s, id).locales[k]
  OBVIOUS
<1> HIDE DEF ls, values
<1>3. l \in ls
  BY <1>1
<1> QED BY <1>1, <1>2, <1>3

\* They are of the locales there are when the source is one of them.
LEMMA RichOverlaysTyped ==
    ASSUME NEW s \in Seq(Row), DistinctIds(s)
    PROVE  /\ RichOverlays(Source, s) \in PartialFunctions(Locales, BlockValues)
           /\ DOMAIN RichOverlays(Source, s) = RowLocales(s) \cup {Source}
           /\ RowLocales(s) \subseteq Locales
           /\ \A l \in DOMAIN RichOverlays(Source, s) :
                 /\ DOMAIN RichOverlays(Source, s)[l] = IdsIn(s, l)
                 /\ \A id \in IdsIn(s, l) : RichOverlays(Source, s)[l][id] = RowOf(s, id).locales[l]
<1> DEFINE ls == RowLocales(s) \cup {Source}
           values(l) == [id \in IdsIn(s, l) |-> RowOf(s, id).locales[l]]
<1>1. RichOverlays(Source, s) = [l \in ls |-> values(l)]
  BY DEF RichOverlays, IdsIn
<1>2. ToSet(s) \subseteq Row
  BY SequenceElements
<1>3. \A x \in ToSet(s) : DOMAIN x.locales \subseteq Locales /\ \A l \in DOMAIN x.locales : x.locales[l] \in Values
  BY <1>2, PartialFunctionOf DEF Row
<1>4. RowLocales(s) \subseteq Locales /\ ls \subseteq Locales
  BY <1>3 DEF RowLocales, ToSet, Locales
<1>5. \A l : values(l) \in BlockValues
  <2> TAKE l
  <2>1. \A id \in IdsIn(s, l) : id \in Uuid /\ RowOf(s, id).locales[l] \in Values
    <3> TAKE id \in IdsIn(s, l)
    <3>1. id \in Uuid
      BY <1>2, IdsInLocale DEF Row
    <3>2. RowOf(s, id) \in ToSet(s) /\ l \in DOMAIN RowOf(s, id).locales
      <4>1. PICK x \in ToSet(s) : x.id = id /\ l \in DOMAIN x.locales
        BY IdsInLocale
      <4> QED BY <4>1, RowOfRow
    <3> QED BY <1>3, <3>1, <3>2
  <2>2. values(l) \in [IdsIn(s, l) -> Values]
    BY <2>1
  <2>3. IdsIn(s, l) \subseteq Spellings
    BY <2>1 DEF Spellings
  <2> HIDE DEF values
  <2> QED BY <2>2, <2>3 DEF BlockValues, PartialFunctions
<1>6. \A l : DOMAIN values(l) = IdsIn(s, l) /\ \A id \in IdsIn(s, l) : values(l)[id] = RowOf(s, id).locales[l]
  OBVIOUS
<1> HIDE DEF ls, values
<1>7. [l \in ls |-> values(l)] \in [ls -> BlockValues]
  BY <1>5
<1>8. RichOverlays(Source, s) \in PartialFunctions(Locales, BlockValues)
  BY <1>1, <1>4, <1>7 DEF PartialFunctions
<1> QED BY <1>1, <1>4, <1>6, <1>8 DEF ls

\* Blocks have values of their own in sections of rich text only.
RichOwners(page) ==
    \A l \in DOMAIN page.overlays : \A id \in DOMAIN page.overlays[l] :
        DOMAIN page.overlays[l][id].blocks # {} =>
            \E i \in DOMAIN page.nodes : page.nodes[i].id = id /\ HasBlocks(page.nodes[i])

\* What is rebuilt from stored rows is a page.
LEMMA MaterializedTyped ==
    ASSUME NEW s, StoredRows(s), UniqueIds(s)
    PROVE  /\ MaterializePageDocumentStorage(Source, s) \in Page
           /\ RichOwners(MaterializePageDocumentStorage(Source, s))
<1> DEFINE sections == InPlacementOrder(SectionRows(s))
           blocks == BlocksOf(s)
           page == PageOf(Source, sections, blocks)
<1>1. s \in Seq(Row) /\ DistinctIds(s) /\ \A r \in ToSet(s) : StoredRow(r)
  BY UniqueIdsDistinct DEF StoredRows
<1>2. SectionRows(s) \in Seq(Row) /\ DistinctIds(SectionRows(s)) /\ ToSet(SectionRows(s)) \subseteq ToSet(s)
  BY <1>1, SectionRowsElements
<1>3. sections \in Seq(Row) /\ DistinctIds(sections) /\ ToSet(sections) \subseteq ToSet(s)
  BY <1>2, RowIsRowSet, PlacementOrder
<1>4. \A x \in ToSet(sections) :
        /\ x \in Row /\ StoredRow(x)
        /\ blocks[x.id] \in Seq(Row) /\ DistinctIds(blocks[x.id])
  <2> TAKE x \in ToSet(sections)
  <2>1. x \in Row /\ StoredRow(x) /\ x.id \in Ids(s)
    BY <1>1, <1>3, IdsOfRows DEF StoredRow
  <2>2. blocks[x.id] = Descendants(s, x.id)
    BY <2>1 DEF BlocksOf
  <2> QED BY <1>1, <2>1, <2>2, RowIsRowSet, DescendantsElements
<1>5. /\ Len(sections) \in Nat /\ DOMAIN sections = 1..Len(sections)
      /\ \A k \in 1..Len(sections) : sections[k] \in ToSet(sections)
  BY <1>3, SequenceElements DEF ToSet
<1>6. MaterializePageDocumentStorage(Source, s) = page
  BY DEF MaterializePageDocumentStorage
<1> HIDE DEF sections, blocks
<1>7. \A x \in ToSet(sections) : SectionNode(blocks, x) \in Node
  <2> TAKE x \in ToSet(sections)
  <2>1. x \in Row
    BY <1>4
  <2>2. (IF x.kind = "rich-text" THEN RichNodes(blocks[x.id]) ELSE <<>>) \in Seq(Block)
    BY <1>4, RichNodesTyped, EmptySeq
  <2>3. (IF x.parent = 0 THEN 0 ELSE IF x.slot[1] = "column" THEN x.slot[2] ELSE NotAColumn) \in Columns \cup {0, NotAColumn}
    BY <2>1, SlotsDiffer DEF Row, RowSlots
  <2>4. x.id \in Spellings /\ x.parent \in Uuid \cup {0} /\ uint32(x.pos) \in UInt32 /\ x.shared \in Payloads
    BY <2>1, Conversions DEF Row, Spellings
  <2> QED BY <2>2, <2>3, <2>4 DEF SectionNode, Node
<1>8. page.nodes \in Seq(Node) /\ DOMAIN page.nodes = DOMAIN sections
      /\ \A k \in DOMAIN sections : page.nodes[k] = SectionNode(blocks, sections[k])
  <2>1. page.nodes = [k \in DOMAIN sections |-> SectionNode(blocks, sections[k])]
    BY PageOfParts
  <2> HIDE DEF page
  <2>2. page.nodes \in [1..Len(sections) -> Node]
    BY <1>5, <1>7, <2>1
  <2>3. page.nodes \in Seq(Node)
    BY <1>5, <2>2, SeqDef
  <2> QED BY <2>1, <2>3
<1>9. \A x \in ToSet(sections) : LocalesOf(Source, blocks, x) \subseteq Locales
  <2> TAKE x \in ToSet(sections)
  <2>1. DOMAIN x.locales \subseteq Locales
    BY <1>4, PartialFunctionOf DEF Row
  <2>2. RowLocales(blocks[x.id]) \subseteq Locales
    BY <1>4, RichOverlaysTyped
  <2> QED BY <2>1, <2>2 DEF LocalesOf, Locales
<1>10. \A x \in ToSet(sections) : \A l :
          /\ SectionValue(Source, blocks, x, l) \in SectionValues
          /\ DOMAIN SectionValue(Source, blocks, x, l).blocks # {} => x.kind = "rich-text"
  <2> TAKE x \in ToSet(sections)
  <2> TAKE l
  <2> DEFINE own == IF l \in DOMAIN x.locales THEN x.locales[l] ELSE [case |-> "rich-text", text |-> ""]
             nested == RichOverlays(Source, blocks[x.id])
             values == IF x.kind = "rich-text" /\ l \in DOMAIN nested THEN nested[l] ELSE NoValues
  <2>1. own \in Values
    <3>1. l \in DOMAIN x.locales => x.locales[l] \in Values
      BY <1>4, PartialFunctionOf DEF Row
    <3>2. [case |-> "rich-text", text |-> ""] \in Values
      BY DEF Values, Texts, PageKinds
    <3> QED BY <3>1, <3>2
  <2>2. values \in BlockValues
    <3>1. nested \in PartialFunctions(Locales, BlockValues)
      BY <1>4, RichOverlaysTyped
    <3> HIDE DEF nested
    <3>2. l \in DOMAIN nested => nested[l] \in BlockValues
      BY <3>1, PartialFunctionOf
    <3> QED BY <3>2, NoValuesTyped
  <2>3. SectionValue(Source, blocks, x, l) = [case |-> own.case, text |-> own.text, blocks |-> values]
    BY DEF SectionValue
  <2>4. x.kind # "rich-text" => DOMAIN values = {}
    BY DEF NoValues
  <2> HIDE DEF own, values
  <2>5. own.case \in PageKinds \cup RichKinds /\ own.text \in Texts
    BY <2>1 DEF Values
  <2>6. SectionValue(Source, blocks, x, l) \in SectionValues
    <3>1. \A a \in PageKinds \cup RichKinds, b \in Texts, c \in BlockValues :
            [case |-> a, text |-> b, blocks |-> c] \in SectionValues
      BY DEF SectionValues
    <3> QED BY <2>2, <2>3, <2>5, <3>1
  <2>7. SectionValue(Source, blocks, x, l).blocks = values
    BY <2>3
  <2> QED BY <2>4, <2>6, <2>7
<1>11. \A l : \A id \in SectionsIn(Source, sections, blocks, l) :
          RowOf(sections, id) \in ToSet(sections) /\ RowOf(sections, id).id = id /\ id \in Spellings
  <2> TAKE l
  <2> TAKE id \in SectionsIn(Source, sections, blocks, l)
  <2>1. id \in Ids(sections)
    BY DEF SectionsIn, Ids
  <2>2. RowOf(sections, id) \in ToSet(sections) /\ RowOf(sections, id).id = id
    BY <2>1, RowOfId
  <2> QED BY <1>4, <2>2 DEF Row, Spellings
<1> DEFINE values(l) == [id \in SectionsIn(Source, sections, blocks, l) |-> SectionValue(Source, blocks, RowOf(sections, id), l)]
<1>12. \A l : values(l) \in PageValues
  <2> TAKE l
  <2>1. values(l) \in [SectionsIn(Source, sections, blocks, l) -> SectionValues]
    BY <1>10, <1>11
  <2>2. SectionsIn(Source, sections, blocks, l) \subseteq Spellings
    BY <1>11
  <2> HIDE DEF values
  <2> QED BY <2>1, <2>2 DEF PageValues, PartialFunctions
<1>13. page.overlays = [l \in PageLocales(Source, sections, blocks) |-> values(l)]
  BY PageOfParts
<1>14. PageLocales(Source, sections, blocks) \subseteq Locales
  BY <1>5, <1>9 DEF PageLocales, Locales
<1>15. page.overlays \in PartialFunctions(Locales, PageValues)
  <2> HIDE DEF values, page
  <2>1. page.overlays \in [PageLocales(Source, sections, blocks) -> PageValues]
    BY <1>12, <1>13
  <2> QED BY <1>14, <2>1 DEF PartialFunctions
<1>16. page = [nodes |-> page.nodes, overlays |-> page.overlays]
  BY PageOfParts
<1>17. page \in Page
  <2> HIDE DEF page
  <2> QED BY <1>8, <1>15, <1>16 DEF Page
<1>18. RichOwners(page)
  <2> SUFFICES ASSUME NEW l \in DOMAIN page.overlays, NEW id \in DOMAIN page.overlays[l],
                      DOMAIN page.overlays[l][id].blocks # {}
               PROVE  \E i \in DOMAIN page.nodes : page.nodes[i].id = id /\ HasBlocks(page.nodes[i])
    BY DEF RichOwners
  <2> DEFINE x == RowOf(sections, id)
  <2>1. id \in SectionsIn(Source, sections, blocks, l) /\ page.overlays[l][id] = SectionValue(Source, blocks, x, l)
    BY <1>13
  <2>2. x \in ToSet(sections) /\ x.id = id
    BY <1>11, <2>1
  <2>3. x.kind = "rich-text" /\ x.shared.case = "rich-text"
    BY <1>4, <1>10, <2>1, <2>2, RowValidFacts DEF StoredRow
  <2>4. PICK i \in DOMAIN sections : sections[i] = x
    BY <2>2 DEF ToSet
  <2>5. page.nodes[i] = SectionNode(blocks, x)
    BY <1>8, <2>4
  <2>6. SectionNode(blocks, x).id = id /\ SectionNode(blocks, x).shared.case = "rich-text"
    BY <2>2, <2>3 DEF SectionNode
  <2> QED BY <1>8, <2>4, <2>5, <2>6 DEF HasBlocks
<1> QED BY <1>6, <1>17, <1>18

-------------------------------------------------------------------------------
(***************************************************************************)
(* Composing a page.                                                       *)
(***************************************************************************)
LEMMA WithEntry ==
    ASSUME NEW A, NEW B, NEW f \in PartialFunctions(A, B), NEW a \in A, NEW b \in B
    PROVE  /\ With(f, a, b) \in PartialFunctions(A, B)
           /\ DOMAIN With(f, a, b) = DOMAIN f \cup {a}
           /\ With(f, a, b)[a] = b
           /\ \A x \in DOMAIN f : x # a => With(f, a, b)[x] = f[x]
<1>1. DOMAIN f \subseteq A /\ \A x \in DOMAIN f : f[x] \in B
  BY PartialFunctionOf
<1>2. With(f, a, b) \in [{a} \cup DOMAIN f -> B]
  BY <1>1 DEF With
<1>3. {a} \cup DOMAIN f \in SUBSET A
  BY <1>1
<1>4. With(f, a, b) \in PartialFunctions(A, B)
  BY <1>2, <1>3 DEF PartialFunctions
<1> QED BY <1>4 DEF With

\* The values of a locale with one entry more.
LEMMA WithPageValue ==
    ASSUME NEW f \in PageValues, NEW a \in Spellings, NEW b \in SectionValues
    PROVE  /\ With(f, a, b) \in PageValues
           /\ DOMAIN With(f, a, b) = DOMAIN f \cup {a}
           /\ With(f, a, b)[a] = b
           /\ \A x \in DOMAIN f : x # a => With(f, a, b)[x] = f[x]
<1>1. With(f, a, b) \in PageValues
  BY WithEntry DEF PageValues
<1> QED BY <1>1 DEF With

-------------------------------------------------------------------------------
(* Blocks that are rebuilt are flattened to the same rows, in placement order. *)
LEMMA BlocksReturn ==
    ASSUME NEW source, NEW s \in Seq(Row), DistinctIds(s), \A r \in ToSet(s) : r.slot = Content /\ r.shared.case = r.kind
    PROVE  RichRows(RichNodes(s), RichOverlays(source, s)) = InPlacementOrder(s)
<1> DEFINE ordered == InPlacementOrder(s)
           nodes == RichNodes(s)
           overlays == RichOverlays(source, s)
<1>1. /\ ordered \in Seq(Row) /\ Len(ordered) = Len(s) /\ ToSet(ordered) = ToSet(s) /\ ToSet(s) \subseteq Row
  BY RowIsRowSet, PlacementOrder, SequenceElements
<1>2. /\ DOMAIN nodes = DOMAIN ordered
      /\ \A k \in DOMAIN nodes :
            nodes[k] = [id |-> ordered[k].id, parent |-> ordered[k].parent, index |-> uint32(ordered[k].pos), shared |-> ordered[k].shared]
  BY RichNodesTyped
<1>3. /\ DOMAIN overlays = RowLocales(s) \cup {source}
      /\ \A l \in DOMAIN overlays : /\ DOMAIN overlays[l] = IdsIn(s, l)
                                    /\ \A id \in IdsIn(s, l) : overlays[l][id] = RowOf(s, id).locales[l]
  BY RichOverlaysLocales, RichOverlaysAt
<1>4. /\ DOMAIN ordered = 1..Len(ordered) /\ ordered = [k \in DOMAIN ordered |-> ordered[k]]
      /\ \A k \in DOMAIN ordered : ordered[k] \in ToSet(s)
  <2>1. DOMAIN ordered = 1..Len(ordered) /\ ordered \in [1..Len(ordered) -> Row]
    BY <1>1, SequenceElements
  <2>2. \A k \in DOMAIN ordered : ordered[k] \in ToSet(ordered)
    BY DEF ToSet
  <2> QED BY <1>1, <2>1, <2>2
<1> HIDE DEF ordered, nodes, overlays
<1>5. ASSUME NEW k \in DOMAIN ordered PROVE RichRow(nodes[k], overlays) = ordered[k]
  <2> DEFINE r == ordered[k]
  <2>1. r \in ToSet(s) /\ r \in Row /\ r.slot = Content /\ r.shared.case = r.kind
    BY <1>1, <1>4
  <2>2. nodes[k] = [id |-> r.id, parent |-> r.parent, index |-> uint32(r.pos), shared |-> r.shared]
    BY <1>2
  <2> HIDE DEF r
  <2>3. r.id \in Uuid /\ normalizeUUID(r.id) = r.id /\ normalizeUUID(r.parent) = r.parent /\ int32(uint32(r.pos)) = r.pos
    BY <2>1, StoredIds, Conversions DEF Row
  <2>4. r.locales = [l \in DOMAIN r.locales |-> r.locales[l]] /\ r.id \in Ids(s) /\ RowOf(s, r.id) = r
    BY <2>1, PartialFunctionOf, RowOfRow DEF Row
  <2>5. \A l : l \in LocalesWith(overlays, r.id) <=> l \in DOMAIN r.locales
    <3> TAKE l
    <3>1. l \in LocalesWith(overlays, r.id) <=> l \in RowLocales(s) \cup {source} /\ r.id \in IdsIn(s, l)
      BY <1>3 DEF LocalesWith
    <3>2. r.id \in IdsIn(s, l) <=> l \in DOMAIN r.locales
      BY <2>1, IdsInLocale, RowOfRow
    <3>3. l \in DOMAIN r.locales => l \in RowLocales(s)
      BY <2>1 DEF RowLocales, ToSet
    <3> QED BY <3>1, <3>2, <3>3
  <2>6. LocalesWith(overlays, r.id) = DOMAIN r.locales
    BY <2>5
  <2>7. \A l \in DOMAIN r.locales : overlays[l][r.id] = r.locales[l]
    <3> TAKE l \in DOMAIN r.locales
    <3>1. l \in DOMAIN overlays /\ r.id \in DOMAIN overlays[l]
      BY <2>5 DEF LocalesWith
    <3> QED BY <1>3, <2>4, <3>1
  <2>8. [l \in LocalesWith(overlays, r.id) |-> overlays[l][r.id]] = r.locales
    BY <2>4, <2>6, <2>7
  <2>9. RichRow(nodes[k], overlays) =
          [id |-> r.id, parent |-> r.parent, slot |-> r.slot, pos |-> r.pos, kind |-> r.kind,
           shared |-> r.shared, locales |-> r.locales]
    BY <2>1, <2>2, <2>3, <2>8 DEF RichRow
  <2>10. r = [id |-> r.id, parent |-> r.parent, slot |-> r.slot, pos |-> r.pos, kind |-> r.kind,
              shared |-> r.shared, locales |-> r.locales]
    BY <2>1 DEF Row
  <2> QED BY <2>9, <2>10 DEF r
<1>6. RichRows(nodes, overlays) = [k \in DOMAIN ordered |-> RichRow(nodes[k], overlays)]
  BY <1>2 DEF RichRows
<1>7. [k \in DOMAIN ordered |-> RichRow(nodes[k], overlays)] = [k \in DOMAIN ordered |-> ordered[k]]
  BY <1>5
<1> QED BY <1>4, <1>6, <1>7 DEF ordered, nodes, overlays

\* Blocks that are rebuilt are accepted again in the mode their rows are valid in.
LEMMA BlocksAccepted ==
    ASSUME NEW source, NEW s \in Seq(Row), DistinctIds(s), Len(s) <= MaxDocumentBlocks, NEW mode,
           \A r \in ToSet(s) : r.slot = Content /\ r.kind \in RichKinds /\ RowValid(source, "page", r, mode)
    PROVE  FlattenRichTextDocumentStorageAccepts(source, "page", RichNodes(s), RichOverlays(source, s), mode)
<1> DEFINE ordered == InPlacementOrder(s)
<1>1. /\ ordered \in Seq(Row) /\ Len(ordered) = Len(s) /\ ToSet(ordered) = ToSet(s) /\ DistinctIds(ordered)
  BY RowIsRowSet, PlacementOrder
<1>2. \A r \in ToSet(s) : r.shared.case = r.kind
  BY RowValidFacts
<1>3. RichRows(RichNodes(s), RichOverlays(source, s)) = ordered
  BY <1>2, BlocksReturn
<1> HIDE DEF ordered
<1>4. UniqueIds(ordered)
  BY <1>1, UniqueIdsDistinct
<1>5. \A i \in DOMAIN ordered : ordered[i] \in ToSet(s)
  BY <1>1 DEF ToSet
<1>6. source \in DOMAIN RichOverlays(source, s)
  BY DEF RichOverlays
<1> QED BY <1>1, <1>3, <1>4, <1>5, <1>6 DEF FlattenRichTextDocumentStorageAccepts

(* What the blocks of a section are, for rows of the store. *)
LEMMA BlocksStored ==
    ASSUME NEW source, NEW rows, NEW mode, StoredRows(rows), UniqueIds(rows), \A r \in ToSet(rows) : RowValid(source, "page", r, mode),
           NEW section, \A r \in ToSet(rows) : ~IsSection(rows, r.id) => r.slot = Content
    PROVE  LET blocks == Descendants(rows, section)
           IN /\ blocks \in Seq(Row) /\ DistinctIds(blocks)
              /\ \A x \in ToSet(blocks) : /\ StoredRow(x) /\ RowValid(source, "page", x, mode)
                                          /\ x.slot = Content /\ x.kind \in RichKinds
<1> DEFINE blocks == Descendants(rows, section)
<1>1. rows \in Seq(Row) /\ DistinctIds(rows) /\ RowSet(Row) /\ \A r \in ToSet(rows) : r \in Row /\ StoredRow(r)
  BY UniqueIdsDistinct, RowIsRowSet DEF StoredRows, StoredRow
<1>2. blocks \in Seq(Row) /\ DistinctIds(blocks)
  BY <1>1, DescendantsElements
<1>3. \A x \in ToSet(blocks) : \E r \in ToSet(rows) : ~IsSection(rows, r.id) /\ x = Rooted(section, r)
  BY <1>1, DescendantsElements DEF BlockOf
<1> HIDE DEF blocks
<1>4. ASSUME NEW x \in ToSet(blocks)
      PROVE  StoredRow(x) /\ RowValid(source, "page", x, mode) /\ x.slot = Content /\ x.kind \in RichKinds
  <2>1. PICK r \in ToSet(rows) : ~IsSection(rows, r.id) /\ x = Rooted(section, r)
    BY <1>3
  <2>2. r \in Row /\ StoredRow(r) /\ RowValid(source, "page", r, mode) /\ r.slot = Content
    BY <1>1, <2>1
  <2>3. x \in Row /\ x.slot = r.slot /\ x.kind = r.kind /\ x.shared = r.shared /\ x.locales = r.locales
    BY <1>1, <2>1, <2>2, RowFacts DEF Rooted
  <2>4. RowValid(source, "page", x, mode)
    BY <2>2, <2>3, RowValidParts
  <2>5. RowValid(Source, "page", x, "RESTORE_SNAPSHOT") /\ x.kind \in RichKinds
    BY <2>2, <2>3, RowValidParts DEF StoredRow
  <2> QED BY <2>2, <2>3, <2>4, <2>5 DEF StoredRow
<1> QED BY <1>2, <1>4 DEF blocks

-------------------------------------------------------------------------------
(* The blocks the TypeScript runtime puts below a section. *)
LEMMA TsDescendantsIds ==
    ASSUME NEW S, RowSet(S), NEW s \in Seq(S), NEW section, NEW id \in Ids(TsDescendants(s, section))
    PROVE  section \in Lineage(TsRichRows(s), id)
<1> DEFINE rich == TsRichRows(s)
           T == {x \in ToSet(rich) : section \in Lineage(rich, x.id)}
           parts == [i \in DOMAIN rich |-> IF rich[i] \in T THEN <<rich[i]>> ELSE <<>>]
           below == FlattenSeq(parts)
<1>1. rich \in Seq(S) /\ \A i \in DOMAIN rich : rich[i] \in ToSet(rich)
  BY TsRowsElements DEF ToSet
<1> HIDE DEF rich
<1>3. parts = [i \in DOMAIN rich |-> IF section \in Lineage(rich, rich[i].id) THEN <<rich[i]>> ELSE <<>>]
  BY <1>1
<1>4. below = Where(rich, LAMBDA r : section \in Lineage(rich, r.id))
  BY <1>3 DEF Where
<1>5. TsDescendants(s, section) = RootedRows(section, below)
  BY <1>4 DEF TsDescendants, RootedRows, Rooted, AsRoot, rich
<1>6. below \in Seq(S) /\ \A x : x \in ToSet(below) <=> x \in ToSet(rich) /\ x \in T
  <2> HIDE DEF T
  <2> QED BY <1>1, Filtered
<1>7. \A x \in ToSet(below) : x \in S /\ section \in Lineage(rich, x.id)
  <2> HIDE DEF parts, below
  <2>1. ToSet(below) \subseteq S
    BY <1>6, SequenceElements
  <2> QED BY <1>6, <2>1
<1> HIDE DEF T, parts, below
<1>8. PICK x \in ToSet(TsDescendants(s, section)) : x.id = id
  BY IdsOfRows
<1>9. PICK r \in ToSet(below) : x = Rooted(section, r)
  BY <1>5, <1>6, <1>8, RootedRowsElements
<1>10. x.id = r.id
  BY <1>7, <1>9, RowFacts DEF Rooted
<1> QED BY <1>7, <1>8, <1>9, <1>10 DEF rich

\* The page the TypeScript runtime rebuilds, by its rows.
LEMMA TsPage ==
    ASSUME NEW source, NEW rows, StoredRows(rows), UniqueIds(rows)
    PROVE  LET page == TsMaterializePage(source, rows)
               sections == InPlacementOrder(TsSectionRows(rows))
               blocks == [id \in Ids(rows) |-> TsDescendants(rows, id)]
           IN /\ sections \in Seq(Row) /\ DistinctIds(sections)
              /\ \A x : x \in ToSet(sections) <=> x \in ToSet(rows) /\ ~IsRichFamily(x)
              /\ DOMAIN page.nodes = DOMAIN sections
              /\ \A k \in DOMAIN sections : page.nodes[k] = SectionNode(blocks, sections[k])
<1> DEFINE page == TsMaterializePage(source, rows)
           sections == InPlacementOrder(TsSectionRows(rows))
           blocks == [id \in Ids(rows) |-> TsDescendants(rows, id)]
<1>1. rows \in Seq(Row) /\ DistinctIds(rows) /\ RowSet(Row)
  BY UniqueIdsDistinct, RowIsRowSet DEF StoredRows
<1>2. /\ TsSectionRows(rows) \in Seq(Row) /\ DistinctIds(TsSectionRows(rows))
      /\ \A x : x \in ToSet(TsSectionRows(rows)) <=> x \in ToSet(rows) /\ ~IsRichFamily(x)
  BY <1>1, TsRowsElements
<1>3. /\ sections \in Seq(Row) /\ DistinctIds(sections)
      /\ ToSet(sections) = ToSet(TsSectionRows(rows))
  BY <1>1, <1>2, PlacementOrder
<1>4. page = PageOf(source, sections, blocks)
  BY DEF TsMaterializePage
<1> HIDE DEF sections, blocks, page
<1>5. page.nodes = [k \in DOMAIN sections |-> SectionNode(blocks, sections[k])]
  BY <1>4, PageOfParts
<1> QED BY <1>2, <1>3, <1>5 DEF sections, blocks, page

\* Rows the TypeScript runtime accepts: a section in a column is in a columns section at the root.
LEMMA TsSectionPlace ==
    ASSUME NEW source, NEW rows, StoredRows(rows), TsMaterializePageAccepts(source, rows), NEW r \in ToSet(rows), ~IsRichFamily(r), r.parent # 0
    PROVE  \E p \in ToSet(rows) : p.id = r.parent /\ ~IsRichFamily(p) /\ p.parent = 0 /\ p.kind = "columns"
<1> DEFINE page == TsMaterializePage(source, rows)
           sections == InPlacementOrder(TsSectionRows(rows))
           blocks == [id \in Ids(rows) |-> TsDescendants(rows, id)]
<1>1. UniqueIds(rows) /\ validatePageGraph(source, page.nodes, page.overlays, "RESTORE_SNAPSHOT")
  BY DEF TsMaterializePageAccepts
<1>2. /\ \A x : x \in ToSet(sections) <=> x \in ToSet(rows) /\ ~IsRichFamily(x)
      /\ DOMAIN page.nodes = DOMAIN sections
      /\ \A k \in DOMAIN sections : page.nodes[k] = SectionNode(blocks, sections[k])
  BY <1>1, TsPage
<1>3. \A x \in ToSet(rows) : x.shared.case = x.kind
  BY RowValidFacts DEF StoredRows, StoredRow
<1> HIDE DEF page, sections, blocks
<1>4. \A k \in DOMAIN sections : sections[k] \in ToSet(sections)
  BY DEF ToSet
<1>5. \A k \in DOMAIN sections : /\ page.nodes[k].id = sections[k].id /\ page.nodes[k].parent = sections[k].parent
                                 /\ page.nodes[k].shared = sections[k].shared
  <2>1. \A b, x : SectionNode(b, x).id = x.id /\ SectionNode(b, x).parent = x.parent /\ SectionNode(b, x).shared = x.shared
    BY DEF SectionNode
  <2> QED BY <1>2, <2>1
<1>6. \A k \in DOMAIN sections : page.nodes[k].parent # 0 => ColumnPlaced(page.nodes, page.nodes[k])
  BY <1>1, <1>2 DEF validatePageGraph
<1>7. ASSUME NEW k \in DOMAIN sections, sections[k].parent # 0
      PROVE  /\ sections[k].shared.case # "columns"
             /\ \E j \in DOMAIN sections : sections[j].id = sections[k].parent /\ sections[j].shared.case = "columns"
  <2>1. ColumnPlaced(page.nodes, page.nodes[k])
    BY <1>5, <1>6, <1>7
  <2> QED BY <1>2, <1>5, <2>1 DEF ColumnPlaced, ColumnChildKinds
<1>8. PICK k \in DOMAIN sections : sections[k] = r
  BY <1>2 DEF ToSet
<1>9. PICK j \in DOMAIN sections : sections[j].id = r.parent /\ sections[j].shared.case = "columns"
  BY <1>7, <1>8
<1>10. sections[j].parent = 0
  BY <1>7, <1>9
<1> QED BY <1>2, <1>3, <1>4, <1>9, <1>10

\* Rows the TypeScript runtime accepts: every block is below a section of rich text.
LEMMA TsBlockOwner ==
    ASSUME NEW source, NEW rows, StoredRows(rows), TsMaterializePageAccepts(source, rows), NEW r \in ToSet(rows), IsRichFamily(r)
    PROVE  \E s \in ToSet(rows) : s.kind = "rich-text" /\ ~IsRichFamily(s) /\ s.id \in Lineage(TsRichRows(rows), r.id)
<1> DEFINE sections == TsSectionRows(rows)
<1>1. rows \in Seq(Row) /\ DistinctIds(rows) /\ RowSet(Row)
  BY UniqueIdsDistinct, RowIsRowSet DEF StoredRows, TsMaterializePageAccepts
<1>2. /\ sections \in Seq(Row) /\ TsRichRows(rows) \in Seq(Row)
      /\ \A x : x \in ToSet(sections) <=> x \in ToSet(rows) /\ ~IsRichFamily(x)
      /\ \A x : x \in ToSet(TsRichRows(rows)) <=> x \in ToSet(rows) /\ IsRichFamily(x)
  BY <1>1, TsRowsElements
<1>3. r.id \in Ids(TsRichRows(rows))
  BY <1>2, IdsOfRows
<1>4. PICK i \in DOMAIN sections : sections[i].kind = "rich-text" /\ r.id \in Ids(TsDescendants(rows, sections[i].id))
  BY <1>3 DEF TsMaterializePageAccepts
<1>5. sections[i] \in ToSet(rows) /\ ~IsRichFamily(sections[i])
  BY <1>2 DEF ToSet
<1> HIDE DEF sections
<1>6. sections[i].id \in Lineage(TsRichRows(rows), r.id)
  BY <1>1, <1>4, TsDescendantsIds
<1> QED BY <1>4, <1>5, <1>6

\* Rows the TypeScript runtime accepts have the shape of a page.
LEMMA TsShaped ==
    ASSUME NEW source, NEW rows, StoredRows(rows), TsMaterializePageAccepts(source, rows)
    PROVE  ShapedRows(Row, rows) /\ Grounded(rows)
<1> DEFINE rich == TsRichRows(rows)
<1>1. rows \in Seq(Row) /\ DistinctIds(rows) /\ RowSet(Row) /\ \A x \in ToSet(rows) : x \in Row /\ StoredRow(x) /\ x.id \in Ids(rows) /\ RowOf(rows, x.id) = x
  BY UniqueIdsDistinct, RowIsRowSet, RowOfRow DEF StoredRows, StoredRow, TsMaterializePageAccepts
<1>2. /\ rich \in Seq(Row) /\ DistinctIds(rich)
      /\ \A x : x \in ToSet(rich) <=> x \in ToSet(rows) /\ IsRichFamily(x)
  BY <1>1, TsRowsElements
<1> HIDE DEF rich
<1>3. ASSUME NEW r \in ToSet(rows), IsRichFamily(r)
      PROVE  /\ r.kind # "rich-text"
             /\ \E p \in ToSet(rows) : p.id = r.parent /\ (IsRichFamily(p) \/ p.kind = "rich-text")
  <2>1. r.kind # "rich-text"
    BY <1>1, <1>3 DEF StoredRow, IsRichFamily, RichKinds
  <2>2. PICK s \in ToSet(rows) : s.kind = "rich-text" /\ ~IsRichFamily(s) /\ s.id \in Lineage(rich, r.id)
    BY <1>3, TsBlockOwner DEF rich
  <2>3. s.id # r.id
    BY <1>1, <1>3, <2>2
  <2>4. r.id \in Ids(rich) /\ RowOf(rich, r.id) = r
    BY <1>2, <1>3, RowOfRow
  <2>5. s.id \in Lineage(rich, r.parent)
    BY <1>2, <2>2, <2>3, <2>4, LineageStep
  <2>6. CASE r.parent \in Ids(rich)
    BY <1>2, <2>1, <2>6, IdsOfRows
  <2>7. CASE r.parent \notin Ids(rich)
    <3>1. s.id = r.parent
      BY <1>2, <2>5, <2>7, LineageStep
    <3> QED BY <2>1, <2>2, <3>1
  <2> QED BY <2>6, <2>7
<1>4. PageShaped(rows)
  BY <1>3, TsSectionPlace DEF PageShaped
<1>5. ShapedRows(Row, rows)
  BY <1>1, <1>4 DEF ShapedRows
<1>6. ASSUME NEW id \in Ids(rows) PROVE 0 \in Lineage(rows, id)
  <2>1. PICK r \in ToSet(rows) : r.id = id
    BY IdsOfRows
  <2>2. CASE ~IsRichFamily(r)
    BY <1>5, <2>1, <2>2, SectionLineage
  <2>3. CASE IsRichFamily(r)
    <3>1. PICK s \in ToSet(rows) : s.kind = "rich-text" /\ ~IsRichFamily(s) /\ s.id \in Lineage(rich, r.id)
      BY <2>3, TsBlockOwner DEF rich
    <3>2. s.id \in Lineage(rows, r.id)
      BY <1>5, <2>3, <3>1, TsLineage DEF rich
    <3>3. Lineage(rows, s.id) \subseteq Lineage(rows, r.id)
      <4> DEFINE T == Lineage(rows, r.id)
      <4>1. \A a \in T \cap Ids(rows) : RowOf(rows, a).parent \in T
        BY <1>1, LineageClosed
      <4>2. s.id \in T
        BY <3>2
      <4> HIDE DEF T
      <4>3. Lineage(rows, s.id) \subseteq T
        BY <1>1, <4>1, <4>2, LineageLeast
      <4> QED BY <4>3 DEF T
    <3>4. 0 \in Lineage(rows, s.id)
      BY <1>5, <3>1, SectionLineage
    <3> QED BY <2>1, <3>3, <3>4
  <2> QED BY <2>2, <2>3
<1> QED BY <1>5, <1>6 DEF Grounded

(* The Go runtime accepts what the TypeScript runtime does. *)
LEMMA GoAccepts ==
    ASSUME NEW source, NEW rows, StoredRows(rows), ShapedRows(Row, rows), Grounded(rows),
           NEW mode, \A r \in ToSet(rows) : RowValid(source, "page", r, mode),
           \A r \in ToSet(rows) : ~IsRichFamily(r) => r.kind \in PageKinds,
           \A r \in ToSet(rows) : r.kind = "rich-text" => Len(Descendants(rows, r.id)) <= MaxDocumentBlocks
    PROVE  MaterializePageDocumentStorageAccepts(source, rows)
<1>1. rows \in Seq(Row) /\ DistinctIds(rows) /\ UniqueIds(rows) /\ RowSet(Row)
      /\ \A x \in ToSet(rows) : x \in Row /\ StoredRow(x) /\ x.id \in Ids(rows)
  BY ShapedFacts, UniqueIdsDistinct, RowIsRowSet DEF StoredRows, StoredRow
<1>2. \A x \in ToSet(rows) : IsSection(rows, x.id) <=> ~IsRichFamily(x)
  <2> TAKE x \in ToSet(rows)
  <2>1. 0 \in Lineage(rows, x.id)
    BY <1>1 DEF Grounded
  <2> QED BY <2>1, SectionLineage, BlockLineage
<1>3. \A x \in ToSet(rows) : ~IsSection(rows, x.id) => x.slot = Content
  BY <1>2 DEF IsRichFamily
<1>4. ASSUME NEW r \in ToSet(rows) PROVE RowRebuilds(source, rows, r)
  <2>1. CASE ~IsSection(rows, r.id)
    BY <1>1, <1>3, <2>1 DEF RowRebuilds, StoredRow
  <2>2. CASE IsSection(rows, r.id) /\ r.kind # "rich-text"
    BY <1>2, <2>2 DEF RowRebuilds
  <2>3. CASE IsSection(rows, r.id) /\ r.kind = "rich-text"
    <3> DEFINE blocks == Descendants(rows, r.id)
    <3>1. /\ blocks \in Seq(Row) /\ DistinctIds(blocks)
          /\ \A x \in ToSet(blocks) : StoredRow(x) /\ RowValid(source, "page", x, mode) /\ x.slot = Content /\ x.kind \in RichKinds
      BY <1>1, <1>3, BlocksStored
    <3>2. Len(blocks) <= MaxDocumentBlocks
      BY <2>3
    <3> HIDE DEF blocks
    <3>3. UniqueIds(blocks) /\ \A i \in DOMAIN blocks : blocks[i].kind \in RichKinds
      BY <3>1, UniqueIdsDistinct DEF ToSet
    <3>4. FlattenRichTextDocumentStorageAccepts(source, "page", RichNodes(blocks), RichOverlays(source, blocks), "RESTORE_SNAPSHOT")
      <4>1. \A x \in ToSet(blocks) : RowValid(source, "page", x, "RESTORE_SNAPSHOT")
        BY <3>1, RowValidParts
      <4> QED BY <3>1, <3>2, <4>1, BlocksAccepted
    <3>5. \A l \in DOMAIN r.locales : SectionValue(source, BlocksOf(rows), r, l).case = "rich-text"
      <4>1. \A l \in DOMAIN r.locales : r.locales[l].case = "rich-text"
        BY <2>3, RowValidFacts
      <4> QED BY <4>1 DEF SectionValue
    <3>6. r.kind \in PageKinds
      BY <1>2, <2>3
    <3>7. MaterializeRichTextDocumentStorageAccepts(source, "page", blocks)
      BY <3>3, <3>4 DEF MaterializeRichTextDocumentStorageAccepts
    <3> QED BY <2>3, <3>5, <3>6, <3>7 DEF RowRebuilds, blocks
  <2> QED BY <2>1, <2>2, <2>3
<1>5. \A i \in DOMAIN rows : RowRebuilds(source, rows, rows[i])
  BY <1>4 DEF ToSet
<1> QED BY <1>1, <1>5 DEF MaterializePageDocumentStorageAccepts, RowRebuilds

\* Rows of the shape of a page are rebuilt to the same page by both runtimes.
LEMMA RuntimesAgree ==
    ASSUME NEW source, NEW rows, ShapedRows(Row, rows), Grounded(rows)
    PROVE  TsMaterializePage(source, rows) = MaterializePageDocumentStorage(source, rows)
<1> DEFINE sections == InPlacementOrder(SectionRows(rows))
           b == [id \in Ids(rows) |-> TsDescendants(rows, id)]
           c == BlocksOf(rows)
<1>1. rows \in Seq(Row) /\ DistinctIds(rows) /\ RowSet(Row) /\ \A x \in ToSet(rows) : x.id \in Ids(rows)
  BY ShapedFacts DEF ShapedRows
<1>2. SectionRows(rows) \in Seq(Row) /\ DistinctIds(SectionRows(rows)) /\ ToSet(SectionRows(rows)) \subseteq ToSet(rows)
  BY <1>1, SectionRowsElements
<1>3. ToSet(sections) \subseteq ToSet(rows)
  BY <1>1, <1>2, PlacementOrder
<1>4. TsMaterializePage(source, rows) = PageOf(source, sections, b)
  BY TsRows DEF TsMaterializePage
<1>5. MaterializePageDocumentStorage(source, rows) = PageOf(source, sections, c)
  BY DEF MaterializePageDocumentStorage
<1>6. \A x \in ToSet(rows) : x.kind = "rich-text" => SameRows(Row, b[x.id], c[x.id])
  <2> SUFFICES ASSUME NEW x \in ToSet(rows), x.kind = "rich-text" PROVE SameRows(Row, b[x.id], c[x.id])
    OBVIOUS
  <2>1. b[x.id] = TsDescendants(rows, x.id) /\ c[x.id] = Descendants(rows, x.id)
    BY <1>1 DEF BlocksOf
  <2>2. TsDescendants(rows, x.id) = Descendants(rows, x.id)
    BY TsBlocks
  <2>3. Descendants(rows, x.id) \in Seq(Row) /\ DistinctIds(Descendants(rows, x.id))
    BY <1>1, DescendantsElements
  <2> HIDE DEF b, c
  <2> QED BY <2>1, <2>2, <2>3 DEF SameRows
<1> HIDE DEF sections, b, c
<1>7. \A x \in ToSet(sections) : x.kind = "rich-text" => SameRows(Row, b[x.id], c[x.id])
  BY <1>3, <1>6
<1>8. PageOf(source, sections, b) = PageOf(source, sections, c)
  BY <1>1, <1>7, SamePage
<1> QED BY <1>4, <1>5, <1>8

-------------------------------------------------------------------------------
(***************************************************************************)
(* Rows that are checked one by one come back.                             *)
(***************************************************************************)

\* Rows that pass the checks of single rows and of the tree.
RowsInPlace(rows, mode) ==
    /\ StoredRows(rows) /\ Tree(rows) /\ ParentChecked("page", rows)
    /\ \A x \in ToSet(rows) : RowValid(Source, "page", x, mode)

\* Of such rows the blocks are below blocks or in sections of rich text.
RowsChecked(rows, mode) ==
    /\ RowsInPlace(rows, mode)
    /\ \A x \in ToSet(rows) :
          x.slot = Content => \E p \in ToSet(rows) : p.id = x.parent /\ (p.slot = Content \/ p.kind = "rich-text")

\* What rows that are checked one by one give.
LEMMA InPlaceFacts ==
    ASSUME NEW rows, NEW mode, RowsInPlace(rows, mode)
    PROVE  /\ rows \in Seq(Row) /\ DistinctIds(rows) /\ UniqueIds(rows) /\ RowSet(Row) /\ StoredRows(rows) /\ Grounded(rows)
           /\ \A x \in ToSet(rows) :
                 /\ x \in Row /\ StoredRow(x) /\ RowValid(Source, "page", x, mode) /\ x.id \in Ids(rows) /\ RowOf(rows, x.id) = x
                 /\ x.kind = x.shared.case
                 /\ x.kind \in PageKinds \cup RichKinds
                 /\ x.parent = 0 => ValidateContentStorageParent("page", {}, x)
                 /\ x.parent # 0 => /\ RowOf(rows, x.parent) \in ToSet(rows) /\ RowOf(rows, x.parent).id = x.parent
                                    /\ ValidateContentStorageParent("page", {RowOf(rows, x.parent)}, x)
<1>1. StoredRows(rows) /\ UniqueIds(rows) /\ Grounded(rows) /\ \A x \in ToSet(rows) : RowValid(Source, "page", x, mode)
  BY DEF RowsInPlace, Tree
<1>2. rows \in Seq(Row) /\ DistinctIds(rows) /\ RowSet(Row)
  BY <1>1, UniqueIdsDistinct, RowIsRowSet DEF StoredRows
<1>3. ASSUME NEW x \in ToSet(rows)
      PROVE  /\ x \in Row /\ StoredRow(x) /\ RowValid(Source, "page", x, mode) /\ x.id \in Ids(rows) /\ RowOf(rows, x.id) = x
             /\ x.kind = x.shared.case /\ x.kind \in PageKinds \cup RichKinds
    BY <1>1, <1>2, RowOfRow, RowValidFacts DEF StoredRows, StoredRow
<1>4. ASSUME NEW x \in ToSet(rows)
      PROVE  /\ x.parent = 0 => ValidateContentStorageParent("page", {}, x)
             /\ x.parent # 0 => x.parent \in Ids(rows) /\ ValidateContentStorageParent("page", {RowOf(rows, x.parent)}, x)
  <2>1. PICK i \in DOMAIN rows : rows[i] = x
    BY DEF ToSet
  <2>3. ParentChecked("page", rows)
    BY DEF RowsInPlace
  <2>4. IF rows[i].parent = 0 THEN ValidateContentStorageParent("page", {}, rows[i])
        ELSE rows[i].parent \in Ids(rows) /\ ValidateContentStorageParent("page", {RowOf(rows, rows[i].parent)}, rows[i])
    BY <2>3 DEF ParentChecked
  <2> QED BY <2>1, <2>4
<1>5. \A a \in Ids(rows) : RowOf(rows, a) \in ToSet(rows) /\ RowOf(rows, a).id = a
  BY RowOfId
<1> QED BY <1>1, <1>2, <1>3, <1>4, <1>5

\* The same of checked rows.
LEMMA CheckedFacts ==
    ASSUME NEW rows, NEW mode, RowsChecked(rows, mode)
    PROVE  /\ rows \in Seq(Row) /\ DistinctIds(rows) /\ UniqueIds(rows) /\ RowSet(Row) /\ StoredRows(rows) /\ Grounded(rows)
           /\ \A x \in ToSet(rows) :
                 /\ x \in Row /\ StoredRow(x) /\ RowValid(Source, "page", x, mode) /\ x.id \in Ids(rows) /\ RowOf(rows, x.id) = x
                 /\ x.kind = x.shared.case
                 /\ x.kind \in PageKinds \cup RichKinds
                 /\ x.parent = 0 => ValidateContentStorageParent("page", {}, x)
                 /\ x.parent # 0 => /\ RowOf(rows, x.parent) \in ToSet(rows) /\ RowOf(rows, x.parent).id = x.parent
                                    /\ ValidateContentStorageParent("page", {RowOf(rows, x.parent)}, x)
  BY InPlaceFacts DEF RowsChecked

\* Among such rows a kind of its family says what a row is, and a section's place is as its parent allows.
LEMMA SectionInPlace ==
    ASSUME NEW rows, NEW mode, RowsInPlace(rows, mode), NEW r \in ToSet(rows)
    PROVE  /\ IsRichFamily(r) <=> r.kind \notin PageKinds
           /\ ~IsRichFamily(r) /\ r.parent = 0 => r.slot = Sections
           /\ ~IsRichFamily(r) /\ r.parent # 0 =>
                 /\ \E p \in ToSet(rows) : p.id = r.parent /\ ~IsRichFamily(p) /\ p.parent = 0 /\ p.kind = "columns"
                 /\ \E c \in Columns : r.slot = Column(c)
<1>1. ASSUME NEW x \in ToSet(rows), x.kind \in PageKinds
      PROVE  /\ x.parent = 0 => x.slot = Sections
             /\ x.parent # 0 => \E p \in ToSet(rows) : /\ p.id = x.parent /\ p.kind = "columns" /\ p \in Row
                                                       /\ x.slot \in {Column(c) : c \in p.shared.columns}
                                                       /\ x.kind \in ColumnChildKinds
  <2>1. ASSUME x.parent = 0 PROVE x.slot = Sections
    BY <1>1, <2>1, InPlaceFacts DEF ValidateContentStorageParent
  <2>2. ASSUME x.parent # 0
        PROVE  \E p \in ToSet(rows) : /\ p.id = x.parent /\ p.kind = "columns" /\ p \in Row
                                      /\ x.slot \in {Column(c) : c \in p.shared.columns}
                                      /\ x.kind \in ColumnChildKinds
    <3> DEFINE p == RowOf(rows, x.parent)
    <3>1. p \in ToSet(rows) /\ p.id = x.parent /\ ValidateContentStorageParent("page", {p}, x)
      BY <2>2, InPlaceFacts
    <3> HIDE DEF p
    <3>2. p.kind = "columns" /\ x.slot \in {Column(c) : c \in p.shared.columns} /\ x.kind \in ColumnChildKinds
      BY <1>1, <3>1 DEF ValidateContentStorageParent
    <3>3. p \in Row
      BY <3>1, InPlaceFacts
    <3> QED BY <3>1, <3>2, <3>3
  <2> QED BY <2>1, <2>2
<1>2. \A x \in ToSet(rows) : x.kind \in PageKinds => ~IsRichFamily(x)
  BY <1>1, SlotsDiffer DEF IsRichFamily
<1>3. \A x \in ToSet(rows) : x.kind \notin PageKinds => IsRichFamily(x)
  <2> SUFFICES ASSUME NEW x \in ToSet(rows), x.kind \notin PageKinds PROVE x.slot = Content
    BY DEF IsRichFamily
  <2>1. CASE x.parent = 0
    BY <2>1, InPlaceFacts DEF ValidateContentStorageParent
  <2>2. CASE x.parent # 0
    BY <2>2, InPlaceFacts DEF ValidateContentStorageParent
  <2> QED BY <2>1, <2>2
<1>4. ASSUME ~IsRichFamily(r), r.parent # 0
      PROVE  /\ \E p \in ToSet(rows) : p.id = r.parent /\ ~IsRichFamily(p) /\ p.parent = 0 /\ p.kind = "columns"
             /\ \E c \in Columns : r.slot = Column(c)
  <2>1. r.kind \in PageKinds
    BY <1>3, <1>4
  <2>2. PICK p \in ToSet(rows) : /\ p.id = r.parent /\ p.kind = "columns" /\ p \in Row
                                 /\ r.slot \in {Column(c) : c \in p.shared.columns}
    BY <1>1, <1>4, <2>1
  <2>3. p.kind \in PageKinds /\ p.kind \notin ColumnChildKinds
    BY <2>2 DEF PageKinds, ColumnChildKinds
  <2>4. ~IsRichFamily(p) /\ p.parent = 0
    BY <1>1, <1>2, <2>3
  <2>5. p.shared.columns \subseteq Columns
    BY <2>2 DEF Row, Payloads
  <2> QED BY <2>2, <2>4, <2>5
<1> QED BY <1>1, <1>2, <1>3, <1>4

\* The same of checked rows.
LEMMA SectionChecked ==
    ASSUME NEW rows, NEW mode, RowsChecked(rows, mode), NEW r \in ToSet(rows)
    PROVE  /\ IsRichFamily(r) <=> r.kind \notin PageKinds
           /\ ~IsRichFamily(r) /\ r.parent = 0 => r.slot = Sections
           /\ ~IsRichFamily(r) /\ r.parent # 0 =>
                 /\ \E p \in ToSet(rows) : p.id = r.parent /\ ~IsRichFamily(p) /\ p.parent = 0 /\ p.kind = "columns"
                 /\ \E c \in Columns : r.slot = Column(c)
  BY SectionInPlace DEF RowsChecked

\* Where no kind names a section and a block, the checks of single rows and of the tree see all.
LEMMA OneFamilyChecked ==
    ASSUME NEW rows, NEW mode, RowsInPlace(rows, mode),
           \A x \in ToSet(rows) : (x.slot = Content => x.parent # 0) /\ x.kind \notin PageKinds \cap RichKinds
    PROVE  RowsChecked(rows, mode)
<1> SUFFICES ASSUME NEW x \in ToSet(rows), x.slot = Content
             PROVE  \E p \in ToSet(rows) : p.id = x.parent /\ (p.slot = Content \/ p.kind = "rich-text")
  BY DEF RowsChecked
<1> DEFINE p == RowOf(rows, x.parent)
<1>1. p \in ToSet(rows) /\ p.id = x.parent /\ ValidateContentStorageParent("page", {p}, x)
  BY InPlaceFacts
<1>2. x.kind \notin PageKinds
  BY SectionInPlace DEF IsRichFamily
<1> HIDE DEF p
<1>3. p.kind \in RichKinds \/ p.kind = "rich-text"
  BY <1>1, <1>2 DEF ValidateContentStorageParent
<1>4. p.kind \in RichKinds => p.slot = Content
  BY <1>1, SectionInPlace DEF IsRichFamily
<1> QED BY <1>1, <1>3, <1>4

\* Of rows that the Go runtime opens the same is so, as it refuses a block that is below another section.
LEMMA OpenedChecked ==
    ASSUME NEW rows, NEW mode, RowsInPlace(rows, mode), MaterializePageDocumentStorageAccepts(Source, rows),
           \A x \in ToSet(rows) : x.slot = Content => x.parent # 0
    PROVE  RowsChecked(rows, mode)
<1> SUFFICES ASSUME NEW x \in ToSet(rows), x.slot = Content,
                    ~ \E p \in ToSet(rows) : p.id = x.parent /\ (p.slot = Content \/ p.kind = "rich-text")
             PROVE  FALSE
  BY DEF RowsChecked
<1>1. /\ rows \in Seq(Row) /\ DistinctIds(rows) /\ \A r \in ToSet(rows) : r.id \in Ids(rows) /\ RowOf(rows, r.id) = r
      /\ \A a \in Ids(rows) : RowOf(rows, a) \in ToSet(rows) /\ RowOf(rows, a).id = a
  BY InPlaceFacts, RowOfId
<1> DEFINE T == {a \in Lineage(rows, x.parent) : a \in Ids(rows) => RowOf(rows, a).slot # Content}
           p == RowOf(rows, x.parent)
<1>2. p \in ToSet(rows) /\ p.id = x.parent /\ x.parent \in Ids(rows) /\ p.slot # Content /\ p.kind # "rich-text"
  BY <1>1, InPlaceFacts
<1>3. Lineage(rows, x.parent) \subseteq T
  <2>1. x.parent \in T
    BY <1>1, <1>2, LineageClosed
  <2>2. ASSUME NEW a \in T \cap Ids(rows), a \in Lineage(rows, x.parent)
        PROVE  RowOf(rows, a).parent \in T
    <3> DEFINE r == RowOf(rows, a)
    <3>1. r \in ToSet(rows) /\ r.id = a /\ ~IsRichFamily(r) /\ r.parent \in Lineage(rows, x.parent)
      BY <1>1, <2>2, LineageClosed DEF IsRichFamily
    <3>2. CASE r.parent = 0
      <4>1. \A t \in ToSet(rows) : t.id # 0
        BY InPlaceFacts, UuidAssumption DEF Row
      <4>2. 0 \notin Ids(rows)
        BY <1>1, <4>1
      <4> QED BY <3>1, <3>2, <4>2
    <3>3. CASE r.parent # 0
      <4>1. PICK q \in ToSet(rows) : q.id = r.parent /\ ~IsRichFamily(q)
        BY <3>1, <3>3, SectionInPlace
      <4>2. RowOf(rows, r.parent) = q
        BY <1>1, <4>1
      <4> QED BY <3>1, <4>1, <4>2 DEF IsRichFamily
    <3> QED BY <3>2, <3>3
  <2> HIDE DEF T
  <2> QED BY <1>1, <2>1, <2>2, LineageLeast
<1>4. Lineage(rows, x.id) = {x.id} \cup Lineage(rows, x.parent)
  BY <1>1, LineageStep
<1>5. IsSection(rows, x.id)
  <2> SUFFICES ASSUME NEW a \in Lineage(rows, x.id) \cap Ids(rows), RowOf(rows, a).parent \in Ids(rows)
               PROVE  ~(RowOf(rows, RowOf(rows, a).parent).kind = "rich-text" /\ RowOf(rows, a).slot = Content)
    BY DEF IsSection
  <2>1. CASE a = x.id
    BY <1>1, <1>2, <2>1
  <2>2. CASE a # x.id
    BY <1>3, <1>4, <2>2
  <2> QED BY <2>1, <2>2
<1>6. x.kind \in PageKinds
  <2>1. PICK i \in DOMAIN rows : rows[i] = x
    BY DEF ToSet
  <2> QED BY <1>5, <2>1 DEF MaterializePageDocumentStorageAccepts
<1> QED BY <1>6, SectionInPlace DEF IsRichFamily

\* Checked rows have the shape of a page.
LEMMA CheckedShaped ==
    ASSUME NEW rows, NEW mode, RowsChecked(rows, mode)
    PROVE  ShapedRows(Row, rows)
<1>1. ASSUME NEW r \in ToSet(rows), ~IsRichFamily(r), r.parent # 0
      PROVE  \E p \in ToSet(rows) : p.id = r.parent /\ ~IsRichFamily(p) /\ p.parent = 0 /\ p.kind # "rich-text"
  BY <1>1, SectionChecked
<1>2. ASSUME NEW r \in ToSet(rows), IsRichFamily(r)
      PROVE  /\ r.kind # "rich-text"
             /\ \E p \in ToSet(rows) : p.id = r.parent /\ (IsRichFamily(p) \/ p.kind = "rich-text")
  <2>1. r.kind \notin PageKinds /\ r.kind \in RichKinds
    BY <1>2, SectionChecked, CheckedFacts
  <2>2. \E p \in ToSet(rows) : p.id = r.parent /\ (p.slot = Content \/ p.kind = "rich-text")
    BY <1>2 DEF RowsChecked, IsRichFamily
  <2>3. r.kind # "rich-text"
    BY <2>1 DEF RichKinds
  <2> QED BY <2>2, <2>3 DEF IsRichFamily
<1>3. PageShaped(rows)
  BY <1>1, <1>2 DEF PageShaped
<1> QED BY <1>3, CheckedFacts DEF ShapedRows

\* The Go runtime accepts checked rows.
LEMMA CheckedAccepted ==
    ASSUME NEW rows, NEW mode, RowsChecked(rows, mode), Len(rows) <= MaxDocumentBlocks
    PROVE  MaterializePageDocumentStorageAccepts(Source, rows)
<1>1. /\ StoredRows(rows) /\ ShapedRows(Row, rows) /\ Grounded(rows) /\ \A r \in ToSet(rows) : RowValid(Source, "page", r, mode)
      /\ rows \in Seq(Row) /\ DistinctIds(rows) /\ RowSet(Row)
  BY CheckedFacts, CheckedShaped
<1>2. \A r \in ToSet(rows) : ~IsRichFamily(r) => r.kind \in PageKinds
  BY SectionChecked
<1>3. \A r \in ToSet(rows) : Len(Descendants(rows, r.id)) <= MaxDocumentBlocks
  <2> TAKE r \in ToSet(rows)
  <2>1. Len(Descendants(rows, r.id)) <= Len(rows) /\ Descendants(rows, r.id) \in Seq(Row)
    BY <1>1, BlocksLength, DescendantsElements
  <2>2. Len(rows) <= MaxDocumentBlocks
    OBVIOUS
  <2>3. Len(rows) \in Nat /\ Len(Descendants(rows, r.id)) \in Nat
    BY <1>1, <2>1, SequenceElements
  <2> QED BY <2>1, <2>2, <2>3, MaxDocumentBlocksAssumption
<1> QED BY <1>1, <1>2, <1>3, GoAccepts

\* The page rebuilt from checked rows: its sections, and its values by section and locale.
LEMMA PageParts ==
    ASSUME NEW rows, NEW mode, RowsChecked(rows, mode)
    PROVE  LET page == MaterializePageDocumentStorage(Source, rows)
               sections == InPlacementOrder(SectionRows(rows))
               blocks == BlocksOf(rows)
           IN /\ page \in Page
              /\ sections \in Seq(Row) /\ DistinctIds(sections)
              /\ \A x : x \in ToSet(sections) <=> x \in ToSet(rows) /\ ~IsRichFamily(x)
              /\ DOMAIN page.nodes = DOMAIN sections
              /\ \A k \in DOMAIN sections : page.nodes[k] = SectionNode(blocks, sections[k])
              /\ Source \in DOMAIN page.overlays
              /\ \A x \in ToSet(sections) : \A l :
                    /\ (l \in DOMAIN page.overlays /\ x.id \in DOMAIN page.overlays[l]) <=> l \in LocalesOf(Source, blocks, x)
                    /\ l \in LocalesOf(Source, blocks, x) => page.overlays[l][x.id] = SectionValue(Source, blocks, x, l)
<1> DEFINE page == MaterializePageDocumentStorage(Source, rows)
           sections == InPlacementOrder(SectionRows(rows))
           blocks == BlocksOf(rows)
           values(l) == [id \in SectionsIn(Source, sections, blocks, l) |-> SectionValue(Source, blocks, RowOf(sections, id), l)]
<1>1. rows \in Seq(Row) /\ DistinctIds(rows) /\ RowSet(Row) /\ ShapedRows(Row, rows) /\ StoredRows(rows) /\ UniqueIds(rows)
      /\ Grounded(rows)
  BY CheckedFacts, CheckedShaped
<1>2. page \in Page
  BY <1>1, MaterializedTyped
<1>3. \A x \in ToSet(rows) : IsSection(rows, x.id) <=> ~IsRichFamily(x)
  BY <1>1, SectionLineage, BlockLineage, IdsOfRows DEF Grounded
<1>4. sections \in Seq(Row) /\ DistinctIds(sections) /\ \A x : x \in ToSet(sections) <=> x \in ToSet(rows) /\ ~IsRichFamily(x)
  BY <1>1, <1>3, SectionRowsElements, PlacementOrder
<1>5. /\ page.nodes = [i \in DOMAIN sections |-> SectionNode(blocks, sections[i])]
      /\ page.overlays = [l \in PageLocales(Source, sections, blocks) |-> values(l)]
  BY PageOfParts DEF MaterializePageDocumentStorage
<1> HIDE DEF page, sections, blocks
<1>6. \A l, id : id \in SectionsIn(Source, sections, blocks, l) <=>
        \E x \in ToSet(sections) : x.id = id /\ l \in LocalesOf(Source, blocks, x)
  BY DEF SectionsIn, ToSet
<1>7. \A l : l \in PageLocales(Source, sections, blocks) <=> l = Source \/ \E x \in ToSet(sections) : l \in LocalesOf(Source, blocks, x)
  BY DEF PageLocales, ToSet
<1>8. ASSUME NEW x \in ToSet(sections), NEW l
      PROVE  /\ (l \in DOMAIN page.overlays /\ x.id \in DOMAIN page.overlays[l]) <=> l \in LocalesOf(Source, blocks, x)
             /\ l \in LocalesOf(Source, blocks, x) => page.overlays[l][x.id] = SectionValue(Source, blocks, x, l)
  <2>1. RowOf(sections, x.id) = x /\ x.id \in Ids(sections)
    BY <1>4, RowOfRow
  <2>2. \A y \in ToSet(sections) : y.id = x.id => y = x
    BY <1>4, DistinctIdsInjective
  <2>3. x.id \in SectionsIn(Source, sections, blocks, l) <=> l \in LocalesOf(Source, blocks, x)
    BY <1>6, <2>2
  <2>4. DOMAIN values(l) = SectionsIn(Source, sections, blocks, l)
        /\ (x.id \in SectionsIn(Source, sections, blocks, l) => values(l)[x.id] = SectionValue(Source, blocks, x, l))
    BY <2>1
  <2>5. l \in DOMAIN page.overlays <=> l \in PageLocales(Source, sections, blocks)
    BY <1>5
  <2>6. l \in DOMAIN page.overlays => page.overlays[l] = values(l)
    BY <1>5
  <2> HIDE DEF values
  <2> QED BY <1>7, <2>3, <2>4, <2>5, <2>6
<1>9. DOMAIN page.nodes = DOMAIN sections /\ \A k \in DOMAIN sections : page.nodes[k] = SectionNode(blocks, sections[k])
  BY <1>5
<1>10. Source \in DOMAIN page.overlays
  BY <1>5, <1>7
<1> QED BY <1>2, <1>4, <1>8, <1>9, <1>10 DEF page, sections, blocks

\* A section that is rebuilt is flattened to its row, completed.
LEMMA SectionReturns ==
    ASSUME NEW rows, NEW mode, RowsChecked(rows, mode), NEW x \in ToSet(rows), ~IsRichFamily(x)
    PROVE  /\ SectionRow(SectionNode(BlocksOf(rows), x), MaterializePageDocumentStorage(Source, rows).overlays) = Completed(rows, x)
           /\ Completed(rows, x).id = x.id /\ Completed(rows, x).kind = x.kind /\ Completed(rows, x).shared = x.shared
           /\ RowValid(Source, "page", Completed(rows, x), mode)
<1> DEFINE overlays == MaterializePageDocumentStorage(Source, rows).overlays
           blocks == BlocksOf(rows)
           sections == InPlacementOrder(SectionRows(rows))
           node == SectionNode(blocks, x)
           ls == LocalesOf(Source, blocks, x)
           own(l) == IF l \in DOMAIN x.locales THEN x.locales[l] ELSE [case |-> "rich-text", text |-> ""]
<1>1. /\ x \in Row /\ StoredRow(x) /\ x.kind = x.shared.case /\ RowValid(Source, "page", x, mode)
      /\ rows \in Seq(Row) /\ DistinctIds(rows)
  BY CheckedFacts
<1>2. /\ x.parent = 0 => x.slot = Sections
      /\ x.parent # 0 => \E c \in Columns : x.slot = Column(c)
  BY SectionChecked
<1>3. \A l : /\ (l \in DOMAIN overlays /\ x.id \in DOMAIN overlays[l]) <=> l \in ls
             /\ l \in ls => overlays[l][x.id] = SectionValue(Source, blocks, x, l)
  <2>1. x \in ToSet(sections)
    BY PageParts
  <2> QED BY <2>1, PageParts
<1>4. /\ x.id \in Uuid /\ x.parent \in Uuid \cup {0} /\ normalizeUUID(x.id) = x.id /\ normalizeUUID(x.parent) = x.parent
      /\ x = [id |-> x.id, parent |-> x.parent, slot |-> x.slot, pos |-> x.pos, kind |-> x.kind,
              shared |-> x.shared, locales |-> x.locales]
      /\ int32(uint32(x.pos)) = x.pos
  BY <1>1, StoredIds, Conversions DEF Row
<1>5. /\ node.id = x.id /\ node.parent = x.parent /\ node.index = uint32(x.pos) /\ node.shared = x.shared
      /\ node.column = IF x.parent = 0 THEN 0 ELSE IF x.slot[1] = "column" THEN x.slot[2] ELSE NotAColumn
  BY DEF SectionNode
<1>6. SectionSlot(node) = x.slot
  <2>1. CASE x.parent = 0
    BY <1>2, <1>5, <2>1 DEF SectionSlot
  <2>2. CASE x.parent # 0
    <3>1. PICK c \in Columns : x.slot = Column(c)
      BY <1>2, <2>2
    <3>2. node.column = c
      BY <1>5, <2>2, <3>1, SlotsDiffer
    <3>3. c # 0 /\ normalizeUUID(c) = c
      BY ColumnsAssumption DEF normalizeUUID
    <3> QED BY <3>1, <3>2, <3>3 DEF SectionSlot
  <2> QED BY <2>1, <2>2
<1>7. \A l : l \in LocalesWith(overlays, x.id) <=> l \in ls
  BY <1>3 DEF LocalesWith
<1>8. LocalesWith(overlays, x.id) = ls
  BY <1>7
<1>9. \A l \in ls : SectionValue(Source, blocks, x, l).case = own(l).case /\ SectionValue(Source, blocks, x, l).text = own(l).text
  BY DEF SectionValue
<1>10. \A l : own(l) \in Values /\ own(l) = [case |-> own(l).case, text |-> own(l).text]
  <2> TAKE l
  <2>1. l \in DOMAIN x.locales => x.locales[l] \in Values
    BY <1>1, PartialFunctionOf DEF Row
  <2>2. [case |-> "rich-text", text |-> ""] \in Values
    BY DEF Values, Texts, PageKinds
  <2>3. own(l) \in Values
    BY <2>1, <2>2
  <2> HIDE DEF own
  <2> QED BY <2>3 DEF Values
<1>11. Completed(rows, x) = [id |-> x.id, parent |-> x.parent, slot |-> x.slot, pos |-> x.pos, kind |-> x.kind,
                       shared |-> x.shared, locales |-> [l \in ls |-> own(l)]]
  <2>1. \A f : [x EXCEPT !.locales = f] =
                 [id |-> x.id, parent |-> x.parent, slot |-> x.slot, pos |-> x.pos, kind |-> x.kind,
                  shared |-> x.shared, locales |-> f]
    BY <1>1 DEF Row
  <2> QED BY <2>1 DEF Completed
<1> HIDE DEF overlays, blocks, node, ls, own, sections
<1>12. [l \in LocalesWith(overlays, x.id) |-> [case |-> overlays[l][x.id].case, text |-> overlays[l][x.id].text]]
         = [l \in ls |-> own(l)]
  BY <1>3, <1>8, <1>9, <1>10
<1>13. SectionRow(node, overlays) = [id |-> x.id, parent |-> x.parent, slot |-> x.slot, pos |-> x.pos, kind |-> x.kind,
                                     shared |-> x.shared, locales |-> [l \in ls |-> own(l)]]
  BY <1>1, <1>4, <1>5, <1>6, <1>12 DEF SectionRow
<1>14. RowValid(Source, "page", Completed(rows, x), mode)
  <2>1. /\ Completed(rows, x).kind = x.kind /\ Completed(rows, x).shared = x.shared /\ DOMAIN Completed(rows, x).locales = ls
        /\ \A l \in ls : Completed(rows, x).locales[l] = own(l)
    BY <1>11
  <2>2. Source \in ls
    BY <1>1, RowValidFacts DEF LocalesOf, ls
  <2>3. NormalizeContentStorageShared("page", x.kind, x.shared, mode)
    BY <1>1 DEF RowValid
  <2>4. \A l \in ls : NormalizeContentStorageLocale("page", x.kind, own(l))
    <3> TAKE l \in ls
    <3>1. CASE l \in DOMAIN x.locales
      BY <1>1, <3>1 DEF RowValid, own
    <3>2. CASE l \notin DOMAIN x.locales
      <4>1. x.kind = "rich-text"
        BY <3>2 DEF LocalesOf, ls
      <4>2. own(l).case = "rich-text"
        BY <3>2 DEF own
      <4>3. KindAllowed("page", x.kind)
        BY <2>3 DEF NormalizeContentStorageShared
      <4> QED BY <4>1, <4>2, <4>3 DEF NormalizeContentStorageLocale
    <3> QED BY <3>1, <3>2
  <2> QED BY <2>1, <2>2, <2>3, <2>4 DEF RowValid
<1>15. Completed(rows, x).id = x.id /\ Completed(rows, x).kind = x.kind /\ Completed(rows, x).shared = x.shared
  BY <1>11
<1> QED BY <1>11, <1>13, <1>14, <1>15 DEF overlays, blocks, node

(* Values that no block has change no block's row. *)
LEMMA SameNestedRows ==
    ASSUME NEW f, NEW g, NEW nodes, DOMAIN f \subseteq DOMAIN g,
           \A l \in DOMAIN f : g[l] = f[l], \A l \in DOMAIN g : l \notin DOMAIN f => g[l] = NoValues
    PROVE  RichRows(nodes, g) = RichRows(nodes, f)
<1>1. DOMAIN NoValues = {}
  BY DEF NoValues
<1>2. \A id : LocalesWith(g, id) = LocalesWith(f, id)
  BY <1>1 DEF LocalesWith
<1>3. \A id : \A l \in LocalesWith(f, id) : g[l] = f[l]
  BY DEF LocalesWith
<1>4. ASSUME NEW i \in DOMAIN nodes PROVE RichRow(nodes[i], g) = RichRow(nodes[i], f)
  <2> DEFINE id == normalizeUUID(nodes[i].id)
  <2>1. [l \in LocalesWith(g, id) |-> g[l][id]] = [l \in LocalesWith(f, id) |-> f[l][id]]
    BY <1>2, <1>3
  <2> QED BY <2>1 DEF RichRow
<1> QED BY <1>4 DEF RichRows

\* The rich text of a section that is rebuilt is accepted, and flattened to the rows of its blocks.
LEMMA NestedReturns ==
    ASSUME NEW rows, NEW mode, RowsChecked(rows, mode), NEW x \in ToSet(rows), x.kind = "rich-text"
    PROVE  LET below == Descendants(rows, x.id)
               node == SectionNode(BlocksOf(rows), x)
               nested == NestedOverlays(node, MaterializePageDocumentStorage(Source, rows).overlays)
           IN /\ below \in Seq(Row) /\ DistinctIds(below)
              /\ node.blocks = RichNodes(below)
              /\ RichRows(node.blocks, nested) = InPlacementOrder(below)
              /\ Len(rows) <= MaxDocumentBlocks =>
                    FlattenRichTextDocumentStorageAccepts(Source, "page", node.blocks, nested, mode)
<1> DEFINE below == Descendants(rows, x.id)
           blocks == BlocksOf(rows)
           node == SectionNode(blocks, x)
           overlays == MaterializePageDocumentStorage(Source, rows).overlays
           nested == NestedOverlays(node, overlays)
           rich == RichOverlays(Source, below)
           sections == InPlacementOrder(SectionRows(rows))
<1>1. /\ x \in Row /\ x.kind = x.shared.case /\ RowValid(Source, "page", x, mode) /\ x.id \in Ids(rows)
      /\ rows \in Seq(Row) /\ DistinctIds(rows) /\ UniqueIds(rows) /\ StoredRows(rows) /\ RowSet(Row)
      /\ \A r \in ToSet(rows) : RowValid(Source, "page", r, mode)
      /\ ShapedRows(Row, rows) /\ Grounded(rows)
  BY CheckedFacts, CheckedShaped
<1>2. ~IsRichFamily(x)
  BY SectionChecked DEF PageKinds
<1>3. \A r \in ToSet(rows) : ~IsSection(rows, r.id) => r.slot = Content
  BY <1>1, SectionLineage DEF IsRichFamily
<1>4. /\ below \in Seq(Row) /\ DistinctIds(below)
      /\ \A r \in ToSet(below) : /\ RowValid(Source, "page", r, mode) /\ r.slot = Content /\ r.kind \in RichKinds
                                 /\ r.shared.case = r.kind
  <2>1. /\ below \in Seq(Row) /\ DistinctIds(below)
        /\ \A r \in ToSet(below) : RowValid(Source, "page", r, mode) /\ r.slot = Content /\ r.kind \in RichKinds
    BY <1>1, <1>3, BlocksStored
  <2> QED BY <2>1, RowValidFacts
<1>5. Len(rows) <= MaxDocumentBlocks => Len(below) <= MaxDocumentBlocks
  <2>1. Len(below) <= Len(rows) /\ Len(below) \in Nat /\ Len(rows) \in Nat
    BY <1>1, <1>4, BlocksLength, SequenceElements
  <2> QED BY <2>1, MaxDocumentBlocksAssumption
<1>6. blocks[x.id] = below
  BY <1>1 DEF BlocksOf
<1>7. node.blocks = RichNodes(below) /\ node.id = x.id /\ normalizeUUID(x.id) = x.id
  BY <1>1, <1>6, StoredIds DEF SectionNode, Row
<1>8. /\ \A l : (l \in DOMAIN overlays /\ x.id \in DOMAIN overlays[l]) <=> l \in LocalesOf(Source, blocks, x)
      /\ \A l \in LocalesOf(Source, blocks, x) : overlays[l][x.id] = SectionValue(Source, blocks, x, l)
      /\ Source \in DOMAIN overlays
  <2>1. x \in ToSet(sections)
    BY <1>2, PageParts
  <2> QED BY <2>1, PageParts
<1>9. \A l : l \in LocalesOf(Source, blocks, x) <=> l \in DOMAIN x.locales \/ l \in DOMAIN rich
  BY <1>4, <1>6, RichOverlaysTyped DEF LocalesOf
<1>10. \A l \in LocalesOf(Source, blocks, x) :
          /\ SectionValue(Source, blocks, x, l).case = "rich-text"
          /\ SectionValue(Source, blocks, x, l).blocks = IF l \in DOMAIN rich THEN rich[l] ELSE NoValues
  BY <1>1, <1>6, RowValidFacts DEF SectionValue
<1>11. nested = [l \in DOMAIN overlays |-> IF x.id \in DOMAIN overlays[l] /\ overlays[l][x.id].case = "rich-text"
                                           THEN overlays[l][x.id].blocks ELSE NoValues]
  BY <1>7 DEF NestedOverlays
<1> HIDE DEF below, blocks, node, overlays, nested, rich, sections
<1>12. /\ DOMAIN rich \subseteq DOMAIN nested
       /\ \A l \in DOMAIN rich : nested[l] = rich[l]
       /\ \A l \in DOMAIN nested : l \notin DOMAIN rich => nested[l] = NoValues
  BY <1>8, <1>9, <1>10, <1>11
<1>13. RichRows(node.blocks, nested) = RichRows(node.blocks, rich)
  BY <1>12, SameNestedRows
<1>14. RichRows(node.blocks, nested) = InPlacementOrder(below)
  BY <1>4, <1>7, <1>13, BlocksReturn DEF rich
<1>15. Len(rows) <= MaxDocumentBlocks => FlattenRichTextDocumentStorageAccepts(Source, "page", RichNodes(below), rich, mode)
  BY <1>4, <1>5, BlocksAccepted DEF rich
<1>16. Source \in DOMAIN nested
  BY <1>8, <1>11
<1>17. Len(rows) <= MaxDocumentBlocks => FlattenRichTextDocumentStorageAccepts(Source, "page", node.blocks, nested, mode)
  BY <1>7, <1>13, <1>15, <1>16 DEF FlattenRichTextDocumentStorageAccepts
<1> QED BY <1>4, <1>7, <1>14, <1>17 DEF below, blocks, node, overlays, nested

\* The blocks of a section that is rebuilt are flattened to the stored rows below it.
LEMMA BlockRowsReturn ==
    ASSUME NEW rows, NEW mode, RowsChecked(rows, mode), NEW x \in ToSet(rows), x.kind = "rich-text"
    PROVE  LET node == SectionNode(BlocksOf(rows), x)
               overlays == MaterializePageDocumentStorage(Source, rows).overlays
           IN /\ \A y : (\E j \in DOMAIN node.blocks : y = BlockRow(node, overlays, j))
                          <=> y \in ToSet(rows) /\ IsRichFamily(y) /\ x.id \in Lineage(rows, y.id)
              /\ \A j, k \in DOMAIN node.blocks :
                    BlockRow(node, overlays, j).id = BlockRow(node, overlays, k).id => j = k
<1> DEFINE below == Descendants(rows, x.id)
           ordered == InPlacementOrder(below)
           node == SectionNode(BlocksOf(rows), x)
           overlays == MaterializePageDocumentStorage(Source, rows).overlays
           nested == NestedOverlays(node, overlays)
<1>1. /\ below \in Seq(Row) /\ DistinctIds(below) /\ node.blocks = RichNodes(below)
      /\ RichRows(node.blocks, nested) = ordered
  BY NestedReturns
<1>2. /\ rows \in Seq(Row) /\ DistinctIds(rows) /\ RowSet(Row) /\ ShapedRows(Row, rows) /\ Grounded(rows)
      /\ \A r \in ToSet(rows) : r \in Row /\ r.id \in Ids(rows)
      /\ x \in Row
  BY CheckedFacts, CheckedShaped
<1>3. node.id = x.id /\ normalizeUUID(x.id) = x.id /\ x.id \in Uuid /\ x.id # 0
  <2>1. x.id \in Uuid /\ node.id = x.id
    BY <1>2 DEF SectionNode, Row
  <2> QED BY <2>1, StoredIds, UuidAssumption
<1>4. ordered \in Seq(Row) /\ ToSet(ordered) = ToSet(below) /\ DistinctIds(ordered)
  BY <1>1, <1>2, PlacementOrder
<1>5. DOMAIN node.blocks = DOMAIN ordered
  BY <1>1, RichNodesTyped
<1> HIDE DEF node, overlays, nested, ordered, below
<1>6. \A j \in DOMAIN ordered : BlockRow(node, overlays, j) = OwnedRow(x.id, ordered[j])
  BY <1>1, <1>3, <1>5 DEF BlockRow, RichRows, nested
<1>7. \A r : BlockOf(rows, x.id, r) <=> r \in ToSet(rows) /\ IsRichFamily(r) /\ x.id \in Lineage(rows, r.id)
  BY <1>2, SectionLineage, BlockLineage DEF BlockOf, Grounded
<1>8. \A b : b \in ToSet(ordered) <=> \E r : BlockOf(rows, x.id, r) /\ b = Rooted(x.id, r)
  BY <1>2, <1>4, DescendantsElements DEF below
<1>9. \A r : BlockOf(rows, x.id, r) => OwnedRow(x.id, Rooted(x.id, r)) = r
  <2> SUFFICES ASSUME NEW r, BlockOf(rows, x.id, r) PROVE OwnedRow(x.id, Rooted(x.id, r)) = r
    OBVIOUS
  <2>1. r \in ToSet(rows) /\ IsRichFamily(r) /\ r \in Row
    BY <1>2, <1>7
  <2>2. r.parent # 0
    BY <2>1, <1>2, UuidAssumption DEF RowsChecked, IsRichFamily, Row
  <2>3. CASE r.parent = x.id
    BY <1>3, <2>1, <2>3 DEF OwnedRow, Rooted, AsRoot, Row
  <2>4. CASE r.parent # x.id
    BY <2>2, <2>4 DEF OwnedRow, Rooted
  <2> QED BY <2>3, <2>4
<1>10. \A y : (\E j \in DOMAIN ordered : y = OwnedRow(x.id, ordered[j])) <=> BlockOf(rows, x.id, y)
  <2> TAKE y
  <2>1. (\E j \in DOMAIN ordered : y = OwnedRow(x.id, ordered[j])) <=> \E b \in ToSet(ordered) : y = OwnedRow(x.id, b)
    BY DEF ToSet
  <2>2. (\E b \in ToSet(ordered) : y = OwnedRow(x.id, b)) <=> BlockOf(rows, x.id, y)
    BY <1>8, <1>9
  <2> QED BY <2>1, <2>2
<1>11. \A j, k \in DOMAIN ordered : OwnedRow(x.id, ordered[j]).id = OwnedRow(x.id, ordered[k]).id => j = k
  <2>1. \A j \in DOMAIN ordered : ordered[j] \in Row
    BY <1>4, SequenceElements
  <2>2. \A j \in DOMAIN ordered : OwnedRow(x.id, ordered[j]).id = ordered[j].id
    BY <1>3, <2>1, OwnedRowTyped
  <2> QED BY <1>4, <2>2 DEF DistinctIds
<1> QED BY <1>5, <1>6, <1>7, <1>10, <1>11 DEF node, overlays

(* The row a section x is stored as again, and the rows of its blocks. *)
RowUnder(rows, x, y) ==
    \/ y = Completed(rows, x)
    \/ x.kind = "rich-text" /\ y \in ToSet(rows) /\ IsRichFamily(y) /\ x.id \in Lineage(rows, y.id)

\* Completing a row changes sections of rich text only.
LEMMA CompletedBlock ==
    ASSUME NEW rows, NEW mode, RowsChecked(rows, mode), NEW r \in ToSet(rows), IsRichFamily(r)
    PROVE  Completed(rows, r) = r
<1>1. r \in Row
  BY CheckedFacts
<1>2. r.kind # "rich-text"
  BY SectionChecked DEF PageKinds
<1>3. LocalesOf(Source, BlocksOf(rows), r) = DOMAIN r.locales
  BY <1>2 DEF LocalesOf
<1>4. r.locales = [l \in DOMAIN r.locales |-> r.locales[l]]
  BY <1>1, PartialFunctionOf DEF Row
<1>5. [l \in DOMAIN r.locales |-> IF l \in DOMAIN r.locales THEN r.locales[l] ELSE [case |-> "rich-text", text |-> ""]]
        = r.locales
  BY <1>4
<1>6. Completed(rows, r) = [r EXCEPT !.locales = r.locales]
  BY <1>3, <1>5 DEF Completed
<1>7. [r EXCEPT !.locales = r.locales] = r
  BY <1>1 DEF Row
<1> QED BY <1>6, <1>7

\* The page that is rebuilt is flattened to the stored rows, completed, each once.
LEMMA PageReturns ==
    ASSUME NEW rows, NEW mode, RowsChecked(rows, mode)
    PROVE  LET page == MaterializePageDocumentStorage(Source, rows)
               flat == FlattenPageDocumentStorage(page)
           IN /\ flat \in Seq(Row) /\ DistinctIds(flat)
              /\ \A y : y \in ToSet(flat) <=> \E r \in ToSet(rows) : y = Completed(rows, r)
<1> DEFINE page == MaterializePageDocumentStorage(Source, rows)
           flat == FlattenPageDocumentStorage(page)
           sections == InPlacementOrder(SectionRows(rows))
           blocks == BlocksOf(rows)
           Under(i, y) == \/ y = SectionRow(page.nodes[i], page.overlays)
                          \/ /\ HasBlocks(page.nodes[i])
                             /\ \E j \in DOMAIN page.nodes[i].blocks : y = BlockRow(page.nodes[i], page.overlays, j)
<1>1. /\ page \in Page
      /\ sections \in Seq(Row) /\ DistinctIds(sections)
      /\ \A x : x \in ToSet(sections) <=> x \in ToSet(rows) /\ ~IsRichFamily(x)
      /\ DOMAIN page.nodes = DOMAIN sections
      /\ \A k \in DOMAIN sections : page.nodes[k] = SectionNode(blocks, sections[k])
  BY PageParts
<1>2. /\ flat \in Seq(Row)
      /\ \A y : y \in ToSet(flat) <=> \E i \in DOMAIN page.nodes : Under(i, y)
      /\ DistinctIds(flat) <=>
            /\ \A i \in DOMAIN page.nodes : DistinctIds(NodeRows(page.nodes[i], page.overlays))
            /\ \A i, k \in DOMAIN page.nodes :
                 \A x \in ToSet(NodeRows(page.nodes[i], page.overlays)),
                    y \in ToSet(NodeRows(page.nodes[k], page.overlays)) : x.id = y.id => i = k
  BY <1>1, FlatElements
<1>3. /\ page.nodes \in Seq(Node) /\ page.overlays \in PartialFunctions(Locales, PageValues)
      /\ \A i \in DOMAIN page.nodes : page.nodes[i] \in Node
  BY <1>1, SequenceElements DEF Page
<1>4. /\ rows \in Seq(Row) /\ DistinctIds(rows) /\ ShapedRows(Row, rows) /\ Grounded(rows)
      /\ \A x \in ToSet(rows) : x \in Row /\ x.id \in Ids(rows) /\ x.kind = x.shared.case
      /\ \A x, y \in ToSet(rows) : x.id = y.id => x = y
  <2>1. rows \in Seq(Row) /\ DistinctIds(rows) /\ ShapedRows(Row, rows) /\ Grounded(rows)
    BY CheckedFacts, CheckedShaped
  <2> QED BY <2>1, CheckedFacts, DistinctIdsInjective
<1>5. \A k \in DOMAIN sections : sections[k] \in ToSet(rows) /\ ~IsRichFamily(sections[k])
  BY <1>1 DEF ToSet
<1>6. \A x \in ToSet(rows) : x.kind = "rich-text" => ~IsRichFamily(x)
  BY SectionChecked DEF PageKinds
<1>7. ASSUME NEW i \in DOMAIN sections
      PROVE  /\ page.nodes[i] = SectionNode(blocks, sections[i])
             /\ SectionRow(page.nodes[i], page.overlays) = Completed(rows, sections[i])
             /\ HasBlocks(page.nodes[i]) <=> sections[i].kind = "rich-text"
             /\ \A y : Under(i, y) <=> RowUnder(rows, sections[i], y)
  <2> DEFINE x == sections[i]
  <2>1. x \in ToSet(rows) /\ ~IsRichFamily(x) /\ page.nodes[i] = SectionNode(blocks, x)
    BY <1>1, <1>5
  <2>2. SectionRow(page.nodes[i], page.overlays) = Completed(rows, x)
    BY <2>1, SectionReturns
  <2>3. HasBlocks(page.nodes[i]) <=> x.kind = "rich-text"
    BY <1>4, <2>1 DEF HasBlocks, SectionNode
  <2>4. x.kind = "rich-text" =>
          \A y : (\E j \in DOMAIN page.nodes[i].blocks : y = BlockRow(page.nodes[i], page.overlays, j))
                   <=> y \in ToSet(rows) /\ IsRichFamily(y) /\ x.id \in Lineage(rows, y.id)
    BY <2>1, BlockRowsReturn
  <2> HIDE DEF x, page, blocks
  <2>5. \A y : Under(i, y) <=> RowUnder(rows, x, y)
    BY <2>2, <2>3, <2>4 DEF RowUnder
  <2> QED BY <2>1, <2>2, <2>3, <2>5 DEF x
<1>8. \A x \in ToSet(rows) : /\ ~IsRichFamily(x) => Completed(rows, x).id = x.id
                             /\ IsRichFamily(x) => Completed(rows, x) = x
  BY SectionReturns, CompletedBlock
<1> HIDE DEF page, flat, sections, blocks
<1>9. ASSUME NEW y, NEW x \in ToSet(rows), ~IsRichFamily(x), RowUnder(rows, x, y)
      PROVE  /\ y = Completed(rows, x) => y.id = x.id
             /\ y # Completed(rows, x) => y \in ToSet(rows) /\ IsRichFamily(y) /\ x.kind = "rich-text" /\ x.id \in Lineage(rows, y.id)
  BY <1>8, <1>9 DEF RowUnder
<1>10. ASSUME NEW i \in DOMAIN sections, NEW k \in DOMAIN sections, NEW y, NEW z,
              RowUnder(rows, sections[i], y), RowUnder(rows, sections[k], z), y.id = z.id
       PROVE  i = k
  <2> DEFINE a == sections[i]
             b == sections[k]
  <2>1. a \in ToSet(rows) /\ ~IsRichFamily(a) /\ b \in ToSet(rows) /\ ~IsRichFamily(b)
    BY <1>5
  <2>2. a = b
    <3> HIDE DEF a, b
    <3>0. RowUnder(rows, a, y) /\ RowUnder(rows, b, z)
      BY <1>10 DEF a, b
    <3>1. CASE y = Completed(rows, a) /\ z = Completed(rows, b)
      BY <1>4, <1>9, <1>10, <2>1, <3>0, <3>1
    <3>2. CASE y = Completed(rows, a) /\ z # Completed(rows, b)
      BY <1>4, <1>9, <1>10, <2>1, <3>0, <3>2
    <3>3. CASE y # Completed(rows, a) /\ z = Completed(rows, b)
      BY <1>4, <1>9, <1>10, <2>1, <3>0, <3>3
    <3>4. CASE y # Completed(rows, a) /\ z # Completed(rows, b)
      <4>1. /\ y \in ToSet(rows) /\ IsRichFamily(y) /\ a.kind = "rich-text" /\ a.id \in Lineage(rows, y.id)
            /\ z \in ToSet(rows) /\ b.kind = "rich-text" /\ b.id \in Lineage(rows, z.id)
        BY <1>9, <2>1, <3>0, <3>4
      <4>2. y = z
        BY <1>4, <1>10, <4>1
      <4> QED BY <1>4, <2>1, <4>1, <4>2, BlockOwner
    <3> QED BY <3>1, <3>2, <3>3, <3>4
  <2> QED BY <1>1, <2>2 DEF DistinctIds
<1>11. DistinctIds(flat)
  <2>1. ASSUME NEW i \in DOMAIN page.nodes PROVE DistinctIds(NodeRows(page.nodes[i], page.overlays))
    <3> DEFINE node == page.nodes[i]
               x == sections[i]
    <3>1. i \in DOMAIN sections /\ x \in ToSet(rows) /\ ~IsRichFamily(x) /\ node \in Node
          /\ node = SectionNode(blocks, x)
      BY <1>1, <1>3, <1>5, <2>1
    <3>2. SectionRow(node, page.overlays) = Completed(rows, x) /\ (HasBlocks(node) <=> x.kind = "rich-text")
      BY <1>7, <3>1
    <3> HIDE DEF node, x
    <3>3. ASSUME HasBlocks(node)
          PROVE  /\ \A j, k \in DOMAIN node.blocks :
                      BlockRow(node, page.overlays, j).id = BlockRow(node, page.overlays, k).id => j = k
                 /\ \A j \in DOMAIN node.blocks : BlockRow(node, page.overlays, j).id # SectionRow(node, page.overlays).id
      <4>1. /\ \A y : (\E j \in DOMAIN node.blocks : y = BlockRow(node, page.overlays, j))
                        <=> y \in ToSet(rows) /\ IsRichFamily(y) /\ x.id \in Lineage(rows, y.id)
            /\ \A j, k \in DOMAIN node.blocks :
                 BlockRow(node, page.overlays, j).id = BlockRow(node, page.overlays, k).id => j = k
        BY <3>1, <3>2, <3>3, BlockRowsReturn DEF page, blocks
      <4>2. \A j \in DOMAIN node.blocks : BlockRow(node, page.overlays, j) \in ToSet(rows) /\ IsRichFamily(BlockRow(node, page.overlays, j))
        BY <4>1
      <4>3. SectionRow(node, page.overlays).id = x.id
        BY <1>8, <3>1, <3>2
      <4> QED BY <1>4, <3>1, <4>1, <4>2, <4>3
    <3>4. DistinctIds(NodeRows(node, page.overlays))
      BY <1>3, <3>1, <3>3, NodeRowsElements
    <3> QED BY <3>4 DEF node
  <2>2. \A i \in DOMAIN page.nodes : \A y \in ToSet(NodeRows(page.nodes[i], page.overlays)) : RowUnder(rows, sections[i], y)
    <3> SUFFICES ASSUME NEW i \in DOMAIN page.nodes, NEW y \in ToSet(NodeRows(page.nodes[i], page.overlays))
                 PROVE  RowUnder(rows, sections[i], y)
      OBVIOUS
    <3>1. Under(i, y)
      BY <1>3, NodeRowsElements
    <3> QED BY <1>1, <1>7, <3>1
  <2>3. \A i, k \in DOMAIN page.nodes :
                 \A x \in ToSet(NodeRows(page.nodes[i], page.overlays)),
                    y \in ToSet(NodeRows(page.nodes[k], page.overlays)) : x.id = y.id => i = k
    BY <1>1, <1>10, <2>2
  <2> QED BY <1>2, <2>1, <2>3
<1>12. \A y : y \in ToSet(flat) <=> \E x \in ToSet(sections) : RowUnder(rows, x, y)
  <2>1. \A y : y \in ToSet(flat) <=> \E i \in DOMAIN sections : RowUnder(rows, sections[i], y)
    <3> HIDE DEF Under
    <3> QED BY <1>1, <1>2, <1>7
  <2> QED BY <2>1 DEF ToSet
<1>13. \A y : y \in ToSet(flat) <=> \E r \in ToSet(rows) : y = Completed(rows, r)
  <2> TAKE y
  <2>1. ASSUME NEW x \in ToSet(sections), RowUnder(rows, x, y) PROVE \E r \in ToSet(rows) : y = Completed(rows, r)
    <3>1. x \in ToSet(rows) /\ ~IsRichFamily(x)
      BY <1>1
    <3> QED BY <1>8, <1>9, <2>1, <3>1
  <2>2. ASSUME NEW r \in ToSet(rows), y = Completed(rows, r) PROVE \E x \in ToSet(sections) : RowUnder(rows, x, y)
    <3>1. CASE ~IsRichFamily(r)
      BY <1>1, <2>2, <3>1 DEF RowUnder
    <3>2. CASE IsRichFamily(r)
      <4>1. y = r
        BY <1>8, <2>2, <3>2
      <4>2. 0 \in Lineage(rows, r.id)
        BY <1>4 DEF Grounded
      <4>3. PICK s \in ToSet(rows) : s.kind = "rich-text" /\ ~IsRichFamily(s) /\ s.id \in Lineage(rows, r.id)
        BY <1>4, <3>2, <4>2, BlockLineage
      <4> QED BY <1>1, <3>2, <4>1, <4>3 DEF RowUnder
    <3> QED BY <3>1, <3>2
  <2> QED BY <1>12, <2>1, <2>2
<1> QED BY <1>2, <1>11, <1>13 DEF page, flat

\* The page that is rebuilt can be mode in the mode it was mode in.
LEMMA PageAccepted ==
    ASSUME NEW rows, NEW mode, RowsChecked(rows, mode), Len(rows) <= MaxDocumentBlocks
    PROVE  FlattenPageDocumentStorageAccepts(MaterializePageDocumentStorage(Source, rows), mode)
<1> DEFINE page == MaterializePageDocumentStorage(Source, rows)
           flat == FlattenPageDocumentStorage(page)
           sections == InPlacementOrder(SectionRows(rows))
           blocks == BlocksOf(rows)
<1>1. /\ DOMAIN page.nodes = DOMAIN sections /\ Source \in DOMAIN page.overlays
      /\ \A k \in DOMAIN sections : page.nodes[k] = SectionNode(blocks, sections[k])
      /\ \A x \in ToSet(sections) : x \in ToSet(rows) /\ ~IsRichFamily(x)
  BY PageParts
<1>2. /\ flat \in Seq(Row) /\ DistinctIds(flat)
      /\ \A y : y \in ToSet(flat) <=> \E r \in ToSet(rows) : y = Completed(rows, r)
  BY PageReturns
<1>3. \A x \in ToSet(rows) : Completed(rows, x).id = x.id /\ x.kind = x.shared.case
  BY SectionReturns, CompletedBlock, CheckedFacts
<1>4. Len(flat) <= MaxDocumentBlocks
  <2>1. rows \in Seq(Row) /\ Len(rows) <= MaxDocumentBlocks
    BY CheckedFacts
  <2>2. \A id \in Ids(flat) : id \in Ids(rows)
    BY <1>2, <1>3, IdsOfRows
  <2> HIDE DEF flat
  <2>3. Len(flat) <= Len(rows) /\ Len(flat) \in Nat /\ Len(rows) \in Nat
    BY <1>2, <2>1, <2>2, ShorterBelow, SequenceElements
  <2> QED BY <2>1, <2>3, MaxDocumentBlocksAssumption
<1>5. ASSUME NEW i \in DOMAIN page.nodes
      PROVE  /\ RowValid(Source, "page", SectionRow(page.nodes[i], page.overlays), mode)
             /\ page.nodes[i].shared.case = "rich-text" =>
                   FlattenRichTextDocumentStorageAccepts(Source, "page", page.nodes[i].blocks,
                                                         NestedOverlays(page.nodes[i], page.overlays), mode)
  <2> DEFINE x == sections[i]
  <2>1. x \in ToSet(rows) /\ ~IsRichFamily(x) /\ page.nodes[i] = SectionNode(blocks, x)
    BY <1>1, <1>5 DEF ToSet
  <2>2. RowValid(Source, "page", SectionRow(page.nodes[i], page.overlays), mode)
    BY <2>1, SectionReturns
  <2>3. page.nodes[i].shared.case = "rich-text" => x.kind = "rich-text"
    BY <1>3, <2>1 DEF SectionNode
  <2> HIDE DEF x
  <2>4. ASSUME x.kind = "rich-text"
        PROVE  FlattenRichTextDocumentStorageAccepts(Source, "page", page.nodes[i].blocks,
                                                     NestedOverlays(page.nodes[i], page.overlays), mode)
    BY <2>1, <2>4, NestedReturns
  <2> QED BY <2>2, <2>3, <2>4
<1> QED BY <1>1, <1>4, <1>5 DEF FlattenPageDocumentStorageAccepts

(***************************************************************************)
(* The rows of a page that the TypeScript runtime accepts.                 *)
(***************************************************************************)

\* The row of a section of the page, of a block of a section, and what a row is of.
RowOfSection(page, rows, i) ==
    LET node == page.nodes[i]
        r == RowOf(rows, node.id)
    IN /\ r \in ToSet(rows) /\ ~IsRichFamily(r) /\ node.id \in Ids(rows)
       /\ r.id = node.id /\ r.parent = node.parent /\ r.pos = int32(node.index)
       /\ r.kind = node.shared.case /\ r.kind \in PageKinds
       /\ r.shared.case = node.shared.case /\ r.shared.columns = node.shared.columns
       /\ r.slot = IF node.column = 0 THEN Sections ELSE Column(node.column)
       /\ (node.parent = 0) <=> (node.column = 0)
       /\ \A k \in DOMAIN page.nodes : page.nodes[k].id = node.id => i = k

RowOfBlock(page, rows, i, j) ==
    LET node == page.nodes[i]
        block == node.blocks[j]
        r == RowOf(rows, block.id)
    IN /\ r \in ToSet(rows) /\ IsRichFamily(r) /\ block.id \in Ids(rows)
       /\ r.id = block.id /\ r.pos = int32(block.index)
       /\ r.parent = IF block.parent = 0 THEN node.id ELSE block.parent
       /\ r.kind = block.shared.case /\ r.shared.case = block.shared.case
       /\ r.kind \in ProfileBlocks["page"] /\ r.kind # "rich-text"
       /\ block.parent # 0 => \E k \in DOMAIN node.blocks : node.blocks[k].id = block.parent

RowIsOf(page, r) ==
    \E i \in DOMAIN page.nodes :
       \/ ~IsRichFamily(r) /\ r.id = page.nodes[i].id
       \/ /\ IsRichFamily(r) /\ HasBlocks(page.nodes[i])
          /\ \E j \in DOMAIN page.nodes[i].blocks : r.id = page.nodes[i].blocks[j].id

\* The rows are those of a page that the TypeScript runtime accepts, and no two have one id.
RowsOfPage(page, rows, mode) ==
    /\ page \in Page /\ TsFlattenPageAccepts(page, mode)
    /\ StoredRows(rows) /\ UniqueIds(rows)
    /\ \A i \in DOMAIN page.nodes : RowOfSection(page, rows, i)
    /\ \A i \in DOMAIN page.nodes :
          HasBlocks(page.nodes[i]) => \A j \in DOMAIN page.nodes[i].blocks : RowOfBlock(page, rows, i, j)
    /\ \A r \in ToSet(rows) : RowIsOf(page, r)

\* What this gives of the page and of the rows.
LEMMA PageRowsFacts ==
    ASSUME NEW page, NEW rows, NEW mode, RowsOfPage(page, rows, mode)
    PROVE  /\ page \in Page /\ page.nodes \in Seq(Node) /\ page.overlays \in PartialFunctions(Locales, PageValues)
           /\ rows \in Seq(Row) /\ DistinctIds(rows) /\ RowSet(Row) /\ StoredRows(rows) /\ UniqueIds(rows)
           /\ \A x \in ToSet(rows) : x \in Row /\ StoredRow(x) /\ x.id \in Ids(rows) /\ RowOf(rows, x.id) = x
           /\ validatePageGraph(Source, page.nodes, page.overlays, mode)
           /\ OverlaysMatch(Source, page.nodes, page.overlays)
           /\ \A i \in DOMAIN page.nodes : HasBlocks(page.nodes[i]) =>
                validateRichGraph(Source, "page", page.nodes[i].blocks, TsNestedOverlays(page.nodes[i], page.overlays), mode)
<1>1. page \in Page /\ page.nodes \in Seq(Node) /\ page.overlays \in PartialFunctions(Locales, PageValues) /\ StoredRows(rows)
  BY DEF RowsOfPage, Page
<1>2. rows \in Seq(Row) /\ DistinctIds(rows) /\ RowSet(Row) /\ UniqueIds(rows)
  BY <1>1, UniqueIdsDistinct, RowIsRowSet DEF RowsOfPage, StoredRows
<1>3. \A x \in ToSet(rows) : x \in Row /\ StoredRow(x) /\ x.id \in Ids(rows) /\ RowOf(rows, x.id) = x
  BY <1>1, <1>2, RowOfRow DEF StoredRows, StoredRow
<1>4. validatePageGraph(Source, page.nodes, page.overlays, mode) /\ OverlaysMatch(Source, page.nodes, page.overlays)
  BY DEF RowsOfPage, TsFlattenPageAccepts, validatePageGraph
<1> QED BY <1>1, <1>2, <1>3, <1>4 DEF RowsOfPage, TsFlattenPageAccepts, HasBlocks

\* The row of a section of the page.
LEMMA SectionOfPage ==
    ASSUME NEW page, NEW rows, NEW mode, RowsOfPage(page, rows, mode), NEW i \in DOMAIN page.nodes
    PROVE  LET node == page.nodes[i]
               r == RowOf(rows, node.id)
           IN /\ r \in ToSet(rows) /\ ~IsRichFamily(r) /\ node.id \in Ids(rows)
              /\ r.id = node.id /\ r.parent = node.parent /\ r.pos = int32(node.index)
              /\ r.kind = node.shared.case /\ r.kind \in PageKinds
              /\ r.shared.case = node.shared.case /\ r.shared.columns = node.shared.columns
              /\ r.slot = IF node.column = 0 THEN Sections ELSE Column(node.column)
              /\ (node.parent = 0) <=> (node.column = 0)
              /\ \A k \in DOMAIN page.nodes : page.nodes[k].id = node.id => i = k
  BY DEF RowsOfPage, RowOfSection

\* The row of a block of the page.
LEMMA BlockOfPage ==
    ASSUME NEW page, NEW rows, NEW mode, RowsOfPage(page, rows, mode),
           NEW i \in DOMAIN page.nodes, HasBlocks(page.nodes[i]), NEW j \in DOMAIN page.nodes[i].blocks
    PROVE  LET node == page.nodes[i]
               block == node.blocks[j]
               r == RowOf(rows, block.id)
           IN /\ r \in ToSet(rows) /\ IsRichFamily(r) /\ block.id \in Ids(rows)
              /\ r.id = block.id /\ r.pos = int32(block.index)
              /\ r.parent = IF block.parent = 0 THEN node.id ELSE block.parent
              /\ r.kind = block.shared.case /\ r.shared.case = block.shared.case
              /\ r.kind \in ProfileBlocks["page"] /\ r.kind # "rich-text"
              /\ block.parent # 0 => \E k \in DOMAIN node.blocks : node.blocks[k].id = block.parent
  BY DEF RowsOfPage, RowOfBlock

\* Every row is that of a section or block of the page.
LEMMA RowOfPage ==
    ASSUME NEW page, NEW rows, NEW mode, RowsOfPage(page, rows, mode), NEW r \in ToSet(rows)
    PROVE  \E i \in DOMAIN page.nodes :
              \/ ~IsRichFamily(r) /\ r.id = page.nodes[i].id
              \/ /\ IsRichFamily(r) /\ HasBlocks(page.nodes[i])
                 /\ \E j \in DOMAIN page.nodes[i].blocks : r.id = page.nodes[i].blocks[j].id
  BY DEF RowsOfPage, RowIsOf

\* The rows of an accepted page have the shape of a page.
LEMMA SavedShaped ==
    ASSUME NEW page, NEW rows, NEW mode, RowsOfPage(page, rows, mode)
    PROVE  ShapedRows(Row, rows)
<1>1. ASSUME NEW r \in ToSet(rows), ~IsRichFamily(r), r.parent # 0
      PROVE  \E p \in ToSet(rows) : p.id = r.parent /\ ~IsRichFamily(p) /\ p.parent = 0 /\ p.kind # "rich-text"
  <2>1. PICK i \in DOMAIN page.nodes : r.id = page.nodes[i].id
    BY <1>1, RowOfPage
  <2>2. r.parent = page.nodes[i].parent
    BY <2>1, PageRowsFacts, SectionOfPage
  <2>3. \A k \in DOMAIN page.nodes : page.nodes[k].parent # 0 => ColumnPlaced(page.nodes, page.nodes[k])
    BY PageRowsFacts DEF validatePageGraph
  <2>4. PICK j \in DOMAIN page.nodes : page.nodes[j].id = r.parent /\ page.nodes[j].shared.case = "columns"
    BY <1>1, <2>2, <2>3 DEF ColumnPlaced
  <2>5. page.nodes[j].parent = 0
    BY <2>3, <2>4 DEF ColumnPlaced, ColumnChildKinds
  <2> DEFINE p == RowOf(rows, r.parent)
  <2>6. p \in ToSet(rows) /\ p.id = r.parent /\ ~IsRichFamily(p) /\ p.parent = 0 /\ p.kind = "columns"
    BY <2>4, <2>5, SectionOfPage
  <2> QED BY <2>6
<1>2. ASSUME NEW r \in ToSet(rows), IsRichFamily(r)
      PROVE  /\ r.kind # "rich-text"
             /\ \E p \in ToSet(rows) : p.id = r.parent /\ (IsRichFamily(p) \/ p.kind = "rich-text")
  <2>1. PICK i \in DOMAIN page.nodes :
           HasBlocks(page.nodes[i]) /\ \E j \in DOMAIN page.nodes[i].blocks : r.id = page.nodes[i].blocks[j].id
    BY <1>2, RowOfPage
  <2>2. PICK j \in DOMAIN page.nodes[i].blocks : r.id = page.nodes[i].blocks[j].id
    BY <2>1
  <2> DEFINE block == page.nodes[i].blocks[j]
             p == RowOf(rows, r.parent)
  <2>3. /\ r.kind # "rich-text" /\ r.parent = IF block.parent = 0 THEN page.nodes[i].id ELSE block.parent
        /\ block.parent # 0 => \E k \in DOMAIN page.nodes[i].blocks : page.nodes[i].blocks[k].id = block.parent
    BY <2>1, <2>2, PageRowsFacts, BlockOfPage
  <2> HIDE DEF block
  <2>4. CASE block.parent = 0
    <3>1. p \in ToSet(rows) /\ p.id = r.parent /\ p.kind = "rich-text"
      BY <2>1, <2>3, <2>4, SectionOfPage DEF HasBlocks
    <3> QED BY <2>3, <3>1
  <2>5. CASE block.parent # 0
    <3>1. PICK k \in DOMAIN page.nodes[i].blocks : page.nodes[i].blocks[k].id = r.parent
      BY <2>3, <2>5
    <3>2. p \in ToSet(rows) /\ p.id = r.parent /\ IsRichFamily(p)
      BY <2>1, <3>1, BlockOfPage
    <3> QED BY <2>3, <3>2
  <2> QED BY <2>4, <2>5
<1>3. PageShaped(rows)
  BY <1>1, <1>2 DEF PageShaped
<1> QED BY <1>3, PageRowsFacts DEF ShapedRows

\* The only section of rich text above a block is the one it is in.
LEMMA BlockOwned ==
    ASSUME NEW page, NEW rows, NEW mode, RowsOfPage(page, rows, mode),
           NEW i \in DOMAIN page.nodes, HasBlocks(page.nodes[i]), NEW j \in DOMAIN page.nodes[i].blocks,
           NEW s \in ToSet(rows), s.kind = "rich-text", s.id \in Lineage(rows, page.nodes[i].blocks[j].id)
    PROVE  s.id = page.nodes[i].id
<1> DEFINE node == page.nodes[i]
           blocks == node.blocks
           ids == {blocks[k].id : k \in DOMAIN blocks}
           T == {node.id} \cup ids
           rich == TsRichRows(rows)
           id == blocks[j].id
<1>1. /\ rows \in Seq(Row) /\ DistinctIds(rows) /\ ShapedRows(Row, rows)
      /\ \A x \in ToSet(rows) : x.id \in Ids(rows) /\ RowOf(rows, x.id) = x
  BY PageRowsFacts, SavedShaped
<1>2. /\ rich \in Seq(Row) /\ DistinctIds(rich)
      /\ \A x : x \in ToSet(rich) <=> x \in ToSet(rows) /\ IsRichFamily(x)
  BY <1>1, TsRowsElements
<1>3. \A k \in DOMAIN blocks : LET r == RowOf(rows, blocks[k].id)
                               IN /\ r \in ToSet(rows) /\ IsRichFamily(r) /\ r.id = blocks[k].id
                                  /\ r.parent \in T
  <2> TAKE k \in DOMAIN blocks
  <2> DEFINE r == RowOf(rows, blocks[k].id)
  <2>1. /\ r \in ToSet(rows) /\ IsRichFamily(r) /\ r.id = blocks[k].id
        /\ r.parent = IF blocks[k].parent = 0 THEN node.id ELSE blocks[k].parent
        /\ blocks[k].parent # 0 => \E m \in DOMAIN blocks : blocks[m].id = blocks[k].parent
    BY BlockOfPage
  <2> HIDE DEF r
  <2>2. r.parent \in T
    BY <2>1
  <2> QED BY <2>1, <2>2 DEF r
<1>4. ~IsRichFamily(s)
  BY <1>1 DEF ShapedRows, PageShaped
<1>5. s.id \in Lineage(rich, id)
  <2> DEFINE r == RowOf(rows, id)
  <2>1. r \in ToSet(rows) /\ IsRichFamily(r) /\ r.id = id
    BY <1>3
  <2> HIDE DEF r, id
  <2> QED BY <1>1, <2>1, TsLineage DEF id
<1>6. \A a \in T \cap Ids(rich) : RowOf(rich, a).parent \in T
  <2> TAKE a \in T \cap Ids(rich)
  <2>1. RowOf(rich, a) \in ToSet(rich) /\ RowOf(rich, a).id = a
    BY RowOfId
  <2>2. RowOf(rich, a) = RowOf(rows, a) /\ IsRichFamily(RowOf(rows, a))
    BY <1>1, <1>2, <2>1
  <2>3. a # node.id
    BY <2>2, SectionOfPage
  <2>4. PICK k \in DOMAIN blocks : blocks[k].id = a
    BY <2>3
  <2> QED BY <1>3, <2>2, <2>4
<1>7. id \in T
  OBVIOUS
<1>8. s.id \in T
  <2> HIDE DEF T, rich, id
  <2> QED BY <1>2, <1>5, <1>6, <1>7, LineageLeast
<1>9. s.id \notin ids
  BY <1>1, <1>3, <1>4
<1> QED BY <1>8, <1>9

(* The blocks of a section that are rebuilt are the blocks it had. *)
LEMMA SavedBlocks ==
    ASSUME NEW page, NEW rows, NEW mode, RowsOfPage(page, rows, mode), Grounded(rows),
           NEW i \in DOMAIN page.nodes, HasBlocks(page.nodes[i])
    PROVE  LET node == page.nodes[i]
               below == Descendants(rows, node.id)
           IN /\ \A x \in ToSet(below) : \E j \in DOMAIN node.blocks :
                    /\ x.id = node.blocks[j].id /\ x.parent = node.blocks[j].parent /\ x.pos = int32(node.blocks[j].index)
                    /\ x.shared.case = node.blocks[j].shared.case
                    /\ x.kind = x.shared.case /\ x.kind \in ProfileBlocks["page"]
              /\ \A j \in DOMAIN node.blocks :
                    \E x \in ToSet(below) : x.id = node.blocks[j].id /\ x.pos = int32(node.blocks[j].index)
<1> DEFINE node == page.nodes[i]
           below == Descendants(rows, node.id)
<1>1. /\ rows \in Seq(Row) /\ DistinctIds(rows) /\ RowSet(Row) /\ ShapedRows(Row, rows)
      /\ \A x \in ToSet(rows) : x \in Row /\ x.id \in Ids(rows) /\ RowOf(rows, x.id) = x
  BY PageRowsFacts, SavedShaped
<1>2. \A x : x \in ToSet(below) <=> \E r : BlockOf(rows, node.id, r) /\ x = Rooted(node.id, r)
  BY <1>1, DescendantsElements
<1> HIDE DEF below
<1> DEFINE s == RowOf(rows, node.id)
<1>3. s \in ToSet(rows) /\ s.kind = "rich-text" /\ s.id = node.id /\ node.id # 0 /\ ~IsRichFamily(s)
  BY <1>1, SectionOfPage, ShapedFacts DEF HasBlocks
<1> HIDE DEF s
<1>4. ASSUME NEW k \in DOMAIN page.nodes, HasBlocks(page.nodes[k]), NEW j \in DOMAIN page.nodes[k].blocks
      PROVE  node.id \in Lineage(rows, page.nodes[k].blocks[j].id) <=> i = k
  <2> DEFINE id == page.nodes[k].blocks[j].id
             r == RowOf(rows, id)
  <2>1. r \in ToSet(rows) /\ IsRichFamily(r) /\ r.id = id
    BY <1>4, BlockOfPage
  <2>2. ASSUME node.id \in Lineage(rows, id) PROVE i = k
    <3>1. s.id = page.nodes[k].id
      BY <1>3, <1>4, <2>2, BlockOwned
    <3> QED BY <1>3, <3>1, SectionOfPage
  <2>3. ASSUME i = k PROVE node.id \in Lineage(rows, id)
    <3>1. 0 \in Lineage(rows, r.id)
      BY <1>1, <2>1 DEF Grounded
    <3> HIDE DEF r
    <3>2. PICK t \in ToSet(rows) : t.kind = "rich-text" /\ t.id \in Lineage(rows, r.id)
      BY <1>1, <2>1, <3>1, BlockLineage
    <3>3. t.id = node.id
      BY <1>4, <2>1, <2>3, <3>2, BlockOwned
    <3> QED BY <2>1, <3>2, <3>3
  <2> QED BY <2>2, <2>3
<1>5. ASSUME NEW x \in ToSet(below)
      PROVE  \E j \in DOMAIN node.blocks :
                /\ x.id = node.blocks[j].id /\ x.parent = node.blocks[j].parent /\ x.pos = int32(node.blocks[j].index)
                /\ x.shared.case = node.blocks[j].shared.case
                /\ x.kind = x.shared.case /\ x.kind \in ProfileBlocks["page"]
  <2>1. PICK r : BlockOf(rows, node.id, r) /\ x = Rooted(node.id, r)
    BY <1>2
  <2>2. r \in ToSet(rows) /\ ~IsSection(rows, r.id) /\ node.id \in Lineage(rows, r.id) /\ r \in Row
    BY <1>1, <2>1 DEF BlockOf
  <2>3. IsRichFamily(r)
    BY <1>1, <2>2, SectionLineage
  <2>4. PICK k \in DOMAIN page.nodes :
           HasBlocks(page.nodes[k]) /\ \E j \in DOMAIN page.nodes[k].blocks : r.id = page.nodes[k].blocks[j].id
    BY <2>2, <2>3, RowOfPage
  <2>5. PICK j \in DOMAIN page.nodes[k].blocks : r.id = page.nodes[k].blocks[j].id
    BY <2>4
  <2>6. i = k
    BY <1>4, <2>2, <2>4, <2>5
  <2> DEFINE block == node.blocks[j]
  <2>7. /\ RowOf(rows, r.id) = r
        /\ r.id = block.id /\ r.pos = int32(block.index)
        /\ r.parent = IF block.parent = 0 THEN node.id ELSE block.parent
        /\ r.kind = block.shared.case /\ r.shared.case = block.shared.case /\ r.kind \in ProfileBlocks["page"]
        /\ block.parent # 0 => \E m \in DOMAIN node.blocks : node.blocks[m].id = block.parent
    BY <1>1, <2>2, <2>5, <2>6, BlockOfPage
  <2>8. block.parent # node.id
    <3> SUFFICES ASSUME block.parent = node.id PROVE FALSE
      OBVIOUS
    <3>1. PICK m \in DOMAIN node.blocks : node.blocks[m].id = node.id
      BY <1>3, <2>7
    <3>2. IsRichFamily(RowOf(rows, node.id))
      BY <3>1, BlockOfPage
    <3> QED BY <3>2, <1>3 DEF s
  <2>9. x.id = r.id /\ x.pos = r.pos /\ x.kind = r.kind /\ x.shared = r.shared /\ x.parent = IF r.parent = node.id THEN 0 ELSE r.parent
    BY <1>1, <2>1, <2>2, RowFacts DEF Rooted
  <2>10. x.parent = block.parent
    BY <2>7, <2>8, <2>9
  <2> QED BY <2>5, <2>6, <2>7, <2>9, <2>10
<1>6. ASSUME NEW j \in DOMAIN node.blocks
      PROVE  \E x \in ToSet(below) : x.id = node.blocks[j].id /\ x.pos = int32(node.blocks[j].index)
  <2> DEFINE r == RowOf(rows, node.blocks[j].id)
  <2>1. r \in ToSet(rows) /\ IsRichFamily(r) /\ r.id = node.blocks[j].id /\ r.pos = int32(node.blocks[j].index)
    BY BlockOfPage
  <2> HIDE DEF r
  <2>2. node.id \in Lineage(rows, r.id)
    BY <1>4, <2>1
  <2>3. 0 \in Lineage(rows, r.id)
    BY <1>1, <2>1 DEF Grounded
  <2>4. BlockOf(rows, node.id, r)
    BY <1>1, <2>1, <2>2, <2>3, BlockLineage DEF BlockOf
  <2>5. Rooted(node.id, r) \in ToSet(below) /\ Rooted(node.id, r).id = r.id /\ Rooted(node.id, r).pos = r.pos
    BY <1>1, <1>2, <2>1, <2>4, RowFacts DEF Rooted
  <2> QED BY <2>1, <2>5
<1> QED BY <1>5, <1>6 DEF below

\* Rows as blocks are saved: each valid for its kind, and where one of the blocks is.
SavedAs(form, below, blocks) ==
    /\ \A x \in ToSet(below) : \E j \in DOMAIN blocks :
          /\ x.id = blocks[j].id /\ x.parent = blocks[j].parent /\ x.pos = int32(blocks[j].index)
          /\ x.shared.case = blocks[j].shared.case
          /\ x.kind = x.shared.case /\ x.kind \in ProfileBlocks[form]
    /\ \A j \in DOMAIN blocks : \E x \in ToSet(below) : x.id = blocks[j].id /\ x.pos = int32(blocks[j].index)

\* The TypeScript runtime accepts again the blocks of a rich text it has accepted, when their indexes fit.
LEMMA GraphAccepted ==
    ASSUME NEW form \in {"page", "post"}, NEW mode, NEW values, NEW blocks \in Seq(Block),
           validateRichGraph(Source, form, blocks, values, mode),
           NEW below \in Seq(Row), DistinctIds(below), SavedAs(form, below, blocks),
           \A x \in ToSet(below) : /\ x \in Row /\ x.kind \in RichKinds /\ x.shared.case = x.kind
                                   /\ Source \in DOMAIN x.locales /\ \A l \in DOMAIN x.locales : x.locales[l].case = x.kind
    PROVE  TsMaterializeRichAccepts(Source, form, below) <=> Fit(blocks)
<1> DEFINE ordered == InPlacementOrder(below)
           nodes == RichNodes(below)
           overlays == RichOverlays(Source, below)
<1>1. /\ below \in Seq(Row) /\ DistinctIds(below)
      /\ \A x \in ToSet(below) : /\ x \in Row /\ x.kind \in RichKinds /\ x.shared.case = x.kind
                                  /\ Source \in DOMAIN x.locales /\ \A l \in DOMAIN x.locales : x.locales[l].case = x.kind
  OBVIOUS
<1>2. /\ ordered \in Seq(Row) /\ Len(ordered) = Len(below) /\ ToSet(ordered) = ToSet(below) /\ DistinctIds(ordered)
  BY <1>1, RowIsRowSet, PlacementOrder
<1>3. /\ nodes \in Seq(Block) /\ DOMAIN nodes = DOMAIN ordered
      /\ \A k \in DOMAIN nodes :
           /\ nodes[k].id = ordered[k].id /\ nodes[k].parent = ordered[k].parent
           /\ nodes[k].index = uint32(ordered[k].pos) /\ nodes[k].shared = ordered[k].shared
           /\ ordered[k] \in ToSet(below)
  <2>1. \A k \in DOMAIN ordered : ordered[k] \in ToSet(below)
    BY <1>2 DEF ToSet
  <2> QED BY <1>1, <2>1, RichNodesTyped
<1>4. /\ \A x \in ToSet(below) : \E j \in DOMAIN blocks :
                    /\ x.id = blocks[j].id /\ x.parent = blocks[j].parent /\ x.pos = int32(blocks[j].index)
                    /\ x.shared.case = blocks[j].shared.case
                    /\ x.kind = x.shared.case /\ x.kind \in ProfileBlocks[form]
      /\ \A j \in DOMAIN blocks : \E x \in ToSet(below) : x.id = blocks[j].id /\ x.pos = int32(blocks[j].index)
  BY DEF SavedAs
<1>5. validateRichGraph(Source, form, blocks, values, mode)
  OBVIOUS
<1>6. blocks \in Seq(Block)
  OBVIOUS
<1>7. /\ DOMAIN overlays = RowLocales(below) \cup {Source}
      /\ \A l \in DOMAIN overlays : /\ DOMAIN overlays[l] = IdsIn(below, l)
                                    /\ \A id \in IdsIn(below, l) : overlays[l][id] = RowOf(below, id).locales[l]
  BY <1>1, RichOverlaysTyped
<1> HIDE DEF ordered, nodes, overlays
<1>8. Len(below) <= Len(blocks)
  <2>1. \A id \in Ids(below) : id \in Ids(blocks)
    <3> TAKE id \in Ids(below)
    <3>1. PICK x \in ToSet(below) : x.id = id
      BY IdsOfRows
    <3>2. PICK j \in DOMAIN blocks : x.id = blocks[j].id
      BY <1>4
    <3> QED BY <3>1, <3>2 DEF Ids
  <2> QED BY <1>1, <1>6, <2>1, ShorterBelow
<1>9. /\ Len(nodes) \in Nat /\ DOMAIN nodes = 1..Len(nodes) /\ Len(below) \in Nat
       /\ Len(ordered) \in Nat /\ DOMAIN ordered = 1..Len(ordered)
  BY <1>1, <1>2, <1>3, SequenceElements
<1>10. Len(nodes) = Len(below)
  BY <1>2, <1>3, <1>9, SameLength
<1>11. Len(nodes) <= MaxDocumentBlocks
  <2>1. Len(blocks) <= MaxDocumentBlocks /\ Len(blocks) \in Nat
    BY <1>5, <1>6, SequenceElements DEF validateRichGraph
  <2> QED BY <1>8, <1>9, <1>10, <2>1, MaxDocumentBlocksAssumption
<1>12. Distinct(nodes, LAMBDA n : n.id)
  <2> DEFINE t == [k \in DOMAIN nodes |-> nodes[k].id]
  <2>1. \A k, m \in DOMAIN nodes : t[k] = t[m] => k = m
    BY <1>2, <1>3 DEF DistinctIds
  <2>2. {nodes[k].id : k \in DOMAIN nodes} = {t[k] : k \in DOMAIN nodes}
    OBVIOUS
  <2>3. DOMAIN t = DOMAIN nodes /\ t = [k \in DOMAIN t |-> t[k]]
    OBVIOUS
  <2> HIDE DEF t
  <2>4. Cardinality({t[k] : k \in DOMAIN nodes}) = Len(nodes)
    BY <1>3, <2>1, <2>3, Tagged
  <2> QED BY <2>2, <2>4 DEF Distinct
<1>13. \A j, m \in DOMAIN blocks :
          blocks[j].parent = blocks[m].parent /\ blocks[j].index = blocks[m].index => j = m
  <2> DEFINE t == [k \in DOMAIN blocks |-> <<blocks[k].parent, blocks[k].index>>]
  <2>1. Distinct(blocks, LAMBDA n : <<n.parent, n.index>>)
    BY <1>5 DEF validateRichGraph
  <2>2. Cardinality({<<blocks[k].parent, blocks[k].index>> : k \in DOMAIN blocks}) = Len(blocks)
    BY <2>1 DEF Distinct
  <2>3. {<<blocks[k].parent, blocks[k].index>> : k \in DOMAIN blocks} = {t[k] : k \in DOMAIN blocks}
    OBVIOUS
  <2>4. DOMAIN t = DOMAIN blocks /\ t = [k \in DOMAIN t |-> t[k]]
    OBVIOUS
  <2>5. \A j, m \in DOMAIN blocks : blocks[j].parent = blocks[m].parent /\ blocks[j].index = blocks[m].index => t[j] = t[m]
    OBVIOUS
  <2> HIDE DEF t
  <2>6. \A j, m \in DOMAIN blocks : t[j] = t[m] => j = m
    BY <1>6, <2>2, <2>3, <2>4, Tagged
  <2> QED BY <2>5, <2>6
<1>13a. \A j \in DOMAIN blocks : blocks[j].index \in UInt32
  <2>1. \A j \in DOMAIN blocks : blocks[j] \in Block
    BY <1>6, SequenceElements
  <2> QED BY <2>1 DEF Block
<1>14. Distinct(nodes, LAMBDA n : <<n.parent, n.index>>)
  <2> DEFINE t == [k \in DOMAIN nodes |-> <<nodes[k].parent, nodes[k].index>>]
  <2>1. ASSUME NEW k \in DOMAIN nodes, NEW m \in DOMAIN nodes, t[k] = t[m] PROVE k = m
    <3>1. nodes[k].parent = nodes[m].parent /\ nodes[k].index = nodes[m].index
      BY <2>1
    <3>2. PICK j \in DOMAIN blocks :
             ordered[k].id = blocks[j].id /\ ordered[k].parent = blocks[j].parent /\ ordered[k].pos = int32(blocks[j].index)
      <4>1. ordered[k] \in ToSet(below)
        BY <1>3
      <4> QED BY <1>4, <4>1
    <3>3. PICK q \in DOMAIN blocks :
             ordered[m].id = blocks[q].id /\ ordered[m].parent = blocks[q].parent /\ ordered[m].pos = int32(blocks[q].index)
      <4>1. ordered[m] \in ToSet(below)
        BY <1>3
      <4> QED BY <1>4, <4>1
    <3>4. nodes[k].index = blocks[j].index /\ nodes[m].index = blocks[q].index
      <4>1. uint32(int32(blocks[j].index)) = blocks[j].index /\ uint32(int32(blocks[q].index)) = blocks[q].index
        BY <1>13a, Conversions
      <4>2. nodes[k].index = uint32(ordered[k].pos) /\ nodes[m].index = uint32(ordered[m].pos)
        BY <1>3
      <4> QED BY <3>2, <3>3, <4>1, <4>2
    <3>5. j = q
      <4>1. nodes[k].parent = ordered[k].parent /\ nodes[m].parent = ordered[m].parent
        BY <1>3
      <4>2. blocks[j].parent = blocks[q].parent /\ blocks[j].index = blocks[q].index
        BY <3>1, <3>2, <3>3, <3>4, <4>1
      <4> QED BY <1>13, <4>2
    <3> QED BY <1>2, <1>3, <3>2, <3>3, <3>5 DEF DistinctIds
  <2>2. {<<nodes[k].parent, nodes[k].index>> : k \in DOMAIN nodes} = {t[k] : k \in DOMAIN nodes}
    OBVIOUS
  <2>3. DOMAIN t = DOMAIN nodes /\ t = [k \in DOMAIN t |-> t[k]]
    OBVIOUS
  <2> HIDE DEF t
  <2>4. Cardinality({t[k] : k \in DOMAIN nodes}) = Len(nodes)
    BY <1>3, <2>1, <2>3, Tagged
  <2> QED BY <2>2, <2>4 DEF Distinct
<1>15. \A k \in DOMAIN nodes : TsPayloadValid(form, TRUE, nodes[k].shared, "RESTORE_SNAPSHOT")
  <2> TAKE k \in DOMAIN nodes
  <2>1. nodes[k].shared.case \in ProfileBlocks[form]
    BY <1>3, <1>4
  <2> QED BY <2>1 DEF TsPayloadValid, TsKindAllowed
<1>16. ASSUME NEW k \in DOMAIN nodes, nodes[k].parent # 0 PROVE \E m \in DOMAIN nodes : nodes[m].id = nodes[k].parent
  <2>1. PICK j \in DOMAIN blocks : ordered[k].parent = blocks[j].parent
    BY <1>3, <1>4
  <2>2. PICK q \in DOMAIN blocks : blocks[q].id = blocks[j].parent
    BY <1>3, <1>5, <1>16, <2>1 DEF validateRichGraph
  <2>3. PICK x \in ToSet(below) : x.id = blocks[q].id
    BY <1>4
  <2>4. PICK m \in DOMAIN ordered : ordered[m] = x
    BY <1>2, <2>3 DEF ToSet
  <2> QED BY <1>3, <2>1, <2>2, <2>3, <2>4
<1>17. OverlaysMatch(Source, nodes, overlays)
  <2>1. ASSUME NEW l \in DOMAIN overlays, NEW id \in DOMAIN overlays[l]
        PROVE  \E k \in DOMAIN nodes : nodes[k].id = id /\ nodes[k].shared.case = overlays[l][id].case
    <3>1. PICK x \in ToSet(below) : x.id = id /\ l \in DOMAIN x.locales
      BY <1>7, <2>1, IdsInLocale
    <3>2. RowOf(below, id) = x
      BY <1>1, <3>1, RowOfRow
    <3>3. x.shared.case = x.kind /\ x.locales[l].case = x.kind
      BY <1>1, <3>1
    <3>4. overlays[l][id] = x.locales[l]
      BY <1>7, <3>2
    <3>5. PICK k \in DOMAIN ordered : ordered[k] = x
      BY <1>2, <3>1 DEF ToSet
    <3> QED BY <1>3, <3>1, <3>3, <3>4, <3>5
  <2> QED BY <1>7, <2>1 DEF OverlaysMatch
<1>18. validateRichGraph(Source, form, nodes, overlays, "RESTORE_SNAPSHOT")
  BY <1>11, <1>12, <1>14, <1>15, <1>16, <1>17 DEF validateRichGraph
<1>19. UniqueIds(below)
  BY <1>1, UniqueIdsDistinct
<1>20. \A k \in DOMAIN below : /\ below[k].kind \in RichKinds
                              /\ below[k].shared.case = below[k].kind
                              /\ Source \in DOMAIN below[k].locales
  BY <1>1 DEF ToSet
<1>21. (\A k \in DOMAIN below : below[k].pos >= 0) <=> Fit(blocks)
  <2>1. ASSUME Fit(blocks), NEW k \in DOMAIN below PROVE below[k].pos >= 0
    <3>1. PICK j \in DOMAIN blocks : below[k].pos = int32(blocks[j].index)
      BY <1>4 DEF ToSet
    <3> QED BY <1>13a, <2>1, <3>1, Conversions DEF Fit
  <2>2. ASSUME \A k \in DOMAIN below : below[k].pos >= 0, NEW j \in DOMAIN blocks PROVE blocks[j].index < HalfRange
    <3>1. PICK k \in DOMAIN below : below[k].pos = int32(blocks[j].index)
      BY <1>4 DEF ToSet
    <3> QED BY <1>13a, <2>2, <3>1, Conversions
  <2> QED BY <2>1, <2>2 DEF Fit
<1> QED BY <1>18, <1>19, <1>20, <1>21 DEF TsMaterializeRichAccepts, nodes, overlays

\* The TypeScript runtime accepts the blocks of a section again, when their indexes fit.
LEMMA SavedBlocksAccepted ==
    ASSUME NEW page, NEW rows, NEW mode, RowsOfPage(page, rows, mode), Grounded(rows),
           NEW i \in DOMAIN page.nodes, HasBlocks(page.nodes[i])
    PROVE  TsMaterializeRichAccepts(Source, "page", Descendants(rows, page.nodes[i].id)) <=> Fit(page.nodes[i].blocks)
<1> DEFINE node == page.nodes[i]
           below == Descendants(rows, node.id)
<1>1. /\ ShapedRows(Row, rows) /\ StoredRows(rows) /\ UniqueIds(rows)
      /\ \A x \in ToSet(rows) : x \in Row /\ StoredRow(x) /\ RowValid(Source, "page", x, "RESTORE_SNAPSHOT")
  BY PageRowsFacts, SavedShaped DEF StoredRow
<1>2. \A r \in ToSet(rows) : ~IsSection(rows, r.id) => r.slot = Content
  BY <1>1, SectionLineage DEF IsRichFamily
<1>3. /\ below \in Seq(Row) /\ DistinctIds(below)
      /\ \A x \in ToSet(below) : x \in Row /\ RowValid(Source, "page", x, "RESTORE_SNAPSHOT") /\ x.kind \in RichKinds
  BY <1>1, <1>2, BlocksStored DEF StoredRow
<1>4. \A x \in ToSet(below) : /\ x \in Row /\ x.kind \in RichKinds /\ x.shared.case = x.kind
                              /\ Source \in DOMAIN x.locales /\ \A l \in DOMAIN x.locales : x.locales[l].case = x.kind
  BY <1>3, RowValidFacts
<1>5. SavedAs("page", below, node.blocks)
  BY SavedBlocks DEF SavedAs
<1>6. validateRichGraph(Source, "page", node.blocks, TsNestedOverlays(node, page.overlays), mode) /\ node \in Node
  BY PageRowsFacts, SequenceElements
<1>7. node.blocks \in Seq(Block)
  BY <1>6 DEF Node
<1> HIDE DEF node, below
<1>8. TsMaterializeRichAccepts(Source, "page", below) <=> Fit(node.blocks)
  BY <1>3, <1>4, <1>5, <1>6, <1>7, GraphAccepted
<1> QED BY <1>8 DEF below, node

(* The sections of the page that is rebuilt are those of the page. *)
LEMMA SavedSections ==
    ASSUME NEW page, NEW rows, NEW mode, RowsOfPage(page, rows, mode)
    PROVE  LET nodes == TsMaterializePage(Source, rows).nodes
               sections == InPlacementOrder(TsSectionRows(rows))
           IN /\ nodes \in Seq(ToSet(nodes)) /\ DOMAIN nodes = DOMAIN sections
              /\ \A k \in DOMAIN nodes : sections[k] \in ToSet(rows) /\ sections[k].id = nodes[k].id
              /\ \A k, m \in DOMAIN nodes : nodes[k].id = nodes[m].id => k = m
              /\ \A k \in DOMAIN nodes : \E i \in DOMAIN page.nodes :
                    /\ nodes[k].id = page.nodes[i].id /\ nodes[k].parent = page.nodes[i].parent
                    /\ nodes[k].column = page.nodes[i].column /\ nodes[k].index = page.nodes[i].index
                    /\ nodes[k].shared.case = page.nodes[i].shared.case
                    /\ nodes[k].shared.columns = page.nodes[i].shared.columns
              /\ \A i \in DOMAIN page.nodes : \E k \in DOMAIN nodes : nodes[k].id = page.nodes[i].id
<1> DEFINE nodes == TsMaterializePage(Source, rows).nodes
           sections == InPlacementOrder(TsSectionRows(rows))
           blocks == [id \in Ids(rows) |-> TsDescendants(rows, id)]
<1>1. /\ rows \in Seq(Row) /\ DistinctIds(rows) /\ RowSet(Row) /\ UniqueIds(rows) /\ ShapedRows(Row, rows) /\ StoredRows(rows)
      /\ \A x \in ToSet(rows) : x \in Row /\ x.id \in Ids(rows) /\ RowOf(rows, x.id) = x
  BY PageRowsFacts, SavedShaped
<1>2. /\ sections \in Seq(Row) /\ DistinctIds(sections)
      /\ \A x : x \in ToSet(sections) <=> x \in ToSet(rows) /\ ~IsRichFamily(x)
      /\ DOMAIN nodes = DOMAIN sections
      /\ \A k \in DOMAIN sections : nodes[k] = SectionNode(blocks, sections[k])
  BY <1>1, TsPage
<1>3. nodes = [k \in DOMAIN sections |-> SectionNode(blocks, sections[k])]
  <2>1. TsMaterializePage(Source, rows) = PageOf(Source, sections, blocks)
    BY DEF TsMaterializePage
  <2> HIDE DEF sections, blocks
  <2> QED BY <2>1, PageOfParts
<1> HIDE DEF nodes, sections, blocks
<1>4. nodes \in Seq(ToSet(nodes))
  <2>1. Len(sections) \in Nat /\ DOMAIN sections = 1..Len(sections)
    BY <1>2, SequenceElements
  <2>2. nodes \in [1..Len(sections) -> ToSet(nodes)]
    BY <1>3, <2>1 DEF ToSet
  <2> QED BY <2>1, <2>2, SeqDef
<1>5. \A k \in DOMAIN sections : sections[k] \in ToSet(sections)
  BY DEF ToSet
<1>6. \A b, x : /\ SectionNode(b, x).id = x.id /\ SectionNode(b, x).parent = x.parent /\ SectionNode(b, x).shared = x.shared
                /\ SectionNode(b, x).index = uint32(x.pos)
                /\ SectionNode(b, x).column =
                      IF x.parent = 0 THEN 0 ELSE IF x.slot[1] = "column" THEN x.slot[2] ELSE NotAColumn
  BY DEF SectionNode
<1>7. ASSUME NEW k \in DOMAIN nodes
      PROVE  \E i \in DOMAIN page.nodes :
                /\ nodes[k].id = page.nodes[i].id /\ nodes[k].parent = page.nodes[i].parent
                /\ nodes[k].column = page.nodes[i].column /\ nodes[k].index = page.nodes[i].index
                /\ nodes[k].shared.case = page.nodes[i].shared.case
                /\ nodes[k].shared.columns = page.nodes[i].shared.columns
  <2> DEFINE x == sections[k]
  <2>1. x \in ToSet(rows) /\ ~IsRichFamily(x)
    BY <1>2, <1>5
  <2>2. nodes[k] = SectionNode(blocks, x)
    BY <1>2
  <2> HIDE DEF x
  <2>3. PICK i \in DOMAIN page.nodes : x.id = page.nodes[i].id
    BY <2>1, RowOfPage
  <2>4. /\ x.parent = page.nodes[i].parent /\ uint32(x.pos) = page.nodes[i].index
        /\ x.shared.case = page.nodes[i].shared.case /\ x.shared.columns = page.nodes[i].shared.columns
        /\ x.slot = IF page.nodes[i].column = 0 THEN Sections ELSE Column(page.nodes[i].column)
        /\ (page.nodes[i].parent = 0) <=> (page.nodes[i].column = 0)
    <3>1. RowOf(rows, page.nodes[i].id) = x
      BY <1>1, <2>1, <2>3
    <3>2. page.nodes[i] \in Node
      BY PageRowsFacts, SequenceElements
    <3>3. uint32(int32(page.nodes[i].index)) = page.nodes[i].index
      BY <3>2, Conversions DEF Node
    <3> QED BY <3>1, <3>3, SectionOfPage
  <2>5. (IF x.parent = 0 THEN 0 ELSE IF x.slot[1] = "column" THEN x.slot[2] ELSE NotAColumn) = page.nodes[i].column
    BY <2>4, SlotsDiffer
  <2> QED BY <1>6, <2>2, <2>3, <2>4, <2>5
<1>8. ASSUME NEW i \in DOMAIN page.nodes
      PROVE  \E k \in DOMAIN nodes : nodes[k].id = page.nodes[i].id
  <2> DEFINE x == RowOf(rows, page.nodes[i].id)
  <2>1. x \in ToSet(rows) /\ ~IsRichFamily(x) /\ x.id = page.nodes[i].id
    BY SectionOfPage
  <2>2. PICK k \in DOMAIN sections : sections[k] = x
    BY <1>2, <2>1 DEF ToSet
  <2> QED BY <1>2, <1>6, <2>1, <2>2
<1>9. \A k \in DOMAIN nodes : sections[k] \in ToSet(rows) /\ sections[k].id = nodes[k].id
  BY <1>2, <1>5, <1>6
<1>10. \A k, m \in DOMAIN nodes : nodes[k].id = nodes[m].id => k = m
  BY <1>2, <1>9 DEF DistinctIds
<1> QED BY <1>2, <1>4, <1>7, <1>8, <1>9, <1>10 DEF nodes, sections

\* The TypeScript runtime accepts the sections of the page again.
LEMMA SavedPageAccepted ==
    ASSUME NEW page, NEW rows, NEW mode, RowsOfPage(page, rows, mode), Grounded(rows)
    PROVE  validatePageGraph(Source, TsMaterializePage(Source, rows).nodes, TsMaterializePage(Source, rows).overlays, "RESTORE_SNAPSHOT")
<1> DEFINE nodes == TsMaterializePage(Source, rows).nodes
           overlays == TsMaterializePage(Source, rows).overlays
           sections == InPlacementOrder(TsSectionRows(rows))
<1>1. /\ nodes \in Seq(ToSet(nodes)) /\ DOMAIN nodes = DOMAIN sections
      /\ \A k \in DOMAIN nodes : sections[k] \in ToSet(rows) /\ sections[k].id = nodes[k].id
      /\ \A k, m \in DOMAIN nodes : nodes[k].id = nodes[m].id => k = m
      /\ \A k \in DOMAIN nodes : \E i \in DOMAIN page.nodes :
                    /\ nodes[k].id = page.nodes[i].id /\ nodes[k].parent = page.nodes[i].parent
                    /\ nodes[k].column = page.nodes[i].column /\ nodes[k].index = page.nodes[i].index
                    /\ nodes[k].shared.case = page.nodes[i].shared.case
                    /\ nodes[k].shared.columns = page.nodes[i].shared.columns
      /\ \A i \in DOMAIN page.nodes : \E k \in DOMAIN nodes : nodes[k].id = page.nodes[i].id
  BY SavedSections
<1>2. validatePageGraph(Source, page.nodes, page.overlays, mode) /\ page.nodes \in Seq(Node)
  BY PageRowsFacts
<1> DEFINE blocks == [id \in Ids(rows) |-> TsDescendants(rows, id)]
<1>3. overlays = [l \in PageLocales(Source, sections, blocks) |->
                    [id \in SectionsIn(Source, sections, blocks, l) |-> SectionValue(Source, blocks, RowOf(sections, id), l)]]
  <2>1. TsMaterializePage(Source, rows) = PageOf(Source, sections, blocks)
    BY DEF TsMaterializePage
  <2> HIDE DEF sections, blocks
  <2> QED BY <2>1, PageOfParts
<1> HIDE DEF nodes, overlays, sections, blocks
<1>4. Distinct(nodes, LAMBDA n : n.id)
  <2> DEFINE t == [k \in DOMAIN nodes |-> nodes[k].id]
  <2>1. \A k, m \in DOMAIN nodes : t[k] = t[m] => k = m
    BY <1>1
  <2>2. {nodes[k].id : k \in DOMAIN nodes} = {t[k] : k \in DOMAIN nodes}
    OBVIOUS
  <2>3. DOMAIN t = DOMAIN nodes /\ t = [k \in DOMAIN t |-> t[k]]
    OBVIOUS
  <2> HIDE DEF t
  <2>4. Cardinality({t[k] : k \in DOMAIN nodes}) = Len(nodes)
    BY <1>1, <2>1, <2>3, Tagged
  <2> QED BY <2>2, <2>4 DEF Distinct
<1>5. \A i, j \in DOMAIN page.nodes :
          /\ page.nodes[i].parent = page.nodes[j].parent /\ page.nodes[i].column = page.nodes[j].column
          /\ page.nodes[i].index = page.nodes[j].index
          => i = j
  <2> DEFINE all == page.nodes
             t == [k \in DOMAIN all |-> <<all[k].parent, all[k].column, all[k].index>>]
  <2>1. Distinct(all, LAMBDA n : <<n.parent, n.column, n.index>>)
    BY <1>2 DEF validatePageGraph
  <2>2. Cardinality({<<all[k].parent, all[k].column, all[k].index>> : k \in DOMAIN all}) = Len(all)
    BY <2>1 DEF Distinct
  <2>3. {<<all[k].parent, all[k].column, all[k].index>> : k \in DOMAIN all} = {t[k] : k \in DOMAIN all}
    OBVIOUS
  <2>4. DOMAIN t = DOMAIN all /\ t = [k \in DOMAIN t |-> t[k]]
    OBVIOUS
  <2>5. \A i, j \in DOMAIN all : /\ all[i].parent = all[j].parent /\ all[i].column = all[j].column
                                 /\ all[i].index = all[j].index
                                 => t[i] = t[j]
    OBVIOUS
  <2> HIDE DEF t
  <2>6. \A j, m \in DOMAIN all : t[j] = t[m] => j = m
    <3> HIDE DEF all
    <3>1. all \in Seq(Node)
      BY <1>2 DEF all
    <3> QED BY <2>2, <2>3, <2>4, <3>1, Tagged
  <2> QED BY <2>5, <2>6
<1>6. Distinct(nodes, LAMBDA n : <<n.parent, n.column, n.index>>)
  <2> DEFINE t == [k \in DOMAIN nodes |-> <<nodes[k].parent, nodes[k].column, nodes[k].index>>]
  <2>1. ASSUME NEW k \in DOMAIN nodes, NEW m \in DOMAIN nodes, t[k] = t[m] PROVE k = m
    <3>1. nodes[k].parent = nodes[m].parent /\ nodes[k].column = nodes[m].column /\ nodes[k].index = nodes[m].index
      BY <2>1
    <3>2. PICK i \in DOMAIN page.nodes :
             /\ nodes[k].id = page.nodes[i].id /\ nodes[k].parent = page.nodes[i].parent
             /\ nodes[k].column = page.nodes[i].column /\ nodes[k].index = page.nodes[i].index
      BY <1>1
    <3>3. PICK j \in DOMAIN page.nodes :
             /\ nodes[m].id = page.nodes[j].id /\ nodes[m].parent = page.nodes[j].parent
             /\ nodes[m].column = page.nodes[j].column /\ nodes[m].index = page.nodes[j].index
      BY <1>1
    <3>4. i = j
      BY <1>5, <3>1, <3>2, <3>3
    <3> QED BY <1>1, <3>2, <3>3, <3>4
  <2>2. {<<nodes[k].parent, nodes[k].column, nodes[k].index>> : k \in DOMAIN nodes} = {t[k] : k \in DOMAIN nodes}
    OBVIOUS
  <2>3. DOMAIN t = DOMAIN nodes /\ t = [k \in DOMAIN t |-> t[k]]
    OBVIOUS
  <2> HIDE DEF t
  <2>4. Cardinality({t[k] : k \in DOMAIN nodes}) = Len(nodes)
    BY <1>1, <2>1, <2>3, Tagged
  <2> QED BY <2>2, <2>4 DEF Distinct
<1>7. ASSUME NEW k \in DOMAIN nodes
      PROVE  /\ TsPayloadValid("page", FALSE, nodes[k].shared, "RESTORE_SNAPSHOT")
             /\ (nodes[k].parent = 0) <=> (nodes[k].column = 0)
             /\ nodes[k].parent # 0 => ColumnPlaced(nodes, nodes[k])
  <2>1. PICK i \in DOMAIN page.nodes :
             /\ nodes[k].id = page.nodes[i].id /\ nodes[k].parent = page.nodes[i].parent
             /\ nodes[k].column = page.nodes[i].column
             /\ nodes[k].shared.case = page.nodes[i].shared.case
    BY <1>1
  <2>2. /\ TsPayloadValid("page", FALSE, page.nodes[i].shared, mode)
        /\ (page.nodes[i].parent = 0) <=> (page.nodes[i].column = 0)
        /\ page.nodes[i].parent # 0 => ColumnPlaced(page.nodes, page.nodes[i])
    BY <1>2 DEF validatePageGraph
  <2>3. TsPayloadValid("page", FALSE, nodes[k].shared, "RESTORE_SNAPSHOT")
    BY <2>1, <2>2 DEF TsPayloadValid, TsKindAllowed
  <2>4. ASSUME nodes[k].parent # 0 PROVE ColumnPlaced(nodes, nodes[k])
    <3>1. PICK j \in DOMAIN page.nodes : /\ page.nodes[j].id = nodes[k].parent
                                          /\ page.nodes[j].shared.case = "columns"
                                          /\ nodes[k].column \in page.nodes[j].shared.columns
                                          /\ nodes[k].shared.case \in ColumnChildKinds
      BY <2>1, <2>2, <2>4 DEF ColumnPlaced
    <3>2. PICK m \in DOMAIN nodes : nodes[m].id = page.nodes[j].id
      BY <1>1
    <3>3. PICK q \in DOMAIN page.nodes : /\ nodes[m].id = page.nodes[q].id
                                          /\ nodes[m].shared.case = page.nodes[q].shared.case
                                          /\ nodes[m].shared.columns = page.nodes[q].shared.columns
      BY <1>1
    <3>4. q = j
      BY <3>2, <3>3, SectionOfPage
    <3> QED BY <3>1, <3>2, <3>3, <3>4 DEF ColumnPlaced
  <2> QED BY <2>1, <2>2, <2>3, <2>4
<1>8. OverlaysMatch(Source, nodes, overlays)
  <2>1. Source \in DOMAIN overlays
    BY <1>3 DEF PageLocales
  <2>2. ASSUME NEW l \in DOMAIN overlays, NEW id \in DOMAIN overlays[l]
        PROVE  \E k \in DOMAIN nodes : nodes[k].id = id /\ nodes[k].shared.case = overlays[l][id].case
    <3>1. id \in SectionsIn(Source, sections, blocks, l) /\ overlays[l][id] = SectionValue(Source, blocks, RowOf(sections, id), l)
      BY <1>3, <2>2
    <3>2. PICK k \in DOMAIN sections : sections[k].id = id /\ l \in LocalesOf(Source, blocks, sections[k])
      BY <3>1 DEF SectionsIn
    <3>3. RowOf(sections, id) = sections[k]
      <4>1. \A m \in DOMAIN sections : sections[m].id = id => m = k
        BY <1>1, <3>2
      <4> QED BY <3>2, <4>1 DEF RowOf
    <3> DEFINE x == sections[k]
    <3>4. x \in ToSet(rows) /\ RowValid(Source, "page", x, "RESTORE_SNAPSHOT")
      BY <1>1, PageRowsFacts DEF StoredRow
    <3>5. x.shared.case = x.kind /\ \A m \in DOMAIN x.locales : x.locales[m].case = x.kind
      BY <3>4, RowValidFacts
    <3>6. l \in DOMAIN x.locales \/ x.kind = "rich-text"
      BY <3>2 DEF LocalesOf
    <3> HIDE DEF x
    <3>7. SectionValue(Source, blocks, x, l).case = x.kind
      BY <3>5, <3>6 DEF SectionValue
    <3>8. nodes[k].shared.case = x.kind
      <4>1. PICK i \in DOMAIN page.nodes : nodes[k].id = page.nodes[i].id /\ nodes[k].shared.case = page.nodes[i].shared.case
        BY <1>1, <3>2
      <4>2. RowOf(rows, page.nodes[i].id) = x
        BY <1>1, <3>2, <3>4, <4>1, PageRowsFacts DEF x
      <4> QED BY <4>1, <4>2, SectionOfPage
    <3> QED BY <1>1, <3>1, <3>2, <3>3, <3>7, <3>8 DEF x
  <2> QED BY <2>1, <2>2 DEF OverlaysMatch
<1> QED BY <1>4, <1>6, <1>7, <1>8 DEF validatePageGraph, nodes, overlays

\* The TypeScript runtime opens the rows of a page it accepts, when they are a tree and the page fits.
LEMMA SavedOpens ==
    ASSUME NEW page, NEW rows, NEW mode, RowsOfPage(page, rows, mode), Grounded(rows)
    PROVE  TsMaterializePageAccepts(Source, rows) <=> PageFits(page)
<1>2. /\ rows \in Seq(Row) /\ DistinctIds(rows) /\ RowSet(Row) /\ ShapedRows(Row, rows)
      /\ \A x \in ToSet(rows) : StoredRow(x) /\ x.id \in Ids(rows) /\ RowOf(rows, x.id) = x
  BY PageRowsFacts, SavedShaped
<1>3. \A x : /\ x \in ToSet(TsSectionRows(rows)) <=> x \in ToSet(rows) /\ ~IsRichFamily(x)
             /\ x \in ToSet(TsRichRows(rows)) <=> x \in ToSet(rows) /\ IsRichFamily(x)
  BY <1>2, TsRowsElements
<1>3a. \A i \in DOMAIN page.nodes : page.nodes[i].index \in UInt32
  <2>1. \A i \in DOMAIN page.nodes : page.nodes[i] \in Node
    BY PageRowsFacts, SequenceElements
  <2> QED BY <2>1 DEF Node
<1>4. ASSUME NEW s \in ToSet(rows), ~IsRichFamily(s)
      PROVE  /\ s.kind \in PageKinds
             /\ s.shared.case = s.kind
             /\ Source \in DOMAIN s.locales
             /\ IF s.parent = 0 THEN s.slot = Sections ELSE s.slot[1] = "column"
             /\ PageFits(page) => s.pos >= 0
             /\ PageFits(page) /\ s.kind = "rich-text" => TsMaterializeRichAccepts(Source, "page", TsDescendants(rows, s.id))
  <2>1. PICK i \in DOMAIN page.nodes : s.id = page.nodes[i].id
    BY <1>4, RowOfPage
  <2>2. RowOf(rows, page.nodes[i].id) = s
    BY <1>2, <2>1
  <2>3. /\ s.kind \in PageKinds /\ s.kind = page.nodes[i].shared.case
        /\ s.parent = page.nodes[i].parent /\ s.pos = int32(page.nodes[i].index)
        /\ s.slot = IF page.nodes[i].column = 0 THEN Sections ELSE Column(page.nodes[i].column)
        /\ (page.nodes[i].parent = 0) <=> (page.nodes[i].column = 0)
    BY <2>2, SectionOfPage
  <2>4. s.shared.case = s.kind /\ Source \in DOMAIN s.locales
    BY <1>2, RowValidFacts DEF StoredRow
  <2>5. IF s.parent = 0 THEN s.slot = Sections ELSE s.slot[1] = "column"
    BY <2>3, SlotsDiffer
  <2>6. ASSUME PageFits(page), s.kind = "rich-text"
        PROVE  TsMaterializeRichAccepts(Source, "page", TsDescendants(rows, s.id))
    <3>1. HasBlocks(page.nodes[i])
      BY <2>3, <2>6 DEF HasBlocks
    <3>2. TsMaterializeRichAccepts(Source, "page", Descendants(rows, s.id))
      BY <2>1, <2>6, <3>1, SavedBlocksAccepted DEF PageFits, HasBlocks
    <3>3. TsDescendants(rows, s.id) = Descendants(rows, s.id)
      BY <1>2, <2>6, TsBlocks
    <3> QED BY <3>2, <3>3
  <2>7. ASSUME PageFits(page) PROVE s.pos >= 0
    BY <1>3a, <2>3, <2>7, Conversions DEF PageFits, Fit
  <2> QED BY <2>3, <2>4, <2>5, <2>6, <2>7
<1>5. \A k \in DOMAIN TsSectionRows(rows) : TsSectionRows(rows)[k] \in ToSet(rows) /\ ~IsRichFamily(TsSectionRows(rows)[k])
  BY <1>3 DEF ToSet
<1>6. ASSUME NEW id \in Ids(TsRichRows(rows))
      PROVE  \E k \in DOMAIN TsSectionRows(rows) :
                TsSectionRows(rows)[k].kind = "rich-text" /\ id \in Ids(TsDescendants(rows, TsSectionRows(rows)[k].id))
  <2>1. PICK r \in ToSet(rows) : r.id = id /\ IsRichFamily(r)
    BY <1>3, <1>6, IdsOfRows
  <2>2. 0 \in Lineage(rows, r.id)
    BY <1>2, <2>1 DEF Grounded
  <2>3. PICK s \in ToSet(rows) : s.kind = "rich-text" /\ ~IsRichFamily(s) /\ s.id \in Lineage(rows, r.id)
    BY <1>2, <2>1, <2>2, BlockLineage
  <2>4. ~IsSection(rows, r.id)
    BY <1>2, <2>1, <2>2, BlockLineage
  <2>5. BlockOf(rows, s.id, r)
    BY <2>1, <2>3, <2>4 DEF BlockOf
  <2>6. Rooted(s.id, r) \in ToSet(Descendants(rows, s.id))
    BY <1>2, <2>5, DescendantsElements
  <2>7. Rooted(s.id, r).id = id
    <3>1. r \in Row
      BY <1>2, <2>1 DEF StoredRow
    <3> QED BY <1>2, <2>1, <3>1, RowFacts DEF Rooted
  <2>8. id \in Ids(TsDescendants(rows, s.id))
    <3>1. TsDescendants(rows, s.id) = Descendants(rows, s.id)
      BY <1>2, <2>3, TsBlocks
    <3> QED BY <2>6, <2>7, <3>1, IdsOfRows
  <2>9. PICK k \in DOMAIN TsSectionRows(rows) : TsSectionRows(rows)[k] = s
    BY <1>3, <2>3 DEF ToSet
  <2> QED BY <2>3, <2>8, <2>9
<1>7. validatePageGraph(Source, TsMaterializePage(Source, rows).nodes, TsMaterializePage(Source, rows).overlays, "RESTORE_SNAPSHOT")
  BY SavedPageAccepted
<1>8. UniqueIds(rows)
  BY PageRowsFacts
<1>9. ASSUME PageFits(page) PROVE TsMaterializePageAccepts(Source, rows)
  <2>1. \A k \in DOMAIN TsSectionRows(rows) :
          LET s == TsSectionRows(rows)[k]
          IN /\ s.kind \in PageKinds
             /\ s.shared.case = s.kind
             /\ s.pos >= 0
             /\ Source \in DOMAIN s.locales
             /\ IF s.parent = 0 THEN s.slot = Sections ELSE s.slot[1] = "column"
             /\ s.kind = "rich-text" => TsMaterializeRichAccepts(Source, "page", TsDescendants(rows, s.id))
    BY <1>4, <1>5, <1>9
  <2> QED BY <1>6, <1>7, <1>8, <2>1 DEF TsMaterializePageAccepts
<1>10. ASSUME TsMaterializePageAccepts(Source, rows), NEW i \in DOMAIN page.nodes
       PROVE  /\ page.nodes[i].index < HalfRange
              /\ page.nodes[i].shared.case = "rich-text" => Fit(page.nodes[i].blocks)
  <2> DEFINE s == RowOf(rows, page.nodes[i].id)
  <2>1. /\ s \in ToSet(rows) /\ ~IsRichFamily(s) /\ s.id = page.nodes[i].id
        /\ s.pos = int32(page.nodes[i].index) /\ s.kind = page.nodes[i].shared.case
    BY SectionOfPage
  <2> HIDE DEF s
  <2>2. PICK k \in DOMAIN TsSectionRows(rows) : TsSectionRows(rows)[k] = s
    BY <1>3, <2>1 DEF ToSet
  <2>3. s.pos >= 0 /\ (s.kind = "rich-text" => TsMaterializeRichAccepts(Source, "page", TsDescendants(rows, s.id)))
    BY <1>10, <2>2 DEF TsMaterializePageAccepts
  <2>4. ASSUME s.kind = "rich-text" PROVE Fit(page.nodes[i].blocks)
    <3>1. TsDescendants(rows, s.id) = Descendants(rows, s.id)
      BY <1>2, <2>1, <2>4, TsBlocks
    <3> QED BY <2>1, <2>3, <2>4, <3>1, SavedBlocksAccepted DEF HasBlocks
  <2> QED BY <1>3a, <2>1, <2>3, <2>4, Conversions
<1> QED BY <1>9, <1>10 DEF PageFits, Fit

====
