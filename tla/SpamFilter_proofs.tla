-------------------------- MODULE SpamFilter_proofs ---------------------------
(***************************************************************************)
(* Proofs about the list of spam words, its page and its verdict: the      *)
(* fixed part of the list survives every edition, a page that is posted    *)
(* unchanged changes nothing, an edition replaces what its page showed,    *)
(* and a fixed word is shouted only where others overlap with it.          *)
(***************************************************************************)
EXTENDS SpamFilter, FiniteSetTheorems, SequenceTheorems, TLAPS

-----------------------------------------------------------------------------
(***************************************************************************)
(* Sets of numbers.                                                        *)
(***************************************************************************)

\* A set of numbers that is not empty has a least one.  Taken of the
\* counterexamples of a claim, it is what an induction would use.
LEMMA Least ==
  ASSUME NEW T \in SUBSET Nat, T # {}
  PROVE  \E n \in T : \A m \in T : n =< m
<1>1. PICK n \in T : \A m \in T : ~ (<<m, n>> \in OpToRel(<, Nat))
  BY NatLessThanWellFounded, WFMin
<1>2. \A m \in T : ~ (m < n)
  BY <1>1 DEF OpToRel
<1>3. QED BY <1>2

\* One with a bound has a greatest one, which is its maximum.
LEMMA Greatest ==
  ASSUME NEW n \in Nat, NEW T \in SUBSET (1 .. n), T # {}
  PROVE  Max(T) \in T /\ \A m \in T : m =< Max(T)
<1> DEFINE D == {d \in Nat : \E i \in T : d = n - i}
<1>1. D # {}
  <2>1. PICK i \in T : TRUE
    OBVIOUS
  <2>2. n - i \in Nat
    BY <2>1
  <2>3. QED BY <2>1, <2>2
<1>2. PICK d \in D : \A e \in D : d =< e
  <2> HIDE DEF D
  <2>1. D \in SUBSET Nat
    BY DEF D
  <2>2. QED BY <1>1, <2>1, Least
<1>3. PICK i \in T : d = n - i
  BY <1>2
<1>4. \A j \in T : i >= j
  <2> SUFFICES ASSUME NEW j \in T PROVE i >= j
    OBVIOUS
  <2>1. n - j \in D
    OBVIOUS
  <2>2. n - i =< n - j
    BY <1>2, <1>3, <2>1
  <2>3. QED BY <2>2
<1>5. QED BY <1>4 DEF Max

\* The elements of a set of numbers up to one of them: their number counts
\* the elements.
UpTo(S, i) == {j \in S : j =< i}

LEMMA RanksGrow ==
  ASSUME NEW S \in SUBSET Nat, IsFiniteSet(S), NEW i \in S, NEW k \in S, i < k
  PROVE  Cardinality(UpTo(S, i)) < Cardinality(UpTo(S, k))
<1>1. i \in Nat /\ k \in Nat /\ \A j \in S : j \in Nat
  OBVIOUS
<1>2. \A j \in S : j =< i => j =< k
  BY <1>1
<1>3. k \notin UpTo(S, i)
  BY <1>1 DEF UpTo
<1>4. UpTo(S, i) \subseteq UpTo(S, k) /\ k \in UpTo(S, k)
  <2>1. k =< k
    BY <1>1
  <2>2. QED BY <1>2, <2>1, Zenon DEF UpTo
<1>5. IsFiniteSet(UpTo(S, k))
  BY FS_Subset DEF UpTo
<1>6. /\ IsFiniteSet(UpTo(S, i))
      /\ Cardinality(UpTo(S, i)) =< Cardinality(UpTo(S, k))
      /\ Cardinality(UpTo(S, i)) # Cardinality(UpTo(S, k))
  BY <1>3, <1>4, <1>5, FS_Subset
<1>7. Cardinality(UpTo(S, i)) \in Nat /\ Cardinality(UpTo(S, k)) \in Nat
  BY <1>5, <1>6, FS_CardinalityType
<1>8. QED BY <1>6, <1>7

LEMMA RanksAreRanks ==
  ASSUME NEW S \in SUBSET Nat, IsFiniteSet(S), NEW i \in S
  PROVE  Cardinality(UpTo(S, i)) \in 1 .. Cardinality(S)
<1>1. UpTo(S, i) \subseteq S /\ i \in UpTo(S, i)
  BY DEF UpTo
<1>2. IsFiniteSet(UpTo(S, i)) /\ Cardinality(UpTo(S, i)) =< Cardinality(S)
  BY <1>1, FS_Subset
<1>3. Cardinality(UpTo(S, i)) \in Nat /\ Cardinality(S) \in Nat
  BY <1>2, FS_CardinalityType
<1>4. Cardinality(UpTo(S, i)) # 0
  BY <1>1, <1>2, FS_EmptySet
<1>5. QED BY <1>2, <1>3, <1>4

\* For every number up to the size of the set, one element has that rank.
LEMMA NthExists ==
  ASSUME NEW S \in SUBSET Nat, IsFiniteSet(S), NEW k \in 1 .. Cardinality(S)
  PROVE  \E i \in S : Cardinality(UpTo(S, i)) = k
<1> DEFINE n == Cardinality(S)
           rank == [i \in S |-> Cardinality(UpTo(S, i))]
<1>1. n \in Nat
  BY FS_CardinalityType
<1>2. rank \in [S -> 1 .. n]
  BY RanksAreRanks
<1>3. \A i, j \in S : i # j => rank[i] # rank[j]
  <2> SUFFICES ASSUME NEW i \in S, NEW j \in S, i # j PROVE rank[i] # rank[j]
    OBVIOUS
  <2>1. rank[i] \in Nat /\ rank[j] \in Nat
    BY <1>1, <1>2
  <2>2. CASE i < j
    BY <2>1, <2>2, RanksGrow
  <2>3. CASE j < i
    BY <2>1, <2>3, RanksGrow
  <2>4. QED BY <2>2, <2>3
<1> HIDE DEF rank
<1>4. rank \in Injection(S, 1 .. n)
  BY <1>2, <1>3 DEF Injection, IsInjective
<1>5. IsFiniteSet(1 .. n) /\ Cardinality(1 .. n) = n
  BY <1>1, FS_Interval
<1>6. rank \in Surjection(S, 1 .. n)
  BY <1>4, <1>5, FS_Injection
<1>7. PICK i \in S : rank[i] = k
  BY <1>6 DEF Surjection
<1>8. QED BY <1>7 DEF rank

-----------------------------------------------------------------------------
(***************************************************************************)
(* The typed entries that are added.                                       *)
(***************************************************************************)

LEMMA AddedIsFinite ==
  ASSUME NEW list, NEW typed \in Seq(Entry \cup {<<>>})
  PROVE  /\ Added(list, typed) \in SUBSET (1 .. Len(typed))
         /\ IsFiniteSet(Added(list, typed))
         /\ Cardinality(Added(list, typed)) \in Nat
<1>1. Added(list, typed) \in SUBSET (1 .. Len(typed))
  BY DEF Added
<1>2. IsFiniteSet(1 .. Len(typed))
  BY FS_Interval
<1>3. IsFiniteSet(Added(list, typed))
  BY <1>1, <1>2, FS_Subset
<1>4. QED BY <1>1, <1>3, FS_CardinalityType

\* The k-th of them is one of them, and it has k - 1 before it.
LEMMA NthIsAdded ==
  ASSUME NEW list, NEW typed \in Seq(Entry \cup {<<>>}),
         NEW k \in 1 .. Cardinality(Added(list, typed))
  PROVE  /\ NthAdded(list, typed, k) \in Added(list, typed)
         /\ Cardinality(UpTo(Added(list, typed), NthAdded(list, typed, k))) = k
<1> DEFINE A == Added(list, typed)
<1>1. A \in SUBSET Nat /\ IsFiniteSet(A)
  BY AddedIsFinite
<1>2. \E i \in A : Cardinality(UpTo(A, i)) = k
  BY <1>1, NthExists
<1>3. QED BY <1>2 DEF NthAdded, UpTo

\* What is kept of a list with the fixed words in front are the fixed words.
LEMMA KeptIsFixed ==
  ASSUME FixedWordsSurvive
  PROVE  Kept(words) = Fixed
BY DEF FixedWordsSurvive, Kept

\* The list that is saved: the fixed words, and behind them the words added.
LEMMA EditedIs ==
  ASSUME FixedWordsSurvive, NEW typed \in Seq(Entry \cup {<<>>})
  PROVE  LET e == Edited(words, typed)
             n == Cardinality(Added(words, typed))
         IN  /\ e \in Seq(Entry) /\ n \in Nat
             /\ Len(Fixed) \in Nat /\ Len(e) = Len(Fixed) + n
             /\ \A i \in 1 .. Len(Fixed) : e[i] = Fixed[i]
             /\ \A k \in 1 .. n :
                  e[Len(Fixed) + k] = typed[NthAdded(words, typed, k)]
<1> DEFINE A == Added(words, typed)
           n == Cardinality(A)
           rest == [k \in 1 .. n |-> typed[NthAdded(words, typed, k)]]
<1>1. n \in Nat
  BY AddedIsFinite
<1>2. \A k \in 1 .. n : typed[NthAdded(words, typed, k)] \in Entry
  <2> SUFFICES ASSUME NEW k \in 1 .. n
               PROVE  typed[NthAdded(words, typed, k)] \in Entry
    OBVIOUS
  <2>1. PICK i \in A : i = NthAdded(words, typed, k)
    BY NthIsAdded
  <2>2. i \in DOMAIN typed /\ typed[i] # <<>>
    BY <2>1 DEF Added
  <2>3. QED BY <2>1, <2>2
<1>3. Edited(words, typed) = Fixed \o rest
  BY KeptIsFixed DEF Edited
<1> HIDE DEF n
<1>4. rest \in Seq(Entry) /\ Len(rest) = n
  BY <1>1, <1>2
<1>5. Fixed \in Seq(Entry)
  BY FilterAssumption
<1>6. \A k \in 1 .. n : rest[k] = typed[NthAdded(words, typed, k)]
  OBVIOUS
<1> HIDE DEF rest
<1>7. /\ Fixed \o rest \in Seq(Entry)
      /\ Len(Fixed) \in Nat /\ Len(Fixed \o rest) = Len(Fixed) + n
      /\ \A i \in 1 .. Len(Fixed) : (Fixed \o rest)[i] = Fixed[i]
      /\ \A k \in 1 .. n : (Fixed \o rest)[Len(Fixed) + k] = rest[k]
  <2>1. Len(Fixed) \in Nat
    BY <1>5
  <2>2. /\ Fixed \o rest \in Seq(Entry)
        /\ Len(Fixed \o rest) = Len(Fixed) + n
        /\ \A i \in 1 .. Len(Fixed) + n :
             (Fixed \o rest)[i] =
               IF i =< Len(Fixed) THEN Fixed[i] ELSE rest[i - Len(Fixed)]
    BY <1>4, <1>5, ConcatProperties
  <2>3. \A i \in 1 .. Len(Fixed) : (Fixed \o rest)[i] = Fixed[i]
    BY <1>1, <2>1, <2>2
  <2>4. ASSUME NEW k \in 1 .. n
        PROVE  (Fixed \o rest)[Len(Fixed) + k] = rest[k]
    <3>1. PICK i \in 1 .. Len(Fixed) + n :
            i = Len(Fixed) + k /\ ~(i =< Len(Fixed)) /\ i - Len(Fixed) = k
      BY <1>1, <2>1
    <3>2. QED BY <2>2, <3>1
  <2>5. QED BY <2>1, <2>2, <2>3, <2>4
<1>8. QED BY <1>1, <1>3, <1>6, <1>7 DEF n

\* What the fixed words in front of a list mean for its elements.
LEMMA FrontIsFixed ==
  ASSUME NEW list \in Seq(Entry)
  PROVE  (Len(Fixed) =< Len(list) /\ SubSeq(list, 1, Len(Fixed)) = Fixed)
         <=> (/\ Len(Fixed) =< Len(list)
              /\ \A i \in 1 .. Len(Fixed) : list[i] = Fixed[i])
<1>1. Fixed \in Seq(Entry) /\ Len(Fixed) \in Nat /\ Len(list) \in Nat
  BY FilterAssumption
<1>2. ASSUME Len(Fixed) =< Len(list)
      PROVE  /\ SubSeq(list, 1, Len(Fixed)) \in Seq(Entry)
             /\ Len(SubSeq(list, 1, Len(Fixed))) = Len(Fixed)
             /\ \A i \in 1 .. Len(Fixed) : SubSeq(list, 1, Len(Fixed))[i] = list[i]
  BY <1>1, <1>2
<1>3. QED BY <1>1, <1>2, SeqEqual

\* After an edition the fixed words are still in front and no word behind them
\* is the same as one before it.
LEMMA EditedHasNothingTwice ==
  ASSUME IInv, NEW typed \in Seq(Entry \cup {<<>>}), words' = Edited(words, typed)
  PROVE  FixedWordsSurvive' /\ NothingTwice'
<1> DEFINE A == Added(words, typed)
           n == Cardinality(A)
           m == Len(Fixed)
           nth(k) == NthAdded(words, typed, k)
<1>1. /\ words' \in Seq(Entry) /\ n \in Nat /\ m \in Nat /\ Len(words') = m + n
      /\ \A i \in 1 .. m : words'[i] = Fixed[i]
      /\ \A k \in 1 .. n : words'[m + k] = typed[nth(k)]
  BY EditedIs DEF IInv
<1>2. FixedWordsSurvive'
  BY <1>1, FrontIsFixed DEF FixedWordsSurvive
<1>3. \A k \in 1 .. n : nth(k) \in A /\ nth(k) \in Nat /\ Cardinality(UpTo(A, nth(k))) = k
  BY NthIsAdded, AddedIsFinite
<1>4. \A k \in 1 .. n : \A i \in 1 .. m : typed[nth(k)] # Fixed[i]
  <2> SUFFICES ASSUME NEW k \in 1 .. n, NEW i \in 1 .. m
               PROVE  typed[nth(k)] # Fixed[i]
    OBVIOUS
  <2>1. typed[nth(k)] \notin ToSet(Fixed)
    BY <1>3, KeptIsFixed DEF Added, IInv
  <2>2. i \in DOMAIN Fixed
    BY FilterAssumption
  <2>3. QED BY <2>1, <2>2 DEF ToSet
<1>5. \A k, l \in 1 .. n : k # l => typed[nth(k)] # typed[nth(l)]
  <2> SUFFICES ASSUME NEW k \in 1 .. n, NEW l \in 1 .. n, k # l
               PROVE  typed[nth(k)] # typed[nth(l)]
    OBVIOUS
  <2>1. PICK a \in A, b \in A : a = nth(k) /\ b = nth(l) /\ a # b
    BY <1>3
  <2>2. a \in 1 .. Len(typed) /\ b \in 1 .. Len(typed) /\ Len(typed) \in Nat
    BY AddedIsFinite
  <2>3. a \in 1 .. b - 1 \/ b \in 1 .. a - 1
    BY <2>1, <2>2
  <2>4. typed[a] # typed[b]
    BY <2>3 DEF Added
  <2>5. QED BY <2>1, <2>4
<1> HIDE DEF n, m, nth
<1>6. ASSUME NEW i \in 1 .. m + n, i > m, NEW j \in 1 .. i - 1
      PROVE  words'[j] # words'[i]
  <2>1. PICK k \in 1 .. n : i = m + k
    <3>1. i - m \in 1 .. n /\ i = m + (i - m)
      BY <1>1, <1>6
    <3>2. QED BY <3>1
  <2>2. words'[i] = typed[nth(k)]
    BY <1>1, <2>1
  <2>3. CASE j \in 1 .. m
    BY <1>1, <1>4, <2>2, <2>3
  <2>4. CASE j \notin 1 .. m
    <3>1. PICK l \in 1 .. n : j = m + l /\ l # k
      <4>1. j - m \in 1 .. n /\ j = m + (j - m) /\ j - m # k
        BY <1>1, <1>6, <2>1, <2>4
      <4>2. QED BY <4>1
    <3>2. words'[j] = typed[nth(l)]
      BY <1>1, <3>1
    <3>3. QED BY <1>5, <2>2, <3>1, <3>2
  <2>5. QED BY <2>3, <2>4
<1>7. DOMAIN words' = 1 .. m + n
  BY <1>1
<1>8. QED BY <1>2, <1>6, <1>7 DEF NothingTwice, m

-----------------------------------------------------------------------------
(***************************************************************************)
(* The round trip of the page.                                             *)
(***************************************************************************)

LEMMA EntriesAreTyped == Seq(Entry) \subseteq Seq(Entry \cup {<<>>})
<1>1. \A t \in Seq(Entry) : t \in Seq(Entry \cup {<<>>})
  OBVIOUS
<1>2. QED BY <1>1

\* The page shows the words behind the fixed ones.
LEMMA ShownIs ==
  ASSUME IInv
  PROVE  \E m, r \in Nat :
           /\ m = Len(Fixed) /\ Len(words) = m + r
           /\ \A i \in 1 .. m : words[i] = Fixed[i]
           /\ Shown(words) \in Seq(Entry) /\ Len(Shown(words)) = r
           /\ \A k \in 1 .. r : Shown(words)[k] = words[m + k]
<1>1. words \in Seq(Entry) /\ Len(words) \in Nat /\ Len(Fixed) \in Nat
  BY FilterAssumption DEF IInv, TypeOK
<1>2. Len(Fixed) =< Len(words) /\ \A i \in 1 .. Len(Fixed) : words[i] = Fixed[i]
  BY <1>1, FrontIsFixed DEF IInv, FixedWordsSurvive
<1>3. PICK m \in Nat, r \in Nat : m = Len(Fixed) /\ Len(words) = m + r
  <2>1. Len(words) - Len(Fixed) \in Nat
        /\ Len(words) = Len(Fixed) + (Len(words) - Len(Fixed))
    BY <1>1, <1>2
  <2>2. QED BY <1>1, <2>1
<1>4. /\ SubSeq(words, m + 1, m + r) \in Seq(Entry)
      /\ Len(SubSeq(words, m + 1, m + r)) = r
      /\ \A k \in 1 .. r : SubSeq(words, m + 1, m + r)[k] = words[m + k]
  <2>1. \A k \in m + 1 .. m + r : words[k] \in Entry
    BY <1>1, <1>3
  <2>2. m + 1 \in Int /\ m + r \in Int
    OBVIOUS
  <2>3. /\ SubSeq(words, m + 1, m + r) \in Seq(Entry)
        /\ Len(SubSeq(words, m + 1, m + r)) =
             IF m + 1 =< m + r THEN (m + r) - (m + 1) + 1 ELSE 0
        /\ \A k \in 1 .. (m + r) - (m + 1) + 1 :
             SubSeq(words, m + 1, m + r)[k] = words[m + 1 + k - 1]
    BY <1>1, <2>1, <2>2, SubSeqProperties
  <2>4. (m + r) - (m + 1) + 1 = r /\ \A k \in Nat : m + 1 + k - 1 = m + k
    OBVIOUS
  <2>5. QED BY <2>3, <2>4
<1>5. QED BY <1>2, <1>3, <1>4 DEF Shown

\* A page that is posted as it was shown writes the list that is there.
LEMMA RoundTrip ==
  ASSUME IInv
  PROVE  PagesRoundTrip
<1> DEFINE typed == Shown(words)
           A == Added(words, typed)
<1>1. PICK m \in Nat, r \in Nat :
        /\ m = Len(Fixed) /\ Len(words) = m + r
        /\ \A i \in 1 .. m : words[i] = Fixed[i]
        /\ typed \in Seq(Entry) /\ Len(typed) = r
        /\ \A k \in 1 .. r : typed[k] = words[m + k]
  BY ShownIs
<1>2. words \in Seq(Entry) /\ typed \in Seq(Entry \cup {<<>>}) /\ FixedWordsSurvive
  BY <1>1, EntriesAreTyped DEF IInv, TypeOK
<1>3. DOMAIN typed = 1 .. r /\ DOMAIN words = 1 .. m + r /\ DOMAIN Fixed = 1 .. m
  BY <1>1, <1>2, FilterAssumption
<1> HIDE DEF typed
<1>4. \A i \in 1 .. r : typed[i] # <<>>
  BY <1>1, <1>3 DEF Entry
<1>5. \A i \in 1 .. m + r : i > m => \A j \in 1 .. i - 1 : words[j] # words[i]
  BY <1>1, <1>3 DEF IInv, NothingTwice
<1>6. \A i \in 1 .. r : typed[i] \notin ToSet(Kept(words))
  <2> SUFFICES ASSUME NEW i \in 1 .. r, NEW j \in 1 .. m PROVE typed[i] # Fixed[j]
    BY <1>2, <1>3, KeptIsFixed DEF ToSet
  <2>1. m + i \in 1 .. m + r /\ m + i > m /\ j \in 1 .. (m + i) - 1
    OBVIOUS
  <2>2. words[j] # words[m + i]
    BY <1>5, <2>1
  <2>3. QED BY <1>1, <2>2
<1>7. \A i \in 1 .. r : \A j \in 1 .. i - 1 : typed[j] # typed[i]
  <2> SUFFICES ASSUME NEW i \in 1 .. r, NEW j \in 1 .. i - 1 PROVE typed[j] # typed[i]
    OBVIOUS
  <2>1. /\ m + i \in 1 .. m + r /\ m + i > m /\ m + j \in 1 .. (m + i) - 1
        /\ j \in 1 .. r
    OBVIOUS
  <2>2. words[m + j] # words[m + i]
    BY <1>5, <2>1
  <2>3. QED BY <1>1, <2>1, <2>2
<1>8. A = 1 .. r
  BY <1>3, <1>4, <1>6, <1>7 DEF Added
<1>9. Cardinality(A) = r
  BY <1>8, FS_Interval
<1>10. \A k \in 1 .. r : NthAdded(words, typed, k) = k
  <2> SUFFICES ASSUME NEW k \in 1 .. r PROVE NthAdded(words, typed, k) = k
    OBVIOUS
  <2>1. PICK i \in 1 .. r :
          i = NthAdded(words, typed, k) /\ Cardinality(UpTo(A, i)) = k
    BY <1>2, <1>8, <1>9, NthIsAdded
  <2>2. UpTo(A, i) = 1 .. i
    BY <1>8 DEF UpTo
  <2>3. Cardinality(1 .. i) = i
    BY FS_Interval
  <2>4. QED BY <2>1, <2>2, <2>3
<1>11. PICK e : e = Edited(words, typed)
  OBVIOUS
<1>12. /\ e \in Seq(Entry) /\ Len(e) = m + r
       /\ \A i \in 1 .. m : e[i] = Fixed[i]
       /\ \A k \in 1 .. r : e[m + k] = typed[NthAdded(words, typed, k)]
  BY <1>1, <1>2, <1>9, <1>11, EditedIs
<1>13. \A i \in 1 .. m + r : e[i] = words[i]
  <2> SUFFICES ASSUME NEW i \in 1 .. m + r PROVE e[i] = words[i]
    OBVIOUS
  <2>1. CASE i \in 1 .. m
    BY <1>1, <1>12, <2>1
  <2>2. CASE i \notin 1 .. m
    <3>1. PICK k \in 1 .. r : i = m + k
      <4>1. i - m \in 1 .. r /\ i = m + (i - m)
        BY <2>2
      <4>2. QED BY <4>1
    <3>2. QED BY <1>1, <1>10, <1>12, <3>1
  <2>3. QED BY <2>1, <2>2
<1>14. e = words
  BY <1>1, <1>2, <1>12, <1>13, SeqEqual
<1>15. QED BY <1>11, <1>14 DEF PagesRoundTrip, typed

-----------------------------------------------------------------------------
(***************************************************************************)
(* The recursion of Occurrences.  H are the places where an entry of m     *)
(* characters begins in a text of n.                                       *)
(***************************************************************************)

GreedyStep(n, m, H, f, i) ==
  IF i > n THEN 0 ELSE IF i \in H THEN 1 + f[i + m] ELSE f[i + 1]

\* The recursive function exists: it is defined from the end of the text on.
LEMMA GreedyExists ==
  ASSUME NEW n \in Nat, NEW m \in Nat \ {0}, NEW H
  PROVE  \E f : f = [i \in 1 .. n + m |-> GreedyStep(n, m, H, f, i)]
<1> DEFINE Sound(f, d) ==
             \A i \in 1 .. n + m : i >= n + m - d => f[i] = GreedyStep(n, m, H, f, i)
           Claim(d) == \E f \in [1 .. n + m -> Nat] : Sound(f, d)
           T == {d \in Nat : ~Claim(d)}
<1>1. Claim(0)
  <2> DEFINE f == [i \in 1 .. n + m |-> 0]
  <2>1. f \in [1 .. n + m -> Nat]
    OBVIOUS
  <2>2. ASSUME NEW i \in 1 .. n + m, i >= n + m - 0
        PROVE  f[i] = GreedyStep(n, m, H, f, i)
    <3>1. i > n
      BY <2>2
    <3>2. QED BY <3>1 DEF GreedyStep
  <2>3. QED BY <2>1, <2>2
<1>2. ASSUME NEW d \in Nat, Claim(d)
      PROVE  Claim(d + 1)
  <2>1. PICK f \in [1 .. n + m -> Nat] : Sound(f, d)
    BY <1>2
  <2> DEFINE p == n + m - (d + 1)
             g == [f EXCEPT ![p] = GreedyStep(n, m, H, f, p)]
  <2>2. CASE p \notin 1 .. n + m
    <3>1. \A i \in 1 .. n + m : i >= n + m - d
      BY <2>2
    <3>2. Sound(f, d + 1)
      BY <2>1, <3>1
    <3>3. QED BY <3>2
  <2>3. CASE p \in 1 .. n + m
    <3>1. GreedyStep(n, m, H, f, p) \in Nat
      <4>1. CASE p > n
        BY <4>1 DEF GreedyStep
      <4>2. CASE ~(p > n)
        <5>1. p + m \in 1 .. n + m /\ p + 1 \in 1 .. n + m
          BY <2>3, <4>2
        <5>2. f[p + m] \in Nat /\ f[p + 1] \in Nat
          BY <5>1
        <5>3. QED BY <5>2 DEF GreedyStep
      <4>3. QED BY <4>1, <4>2
    <3>2. PICK q \in 1 .. n + m : q = p
      BY <2>3
    <3>3. /\ g \in [1 .. n + m -> Nat]
          /\ g[q] = GreedyStep(n, m, H, f, q)
          /\ \A i \in 1 .. n + m : i # q => g[i] = f[i]
      BY <3>1, <3>2
    <3> HIDE DEF g
    <3>4. ASSUME NEW i \in 1 .. n + m, i >= q
          PROVE  GreedyStep(n, m, H, g, i) = GreedyStep(n, m, H, f, i)
      <4>1. CASE i > n
        BY <4>1 DEF GreedyStep
      <4>2. CASE ~(i > n)
        <5>1. /\ i + m \in 1 .. n + m /\ i + 1 \in 1 .. n + m
              /\ i + m # q /\ i + 1 # q
          BY <3>4, <4>2
        <5>2. g[i + m] = f[i + m] /\ g[i + 1] = f[i + 1]
          BY <3>3, <5>1
        <5>3. QED BY <5>2 DEF GreedyStep
      <4>3. QED BY <4>1, <4>2
    <3>5. ASSUME NEW i \in 1 .. n + m, i >= n + m - (d + 1)
          PROVE  g[i] = GreedyStep(n, m, H, g, i)
      <4>1. i >= q
        BY <3>2, <3>5
      <4>2. CASE i = q
        BY <3>3, <3>4, <4>1, <4>2
      <4>3. CASE i # q
        <5>1. i >= n + m - d
          BY <3>2, <4>1, <4>3
        <5>2. f[i] = GreedyStep(n, m, H, f, i)
          BY <2>1, <5>1
        <5>3. QED BY <3>3, <3>4, <4>1, <4>3, <5>2
      <4>4. QED BY <4>2, <4>3
    <3>6. QED BY <3>3, <3>5
  <2>4. QED BY <2>2, <2>3
<1> HIDE DEF Claim
<1>3. T = {}
  <2> SUFFICES ASSUME T # {} PROVE FALSE
    OBVIOUS
  <2>1. PICK d \in T : \A e \in T : d =< e
    <3> HIDE DEF T
    <3>1. T \in SUBSET Nat
      BY DEF T
    <3>2. QED BY <3>1, Least
  <2>2. d # 0
    BY <1>1
  <2>3. d - 1 \in Nat /\ (d - 1) + 1 = d /\ ~(d =< d - 1)
    BY <2>2
  <2>4. Claim(d - 1)
    BY <2>1, <2>3
  <2>5. Claim(d)
    BY <1>2, <2>3, <2>4
  <2>6. QED BY <2>5
<1>4. Claim(n + m)
  BY <1>3
<1>5. PICK f \in [1 .. n + m -> Nat] : Sound(f, n + m)
  BY <1>4 DEF Claim
<1>6. f = [i \in 1 .. n + m |-> GreedyStep(n, m, H, f, i)]
  BY <1>5
<1>7. QED BY <1>6

\* What it counts: no more than the places, and at least one if there are any.
LEMMA GreedyCounts ==
  ASSUME NEW n \in Nat, NEW m \in Nat \ {0}, NEW H \in SUBSET (1 .. n),
         NEW f, f = [i \in 1 .. n + m |-> GreedyStep(n, m, H, f, i)]
  PROVE  /\ f[1] \in Nat
         /\ f[1] =< Cardinality(H)
         /\ H # {} => f[1] >= 1
<1> DEFINE From(i) == {k \in H : k >= i}
           Good(i) == /\ f[i] \in Nat
                      /\ f[i] =< Cardinality(From(i))
                      /\ From(i) # {} => f[i] >= 1
           T == {d \in Nat : \E i \in 1 .. n + m : d = n + m - i /\ ~Good(i)}
<1>1. \A i \in 1 .. n + m : f[i] = GreedyStep(n, m, H, f, i)
  OBVIOUS
<1>2. \A i \in 1 .. n + m : IsFiniteSet(From(i)) /\ Cardinality(From(i)) \in Nat
  <2> SUFFICES ASSUME NEW i \in 1 .. n + m
               PROVE  IsFiniteSet(From(i)) /\ Cardinality(From(i)) \in Nat
    OBVIOUS
  <2>1. IsFiniteSet(H)
    <3>1. IsFiniteSet(1 .. n)
      BY FS_Interval
    <3>2. QED BY <3>1, FS_Subset
  <2>2. IsFiniteSet(From(i))
    <3>1. From(i) \subseteq H
      BY Zenon
    <3> HIDE DEF From
    <3>2. QED BY <2>1, <3>1, FS_Subset
  <2>3. QED BY <2>2, FS_CardinalityType
<1>3. ASSUME NEW i \in 1 .. n + m,
             \A j \in 1 .. n + m : j > i => Good(j)
      PROVE  Good(i)
  <2>1. CASE i > n
    <3>1. f[i] = 0
      BY <1>1, <2>1 DEF GreedyStep
    <3>2. \A k \in H : ~(k >= i)
      BY <2>1
    <3>3. From(i) = {}
      BY <3>2
    <3>4. 0 =< Cardinality(From(i))
      BY <1>2
    <3> HIDE DEF From
    <3>5. QED BY <3>1, <3>3, <3>4
  <2>2. CASE ~(i > n) /\ i \in H
    <3>1. PICK j \in 1 .. n + m : j = i + m /\ j > i
      BY <2>2
    <3>2. Good(j) /\ f[i] = 1 + f[j]
      BY <1>1, <1>3, <2>2, <3>1 DEF GreedyStep
    <3>3. From(j) \subseteq From(i) /\ i \in From(i) /\ i \notin From(j)
      <4>1. i >= i /\ ~(i >= j)
        BY <3>1
      <4>2. \A k \in H : k >= j => k >= i
        BY <3>1
      <4>3. QED BY <2>2, <4>1, <4>2, Zenon
    <3>4. /\ IsFiniteSet(From(i)) /\ Cardinality(From(i)) \in Nat
          /\ Cardinality(From(j)) \in Nat
      BY <1>2
    <3>5. Cardinality(From(j)) =< Cardinality(From(i)) - 1
      <4> HIDE DEF From
      <4>1. /\ Cardinality(From(j)) =< Cardinality(From(i))
            /\ Cardinality(From(j)) # Cardinality(From(i))
        BY <3>3, <3>4, FS_Subset
      <4>2. QED BY <3>4, <4>1
    <3> HIDE DEF From
    <3>6. QED BY <3>2, <3>4, <3>5
  <2>3. CASE ~(i > n) /\ i \notin H
    <3>1. PICK j \in 1 .. n + m : j = i + 1 /\ j > i
      BY <2>3
    <3>2. Good(j) /\ f[i] = f[j]
      BY <1>1, <1>3, <2>3, <3>1 DEF GreedyStep
    <3>3. From(j) = From(i)
      <4>1. \A k \in H : k >= j <=> k >= i
        BY <2>3, <3>1
      <4>2. QED BY <4>1, Zenon
    <3>4. QED BY <3>2, <3>3
  <2>4. QED BY <2>1, <2>2, <2>3
<1> HIDE DEF Good
<1>4. T = {}
  <2> SUFFICES ASSUME T # {} PROVE FALSE
    OBVIOUS
  <2>1. PICK d \in T : \A e \in T : d =< e
    <3> HIDE DEF T
    <3>1. T \in SUBSET Nat
      BY DEF T
    <3>2. QED BY <3>1, Least
  <2>2. PICK i \in 1 .. n + m : d = n + m - i /\ ~Good(i)
    BY <2>1
  <2>3. PICK j \in 1 .. n + m : j > i /\ ~Good(j)
    BY <1>3, <2>2
  <2>4. n + m - j \in Nat /\ ~(d =< n + m - j)
    BY <2>2, <2>3
  <2>5. n + m - j \in T
    BY <2>3, <2>4
  <2>6. QED BY <2>1, <2>4, <2>5
<1>5. 1 \in 1 .. n + m /\ n + m - 1 \in Nat
  OBVIOUS
<1>6. Good(1)
  BY <1>4, <1>5
<1>7. From(1) = H
  <2>1. \A k \in H : k >= 1
    OBVIOUS
  <2>2. QED BY <2>1, Zenon
<1>8. QED BY <1>6, <1>7 DEF Good

\* Without overlaps, what is found fits into the text.
LEMMA GreedyFits ==
  ASSUME NEW n \in Nat, NEW m \in Nat \ {0}, NEW H \in SUBSET (1 .. n),
         \A i \in H : i + m - 1 =< n,
         NEW f, f = [i \in 1 .. n + m |-> GreedyStep(n, m, H, f, i)]
  PROVE  f[1] * m =< n
<1> DEFINE Good(i) == f[i] \in Nat /\ (i =< n + 1 => f[i] * m =< n + 1 - i)
           T == {d \in Nat : \E i \in 1 .. n + m : d = n + m - i /\ ~Good(i)}
<1>1. \A i \in 1 .. n + m : f[i] = GreedyStep(n, m, H, f, i)
  OBVIOUS
<1>2. ASSUME NEW i \in 1 .. n + m,
             \A j \in 1 .. n + m : j > i => Good(j)
      PROVE  Good(i)
  <2>1. CASE i > n
    <3>1. f[i] = 0
      BY <1>1, <2>1 DEF GreedyStep
    <3>2. QED BY <2>1, <3>1
  <2>2. CASE ~(i > n) /\ i \in H
    <3>1. PICK j \in 1 .. n + m : j = i + m /\ j > i /\ j =< n + 1
      BY <2>2
    <3>2. PICK k \in Nat : k = f[j] /\ k * m =< n + 1 - j
      BY <1>2, <3>1
    <3>3. f[i] = 1 + k
      BY <1>1, <2>2, <3>1, <3>2 DEF GreedyStep
    <3>4. (1 + k) * m = m + k * m /\ k * m \in Nat
      BY <3>2
    <3>5. QED BY <3>1, <3>2, <3>3, <3>4
  <2>3. CASE ~(i > n) /\ i \notin H
    <3>1. PICK j \in 1 .. n + m : j = i + 1 /\ j > i /\ j =< n + 1
      BY <2>3
    <3>2. PICK k \in Nat : k = f[j] /\ k * m =< n + 1 - j
      BY <1>2, <3>1
    <3>3. f[i] = k
      BY <1>1, <2>3, <3>1, <3>2 DEF GreedyStep
    <3>4. k * m \in Nat
      BY <3>2
    <3>5. QED BY <3>1, <3>2, <3>3, <3>4
  <2>4. QED BY <2>1, <2>2, <2>3
<1> HIDE DEF Good
<1>3. T = {}
  <2> SUFFICES ASSUME T # {} PROVE FALSE
    OBVIOUS
  <2>1. PICK d \in T : \A e \in T : d =< e
    <3> HIDE DEF T
    <3>1. T \in SUBSET Nat
      BY DEF T
    <3>2. QED BY <3>1, Least
  <2>2. PICK i \in 1 .. n + m : d = n + m - i /\ ~Good(i)
    BY <2>1
  <2>3. PICK j \in 1 .. n + m : j > i /\ ~Good(j)
    BY <1>2, <2>2
  <2>4. n + m - j \in Nat /\ ~(d =< n + m - j)
    BY <2>2, <2>3
  <2>5. n + m - j \in T
    BY <2>3, <2>4
  <2>6. QED BY <2>1, <2>4, <2>5
<1>4. 1 \in 1 .. n + m /\ n + m - 1 \in Nat
  OBVIOUS
<1>5. Good(1)
  BY <1>3, <1>4
<1>6. QED BY <1>5 DEF Good

-----------------------------------------------------------------------------
(***************************************************************************)
(* The characters of texts and entries.                                    *)
(***************************************************************************)

LEMMA EntryType ==
  ASSUME NEW entry \in Entry
  PROVE  /\ entry \in Seq(Char) /\ Len(entry) \in Nat \ {0}
         /\ DOMAIN entry = 1 .. Len(entry)
         /\ entry[Len(entry)] # Space
<1>1. entry \in Seq(Char) /\ entry # <<>> /\ entry[Len(entry)] # Space
  BY DEF Entry
<1>2. Len(entry) # 0
  BY <1>1
<1>3. QED BY <1>1, <1>2

LEMMA SpacesAreFinite ==
  ASSUME NEW s \in Seq(Char)
  PROVE  /\ IsFiniteSet(Spaces(s)) /\ Cardinality(Spaces(s)) \in Nat
         /\ Tokens(s) \in Nat /\ Tokens(s) >= 1
<1>1. IsFiniteSet(1 .. Len(s)) /\ Spaces(s) \subseteq 1 .. Len(s)
  <2>1. IsFiniteSet(1 .. Len(s))
    BY FS_Interval
  <2>2. DOMAIN s = 1 .. Len(s)
    OBVIOUS
  <2>3. Spaces(s) \subseteq DOMAIN s
    BY Zenon DEF Spaces
  <2>4. QED BY <2>1, <2>2, <2>3
<1>2. IsFiniteSet(Spaces(s))
  BY <1>1, FS_Subset
<1>3. Cardinality(Spaces(s)) \in Nat
  BY <1>2, FS_CardinalityType
<1>4. QED BY <1>2, <1>3 DEF Tokens

LEMMA SpacesOfAreFinite ==
  ASSUME NEW list \in Seq(Entry), NEW numbers \in SUBSET (1 .. Len(list))
  PROVE  /\ IsFiniteSet(SpacesOf(list, numbers))
         /\ Cardinality(SpacesOf(list, numbers)) \in Nat
<1> DEFINE parts == {{i} \X Spaces(list[i]) : i \in numbers}
<1>1. IsFiniteSet(parts)
  <2>1. IsFiniteSet(numbers)
    <3>1. IsFiniteSet(1 .. Len(list))
      BY FS_Interval
    <3>2. QED BY <3>1, FS_Subset
  <2> DEFINE part == [i \in numbers |-> {i} \X Spaces(list[i])]
  <2>2. part \in Surjection(numbers, parts)
    BY DEF Surjection
  <2> HIDE DEF part, parts
  <2>3. QED BY <2>1, <2>2, FS_Surjection
<1>2. ASSUME NEW i \in numbers
      PROVE  IsFiniteSet({i} \X Spaces(list[i]))
  <2>1. list[i] \in Entry
    OBVIOUS
  <2>2. IsFiniteSet(Spaces(list[i]))
    BY <2>1, EntryType, SpacesAreFinite
  <2>3. IsFiniteSet({i})
    BY FS_Singleton
  <2>4. QED BY <2>2, <2>3, FS_Product
<1>3. \A p \in parts : IsFiniteSet(p)
  BY <1>2
<1> HIDE DEF parts
<1>4. IsFiniteSet(UNION parts)
  BY <1>1, <1>3, FS_UNION
<1>5. QED BY <1>4, FS_CardinalityType DEF SpacesOf, parts

\* Where no entry has spaces there is nothing to discount.
LEMMA NoCompounds ==
  ASSUME NEW list, NEW numbers, \A i \in numbers : Spaces(list[i]) = {}
  PROVE  Cardinality(SpacesOf(list, numbers)) = 0
<1>1. SpacesOf(list, numbers) = {}
  <2> SUFFICES ASSUME NEW x \in SpacesOf(list, numbers) PROVE FALSE
    OBVIOUS
  <2>1. PICK i \in numbers : x \in {i} \X Spaces(list[i])
    BY DEF SpacesOf
  <2>2. QED BY <2>1
<1>2. QED BY <1>1, FS_EmptySet

\* The spaces of one entry and those of the others are counted apart.
LEMMA OneAndOthers ==
  ASSUME NEW list \in Seq(Entry), NEW numbers \in SUBSET (1 .. Len(list)),
         NEW f \in numbers
  PROVE  Cardinality(SpacesOf(list, numbers)) =
           Cardinality(Spaces(list[f])) + Cardinality(SpacesOf(list, numbers \ {f}))
<1> DEFINE mine == {f} \X Spaces(list[f])
           others == SpacesOf(list, numbers \ {f})
<1>1. SpacesOf(list, numbers) = mine \cup others
  BY DEF SpacesOf
<1>2. mine \cap others = {}
  BY DEF SpacesOf
<1>3. IsFiniteSet(others) /\ Cardinality(others) \in Nat
  BY SpacesOfAreFinite
<1>4. /\ IsFiniteSet(mine) /\ Cardinality(mine) = Cardinality(Spaces(list[f]))
      /\ Cardinality(mine) \in Nat
  <2>1. list[f] \in Entry
    OBVIOUS
  <2>2. IsFiniteSet(Spaces(list[f])) /\ Cardinality(Spaces(list[f])) \in Nat
    BY <2>1, EntryType, SpacesAreFinite
  <2>3. IsFiniteSet({f}) /\ Cardinality({f}) = 1
    BY FS_Singleton
  <2>4. IsFiniteSet(mine)
        /\ Cardinality(mine) = Cardinality({f}) * Cardinality(Spaces(list[f]))
    BY <2>2, <2>3, FS_Product
  <2>5. QED BY <2>2, <2>3, <2>4
<1> HIDE DEF mine, others
<1>5. Cardinality(mine \cup others) =
        Cardinality(mine) + Cardinality(others) - Cardinality(mine \cap others)
  BY <1>3, <1>4, FS_Union
<1>6. Cardinality(mine \cap others) = 0
  BY <1>2, FS_EmptySet
<1>7. QED BY <1>1, <1>3, <1>4, <1>5, <1>6 DEF others

-----------------------------------------------------------------------------
(***************************************************************************)
(* The verdict.                                                            *)
(***************************************************************************)

Places(text, entry) == {i \in 1 .. Len(text) : OccursAt(text, entry, i)}

\* The characters of an entry are those of the text from its place on.
LEMMA PartOfText ==
  ASSUME NEW text \in Seq(Char), NEW entry \in Entry,
         NEW i \in 1 .. Len(text), OccursAt(text, entry, i)
  PROVE  \A k \in 1 .. Len(entry) :
           i + k - 1 \in 1 .. Len(text) /\ entry[k] = text[i + k - 1]
<1>1. Len(text) \in Nat /\ Len(entry) \in Nat \ {0}
  BY EntryType
<1>2. PICK n \in Int : n = i + Len(entry) - 1 /\ n - i + 1 = Len(entry)
                       /\ n =< Len(text) /\ SubSeq(text, i, n) = entry
  <2>1. i \in Int /\ i + Len(entry) - 1 \in Int
    BY <1>1
  <2>2. (i + Len(entry) - 1) - i + 1 = Len(entry)
    BY <1>1, <2>1
  <2>3. QED BY <2>1, <2>2 DEF OccursAt
<1>3. \A j \in i .. n : text[j] \in Char
  BY <1>1, <1>2
<1>4. \A k \in 1 .. n - i + 1 : SubSeq(text, i, n)[k] = text[i + k - 1]
  BY <1>3, SubSeqProperties
<1>5. \A k \in 1 .. Len(entry) : entry[k] = text[i + k - 1]
  BY <1>2, <1>4
<1>6. \A k \in 1 .. Len(entry) : i + k - 1 \in 1 .. Len(text)
  BY <1>1, <1>2
<1>7. QED BY <1>5, <1>6

\* What split counts for a plain entry: it is found at least once if the text
\* contains it, at most once for each place where it begins, and all it is
\* found in fits into the text.  This holds whatever the tokens are: in one of
\* them an entry may be found several times.
THEOREM OccurrencesCount ==
  ASSUME NEW text \in Seq(Char), NEW entry \in Entry, IsPlain(entry)
  PROVE  /\ Occurrences(text, entry) \in Nat
         /\ Occurrences(text, entry) =< Cardinality(Places(text, entry))
         /\ Occurrences(text, entry) * Len(entry) =< Len(text)
         /\ Has(text, entry) <=> Occurrences(text, entry) >= 1
<1> DEFINE n == Len(text)
           m == Len(entry)
           H == Places(text, entry)
           f == OccurrencesFrom(text, entry)
           Body(g) == [i \in 1 .. n + m |->
             IF i > n THEN 0
             ELSE IF OccursAt(text, entry, i) THEN 1 + g[i + m] ELSE g[i + 1]]
           Greedy(g) == [i \in 1 .. n + m |-> GreedyStep(n, m, H, g, i)]
<1>1. n \in Nat /\ m \in Nat \ {0} /\ H \in SUBSET (1 .. n)
  BY EntryType DEF Places
<1>2. f = CHOOSE g : g = Body(g)
  BY DEF OccurrencesFrom
<1>3. \A g : Body(g) = Greedy(g)
  <2> SUFFICES ASSUME NEW g, NEW i \in 1 .. n + m
               PROVE  (IF i > n THEN 0
                       ELSE IF OccursAt(text, entry, i) THEN 1 + g[i + m]
                       ELSE g[i + 1]) = GreedyStep(n, m, H, g, i)
    BY Zenon
  <2>1. ~(i > n) => (i \in H <=> OccursAt(text, entry, i))
    BY <1>1 DEF Places
  <2> HIDE DEF H, n, m
  <2>2. QED BY <2>1 DEF GreedyStep
<1>4. \A i \in H : i + m - 1 =< n
  BY DEF Places, OccursAt
<1>5. Has(text, entry) <=> H # {}
  BY DEF Has, Places
<1> HIDE DEF n, m, H, f
<1>6. \E g : g = Greedy(g)
  BY <1>1, GreedyExists
<1>7. f = Greedy(f)
  <2> HIDE DEF Body, Greedy
  <2>1. PICK g : g = Body(g)
    BY <1>3, <1>6
  <2>2. f = Body(f)
    BY <1>2, <2>1
  <2>3. QED BY <1>3, <2>2
<1>8. f[1] \in Nat /\ f[1] =< Cardinality(H) /\ (H # {} => f[1] >= 1)
  BY <1>1, <1>7, GreedyCounts
<1>9. f[1] * m =< n
  BY <1>1, <1>4, <1>7, GreedyFits
<1>10. H = {} => Cardinality(H) = 0
  BY FS_EmptySet
<1>11. Occurrences(text, entry) = f[1]
  BY DEF Occurrences, f
<1>12. QED BY <1>5, <1>8, <1>9, <1>10, <1>11 DEF H, n, m

\* The entries that are found, and the last of them, which decides the count.
LEMMA LastFound ==
  ASSUME NEW text \in Seq(Char), NEW list \in Seq(Entry), Found(list, text) # {}
  PROVE  \E l \in Found(list, text) :
           TextCounter(list, text) = Occurrences(text, list[l])
<1>1. Len(list) \in Nat /\ Found(list, text) \in SUBSET (1 .. Len(list))
  BY DEF Found
<1>2. Max(Found(list, text)) \in Found(list, text)
  BY <1>1, Greatest
<1>3. QED BY <1>2 DEF TextCounter

\* The count never exceeds the places where a listed word begins.
LEMMA VerdictIsFounded ==
  ASSUME IInv
  PROVE  NoFalsePositives
<1> SUFFICES ASSUME NEW text \in Text,
                    \A i \in Found(words, text) :
                      IsPlain(words[i]) /\ Spaces(words[i]) = {},
                    ValidateSpam(words, threshold, text)
             PROVE  Cardinality({k \in DOMAIN text : \E i \in Found(words, text) :
                                   OccursAt(text, words[i], k)}) * 100
                    >= threshold * Tokens(text)
  BY Zenon DEF NoFalsePositives
<1> DEFINE places == {k \in DOMAIN text : \E i \in Found(words, text) :
                        OccursAt(text, words[i], k)}
<1>1. /\ text \in Seq(Char) /\ DOMAIN text = 1 .. Len(text) /\ Len(text) \in Nat
      /\ words \in Seq(Entry) /\ threshold \in 1 .. 100
  BY FilterAssumption DEF IInv, TypeOK
<1>2. IsFiniteSet(places) /\ Cardinality(places) \in Nat
  <2>1. IsFiniteSet(1 .. Len(text)) /\ places \subseteq 1 .. Len(text)
    BY <1>1, FS_Interval
  <2> HIDE DEF places
  <2>2. IsFiniteSet(places)
    BY <2>1, FS_Subset
  <2>3. QED BY <2>2, FS_CardinalityType
<1>3. TextCounter(words, text) \in Nat
      /\ TextCounter(words, text) =< Cardinality(places)
  <2>1. CASE Found(words, text) = {}
    BY <1>2, <2>1 DEF TextCounter
  <2>2. CASE Found(words, text) # {}
    <3>1. PICK l \in Found(words, text) :
            TextCounter(words, text) = Occurrences(text, words[l])
      BY <1>1, <2>2, LastFound
    <3>2. words[l] \in Entry /\ IsPlain(words[l])
      BY <1>1 DEF Found
    <3>3. Places(text, words[l]) \subseteq places
      BY <1>1 DEF Places
    <3> HIDE DEF places
    <3>4. Cardinality(Places(text, words[l])) \in Nat
          /\ Cardinality(Places(text, words[l])) =< Cardinality(places)
      BY <1>2, <3>3, FS_Subset, FS_CardinalityType
    <3>5. /\ Occurrences(text, words[l]) \in Nat
          /\ Occurrences(text, words[l]) =< Cardinality(Places(text, words[l]))
      BY <1>1, <3>2, OccurrencesCount
    <3>6. QED BY <1>2, <3>1, <3>4, <3>5
  <2>3. QED BY <2>1, <2>2
<1>4. TextCounterCompous(words, text) = 0
  BY NoCompounds DEF TextCounterCompous
<1>5. Tokens(text) \in Nat /\ Tokens(text) >= 1
  BY <1>1, SpacesAreFinite
<1>6. TextCounter(words, text) * 100 >= threshold * Tokens(text)
  BY <1>1, <1>4, <1>5 DEF ValidateSpam
<1> HIDE DEF places
<1>7. PICK share \in Int : share = threshold * Tokens(text)
  BY <1>1, <1>5
<1>8. Cardinality(places) * 100 >= share
  BY <1>2, <1>3, <1>6, <1>7
<1>9. QED BY <1>7, <1>8 DEF places

\* In a text that is a fixed entry, this entry is found, all that is found is
\* plain, since the text is, and has no spaces if the text has none.
LEMMA FoundInFixed ==
  ASSUME IInv, NEW f \in DOMAIN Fixed
  PROVE  /\ f \in Found(words, Fixed[f]) /\ words[f] = Fixed[f]
         /\ \A i \in Found(words, Fixed[f]) :
              /\ i \in 1 .. Len(words) /\ words[i] \in Entry
              /\ IsPlain(words[i]) /\ Has(Fixed[f], words[i])
              /\ Spaces(Fixed[f]) = {} => Spaces(words[i]) = {}
<1> DEFINE text == Fixed[f]
<1>1. /\ text \in Entry /\ words \in Seq(Entry)
      /\ f \in 1 .. Len(Fixed) /\ Len(Fixed) \in Nat /\ Len(words) \in Nat
      /\ DOMAIN words = 1 .. Len(words)
  BY FilterAssumption DEF IInv, TypeOK
<1>2. /\ text \in Seq(Char) /\ Len(text) \in Nat \ {0}
      /\ DOMAIN text = 1 .. Len(text)
  BY <1>1, EntryType
<1>3. Len(Fixed) =< Len(words) /\ words[f] = text
  BY <1>1, FrontIsFixed DEF IInv, FixedWordsSurvive
<1>4. \A q \in 1 .. Len(text) : text[q] \in Plain
  BY <1>2, WordsAssumption DEF Range
<1> HIDE DEF text
<1>5. f \in Found(words, text)
  <2>1. 1 + Len(text) - 1 = Len(text) /\ 1 \in DOMAIN text
    BY <1>2
  <2>2. SubSeq(text, 1, Len(text)) = text
    BY <1>2
  <2>3. OccursAt(text, text, 1)
    BY <1>2, <2>1, <2>2 DEF OccursAt
  <2>4. f \in DOMAIN words
    BY <1>1, <1>3
  <2>5. QED BY <1>3, <2>1, <2>3, <2>4 DEF Found, Has
<1>6. ASSUME NEW i \in Found(words, text)
      PROVE  /\ i \in 1 .. Len(words) /\ words[i] \in Entry
             /\ IsPlain(words[i]) /\ Has(text, words[i])
             /\ Spaces(text) = {} => Spaces(words[i]) = {}
  <2>1. i \in 1 .. Len(words) /\ words[i] \in Entry /\ Has(text, words[i])
    BY <1>1 DEF Found
  <2>2. PICK p \in 1 .. Len(text) : OccursAt(text, words[i], p)
    BY <1>2, <2>1 DEF Has
  <2>3. PICK n \in Nat \ {0} : n = Len(words[i]) /\ DOMAIN words[i] = 1 .. n
    BY <2>1, EntryType
  <2>4. \A k \in 1 .. n :
          p + k - 1 \in 1 .. Len(text) /\ words[i][k] = text[p + k - 1]
    BY <1>2, <2>1, <2>2, <2>3, PartOfText
  <2>5. IsPlain(words[i])
    <3> SUFFICES ASSUME NEW k \in 1 .. n PROVE words[i][k] \in Plain
      BY <2>3 DEF IsPlain, Range
    <3>1. QED BY <1>4, <2>4
  <2>6. ASSUME Spaces(text) = {}, NEW k \in Spaces(words[i])
        PROVE  FALSE
    <3>1. PICK j \in 1 .. n : k \in 1 .. n /\ k < j
                              /\ words[i][k] = Space /\ words[i][j] # Space
      BY <2>3, <2>6 DEF Spaces
    <3>2. PICK a \in 1 .. Len(text), b \in 1 .. Len(text) :
            a = p + k - 1 /\ b = p + j - 1
      BY <2>4, <3>1
    <3>3. text[a] = Space /\ text[b] # Space
      BY <2>4, <3>1, <3>2
    <3>4. a < b
      BY <3>1, <3>2
    <3>5. a \in Spaces(text)
      BY <1>2, <3>3, <3>4 DEF Spaces
    <3>6. QED BY <2>6, <3>5
  <2>7. QED BY <2>1, <2>5, <2>6
<1>7. QED BY <1>3, <1>5, <1>6 DEF text

\* The verdict on a fixed entry: the divisor is one, less the spaces of the
\* other entries that are found, so that it takes two of them to let it pass.
LEMMA FixedIsSpam ==
  ASSUME IInv, NEW f \in DOMAIN Fixed
  PROVE  LET others == Cardinality(SpacesOf(words, Found(words, Fixed[f]) \ {f}))
         IN  /\ others \in Nat
             /\ others < 2 => ValidateSpam(words, threshold, Fixed[f])
             /\ Spaces(Fixed[f]) = {} => others = 0
<1> DEFINE text == Fixed[f]
           found == Found(words, text)
           others == Cardinality(SpacesOf(words, found \ {f}))
<1>1. /\ f \in found /\ words[f] = text
      /\ \A i \in found : /\ i \in 1 .. Len(words) /\ words[i] \in Entry
                          /\ IsPlain(words[i]) /\ Has(text, words[i])
                          /\ Spaces(text) = {} => Spaces(words[i]) = {}
  BY FoundInFixed
<1>2. /\ words \in Seq(Entry) /\ threshold \in 1 .. 100 /\ text \in Entry
      /\ text \in Seq(Char)
  <2>1. words \in Seq(Entry) /\ threshold \in 1 .. 100 /\ text \in Entry
    BY FilterAssumption DEF IInv, TypeOK
  <2>2. QED BY <2>1, EntryType
<1> HIDE DEF text, found
<1>3. found \in SUBSET (1 .. Len(words)) /\ found \ {f} \in SUBSET (1 .. Len(words))
  BY <1>1
<1>4. others \in Nat
  BY <1>2, <1>3, SpacesOfAreFinite
<1>5. TextCounter(words, text) \in Nat /\ TextCounter(words, text) >= 1
  <2>1. PICK l \in found : TextCounter(words, text) = Occurrences(text, words[l])
    BY <1>1, <1>2, LastFound DEF found
  <2>2. QED BY <1>1, <1>2, <2>1, OccurrencesCount
<1>6. Tokens(text) - TextCounterCompous(words, text) = 1 - others
  <2>1. Cardinality(SpacesOf(words, found)) = Cardinality(Spaces(text)) + others
    BY <1>1, <1>2, <1>3, OneAndOthers
  <2>2. Cardinality(Spaces(text)) \in Nat
    BY <1>2, SpacesAreFinite
  <2>3. QED BY <1>4, <2>1, <2>2 DEF Tokens, TextCounterCompous, found
<1> HIDE DEF others
<1>7. ASSUME others < 2
      PROVE  ValidateSpam(words, threshold, text)
  <2>1. CASE others = 0
    <3>1. TextCounter(words, text) * 100 >= threshold * 1
      BY <1>2, <1>5
    <3>2. QED BY <1>6, <2>1, <3>1 DEF ValidateSpam
  <2>2. CASE others = 1
    BY <1>5, <1>6, <2>2 DEF ValidateSpam
  <2>3. QED BY <1>4, <1>7, <2>1, <2>2
<1>8. ASSUME Spaces(text) = {}
      PROVE  others = 0
  BY <1>1, <1>8, NoCompounds DEF others
<1>9. QED BY <1>4, <1>7, <1>8 DEF others, found, text

-----------------------------------------------------------------------------
(***************************************************************************)
(* The invariant is inductive.                                             *)
(***************************************************************************)

LEMMA InitHolds == Init => IInv
<1> SUFFICES ASSUME Init PROVE IInv
  OBVIOUS
<1>1. Fixed \in Seq(Entry) /\ Len(Fixed) \in Nat /\ DOMAIN Fixed = 1 .. Len(Fixed)
  BY FilterAssumption
<1>2. TypeOK
  BY <1>1, FilterAssumption DEF Init, TypeOK
<1>3. FixedWordsSurvive
  BY <1>1 DEF Init, FixedWordsSurvive
<1>4. NothingTwice
  BY <1>1 DEF Init, NothingTwice
<1>5. QED BY <1>2, <1>3, <1>4 DEF Init, IInv, PagesAreTrue, SingleWordsNotShouted

\* What a page may post are sequences of tokens: typed, or as it was shown.
LEMMA PostedIsTyped ==
  ASSUME IInv, NEW t \in Tab, page[t] # NoPage,
         NEW typed \in Typed \cup {page[t].words}
  PROVE  typed \in Seq(Entry \cup {<<>>})
<1>1. page[t] \in Page
  BY DEF IInv, TypeOK
<1>2. page[t].words \in Seq(Entry)
  BY <1>1 DEF Page
<1>3. QED BY <1>2, EntriesAreTyped, FilterAssumption

LEMMA ShowKeeps ==
  ASSUME IInv, NEW t \in Tab, Show(t)
  PROVE  IInv'
<1>1. Shown(words) \in Seq(Entry)
  BY ShownIs
<1>2. TypeOK'
  BY <1>1 DEF IInv, TypeOK, Show, Page
<1>3. PagesAreTrue'
  BY FilterAssumption DEF IInv, TypeOK, Show, PagesAreTrue
<1>4. QED
  BY <1>2, <1>3
  DEF IInv, Show, FixedWordsSurvive, NothingTwice, SingleWordsNotShouted

LEMMA UpdateKeeps ==
  ASSUME IInv, NEW t \in Tab, NEW limit \in Threshold,
         NEW typed \in Typed \cup {page[t].words}, Update(t, typed, limit)
  PROVE  IInv'
<1>1. typed \in Seq(Entry \cup {<<>>})
  BY PostedIsTyped DEF Update
<1>2. words' = Edited(words, typed)
  BY DEF Update
<1>3. words' \in Seq(Entry)
  BY <1>1, <1>2, EditedIs DEF IInv
<1>4. FixedWordsSurvive' /\ NothingTwice'
  BY <1>1, <1>2, EditedHasNothingTwice
<1>5. version \in Nat /\ version' = version + 1 /\ version' =< MaxVersion
  BY FilterAssumption DEF IInv, TypeOK, Update
<1>6. TypeOK'
  BY <1>3, <1>5, FilterAssumption DEF IInv, TypeOK, Update
<1>7. PagesAreTrue'
  <2> SUFFICES ASSUME NEW s \in Tab, page[s] # NoPage
               PROVE  page[s].version =< version' /\ page[s].version # version'
    BY DEF Update, PagesAreTrue
  <2>1. page[s].version \in Nat /\ page[s].version =< version
    BY FilterAssumption DEF IInv, TypeOK, Page, PagesAreTrue
  <2>2. QED BY <1>5, <2>1
<1>8. QED BY <1>4, <1>6, <1>7 DEF IInv, Update, SingleWordsNotShouted

LEMMA ShoutKeeps ==
  ASSUME IInv, NEW text \in Text, Shout(text)
  PROVE  IInv'
<1>1. SingleWordsNotShouted'
  <2> SUFFICES ASSUME NEW f \in DOMAIN Fixed, Spaces(Fixed[f]) = {}, Fixed[f] \in shouts'
               PROVE  FALSE
    BY DEF SingleWordsNotShouted
  <2>1. Fixed[f] = text
    BY DEF IInv, Shout, SingleWordsNotShouted
  <2>2. ~ValidateSpam(words, threshold, Fixed[f])
    BY <2>1 DEF Shout
  <2>3. /\ Cardinality(SpacesOf(words, Found(words, Fixed[f]) \ {f})) < 2
             => ValidateSpam(words, threshold, Fixed[f])
        /\ Cardinality(SpacesOf(words, Found(words, Fixed[f]) \ {f})) = 0
    BY FixedIsSpam
  <2>4. QED BY <2>2, <2>3
<1>2. QED
  BY <1>1
  DEF IInv, Shout, TypeOK, FixedWordsSurvive, NothingTwice, PagesAreTrue

THEOREM Inductive == Spec => []IInv
<1>1. IInv /\ [Next]_vars => IInv'
  <2> SUFFICES ASSUME IInv, [Next]_vars PROVE IInv'
    OBVIOUS
  <2>1. CASE UNCHANGED vars
    BY <2>1
    DEF vars, IInv, TypeOK, FixedWordsSurvive, NothingTwice, PagesAreTrue,
        SingleWordsNotShouted
  <2>2. ASSUME NEW t \in Tab, Post(t) PROVE IInv'
    <3>1. page[t] # NoPage
      BY <2>2 DEF Post, Update
    <3>2. PICK limit \in Threshold, typed \in Typed \cup {page[t].words} :
            Update(t, typed, limit)
      BY <2>2, <3>1 DEF Post
    <3>3. QED BY <3>2, UpdateKeeps
  <2>3. QED BY <2>1, <2>2, ShowKeeps, ShoutKeeps DEF Next
<1>2. QED BY <1>1, InitHolds, PTL DEF Spec

\* Every variable keeps its type: what is stored is never blank, and the version
\* stays within its bound.
THEOREM TypeCorrect == Spec => []TypeOK
<1>1. IInv => TypeOK
  BY DEF IInv
<1>2. QED BY <1>1, Inductive, PTL

\* The fixed words stay in front of the list, whatever is typed and however
\* many of them there are.
THEOREM FixedWordsStay == Spec => []FixedWordsSurvive
<1>1. IInv => FixedWordsSurvive
  BY DEF IInv
<1>2. QED BY <1>1, Inductive, PTL

\* A page that is posted as it was shown leaves the list as it is, however long
\* the list has become.
THEOREM RoundTrips == Spec => []PagesRoundTrip
<1>1. IInv => PagesRoundTrip
  BY RoundTrip
<1>2. QED BY <1>1, Inductive, PTL

\* Whatever the list has become and whatever the threshold, a fixed entry
\* without spaces is never stored.
THEOREM SingleWordsAreNotShouted == Spec => []SingleWordsNotShouted
<1>1. IInv => SingleWordsNotShouted
  BY DEF IInv
<1>2. QED BY <1>1, Inductive, PTL

\* However long a fixed entry is, it is stored only when the other entries found
\* in it have two spaces or more.
THEOREM FixedWordsPass == Spec => FixedWordsPassOnlyInOverlaps
<1> DEFINE
  Overlaps(i) == Cardinality(SpacesOf(words, Found(words, Fixed[i]) \ {i})) >= 2
<1>1. IInv /\ [Next]_vars =>
        [\A i \in DOMAIN Fixed : Fixed[i] \in shouts' \ shouts => Overlaps(i)]_vars
  <2> SUFFICES ASSUME IInv, Next, NEW i \in DOMAIN Fixed,
                      Fixed[i] \in shouts' \ shouts
               PROVE  Overlaps(i)
    OBVIOUS
  <2>1. PICK text \in Text : Shout(text)
    BY DEF Next, Show, Post, Update
  <2>2. Fixed[i] = text
    BY <2>1 DEF Shout
  <2>3. ~ValidateSpam(words, threshold, Fixed[i])
    BY <2>1, <2>2 DEF Shout
  <2>4. QED BY <2>3, FixedIsSpam
<1>2. QED BY <1>1, Inductive, PTL DEF Spec, FixedWordsPassOnlyInOverlaps

\* Whatever the list has become, a text in which plain entries without spaces
\* are found is called spam only when enough places in it begin one of them.
THEOREM VerdictsAreFounded == Spec => []NoFalsePositives
<1>1. IInv => NoFalsePositives
  BY VerdictIsFounded
<1>2. QED BY <1>1, Inductive, PTL

\* No update replaces a list its author has not seen.
THEOREM UpdatesSeeTheList == Spec => UpdatesReplaceWhatWasShown
<1> DEFINE
  Shows(t) == page[t] # NoPage /\ page[t].version = version
              /\ page[t].words = Shown(words)
              /\ page[t].threshold = threshold
<1>1. IInv /\ [Next]_vars => [version' # version => \E t \in Tab : Shows(t)]_vars
  <2> SUFFICES ASSUME IInv, Next, version' # version
               PROVE  \E t \in Tab : Shows(t)
    OBVIOUS
  <2>1. PICK t \in Tab : page[t] # NoPage /\ page[t].version = version
    BY DEF Next, Show, Post, Update, Shout
  <2>2. QED BY <2>1 DEF IInv, PagesAreTrue
<1>2. QED BY <1>1, Inductive, PTL DEF Spec, UpdatesReplaceWhatWasShown
===============================================================================
