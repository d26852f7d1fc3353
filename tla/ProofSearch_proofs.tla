-------------------------- MODULE ProofSearch_proofs --------------------------
(***************************************************************************)
(* Proofs about ProofSearch, for every set of search spaces, strategy,     *)
(* bound and deadline: an inductive invariant (SearchInv), and from it the *)
(* types, the safety properties and EvaluatedOnce.                         *)
(*                                                                         *)
(* While the search runs SearchInv says where the calls can be in the tree *)
(* (StateOK, PlaceOK, OrderOK), which cases may be missing (CasesOK), that *)
(* a status is the roll-up of those below it (RollOK), which limits gave a *)
(* node its method (EvalOK), which stubs are left and who knows of them    *)
(* (HitOK, OldOK), what earlier rounds have shown (RoundOK), which systems *)
(* are kept (LiveOK), and what AfterSorry has not tried (SorryOK).  Once   *)
(* it is over SearchInv says that the result is right.                     *)
(*                                                                         *)
(* The proof has four parts: sequences as paths of a tree; what the        *)
(* invariant says of the whole tree (Ancestors, StatusUp, LeafOf, Covered, *)
(* StubsAtEnd); one lemma on what each kind of step changes, and one that  *)
(* it keeps the invariant; and one lemma for each way the search can end.  *)
(***************************************************************************)
EXTENDS ProofSearch, SequenceTheorems, WellFoundedInduction, TLAPS

-----------------------------------------------------------------------------
(* Sequences as paths.                                                     *)

\* The least element of a set of numbers.
LEMMA LeastNat ==
  ASSUME NEW S, S \subseteq Nat, S # {}
  PROVE  \E n \in S : \A m \in S : n <= m
<1>1. PICK n \in S : \A m \in S : ~(<<m, n>> \in OpToRel(<, Nat))
  BY WFMin, NatLessThanWellFounded
<1>2. \A m \in S : <<m, n>> \in Nat \X Nat /\ <<m, n>>[1] = m /\ <<m, n>>[2] = n
  OBVIOUS
<1>3. \A m \in S : ~(m < n)
  BY <1>1, <1>2 DEF OpToRel
<1> QED
  BY <1>3

\* The greatest element of a bounded set of numbers.
LEMMA GreatestNat ==
  ASSUME NEW S, NEW b \in Nat, S \subseteq 0..b, S # {}
  PROVE  \E n \in S : \A m \in S : m <= n
<1>1. PICK D : D = {b - n : n \in S}
  OBVIOUS
<1>2. D \subseteq Nat /\ D # {}
  <2>1. \A n \in S : n \in Nat /\ n <= b /\ b - n \in Nat
    OBVIOUS
  <2> QED
    BY <1>1, <2>1
<1>3. PICK d \in D : \A e \in D : d <= e
  BY <1>2, LeastNat
<1>4. PICK n \in S : d = b - n
  BY <1>1, <1>3
<1>5. \A m \in S : b - m \in D /\ b - n <= b - m
  BY <1>1, <1>3, <1>4
<1> QED
  BY <1>5

\* The sequences that can name a node.
Paths == Seq(Nat)

\* The first k elements of a sequence.
LEMMA FirstPart ==
  ASSUME NEW n, NEW k \in Int, k >= 0, \A i \in 1..k : n[i] \in Nat
  PROVE  /\ SubSeq(n, 1, k) \in Seq(Nat) /\ Len(SubSeq(n, 1, k)) = k
         /\ \A i \in 1..k : SubSeq(n, 1, k)[i] = n[i]
<1>1. /\ SubSeq(n, 1, k) \in Seq(Nat)
      /\ Len(SubSeq(n, 1, k)) = IF 1 <= k THEN k - 1 + 1 ELSE 0
      /\ \A i \in 1..k - 1 + 1 : SubSeq(n, 1, k)[i] = n[1 + i - 1]
  BY SubSeqProperties
<1> QED
  BY <1>1

\* A path is a shorter one and a last step.
LEMMA PathEnds ==
  ASSUME NEW n \in Paths, n # <<>>
  PROVE  /\ Front(n) \in Paths /\ Last(n) \in Nat /\ Len(n) \in Nat /\ Len(Front(n)) = Len(n) - 1
         /\ Len(n) > 0
         /\ n = Append(Front(n), Last(n))
         /\ \A i \in 1..Len(n) - 1 : Front(n)[i] = n[i]
<1>1. Len(n) \in Nat \ {0} /\ \A i \in 1..Len(n) : n[i] \in Nat
  BY EmptySeq, ElementOfSeq DEF Paths
<1>2. /\ Front(n) \in Paths /\ Len(Front(n)) = Len(n) - 1
      /\ \A i \in 1..Len(n) - 1 : Front(n)[i] = n[i]
  <2>1. PICK k \in Int : k = Len(n) - 1 /\ k >= 0
    BY <1>1
  <2>2. \A i \in 1..k : n[i] \in Nat
    BY <1>1, <2>1
  <2>3. /\ SubSeq(n, 1, k) \in Seq(Nat) /\ Len(SubSeq(n, 1, k)) = k
        /\ \A i \in 1..k : SubSeq(n, 1, k)[i] = n[i]
    BY <2>1, <2>2, FirstPart
  <2> QED
    BY <2>1, <2>3 DEF Front, Paths
<1>3. Last(n) \in Nat
  BY <1>1 DEF Last
<1>4. /\ Append(Front(n), Last(n)) \in Paths /\ Len(Append(Front(n), Last(n))) = Len(n)
      /\ \A i \in 1..Len(n) - 1 : Append(Front(n), Last(n))[i] = Front(n)[i]
      /\ Append(Front(n), Last(n))[Len(n)] = Last(n)
  BY <1>1, <1>2, <1>3, AppendProperties DEF Paths
<1>5. n = Append(Front(n), Last(n))
  <2>1. \A i \in 1..Len(n) : n[i] = Append(Front(n), Last(n))[i]
    BY <1>1, <1>2, <1>4 DEF Last
  <2> QED
    BY <1>4, <2>1, SeqEqual DEF Paths
<1> QED
  BY <1>1, <1>2, <1>3, <1>5

\* A path with one more step.
LEMMA AppendEnds ==
  ASSUME NEW n \in Paths, NEW c \in Nat
  PROVE  /\ Append(n, c) \in Paths /\ Append(n, c) # <<>>
         /\ Front(Append(n, c)) = n /\ Last(Append(n, c)) = c /\ Len(Append(n, c)) = Len(n) + 1
<1>1. Append(n, c) \in Paths /\ Append(n, c) # <<>> /\ Len(Append(n, c)) = Len(n) + 1 /\ Append(n, c)[Len(n) + 1] = c
  BY AppendProperties DEF Paths
<1>2. Last(Append(n, c)) = c
  BY <1>1 DEF Last
<1>3. Append(n, c) = Append(Front(Append(n, c)), Last(Append(n, c))) /\ Front(Append(n, c)) \in Paths /\
     Last(Append(n, c)) \in Nat
  BY <1>1, PathEnds
<1>4. Front(Append(n, c)) = n
  BY <1>3, AppendInjective DEF Paths
<1> QED
  BY <1>1, <1>2, <1>4

\* Prefixes, element by element.
LEMMA PrefixIs ==
  ASSUME NEW m \in Paths, NEW n \in Paths
  PROVE  /\ Len(m) \in Nat /\ Len(n) \in Nat
         /\ IsPrefix(m, n) <=> Len(m) <= Len(n) /\ \A i \in 1..Len(m) : m[i] = n[i]
<1>1. Len(m) \in Nat /\ Len(n) \in Nat
  BY LenProperties DEF Paths
<1>2. SubSeq(m, 1, Len(m)) = m
  BY SubSeqFull DEF Paths
<1>3. ASSUME Len(m) <= Len(n) PROVE SubSeq(n, 1, Len(m)) = m <=> \A i \in 1..Len(m) : m[i] = n[i]
  <2>1. \A i \in 1..Len(m) : n[i] \in Nat
    BY <1>1, <1>3, ElementOfSeq DEF Paths
  <2>2. /\ SubSeq(n, 1, Len(m)) \in Paths /\ Len(SubSeq(n, 1, Len(m))) = Len(m)
        /\ \A i \in 1..Len(m) : SubSeq(n, 1, Len(m))[i] = n[i]
    BY <1>1, <2>1, SubSeqProperties DEF Paths
  <2>3. (\A i \in 1..Len(m) : m[i] = n[i]) => SubSeq(n, 1, Len(m)) = m
    BY <2>2, SeqEqual DEF Paths
  <2> QED
    BY <2>2, <2>3
<1> QED
  BY <1>1, <1>2, <1>3 DEF IsPrefix

\* Prefixes are ordered by length, and Front is the longest that is not the path itself.
LEMMA PrefixOrder ==
  ASSUME NEW m \in Paths, NEW n \in Paths
  PROVE  /\ IsPrefix(<<>>, n) /\ IsPrefix(n, n)
         /\ IsPrefix(m, n) => Len(m) <= Len(n)
         /\ IsPrefix(m, n) /\ Len(m) = Len(n) => m = n
         /\ n # <<>> => (IsPrefix(m, Front(n)) <=> IsPrefix(m, n) /\ m # n)
         /\ n # <<>> => IsPrefix(Front(n), n)
         /\ \A l \in Paths : IsPrefix(l, m) /\ IsPrefix(m, n) => IsPrefix(l, n)
         /\ \A l \in Paths : IsPrefix(l, n) /\ IsPrefix(m, n) /\ Len(l) <= Len(m) => IsPrefix(l, m)
<1>1. <<>> \in Paths /\ Len(<<>>) = 0
  BY EmptySeq DEF Paths
<1>2. IsPrefix(<<>>, n) /\ IsPrefix(n, n)
  BY <1>1, PrefixIs
<1>3. IsPrefix(m, n) => Len(m) <= Len(n)
  BY PrefixIs
<1>4. IsPrefix(m, n) /\ Len(m) = Len(n) => m = n
  BY PrefixIs, SeqEqual DEF Paths
<1>5. ASSUME n # <<>> PROVE (IsPrefix(m, Front(n)) <=> IsPrefix(m, n) /\ m # n) /\ IsPrefix(Front(n), n)
  <2>1. Front(n) \in Paths /\ Len(Front(n)) = Len(n) - 1 /\ Len(n) \in Nat /\ \A i \in 1..Len(n) - 1 :
       Front(n)[i] = n[i]
    BY <1>5, PathEnds
  <2>2. IsPrefix(m, Front(n)) <=> Len(m) <= Len(n) - 1 /\ \A i \in 1..Len(m) : m[i] = Front(n)[i]
    BY <2>1, PrefixIs
  <2>3. IsPrefix(m, Front(n)) <=> Len(m) <= Len(n) - 1 /\ \A i \in 1..Len(m) : m[i] = n[i]
    BY <2>1, <2>2, PrefixIs
  <2>4. IsPrefix(m, n) /\ m # n => Len(m) <= Len(n) - 1
    BY <1>3, <1>4, <2>1, PrefixIs
  <2>5. IsPrefix(Front(n), n)
    BY <2>1, PrefixIs
  <2> QED
    BY <2>1, <2>3, <2>4, <2>5, PrefixIs
<1>6. ASSUME NEW l \in Paths, IsPrefix(l, m), IsPrefix(m, n) PROVE IsPrefix(l, n)
  BY <1>6, PrefixIs
<1>7. ASSUME NEW l \in Paths, IsPrefix(l, n), IsPrefix(m, n), Len(l) <= Len(m) PROVE IsPrefix(l, m)
  BY <1>7, PrefixIs
<1> QED
  BY <1>2, <1>3, <1>4, <1>5, <1>6, <1>7

\* The first SubSeq of length k.
LEMMA Initial ==
  ASSUME NEW n \in Paths, NEW k \in 0..Len(n)
  PROVE  SubSeq(n, 1, k) \in Paths /\ Len(SubSeq(n, 1, k)) = k /\ IsPrefix(SubSeq(n, 1, k), n)
         /\ \A i \in 1..k : SubSeq(n, 1, k)[i] = n[i]
<1>1. Len(n) \in Nat /\ \A i \in 1..k : n[i] \in Nat
  BY LenProperties, ElementOfSeq DEF Paths
<1>2. SubSeq(n, 1, k) \in Paths /\ Len(SubSeq(n, 1, k)) = k /\ \A i \in 1..k : SubSeq(n, 1, k)[i] = n[i]
  BY <1>1, FirstPart DEF Paths
<1>3. PICK m \in Paths : m = SubSeq(n, 1, k)
  BY <1>2
<1>4. IsPrefix(m, n)
  <2>1. Len(m) = k /\ \A i \in 1..k : m[i] = n[i]
    BY <1>2, <1>3
  <2>2. Len(m) <= Len(n)
    BY <1>1, <2>1
  <2>3. \A i \in 1..Len(m) : m[i] = n[i]
    BY <2>1
  <2> QED
    BY <2>2, <2>3, PrefixIs
<1> QED
  BY <1>2, <1>3, <1>4

\* Two cases of one node, in order.
Siblings(s, c) == s # <<>> /\ c # <<>> /\ Front(s) = Front(c) /\ Last(s) < Last(c)

\* Earlier: the paths part at two siblings, in order.
LEMMA EarlierIs ==
  ASSUME NEW m \in Paths, NEW n \in Paths
  PROVE  Earlier(m, n) <=> \E s, c \in Paths : Siblings(s, c) /\ IsPrefix(s, m) /\ IsPrefix(c, n)
<1>0. Len(m) \in Nat /\ Len(n) \in Nat
  BY LenProperties DEF Paths
<1>1. ASSUME Earlier(m, n) PROVE \E s, c \in Paths : Siblings(s, c) /\ IsPrefix(s, m) /\ IsPrefix(c, n)
  <2>1. PICK i \in 1..Len(m) : i <= Len(n) /\ m[i] < n[i] /\ SubSeq(m, 1, i - 1) = SubSeq(n, 1, i - 1)
    BY <1>1 DEF Earlier
  <2>2. PICK s \in Paths : /\ s = SubSeq(m, 1, i) /\ Len(s) = i /\ IsPrefix(s, m) /\ \A j \in 1..i : s[j] = m[j]
    <3>1. i \in 0..Len(m)
      BY <1>0, <2>1
    <3> QED
      BY <3>1, Initial
  <2>3. PICK c \in Paths : /\ c = SubSeq(n, 1, i) /\ Len(c) = i /\ IsPrefix(c, n) /\ \A j \in 1..i : c[j] = n[j]
    <3>1. i \in 0..Len(n)
      BY <1>0, <2>1
    <3> QED
      BY <3>1, Initial
  <2>4. /\ Len(SubSeq(m, 1, i - 1)) = i - 1 /\ \A j \in 1..i - 1 : SubSeq(m, 1, i - 1)[j] = m[j]
        /\ Len(SubSeq(n, 1, i - 1)) = i - 1 /\ \A j \in 1..i - 1 : SubSeq(n, 1, i - 1)[j] = n[j]
    <3>1. i - 1 \in 0..Len(m) /\ i - 1 \in 0..Len(n)
      BY <1>0, <2>1
    <3> QED
      BY <3>1, Initial
  <2>5. \A j \in 1..i - 1 : m[j] = n[j]
    BY <2>1, <2>4
  <2>6. s # <<>> /\ c # <<>>
    <3>1. Len(<<>>) = 0 /\ i # 0
      BY <1>0, <2>1, EmptySeq
    <3>2. Len(s) # Len(<<>>) /\ Len(c) # Len(<<>>)
      BY <2>2, <2>3, <3>1
    <3> QED
      BY <3>2
  <2>7. Front(s) = Front(c)
    <3>1. /\ Front(s) \in Paths /\ Len(Front(s)) = i - 1 /\ \A j \in 1..i - 1 : Front(s)[j] = s[j]
          /\ Front(c) \in Paths /\ Len(Front(c)) = i - 1 /\ \A j \in 1..i - 1 : Front(c)[j] = c[j]
      BY <2>2, <2>3, <2>6, PathEnds
    <3>2. \A j \in 1..i - 1 : Front(s)[j] = Front(c)[j]
      BY <2>2, <2>3, <2>5, <3>1
    <3> QED
      BY <3>1, <3>2, SeqEqual DEF Paths
  <2>8. Last(s) = m[i] /\ Last(c) = n[i]
    BY <2>2, <2>3 DEF Last
  <2>9. Siblings(s, c)
    BY <2>1, <2>6, <2>7, <2>8 DEF Siblings
  <2> QED
    BY <2>2, <2>3, <2>9
<1>2. ASSUME NEW s \in Paths, NEW c \in Paths, Siblings(s, c), IsPrefix(s, m), IsPrefix(c, n) PROVE Earlier(m, n)
  <2>1. /\ Len(s) \in Nat /\ Len(s) > 0 /\ Len(Front(s)) = Len(s) - 1 /\ \A j \in 1..Len(s) - 1 : Front(s)[j] = s[j]
        /\ Len(c) \in Nat /\ Len(c) > 0 /\ Len(Front(c)) = Len(c) - 1 /\ \A j \in 1..Len(c) - 1 : Front(c)[j] = c[j]
    BY <1>2, PathEnds DEF Siblings
  <2>2. Len(s) = Len(c)
    BY <1>2, <2>1 DEF Siblings
  <2>3. /\ Len(s) <= Len(m) /\ \A j \in 1..Len(s) : s[j] = m[j]
        /\ Len(c) <= Len(n) /\ \A j \in 1..Len(c) : c[j] = n[j]
    BY <1>2, PrefixIs
  <2>4. m[Len(s)] < n[Len(s)]
    <3>1. m[Len(s)] = Last(s) /\ n[Len(s)] = Last(c)
      BY <2>1, <2>2, <2>3 DEF Last
    <3> QED
      BY <1>2, <3>1 DEF Siblings
  <2>5. SubSeq(m, 1, Len(s) - 1) = SubSeq(n, 1, Len(s) - 1)
    <3>1. Len(s) - 1 \in 0..Len(m) /\ Len(s) - 1 \in 0..Len(n)
      BY <1>0, <2>1, <2>2, <2>3
    <3>2. /\ SubSeq(m, 1, Len(s) - 1) \in Paths /\ Len(SubSeq(m, 1, Len(s) - 1)) = Len(s) - 1
          /\ \A j \in 1..Len(s) - 1 : SubSeq(m, 1, Len(s) - 1)[j] = m[j]
      BY <3>1, Initial
    <3>3. /\ SubSeq(n, 1, Len(s) - 1) \in Paths /\ Len(SubSeq(n, 1, Len(s) - 1)) = Len(s) - 1
          /\ \A j \in 1..Len(s) - 1 : SubSeq(n, 1, Len(s) - 1)[j] = n[j]
      BY <3>1, Initial
    <3>4. \A j \in 1..Len(s) - 1 : m[j] = s[j] /\ n[j] = c[j] /\ s[j] = c[j]
      BY <1>2, <2>1, <2>2, <2>3 DEF Siblings
    <3> QED
      BY <3>2, <3>3, <3>4, SeqEqual DEF Paths
  <2> QED
    BY <1>0, <2>1, <2>2, <2>3, <2>4, <2>5 DEF Earlier
<1> QED
  BY <1>1, <1>2

\* The order of cases is transitive, and holds below what it holds of.
LEMMA EarlierOrder ==
  ASSUME NEW l \in Paths, NEW m \in Paths, NEW n \in Paths, Earlier(l, m)
  PROVE  /\ Earlier(m, n) => Earlier(l, n)
         /\ IsPrefix(m, n) => Earlier(l, n)
         /\ IsPrefix(l, n) => Earlier(n, m)
<1>1. PICK s, c \in Paths : Siblings(s, c) /\ IsPrefix(s, l) /\ IsPrefix(c, m)
  BY EarlierIs
<1>2. ASSUME Earlier(m, n) PROVE Earlier(l, n)
  <2>1. PICK t, d \in Paths : Siblings(t, d) /\ IsPrefix(t, m) /\ IsPrefix(d, n)
    BY <1>2, EarlierIs
  <2>2. /\ Len(s) \in Nat /\ Len(c) \in Nat /\ Len(t) \in Nat /\ Len(d) \in Nat
        /\ Last(s) \in Nat /\ Last(c) \in Nat /\ Last(t) \in Nat /\ Last(d) \in Nat
        /\ Front(c) \in Paths /\ Front(t) \in Paths /\ Front(s) \in Paths /\ Front(d) \in Paths
    BY <1>1, <2>1, PathEnds DEF Siblings
  <2>3. CASE c = t
    <3>1. Siblings(s, d)
      BY <1>1, <2>1, <2>2, <2>3 DEF Siblings
    <3> QED
      BY <1>1, <2>1, <3>1, EarlierIs
  <2>4. CASE IsPrefix(c, t) /\ c # t
    <3>1. IsPrefix(c, Front(t))
      BY <2>1, <2>4, PrefixOrder DEF Siblings
    <3>2. IsPrefix(c, d)
      BY <2>1, <2>2, <3>1, PrefixOrder DEF Siblings
    <3>3. IsPrefix(c, n)
      BY <2>1, <3>2, PrefixOrder
    <3> QED
      BY <1>1, <3>3, EarlierIs
  <2>5. CASE IsPrefix(t, c) /\ c # t
    <3>1. IsPrefix(t, Front(c))
      BY <1>1, <2>5, PrefixOrder DEF Siblings
    <3>2. IsPrefix(t, s)
      BY <1>1, <2>2, <3>1, PrefixOrder DEF Siblings
    <3>3. IsPrefix(t, l)
      BY <1>1, <3>2, PrefixOrder
    <3> QED
      BY <2>1, <3>3, EarlierIs
  <2>6. IsPrefix(c, t) \/ IsPrefix(t, c)
    BY <1>1, <2>1, <2>2, PrefixOrder
  <2> QED
    BY <2>3, <2>4, <2>5, <2>6
<1>3. ASSUME IsPrefix(m, n) PROVE Earlier(l, n)
  <2>1. IsPrefix(c, n)
    BY <1>1, <1>3, PrefixOrder
  <2> QED
    BY <1>1, <2>1, EarlierIs
<1>4. ASSUME IsPrefix(l, n) PROVE Earlier(n, m)
  <2>1. IsPrefix(s, n)
    BY <1>1, <1>4, PrefixOrder
  <2> QED
    BY <1>1, <2>1, EarlierIs
<1> QED
  BY <1>2, <1>3, <1>4

-----------------------------------------------------------------------------
(* Induction along a path; D is a set of paths with the prefixes of its members. *)

\* D has the prefixes of its members.
Closed(D) == D \subseteq Paths /\ \A n \in D : n # <<>> => Front(n) \in D

\* A set of paths that is not empty has a shortest one.
LEMMA Shortest ==
  ASSUME NEW S, S \subseteq Paths, S # {}
  PROVE  \E p \in S : \A r \in S : Len(p) <= Len(r)
<1>1. PICK L : L = {Len(p) : p \in S}
  OBVIOUS
<1>2. L \subseteq Nat /\ L # {}
  BY <1>1, LenProperties DEF Paths
<1>3. PICK k \in L : \A l \in L : k <= l
  BY <1>2, LeastNat
<1> QED
  BY <1>1, <1>3

\* If their lengths are bounded it has a longest one.
LEMMA Longest ==
  ASSUME NEW S, NEW b \in Nat, S \subseteq Paths, S # {}, \A p \in S : Len(p) <= b
  PROVE  \E p \in S : \A r \in S : Len(r) <= Len(p)
<1>1. PICK L : L = {Len(p) : p \in S}
  OBVIOUS
<1>2. L \subseteq 0..b /\ L # {}
  BY <1>1, LenProperties DEF Paths
<1>3. PICK k \in L : \A l \in L : l <= k
  BY <1>2, GreatestNat
<1> QED
  BY <1>1, <1>3

\* What is strictly below a path has a parent that is not above it.
LEMMA BelowFront ==
  ASSUME NEW q \in Paths, NEW p \in Paths, IsPrefix(q, p), p # q
  PROVE  /\ p # <<>> /\ Front(p) \in Paths /\ IsPrefix(q, Front(p)) /\ IsPrefix(Front(p), p)
         /\ Len(Front(p)) < Len(p) /\ Len(q) < Len(p)
         /\ \A x \in Paths : IsPrefix(p, x) => IsPrefix(Front(p), x)
<1>1. p # <<>>
  <2>1. Len(<<>>) = 0 /\ Len(q) \in Nat
    BY EmptySeq, LenProperties DEF Paths
  <2>2. p = <<>> => Len(q) = Len(p)
    BY <2>1, PrefixOrder
  <2> QED
    BY <2>2, PrefixOrder
<1>2. Front(p) \in Paths /\ Len(Front(p)) = Len(p) - 1 /\ Len(p) \in Nat /\ Len(q) \in Nat
  BY <1>1, PathEnds, LenProperties DEF Paths
<1>3. IsPrefix(q, Front(p)) /\ IsPrefix(Front(p), p)
  BY <1>1, PrefixOrder
<1>4. Len(q) <= Len(Front(p))
  BY <1>2, <1>3, PrefixOrder
<1>5. \A x \in Paths : IsPrefix(p, x) => IsPrefix(Front(p), x)
  BY <1>2, <1>3, PrefixOrder
<1> QED
  BY <1>1, <1>2, <1>3, <1>4, <1>5

\* From a path up to a prefix of it: what each step hands on.
LEMMA PathUp ==
  ASSUME NEW D, Closed(D), NEW S, NEW q \in Paths, NEW x \in D, IsPrefix(q, x), x \in S,
         \A p \in D : p # <<>> /\ p # q /\ IsPrefix(q, Front(p)) /\ IsPrefix(p, x) /\ p \in S => Front(p) \in S
  PROVE  q \in S
<1>1. PICK B : B = {p \in D : IsPrefix(q, p) /\ IsPrefix(p, x) /\ p \in S}
  OBVIOUS
<1>2. x \in B /\ B \subseteq Paths
  BY <1>1, PrefixOrder DEF Closed
<1>3. PICK p \in B : \A r \in B : Len(p) <= Len(r)
  BY <1>2, Shortest
<1>4. p \in D /\ p \in Paths /\ x \in Paths /\ IsPrefix(q, p) /\ IsPrefix(p, x) /\ p \in S
  BY <1>1, <1>3 DEF Closed
<1>5. ASSUME p # q PROVE FALSE
  <2>1. /\ p # <<>> /\ IsPrefix(q, Front(p)) /\ Len(Front(p)) < Len(p) /\ IsPrefix(Front(p), x)
        /\ Front(p) \in Paths
    BY <1>4, <1>5, BelowFront
  <2>2. Front(p) \in D /\ Front(p) \in S
    BY <1>4, <1>5, <2>1 DEF Closed
  <2>3. Front(p) \in B
    BY <1>1, <2>1, <2>2
  <2>4. Len(p) <= Len(Front(p)) /\ Len(p) \in Nat /\ Len(Front(p)) \in Nat
    BY <1>3, <1>4, <2>1, <2>3, LenProperties DEF Paths
  <2> QED
    BY <2>1, <2>4
<1> QED
  BY <1>4, <1>5

\* From a prefix down to the path.
LEMMA PathDown ==
  ASSUME NEW D, Closed(D), NEW S, NEW q \in Paths, NEW x \in D, IsPrefix(q, x), q \in S,
         \A p \in D : p # <<>> /\ p # q /\ IsPrefix(q, Front(p)) /\ IsPrefix(p, x) /\ Front(p) \in S => p \in S
  PROVE  x \in S
<1>1. PICK T : T = {p \in D : p \notin S}
  OBVIOUS
<1>2. \A p \in D : p # <<>> /\ p # q /\ IsPrefix(q, Front(p)) /\ IsPrefix(p, x) /\ p \in T => Front(p) \in T
  BY <1>1 DEF Closed
<1>3. x \in T => q \in T
  BY <1>2, PathUp
<1> QED
  BY <1>1, <1>3

\* A prefix of a member is a member, and one of its steps leads on.
LEMMA PrefixIn ==
  ASSUME NEW D, Closed(D), NEW x \in D, NEW q \in Paths, IsPrefix(q, x)
  PROVE  /\ q \in D
         /\ q # x => \E c \in D : c # <<>> /\ Front(c) = q /\ IsPrefix(c, x)
<1>1. \A p \in D : p # <<>> /\ p # q /\ IsPrefix(q, Front(p)) /\ IsPrefix(p, x) /\ p \in D => Front(p) \in D
  BY DEF Closed
<1>2. q \in D
  BY <1>1, PathUp
<1>3. ASSUME q # x PROVE \E c \in D : c # <<>> /\ Front(c) = q /\ IsPrefix(c, x)
  <2>1. PICK B : B = {p \in D : IsPrefix(q, p) /\ IsPrefix(p, x) /\ p # q}
    OBVIOUS
  <2>2. x \in B /\ B \subseteq Paths
    BY <1>3, <2>1, PrefixOrder DEF Closed
  <2>3. PICK p \in B : \A r \in B : Len(p) <= Len(r)
    BY <2>2, Shortest
  <2>4. p \in D /\ p \in Paths /\ x \in Paths /\ IsPrefix(q, p) /\ IsPrefix(p, x) /\ p # q
    BY <2>1, <2>3 DEF Closed
  <2>5. /\ p # <<>> /\ IsPrefix(q, Front(p)) /\ Len(Front(p)) < Len(p) /\ IsPrefix(Front(p), x)
        /\ Front(p) \in Paths /\ Front(p) \in D
    BY <2>4, BelowFront DEF Closed
  <2>6. Front(p) \in B => Len(p) <= Len(Front(p))
    BY <2>3
  <2>7. Len(p) \in Nat /\ Len(Front(p)) \in Nat
    BY <2>4, <2>5, LenProperties DEF Paths
  <2>8. Front(p) = q
    BY <2>1, <2>5, <2>6, <2>7
  <2> QED
    BY <2>4, <2>5, <2>8
<1> QED
  BY <1>2, <1>3

\* The longest prefix of a path that lies in D.
LEMMA LongestIn ==
  ASSUME NEW D, Closed(D), <<>> \in D, NEW x \in Paths
  PROVE  \E p \in D : /\ IsPrefix(p, x)
                      /\ \A r \in D : IsPrefix(r, x) => Len(r) <= Len(p)
<1>1. PICK B : B = {p \in D : IsPrefix(p, x)}
  OBVIOUS
<1>2. <<>> \in B /\ B \subseteq Paths /\ Len(x) \in Nat
  BY <1>1, PrefixOrder, LenProperties DEF Closed, Paths
<1>3. \A p \in B : Len(p) <= Len(x)
  BY <1>1, <1>2, PrefixOrder
<1>4. PICK p \in B : \A r \in B : Len(r) <= Len(p)
  BY <1>2, <1>3, Longest
<1> QED
  BY <1>1, <1>4

\* A set of paths of bounded length has a first one.
LEMMA FirstPath ==
  ASSUME NEW S, NEW b \in Nat, S \subseteq Paths, S # {}, \A n \in S : Len(n) <= b
  PROVE  \E n \in S : \A m \in S : ~Earlier(m, n)
<1>1. PICK G : G = {p \in Paths : (\E n \in S : IsPrefix(p, n)) /\ \A m \in S : ~Earlier(m, p)}
  OBVIOUS
<1>2. <<>> \in G
  <2>1. <<>> \in Paths /\ Len(<<>>) = 0
    BY EmptySeq DEF Paths
  <2>2. ASSUME NEW m \in S, Earlier(m, <<>>) PROVE FALSE
    <3>1. PICK s \in Paths, c \in Paths : Siblings(s, c) /\ IsPrefix(c, <<>>)
      BY <2>1, <2>2, EarlierIs
    <3>2. c # <<>> /\ Len(c) \in Nat /\ Len(c) > 0
      BY <3>1, PathEnds DEF Siblings
    <3>3. Len(c) <= 0
      BY <2>1, <3>1, PrefixOrder
    <3> QED
      BY <3>2, <3>3
  <2> QED
    BY <1>1, <2>1, <2>2, PrefixOrder
<1>3. G \subseteq Paths /\ \A p \in G : Len(p) <= b
  <2>1. ASSUME NEW p \in G PROVE Len(p) <= b
    <3>1. PICK n \in S : IsPrefix(p, n)
      BY <1>1
    <3>2. Len(p) <= Len(n) /\ Len(n) <= b /\ Len(p) \in Nat /\ Len(n) \in Nat
      BY <1>1, <3>1, PrefixOrder, LenProperties DEF Paths
    <3> QED
      BY <3>2
  <2> QED
    BY <1>1, <2>1
<1>4. PICK p \in G : \A r \in G : Len(r) <= Len(p)
  BY <1>2, <1>3, Longest
<1>5. p \in Paths /\ Len(p) \in Nat /\ \A m \in S : ~Earlier(m, p)
  BY <1>1, <1>4, LenProperties DEF Paths
<1>6. ASSUME p \notin S PROVE FALSE
  <2>1. PICK C : C = {c \in Paths : c # <<>> /\ Front(c) = p /\ \E n \in S : IsPrefix(c, n)}
    OBVIOUS
  <2>2. C # {}
    <3>1. PICK n \in S : IsPrefix(p, n)
      BY <1>1, <1>4
    <3>2. Closed(Paths)
      BY PathEnds DEF Closed
    <3>3. n \in Paths /\ p # n
      BY <1>6, <3>1
    <3>4. PICK c \in Paths : c # <<>> /\ Front(c) = p /\ IsPrefix(c, n)
      BY <1>5, <3>1, <3>2, <3>3, PrefixIn
    <3> QED
      BY <2>1, <3>4
  <2>3. PICK L : L = {Last(c) : c \in C}
    OBVIOUS
  <2>4. L \subseteq Nat /\ L # {}
    BY <2>1, <2>2, <2>3, PathEnds
  <2>5. PICK k \in L : \A l \in L : k <= l
    BY <2>4, LeastNat
  <2>6. PICK c \in C : k = Last(c)
    BY <2>3, <2>5
  <2>7. c \in Paths /\ c # <<>> /\ Front(c) = p /\ Len(c) = Len(p) + 1 /\ Last(c) \in Nat
    BY <1>5, <2>1, <2>6, PathEnds
  <2>8. ASSUME NEW m \in S, Earlier(m, c) PROVE FALSE
    <3>1. PICK s \in Paths, d \in Paths : Siblings(s, d) /\ IsPrefix(s, m) /\ IsPrefix(d, c)
      BY <2>7, <2>8, EarlierIs
    <3>2. CASE d = c
      <4>1. s # <<>> /\ Front(s) = p /\ Last(s) < Last(c)
        BY <2>7, <3>1, <3>2 DEF Siblings
      <4>2. s \in C
        BY <2>1, <3>1, <4>1
      <4>3. Last(c) <= Last(s) /\ Last(s) \in Nat
        BY <2>3, <2>4, <2>5, <2>6, <4>2
      <4> QED
        BY <2>7, <4>1, <4>3
    <3>3. CASE d # c
      <4>1. IsPrefix(d, p)
        BY <2>7, <3>1, <3>3, PrefixOrder
      <4>2. Earlier(m, p)
        BY <1>5, <3>1, <4>1, EarlierIs
      <4> QED
        BY <1>5, <4>2
    <3> QED
      BY <3>2, <3>3
  <2>9. c \in G
    BY <1>1, <2>1, <2>6, <2>8
  <2> QED
    BY <1>4, <1>5, <2>7, <2>9
<1> QED
  BY <1>5, <1>6

-----------------------------------------------------------------------------
(* The inductive invariant.                                                *)

\* The search space and the context are legal, and the tree has its type.
Types ==
  /\ world \in Worlds /\ setup \in Setups
  /\ TypeOK

\* A node is below one that was split.
ParentOK(n) == n # <<>> => Front(n) \in DOMAIN node /\ node[Front(n)].method = "step"

\* What the place, the method and the status of a node have to do with each other
\* and with its system.
StateOK(n) ==
  /\ node[n].at = "new" <=> node[n].method = "unset"
  /\ node[n].status = "Open" <=> node[n].at \in {"new", "expanding"}
  /\ node[n].at \in {"expanding", "walking"} => node[n].method = "step"
  /\ node[n].at = "walking" => node[n].status = "Sorry"
  /\ node[n].method \in Finished => world[n] = node[n].method /\ node[n].status = node[n].method
  /\ node[n].method \in Sorries => node[n].status = "Sorry"
  /\ node[n].method = "step" => world[n] = "open"

\* The cases of a split are there, but for those that a solved sibling before them
\* made superfluous.
CasesOK(n) ==
  node[n].method = "step" =>
    /\ node[n].at \in {"expanding", "walking"} => Children(n) = Cases(n)
    /\ Children(n) = {} => Cases(n) = {} /\ node[n].at \in {"again", "returned"} /\ node[n].status = "Contradictory"
    /\ \A c \in Cases(n) \ Children(n) :
         /\ setup.cut \in {"Dfs", "SeqDfs"}
         /\ \E s \in Children(n) : Last(s) < Last(c) /\ node[s].at = "returned" /\ node[s].status = "Solved"

\* Where a node and its parent can be.
PlaceOK(n) ==
  n # <<>> =>
    /\ node[Front(n)].at \in {"again", "returned"} => node[n].at = "returned"
    /\ node[Front(n)].at = "expanding" => node[n].at \in {"new", "expanding", "returned"}
    /\ node[Front(n)].at = "walking" => node[n].at \in {"again", "walking", "expanding", "returned"}

\* The status of a node that has returned is that of its cases.
RollOK(n) ==
  node[n].at \in {"again", "returned"} /\ Children(n) # {} =>
    node[n].status = rollup_status({node[m].status : m \in Children(n)})

\* Cases are visited in order, but for those of a fan-out.
OrderOK(n) ==
  /\ node[n].at = "again" => node[n].status # "Solved"
  /\ n # <<>> => \A s \in Children(Front(n)) : Last(s) < Last(n) =>
       /\ node[Front(n)].at = "walking" /\ node[n].at # "again" => node[s].at = "returned"
       /\ node[Front(n)].at = "expanding" /\ ~should_parallel_expand(Front(n)) /\ node[n].at # "new" =>
            node[s].at = "returned" /\ node[s].status \notin AbortOn

\* When a node gets which method.
EvalOK(n) ==
  /\ node[n].method = "step" => Len(n) < max_depth
  /\ node[n].method \in Finished \cup {"step"} /\ setup.cut # "AfterSorry" => Len(n) < max_depth /\
     Len(n) < setup.bound
  /\ node[n].method = "depth limit" => Len(n) < setup.bound
  /\ node[n].method = "bound hit" => Len(n) >= setup.bound
  /\ node[n].method = "deadline reached" => late
  /\ node[n].method = "no method" => late \/ world[n] = "stuck"
  /\ node[n].method = "Oracle ranked no proof methods" => world[n] = "quit"
  /\ node[n].method = "sorry" => setup.cut = "AfterSorry"
  /\ node[n].method \notin {"bound reached", "ignored"}

\* A stub of this round has set the flag of some job above it, and there are no
\* jobs but those of the fan-outs that are under way.
HitOK ==
  /\ \A j \in hit : j # <<>> => node[Front(j)].at = "expanding" /\ should_parallel_expand(Front(j))
  /\ \A n \in DOMAIN node : is_depth_limited(n) /\ Len(n) >= max_depth => \E j \in hit : IsPrefix(j, n)

\* A stub of an earlier round is still to be walked to, or comes after an attack.
OldOK(n) ==
  is_depth_limited(n) /\ Len(n) < max_depth /\ ~late =>
    \/ \E q \in DOMAIN node : IsPrefix(q, n) /\ node[q].at = "again"
    \/ /\ setup.cut # "Bfs"
       /\ \E s \in DOMAIN node : node[s].at = "returned" /\ node[s].status = "Solved" /\ Earlier(s, n)

\* The limits of the strategies, and what the rounds before have shown.
RoundOK ==
  /\ setup.cut \notin {"Dfs", "Bfs"} =>
       /\ max_depth = Unlimited
       /\ \A n \in DOMAIN node : node[n].at \notin {"again", "walking"} /\ ~is_depth_limited(n)
  /\ setup.cut = "Dfs" =>
       /\ max_depth >= InitialDepth
       /\ max_depth > InitialDepth => \A b \in Attacks : 2 * Len(b) >= max_depth
  /\ setup.cut = "Bfs" => max_depth >= 2 /\ \A b \in Attacks : b = <<>> \/ Len(b) >= Level

\* What is still needed keeps its system.
LiveOK(n) ==
  /\ node[n].at = "new" \/ is_depth_limited(n) => n \in live
  /\ setup.keep # "DropAll" /\ node[n].method = "Solved" => n \in live

\* AfterSorry: what comes after a sorry or an attack is not tried.
BadLeaf(m) == node[m].at = "returned" /\ node[m].status \in {"Sorry", "Solved"} /\ Children(m) = {}
\* A node that no method was tried on.
Untried(n) == node[n].at = "new" \/ node[n].method \in Finished \cup {"sorry"}
\* What comes after such a leaf is untried.
SorryOK == setup.cut = "AfterSorry" =>
             \A m, n \in DOMAIN node : BadLeaf(m) /\ Earlier(m, n) => Untried(n)

\* What holds of every node.
NodeOK(n) == ParentOK(n) /\ StateOK(n) /\ CasesOK(n) /\ PlaceOK(n) /\ RollOK(n) /\ OrderOK(n)
             /\ EvalOK(n) /\ OldOK(n) /\ LiveOK(n)

\* What holds of the tree while the search runs.
TreeOK == (\A n \in DOMAIN node : NodeOK(n)) /\ HitOK /\ RoundOK /\ SorryOK

\* What a search that is over has to show.
Result == /\ NoFalseProof /\ AttackIsFound /\ VerdictMatchesRoot /\ FirstAttack /\ ShallowestAttacks
          /\ NothingAfterSorry /\ NoStubIsLeft /\ SystemsAreThere

\* The invariant.
SearchInv == Types /\ (phase = "search" => TreeOK) /\ (phase = "done" => Result)

\* The part of the invariant that speaks of the nodes one by one.
Tree == Types /\ \A n \in DOMAIN node : NodeOK(n)

-----------------------------------------------------------------------------
(* What the types say of the tree.                                         *)

\* The search space is closed under prefixes, and only open systems have cases.
LEMMA WorldTree ==
  ASSUME Types
  PROVE  /\ Closed(DOMAIN world) /\ <<>> \in DOMAIN world
         /\ \A n \in DOMAIN world : n \in Paths /\ Len(n) \in Nat /\ Len(n) < DepthCap /\ world[n] \in Kinds
         /\ \A n \in DOMAIN world : n # <<>> => /\ Front(n) \in DOMAIN world /\ world[Front(n)] = "open"
                                               /\ Last(n) \in CaseNames
<1>1. IsWorld(world) /\ CaseNames \subseteq Nat
  BY SearchAssumption DEF Types
<1>2. \A n \in DOMAIN world : n \in Seq(CaseNames)
  BY <1>1 DEF IsWorld
<1>3. \A n \in DOMAIN world : n \in Paths /\ Len(n) \in Nat
  <2>1. ASSUME NEW n \in DOMAIN world PROVE n \in Seq(Nat) /\ Len(n) \in Nat
    <3>1. Len(n) \in Nat /\ n = [i \in 1..Len(n) |-> n[i]] /\ \A i \in 1..Len(n) : n[i] \in CaseNames
      BY <1>2, LenProperties, ElementOfSeq
    <3>2. \A i \in 1..Len(n) : n[i] \in Nat
      BY <1>1, <3>1
    <3> QED
      BY <3>1, <3>2
  <2> QED
    BY <2>1 DEF Paths
<1>4. ASSUME NEW n \in DOMAIN world, n # <<>> PROVE Last(n) \in CaseNames
  <2>1. n \in Seq(CaseNames) /\ Len(n) \in Nat /\ Len(n) > 0
    BY <1>2, <1>3, <1>4, PathEnds
  <2>2. n[Len(n)] \in CaseNames
    BY <2>1, ElementOfSeq
  <2> QED
    BY <2>2 DEF Last
<1>5. \A n \in DOMAIN world : n # <<>> => Front(n) \in DOMAIN world /\ world[Front(n)] = "open"
  BY <1>1 DEF IsWorld
<1>6. <<>> \in DOMAIN world /\ \A n \in DOMAIN world : Len(n) < DepthCap /\ world[n] \in Kinds
  BY <1>1 DEF IsWorld
<1> QED
  BY <1>3, <1>4, <1>5, <1>6 DEF Closed

\* What a node's type says.
LEMMA NodeTypes ==
  ASSUME Types
  PROVE  /\ <<>> \in DOMAIN node /\ DOMAIN node \subseteq DOMAIN world
         /\ \A n \in DOMAIN node : node[n].at \in Places /\ node[n].method \in Methods /\ node[n].status \in Statuses
         /\ max_depth \in Nat \ {0} /\ late \in BOOLEAN
         /\ setup.cut \in Strategies /\ setup.bound \in Nat
<1>1. setup.cut \in Strategies /\ setup.bound \in Nat
  BY SearchAssumption DEF Types
<1>2. \A n \in DOMAIN node : node[n].at \in Places /\ node[n].method \in Methods /\ node[n].status \in Statuses
  BY DEF Types, TypeOK, Node
<1> QED
  BY <1>1, <1>2 DEF Types, TypeOK

\* The paths that a last step makes of n.
LEMMA KidsAre ==
  ASSUME Types, NEW D, D \subseteq DOMAIN world, NEW n \in DOMAIN world
  PROVE  {m \in {Append(n, c) : c \in CaseNames} : m \in D} = {m \in D : m # <<>> /\ Front(m) = n}
<1>0. CaseNames \subseteq Nat /\ n \in Paths
  BY SearchAssumption, WorldTree
<1>1. ASSUME NEW m \in D, NEW c \in CaseNames, m = Append(n, c) PROVE m # <<>> /\ Front(m) = n
  BY <1>0, <1>1, AppendEnds
<1>2. ASSUME NEW m \in D, m # <<>>, Front(m) = n PROVE m \in {Append(n, c) : c \in CaseNames}
  <2>1. m \in Paths /\ Last(m) \in CaseNames
    BY <1>2, WorldTree
  <2>2. m = Append(Front(m), Last(m))
    BY <1>2, <2>1, PathEnds
  <2> QED
    BY <1>2, <2>1, <2>2
<1> QED
  BY <1>1, <1>2

\* The cases of a system and the children of a node.
LEMMA CasesAre ==
  ASSUME Types
  PROVE  \A n \in DOMAIN world :
           /\ Cases(n) = {m \in DOMAIN world : m # <<>> /\ Front(m) = n}
           /\ Children(n) = {m \in DOMAIN node : m # <<>> /\ Front(m) = n}
           /\ Children(n) \subseteq Cases(n)
<1> SUFFICES ASSUME NEW n \in DOMAIN world
             PROVE  /\ Cases(n) = {m \in DOMAIN world : m # <<>> /\ Front(m) = n}
                    /\ Children(n) = {m \in DOMAIN node : m # <<>> /\ Front(m) = n}
                    /\ Children(n) \subseteq Cases(n)
  OBVIOUS
<1>1. PICK D : D = DOMAIN node
  OBVIOUS
<1>2. PICK W : W = DOMAIN world
  OBVIOUS
<1>3. D \subseteq W /\ D \subseteq DOMAIN world /\ W \subseteq DOMAIN world
  BY <1>1, <1>2, NodeTypes
<1>4. {m \in {Append(n, c) : c \in CaseNames} : m \in D} = {m \in D : m # <<>> /\ Front(m) = n}
  BY <1>3, KidsAre
<1>5. {m \in {Append(n, c) : c \in CaseNames} : m \in W} = {m \in W : m # <<>> /\ Front(m) = n}
  BY <1>3, KidsAre
<1>6. Cases(n) = {m \in W : m # <<>> /\ Front(m) = n}
  BY <1>2, <1>5 DEF Cases
<1>7. Children(n) = {m \in D : m # <<>> /\ Front(m) = n}
  BY <1>1, <1>4 DEF Children
<1> QED
  BY <1>1, <1>2, <1>3, <1>6, <1>7

\* Two siblings differ in their last step, and no path is its own parent.
LEMMA Siblings2 ==
  ASSUME NEW m \in Paths, NEW n \in Paths, m # <<>>, n # <<>>
  PROVE  /\ Front(m) = Front(n) /\ Last(m) = Last(n) => m = n
         /\ Front(n) # n /\ Len(n) = Len(Front(n)) + 1
         /\ Last(n) \in Nat
<1>1. /\ m = Append(Front(m), Last(m)) /\ n = Append(Front(n), Last(n)) /\ Last(n) \in Nat
      /\ Len(Front(n)) = Len(n) - 1 /\ Len(n) \in Nat
  BY PathEnds
<1>2. Front(n) # n /\ Len(n) = Len(Front(n)) + 1
  BY <1>1
<1> QED
  BY <1>1, <1>2

-----------------------------------------------------------------------------
(* Chains of nodes.                                                        *)

\* What is above a node was split, and one of its cases leads on.
LEMMA Ancestors ==
  ASSUME Types, \A n \in DOMAIN node : ParentOK(n)
  PROVE  /\ Closed(DOMAIN node)
         /\ \A x \in DOMAIN node, q \in Paths : IsPrefix(q, x) =>
              /\ q \in DOMAIN node
              /\ q # x => node[q].method = "step" /\ \E c \in Children(q) : IsPrefix(c, x)
<1>1. PICK D : D = DOMAIN node
  OBVIOUS
<1>2. Closed(D)
  BY <1>1, NodeTypes, WorldTree DEF Closed, ParentOK
<1>3. ASSUME NEW x \in D, NEW q \in Paths, IsPrefix(q, x)
      PROVE  q \in D /\ (q # x => node[q].method = "step" /\ \E c \in Children(q) : IsPrefix(c, x))
  <2>1. q \in D /\ (q # x => \E c \in D : c # <<>> /\ Front(c) = q /\ IsPrefix(c, x))
    BY <1>2, <1>3, PrefixIn
  <2>2. ASSUME q # x PROVE node[q].method = "step" /\ \E c \in Children(q) : IsPrefix(c, x)
    <3>1. PICK c \in D : c # <<>> /\ Front(c) = q /\ IsPrefix(c, x)
      BY <2>1, <2>2
    <3>2. node[q].method = "step"
      BY <1>1, <3>1 DEF ParentOK
    <3>3. c \in Children(q)
      BY <1>1, <2>1, <3>1, CasesAre, NodeTypes
    <3> QED
      BY <3>1, <3>2, <3>3
  <2> QED
    BY <2>1, <2>2
<1> QED
  BY <1>1, <1>2, <1>3

\* Below what has returned, or waits to be walked again, everything has returned.
LEMMA AllReturned ==
  ASSUME Tree, NEW q \in DOMAIN node, node[q].at \in {"again", "returned"},
         NEW x \in DOMAIN node, IsPrefix(q, x), x # q
  PROVE  node[x].at = "returned"
<1>1. PICK D : D = DOMAIN node
  OBVIOUS
<1>2. PICK S : S = {p \in D : p = q \/ node[p].at = "returned"}
  OBVIOUS
<1>3. Closed(D) /\ D \subseteq Paths /\ \A p \in D : PlaceOK(p)
  BY <1>1, Ancestors DEF Tree, NodeOK, Closed
<1>4. ASSUME NEW p \in D, p # <<>>, p # q, Front(p) \in S PROVE p \in S
  <2>1. node[Front(p)].at \in {"again", "returned"}
    BY <1>2, <1>4
  <2> QED
    BY <1>2, <1>3, <1>4, <2>1 DEF PlaceOK
<1>5. \A p \in D : p # <<>> /\ p # q /\ IsPrefix(q, Front(p)) /\ IsPrefix(p, x) /\ Front(p) \in S => p \in S
  BY <1>4
<1>6. q \in Paths /\ q \in S /\ x \in D
  BY <1>1, <1>2, <1>3
<1>7. x \in S
  BY <1>3, <1>5, <1>6, PathDown
<1> QED
  BY <1>2, <1>7

\* What rolls up to what.
LEMMA RollUp ==
  ASSUME NEW S
  PROVE  /\ rollup_status(S) \in {"Solved", "Sorry", "Unfinishable", "Contradictory"}
         /\ rollup_status(S) = "Solved" <=> "Solved" \in S
         /\ "Sorry" \in S => rollup_status(S) \in {"Solved", "Sorry"}
         /\ "Unfinishable" \in S => rollup_status(S) \in {"Solved", "Sorry", "Unfinishable"}
         /\ S # {} /\ (\A s \in S : s \in Statuses /\ s # "Open") => rollup_status(S) \in S
  BY DEF rollup_status, Statuses, Finished

\* A bad status goes up.
Tops == {{"Solved"}, {"Solved", "Sorry"}, {"Solved", "Sorry", "Unfinishable"}}

\* A status that outranks others goes up to whatever has returned above it.
LEMMA StatusUp ==
  ASSUME Tree, NEW q \in DOMAIN node, node[q].at \in {"again", "returned"},
         NEW x \in DOMAIN node, IsPrefix(q, x), NEW T \in Tops, node[x].status \in T
  PROVE  node[q].status \in T
<1>1. PICK D : D = DOMAIN node
  OBVIOUS
<1>2. PICK S : S = {p \in D : node[p].status \in T}
  OBVIOUS
<1>3. Closed(D) /\ D \subseteq Paths /\ \A p \in D : RollOK(p)
  BY <1>1, Ancestors DEF Tree, NodeOK, Closed
<1>4. ASSUME NEW p \in D, p # <<>>, p # q, IsPrefix(q, Front(p)), p \in S PROVE Front(p) \in S
  <2>1. Front(p) \in D /\ node[Front(p)].at \in {"again", "returned"}
    <3>1. Front(p) \in D
      BY <1>3, <1>4 DEF Closed
    <3> QED
      BY <1>1, <1>4, <3>1, AllReturned
  <2>2. p \in Children(Front(p))
    BY <1>1, <1>4, <2>1, CasesAre, NodeTypes DEF Tree
  <2>3. node[Front(p)].status = rollup_status({node[m].status : m \in Children(Front(p))})
    BY <1>3, <2>1, <2>2 DEF RollOK
  <2>4. PICK U : U = {node[m].status : m \in Children(Front(p))}
    OBVIOUS
  <2>5. node[p].status \in U /\ node[p].status \in T
    BY <1>2, <1>4, <2>2, <2>4
  <2>6. rollup_status(U) \in T
    BY <2>5, RollUp DEF Tops
  <2> QED
    BY <1>2, <2>1, <2>3, <2>4, <2>6
<1>5. \A p \in D : p # <<>> /\ p # q /\ IsPrefix(q, Front(p)) /\ IsPrefix(p, x) /\ p \in S => Front(p) \in S
  BY <1>4
<1>6. q \in Paths /\ x \in S /\ x \in D
  BY <1>1, <1>2, <1>3
<1>7. q \in S
  BY <1>3, <1>5, <1>6, PathUp
<1> QED
  BY <1>2, <1>7

\* The status of what has returned comes from a leaf below it.
LEMMA LeafOf ==
  ASSUME Tree, NEW q \in DOMAIN node, node[q].at \in {"again", "returned"},
         NEW v \in {"Solved", "Sorry", "Unfinishable"}, node[q].status = v
  PROVE  \E l \in DOMAIN node :
           /\ IsPrefix(q, l) /\ Children(l) = {} /\ node[l].status = v
           /\ node[l].at \in {"again", "returned"} /\ (l # q => node[l].at = "returned")
           /\ v # "Sorry" => node[l].method = v
           /\ v = "Sorry" => node[l].method \in Sorries
<1>1. PICK B : B = {p \in DOMAIN node : IsPrefix(q, p) /\ node[p].status = v}
  OBVIOUS
<1>2. B \subseteq Paths /\ q \in B /\ \A p \in B : Len(p) <= DepthCap
  <2>1. \A p \in DOMAIN node : p \in Paths /\ Len(p) \in Nat /\ Len(p) < DepthCap
    BY NodeTypes, WorldTree DEF Tree
  <2>2. IsPrefix(q, q)
    BY <2>1, PrefixOrder
  <2> QED
    BY <1>1, <2>1, <2>2, SearchAssumption
<1>3. PICK l \in B : \A r \in B : Len(r) <= Len(l)
  <2>1. DepthCap \in Nat
    BY SearchAssumption
  <2> QED
    BY <1>2, <2>1, Longest
<1>4. l \in DOMAIN node /\ l \in Paths /\ IsPrefix(q, l) /\ node[l].status = v /\ q \in Paths
  BY <1>1, <1>2, <1>3
<1>5. node[l].at \in {"again", "returned"} /\ (l # q => node[l].at = "returned")
  BY <1>4, AllReturned
<1>6. ASSUME Children(l) # {} PROVE FALSE
  <2>1. PICK U : U = {node[m].status : m \in Children(l)}
    OBVIOUS
  <2>2. v = rollup_status(U)
    BY <1>4, <1>5, <1>6, <2>1 DEF Tree, NodeOK, RollOK
  <2>3. \A m \in Children(l) : /\ m \in DOMAIN node /\ m \in Paths /\ m # <<>> /\ Front(m) = l
                               /\ IsPrefix(l, m) /\ IsPrefix(q, m) /\ Len(m) = Len(l) + 1
    <3>1. ASSUME NEW m \in Children(l)
          PROVE  /\ m \in DOMAIN node /\ m \in Paths /\ m # <<>> /\ Front(m) = l
                 /\ IsPrefix(l, m) /\ IsPrefix(q, m) /\ Len(m) = Len(l) + 1
      <4>1. m \in DOMAIN node /\ m \in Paths /\ m # <<>> /\ Front(m) = l
        BY <1>4, CasesAre, NodeTypes, WorldTree DEF Tree
      <4>2. IsPrefix(l, m) /\ IsPrefix(q, m) /\ Len(m) = Len(l) + 1
        BY <1>4, <4>1, PrefixOrder, Siblings2
      <4> QED
        BY <4>1, <4>2
    <3> QED
      BY <3>1
  <2>4. \A s \in U : s \in Statuses /\ s # "Open"
    <3>1. ASSUME NEW m \in Children(l) PROVE node[m].status \in Statuses /\ node[m].status # "Open"
      <4>1. m \in DOMAIN node /\ m # l /\ IsPrefix(l, m)
        BY <1>4, <2>3, Siblings2
      <4>2. node[m].at = "returned"
        BY <1>4, <1>5, <4>1, AllReturned
      <4> QED
        BY <4>1, <4>2, NodeTypes DEF Tree, NodeOK, StateOK
    <3> QED
      BY <2>1, <3>1
  <2>5. v \in U
    <3>1. U # {}
      BY <1>6, <2>1
    <3>2. rollup_status(U) \in U
      BY <2>4, <3>1, RollUp
    <3> QED
      BY <2>2, <3>2
  <2>6. PICK m \in Children(l) : node[m].status = v
    BY <2>1, <2>5
  <2>7. m \in B /\ Len(m) = Len(l) + 1 /\ Len(l) \in Nat
    BY <1>1, <1>4, <2>3, <2>6, LenProperties DEF Paths
  <2> QED
    BY <1>3, <2>7
<1>7. node[l].method \in Finished \cup Sorries
  <2>1. node[l].method \in Methods
    BY <1>4, NodeTypes DEF Tree
  <2>2. StateOK(l) /\ CasesOK(l)
    BY <1>4 DEF Tree, NodeOK
  <2>3. node[l].method # "unset"
    BY <1>5, <2>2 DEF StateOK
  <2>4. node[l].method # "step"
    BY <1>4, <1>6, <2>2 DEF CasesOK
  <2> QED
    BY <2>1, <2>3, <2>4 DEF Methods
<1>8. (v # "Sorry" => node[l].method = v) /\ (v = "Sorry" => node[l].method \in Sorries)
  <2>1. StateOK(l)
    BY <1>4 DEF Tree, NodeOK
  <2>2. node[l].method \in Finished => node[l].status = node[l].method
    BY <2>1 DEF StateOK
  <2>3. node[l].method \in Sorries => node[l].status = "Sorry"
    BY <2>1 DEF StateOK
  <2> QED
    BY <1>4, <1>7, <2>2, <2>3 DEF Finished
<1> QED
  BY <1>4, <1>5, <1>6, <1>8

\* Once the root is back everything is.
LEMMA AllBack ==
  ASSUME Tree, node[<<>>].at = "returned"
  PROVE  \A x \in DOMAIN node : node[x].at = "returned"
<1> SUFFICES ASSUME NEW x \in DOMAIN node, x # <<>> PROVE node[x].at = "returned"
  OBVIOUS
<1>1. <<>> \in DOMAIN node /\ x \in Paths
  BY NodeTypes, WorldTree DEF Tree
<1>2. IsPrefix(<<>>, x)
  BY <1>1, PrefixOrder
<1> QED
  BY <1>1, <1>2, AllReturned

\* No node is deeper than the limit.
LEMMA Depths ==
  ASSUME Tree
  PROVE  \A n \in DOMAIN node : Len(n) \in Nat /\ Len(n) <= max_depth
<1> SUFFICES ASSUME NEW n \in DOMAIN node PROVE Len(n) \in Nat /\ Len(n) <= max_depth
  OBVIOUS
<1>1. n \in Paths /\ Len(n) \in Nat /\ max_depth \in Nat \ {0}
  BY NodeTypes, WorldTree DEF Tree
<1>2. CASE n = <<>>
  BY <1>1, <1>2, EmptySeq
<1>3. CASE n # <<>>
  <2>1. Front(n) \in DOMAIN node /\ node[Front(n)].method = "step"
    BY <1>3 DEF Tree, NodeOK, ParentOK
  <2>2. Len(Front(n)) < max_depth
    BY <2>1 DEF Tree, NodeOK, EvalOK
  <2>3. Len(Front(n)) = Len(n) - 1
    BY <1>1, <1>3, PathEnds
  <2> QED
    BY <1>1, <2>2, <2>3
<1> QED
  BY <1>2, <1>3

\* The node nearest to a system: the system's own or one whose next case is missing.
LEMMA Covered ==
  ASSUME Tree, NEW b \in DOMAIN world
  PROVE  \E p \in DOMAIN node :
           /\ IsPrefix(p, b) /\ Len(p) <= Len(b)
           /\ p = b \/ (world[p] = "open" /\ \E c \in Cases(p) \ Children(p) : IsPrefix(c, b))
<1>1. PICK D : D = DOMAIN node
  OBVIOUS
<1>2. PICK W : W = DOMAIN world
  OBVIOUS
<1>3. Closed(D) /\ <<>> \in D /\ D \subseteq W /\ Closed(W) /\ b \in W /\ b \in Paths
  BY <1>1, <1>2, Ancestors, NodeTypes, WorldTree DEF Tree, NodeOK
<1>4. PICK p \in D : /\ IsPrefix(p, b)
                     /\ \A r \in D : IsPrefix(r, b) => Len(r) <= Len(p)
  BY <1>3, LongestIn
<1>5. p \in Paths /\ Len(p) \in Nat /\ Len(p) <= Len(b)
  BY <1>3, <1>4, PrefixOrder, LenProperties DEF Closed, Paths
<1>6. ASSUME p # b PROVE world[p] = "open" /\ \E c \in Cases(p) \ Children(p) : IsPrefix(c, b)
  <2>1. PICK c \in W : c # <<>> /\ Front(c) = p /\ IsPrefix(c, b)
    BY <1>3, <1>4, <1>5, <1>6, PrefixIn
  <2>2. world[p] = "open"
    BY <1>2, <2>1, WorldTree DEF Tree
  <2>3. c \in Cases(p)
    BY <1>2, <1>3, <1>4, <2>1, CasesAre DEF Tree
  <2>4. Len(c) = Len(p) + 1
    BY <1>3, <2>1, Siblings2 DEF Closed
  <2>5. c \notin D
    BY <1>4, <1>5, <2>1, <2>4
  <2>6. c \notin Children(p)
    BY <1>1, <2>5 DEF Children
  <2> QED
    BY <2>1, <2>2, <2>3, <2>6
<1>7. p \in DOMAIN node /\ IsPrefix(p, b) /\ Len(p) <= Len(b)
  BY <1>1, <1>4, <1>5
<1>8. p = b \/ (world[p] = "open" /\ \E c \in Cases(p) \ Children(p) : IsPrefix(c, b))
  BY <1>6
<1> QED
  BY <1>7, <1>8, Zenon

\* What an attack that is above the bound has come to when a round is over: found, or after
\* another one, or below a stub of this round.
LEMMA Uncovered ==
  ASSUME Tree, node[<<>>].at = "returned", ~late, setup.cut # "AfterSorry", NEW b \in Attacks
  PROVE  \/ b \in DOMAIN node /\ node[b].method = "Solved"
         \/ setup.cut # "Bfs" /\ \E s \in DOMAIN node : node[s].at = "returned" /\ node[s].status = "Solved" /\
            Earlier(s, b)
         \/ \E p \in DOMAIN node : IsPrefix(p, b) /\ is_depth_limited(p) /\ Len(p) >= max_depth
<1>1. b \in DOMAIN world /\ world[b] = "Solved" /\ Len(b) < setup.bound
  BY DEF Attacks
<1>2. PICK p \in DOMAIN node :
           /\ IsPrefix(p, b) /\ Len(p) <= Len(b)
           /\ p = b \/ (world[p] = "open" /\ \E c \in Cases(p) \ Children(p) : IsPrefix(c, b))
  BY <1>1, Covered
<1>3. node[p].at = "returned" /\ b \in Paths /\ p \in Paths /\ p \in DOMAIN world
  BY <1>1, AllBack, NodeTypes, WorldTree DEF Tree
<1>4. Len(p) < setup.bound
  BY <1>1, <1>2, <1>3, NodeTypes, LenProperties DEF Tree, Paths
<1>5. world[p] \in {"Solved", "open"}
  BY <1>1, <1>2
<1>6. StateOK(p) /\ EvalOK(p) /\ OldOK(p) /\ CasesOK(p) /\ node[p].method \in Methods
  BY NodeTypes DEF Tree, NodeOK
<1>7. CASE node[p].method = "Solved"
  <2>1. world[p] = "Solved"
    BY <1>6, <1>7 DEF StateOK, Finished
  <2> QED
    BY <1>2, <1>7, <2>1
<1>8. CASE node[p].method = "step"
  <2>1. world[p] = "open" /\ p # b
    BY <1>1, <1>6, <1>8 DEF StateOK
  <2>2. PICK c \in Cases(p) \ Children(p) : IsPrefix(c, b)
    BY <1>2, <2>1
  <2>3. setup.cut \in {"Dfs", "SeqDfs"} /\ \E s \in Children(p) : Last(s) < Last(c) /\ node[s].at = "returned" /\
       node[s].status = "Solved"
    BY <1>6, <1>8, <2>2 DEF CasesOK
  <2>4. PICK s \in Children(p) : Last(s) < Last(c) /\ node[s].at = "returned" /\ node[s].status = "Solved"
    BY <2>3
  <2>5. /\ s \in DOMAIN node /\ s \in Paths /\ s # <<>> /\ Front(s) = p
        /\ c \in Paths /\ c # <<>> /\ Front(c) = p
    BY <1>3, <2>2, <2>4, CasesAre, NodeTypes, WorldTree DEF Tree
  <2>6. Earlier(s, b)
    <3>1. Siblings(s, c) /\ IsPrefix(s, s)
      BY <2>4, <2>5, PrefixOrder DEF Siblings
    <3> QED
      BY <1>3, <2>2, <2>5, <3>1, EarlierIs
  <2> QED
    BY <2>3, <2>4, <2>5, <2>6
<1>9. CASE node[p].method = "depth limit"
  <2>1. is_depth_limited(p)
    BY <1>6, <1>9 DEF is_depth_limited, StateOK, Sorries
  <2>2. CASE Len(p) >= max_depth
    BY <1>2, <2>1, <2>2
  <2>3. CASE Len(p) < max_depth
    <3>1. \A q \in DOMAIN node : node[q].at # "again"
      BY AllBack
    <3>2. setup.cut # "Bfs" /\ \E s \in DOMAIN node : node[s].at = "returned" /\ node[s].status = "Solved" /\
         Earlier(s, p)
      BY <1>6, <2>1, <2>3, <3>1 DEF OldOK
    <3>3. PICK s \in DOMAIN node : node[s].at = "returned" /\ node[s].status = "Solved" /\ Earlier(s, p)
      BY <3>2
    <3>4. s \in Paths
      BY NodeTypes, WorldTree DEF Tree
    <3>5. Earlier(s, b)
      BY <1>2, <1>3, <3>3, <3>4, EarlierOrder
    <3> QED
      BY <3>2, <3>3, <3>5
  <2>4. Len(p) \in Nat /\ max_depth \in Nat
    BY <1>3, NodeTypes, WorldTree DEF Tree
  <2> QED
    BY <2>2, <2>3, <2>4
<1>10. CASE node[p].method \in (Finished \ {"Solved"}) \cup {"unset", "bound hit", "deadline reached", "no method",
             "Oracle ranked no proof methods", "sorry", "bound reached", "ignored"}
  <2>1. node[p].method \notin {"Contradictory", "Unfinishable"}
    BY <1>5, <1>6 DEF StateOK, Finished
  <2>2. node[p].method # "unset"
    BY <1>3, <1>6 DEF StateOK
  <2>3. node[p].method # "bound hit"
    <3>1. Len(p) \in Nat /\ setup.bound \in Nat
      BY <1>3, NodeTypes, WorldTree DEF Tree
    <3>2. ~(Len(p) >= setup.bound)
      BY <1>4, <3>1
    <3> QED
      BY <1>6, <3>2 DEF EvalOK
  <2>4. node[p].method \notin {"deadline reached", "no method", "Oracle ranked no proof methods", "sorry",
       "bound reached", "ignored"}
    BY <1>5, <1>6 DEF EvalOK
  <2> QED
    BY <1>10, <2>1, <2>2, <2>3, <2>4 DEF Finished
<1> QED
  BY <1>6, <1>7, <1>8, <1>9, <1>10 DEF Methods, Sorries, Finished

\* Where a stub of this round is when the round is over: its flag is the root's, and so is
\* its sorry, unless there is an attack.
LEMMA StubsAtEnd ==
  ASSUME Tree, HitOK, node[<<>>].at = "returned", NEW p \in DOMAIN node, is_depth_limited(p), Len(p) >= max_depth
  PROVE  /\ <<>> \in hit /\ node[<<>>].status \in {"Solved", "Sorry"} /\ Len(p) = max_depth /\ max_depth < DepthCap
         /\ p # <<>> /\ Front(p) \in DOMAIN node /\ Len(Front(p)) = Level /\ Children(Front(p)) # {}
<1>1. PICK j \in hit : IsPrefix(j, p)
  BY DEF HitOK
<1>2. j \in DOMAIN node /\ j \in Paths /\ p \in Paths /\ <<>> \in DOMAIN node /\ p \in DOMAIN world
  BY NodeTypes, WorldTree DEF Tree, Types, TypeOK
<1>3. ASSUME j # <<>> PROVE FALSE
  <2>1. node[Front(j)].at = "expanding" /\ Front(j) \in DOMAIN node
    BY <1>2, <1>3 DEF HitOK, Tree, NodeOK, ParentOK
  <2> QED
    BY <2>1, AllBack
<1>4. node[<<>>].status \in {"Solved", "Sorry"}
  <2>1. IsPrefix(<<>>, p)
    BY <1>2, PrefixOrder
  <2>2. PICK T : T = {"Solved", "Sorry"}
    OBVIOUS
  <2>3. node[p].status \in T /\ T \in Tops
    BY <2>2 DEF is_depth_limited, Tops
  <2>4. node[<<>>].status \in T
    BY <1>2, <2>1, <2>3, StatusUp
  <2> QED
    BY <2>2, <2>4
<1>5. Len(p) = max_depth /\ max_depth < DepthCap /\ max_depth \in Nat \ {0} /\ Len(p) \in Nat
  BY <1>2, Depths, NodeTypes, WorldTree DEF Tree
<1>6. p # <<>> /\ Front(p) \in DOMAIN node /\ Len(Front(p)) = Level
  <2>1. p # <<>>
    BY <1>5, EmptySeq
  <2>2. Front(p) \in DOMAIN node
    BY <2>1 DEF Tree, NodeOK, ParentOK
  <2>3. Len(Front(p)) = Len(p) - 1
    BY <1>2, <2>1, PathEnds
  <2> QED
    BY <1>5, <2>1, <2>2, <2>3 DEF Level
<1>7. p \in Children(Front(p))
  BY <1>2, <1>6, CasesAre, NodeTypes DEF Tree
<1> QED
  BY <1>1, <1>3, <1>4, <1>5, <1>6, <1>7

\* A node that solves the lemma is an attack, above the bound and below the limit, and a leaf.
LEMMA SolvedNode ==
  ASSUME Tree, NEW l \in DOMAIN node, node[l].method = "Solved"
  PROVE  /\ world[l] = "Solved" /\ node[l].status = "Solved" /\ Children(l) = {}
         /\ setup.cut # "AfterSorry" => l \in Attacks /\ Len(l) < max_depth
<1>1. l \in DOMAIN world /\ StateOK(l) /\ EvalOK(l)
  BY NodeTypes DEF Tree, NodeOK
<1>2. world[l] = "Solved" /\ node[l].status = "Solved"
  BY <1>1 DEF StateOK, Finished
<1>3. \A m \in Children(l) : m \in DOMAIN node /\ m # <<>> /\ Front(m) = l
  BY <1>1, CasesAre DEF Tree
<1>4. \A m \in Children(l) : node[l].method = "step"
  BY <1>3 DEF Tree, NodeOK, ParentOK
<1>5. setup.cut # "AfterSorry" => Len(l) < max_depth /\ Len(l) < setup.bound
  BY <1>1 DEF EvalOK, Finished
<1> QED
  BY <1>1, <1>2, <1>4, <1>5 DEF Attacks

\* The job of a node is named by a node above it or by the node itself: the root, or a case of
\* a fan-out that is under way.
LEMMA JobIs ==
  ASSUME Types, \A x \in DOMAIN node : ParentOK(x), NEW n \in DOMAIN node
  PROVE  \E j \in DOMAIN node :
           /\ j = Job(n) /\ IsPrefix(j, n)
           /\ j # <<>> => /\ Front(j) \in DOMAIN node /\ IsPrefix(Front(j), n) /\ Front(j) # n
                          /\ node[Front(j)].at = "expanding" /\ should_parallel_expand(Front(j))
<1>1. n \in Paths /\ Len(n) \in Nat /\ n \in DOMAIN world
  BY NodeTypes, WorldTree
<1>2. PICK R : R = {i \in 0..Len(n) :
                  i = 0 \/ LET p == SubSeq(n, 1, i - 1)
                           IN  node[p].at = "expanding" /\ should_parallel_expand(p)}
  OBVIOUS
<1>3. R \subseteq 0..Len(n) /\ 0 \in R
  BY <1>1, <1>2
<1>4. PICK k \in R : k = Max(R)
  <2>1. \E k \in R : \A i \in R : i <= k
    BY <1>1, <1>3, GreatestNat
  <2>2. \E k \in R : \A i \in R : k >= i
    BY <1>3, <2>1
  <2>3. Max(R) \in R
    BY <2>2 DEF Max
  <2> QED
    BY <2>3
<1>5. k \in 0..Len(n)
  BY <1>3
<1>6. Job(n) = SubSeq(n, 1, k)
  BY <1>2, <1>4 DEF Job
<1>7. PICK j : j = SubSeq(n, 1, k)
  OBVIOUS
<1>8. j \in Paths /\ Len(j) = k /\ IsPrefix(j, n) /\ \A i \in 1..k : j[i] = n[i]
  BY <1>1, <1>5, <1>7, Initial
<1>9. j \in DOMAIN node
  BY <1>8, Ancestors
<1>10. ASSUME j # <<>>
       PROVE  /\ Front(j) \in DOMAIN node /\ IsPrefix(Front(j), n) /\ Front(j) # n
              /\ node[Front(j)].at = "expanding" /\ should_parallel_expand(Front(j))
  <2>1. /\ k > 0 /\ Front(j) \in Paths /\ Len(Front(j)) = k - 1 /\ \A i \in 1..k - 1 : Front(j)[i] = j[i]
    BY <1>8, <1>10, PathEnds
  <2>2. PICK f : f = SubSeq(n, 1, k - 1)
    OBVIOUS
  <2>3. k - 1 \in 0..Len(n)
    BY <1>1, <1>5, <2>1
  <2>4. f \in Paths /\ Len(f) = k - 1 /\ IsPrefix(f, n) /\ \A i \in 1..k - 1 : f[i] = n[i]
    BY <1>1, <2>2, <2>3, Initial
  <2>5. f = Front(j)
    <3>1. \A i \in 1..k - 1 : f[i] = Front(j)[i]
      <4>1. ASSUME NEW i \in 1..k - 1 PROVE f[i] = Front(j)[i]
        <5>1. i \in 1..k
          BY <1>5, <4>1
        <5> QED
          BY <1>8, <2>1, <2>4, <5>1
      <4> QED
        BY <4>1
    <3> QED
      BY <2>1, <2>4, <3>1, SeqEqual DEF Paths
  <2>6. node[f].at = "expanding" /\ should_parallel_expand(f)
    BY <1>2, <1>4, <2>1, <2>2
  <2>7. f \in DOMAIN node
    BY <2>4, Ancestors
  <2>8. f # n
    BY <1>1, <1>5, <2>1, <2>4
  <2> QED
    BY <2>4, <2>5, <2>6, <2>7, <2>8
<1> QED
  BY <1>6, <1>7, <1>8, <1>9, <1>10

\* AfterSorry: nothing in a later case than a node that has not returned is touched.
LEMMA NewAfter ==
  ASSUME Tree, RoundOK, setup.cut = "AfterSorry", NEW m \in DOMAIN node, NEW x \in DOMAIN node,
         node[m].at # "returned", Earlier(m, x)
  PROVE  node[x].at = "new" /\ x # m /\ x # <<>> /\ \E s \in Children(Front(x)) : Last(s) < Last(x) /\ IsPrefix(s, m)
<1>1. m \in Paths /\ x \in Paths /\ DOMAIN node \subseteq DOMAIN world
  BY NodeTypes, WorldTree DEF Tree
<1>2. PICK s \in Paths, c \in Paths : Siblings(s, c) /\ IsPrefix(s, m) /\ IsPrefix(c, x)
  BY <1>1, EarlierIs
<1>3. s \in DOMAIN node /\ c \in DOMAIN node
  BY <1>2, Ancestors DEF Tree, NodeOK
<1>4. PICK p \in DOMAIN node : p = Front(s) /\ p = Front(c) /\ s \in Children(p)
  <2>1. Front(s) \in DOMAIN node
    BY <1>2, <1>3 DEF Tree, NodeOK, ParentOK, Siblings
  <2>2. s \in Children(Front(s))
    BY <1>1, <1>2, <1>3, <2>1, CasesAre DEF Tree, Siblings
  <2> QED
    BY <1>2, <2>1, <2>2 DEF Siblings
<1>5. node[s].at # "returned"
  BY <1>1, <1>2, <1>3, AllReturned
<1>6. node[p].at = "expanding"
  <2>1. node[p].at \notin {"again", "walking"}
    BY DEF RoundOK
  <2>2. node[p].at # "returned"
    BY <1>2, <1>3, <1>4, <1>5 DEF Tree, NodeOK, PlaceOK, Siblings
  <2>3. node[p].at # "new"
    BY <1>2, <1>3, <1>4 DEF Tree, NodeOK, ParentOK, StateOK, Siblings
  <2> QED
    BY <2>1, <2>2, <2>3, NodeTypes DEF Tree, Places
<1>7. ~should_parallel_expand(p)
  BY DEF should_parallel_expand
<1>8. node[c].at = "new"
  BY <1>2, <1>3, <1>4, <1>5, <1>6, <1>7 DEF Tree, NodeOK, OrderOK, Siblings
<1>9. c = x
  <2>1. c # x => node[c].method = "step"
    BY <1>1, <1>2, Ancestors DEF Tree, NodeOK
  <2> QED
    BY <1>3, <1>8, <2>1 DEF Tree, NodeOK, StateOK
<1>10. x # m
  <2>1. ASSUME c = m PROVE FALSE
    <3>1. IsPrefix(s, c) /\ s # c
      BY <1>1, <1>2, <2>1, Siblings2 DEF Siblings
    <3>2. Len(s) < Len(c) /\ Len(s) = Len(p) + 1 /\ Len(c) = Len(p) + 1
      BY <1>2, <1>4, <3>1, BelowFront, Siblings2 DEF Siblings
    <3>3. Len(p) \in Nat
      BY <1>1, WorldTree DEF Tree
    <3> QED
      BY <3>2, <3>3
  <2> QED
    BY <1>9, <2>1
<1> QED
  BY <1>2, <1>4, <1>8, <1>9, <1>10 DEF Siblings

\* AfterSorry: expand is not called on what comes after a sorry or an attack.
LEMMA NoneBefore ==
  ASSUME Tree, RoundOK, setup.cut = "AfterSorry", NEW m \in DOMAIN node, NEW n \in DOMAIN node,
         BadLeaf(m), Earlier(m, n), Expands(n)
  PROVE  FALSE
<1>1. m \in Paths /\ n \in Paths /\ DOMAIN node \subseteq DOMAIN world
  BY NodeTypes, WorldTree DEF Tree
<1>2. PICK s \in Paths, c \in Paths : Siblings(s, c) /\ IsPrefix(s, m) /\ IsPrefix(c, n)
  BY <1>1, EarlierIs
<1>3. s \in DOMAIN node /\ c \in DOMAIN node
  BY <1>2, Ancestors DEF Tree, NodeOK
<1>4. PICK p \in DOMAIN node : p = Front(s) /\ p = Front(c) /\ s \in Children(p)
  <2>1. Front(s) \in DOMAIN node
    BY <1>2, <1>3 DEF Tree, NodeOK, ParentOK, Siblings
  <2>2. s \in Children(Front(s))
    BY <1>1, <1>2, <1>3, <2>1, CasesAre DEF Tree, Siblings
  <2> QED
    BY <1>2, <2>1, <2>2 DEF Siblings
<1>5. node[n].at = "new"
  BY DEF RoundOK, Expands
<1>6. node[c].at # "returned"
  <2>1. c # n => node[c].at # "returned"
    BY <1>1, <1>2, <1>3, <1>5, AllReturned
  <2> QED
    BY <1>5, <2>1
<1>7. node[p].at = "expanding"
  <2>1. node[p].at \notin {"again", "walking"}
    BY DEF RoundOK
  <2>2. node[p].at # "returned"
    BY <1>2, <1>3, <1>4, <1>6 DEF Tree, NodeOK, PlaceOK, Siblings
  <2>3. node[p].at # "new"
    BY <1>2, <1>3, <1>4 DEF Tree, NodeOK, ParentOK, StateOK, Siblings
  <2> QED
    BY <2>1, <2>2, <2>3, NodeTypes DEF Tree, Places
<1>8. ~should_parallel_expand(p)
  BY DEF should_parallel_expand
<1>9. ASSUME node[s].at = "returned" PROVE node[s].status \in AbortOn
  <2>1. PICK T : T = {"Solved", "Sorry"}
    OBVIOUS
  <2>2. node[m].status \in T /\ T \in Tops
    BY <2>1 DEF BadLeaf, Tops
  <2>3. node[s].status \in T
    BY <1>2, <1>3, <1>9, <2>2, StatusUp
  <2> QED
    BY <2>1, <2>3 DEF AbortOn
<1>10. node[c].at = "new"
  BY <1>2, <1>3, <1>4, <1>7, <1>8, <1>9 DEF Tree, NodeOK, OrderOK, Siblings
<1>11. c = n
  <2>1. c # n => node[c].method = "step"
    BY <1>1, <1>2, Ancestors DEF Tree, NodeOK
  <2> QED
    BY <1>3, <1>10, <2>1 DEF Tree, NodeOK, StateOK
<1>12. n # <<>> /\ Front(n) = p
  BY <1>2, <1>4, <1>11 DEF Siblings
<1>13. (\A x \in Children(p) : Last(x) < Last(n) => node[x].at = "returned") /\ ~Aborts(p)
  <2>1. Reached(n)
    BY DEF Expands
  <2> QED
    BY <1>7, <1>8, <1>12, <2>1 DEF Reached
<1>14. node[s].at = "returned"
  BY <1>2, <1>4, <1>11, <1>13 DEF Siblings
<1> QED
  BY <1>4, <1>9, <1>13, <1>14 DEF Aborts

-----------------------------------------------------------------------------
(* The steps of a round, one after the other.                              *)

\* The invariant while the search runs.
Sound == Types /\ TreeOK

\* What depends on the search space and the context alone does not change with them.
LEMMA Frame ==
  ASSUME world' = world, setup' = setup
  PROVE  /\ \A n : Cases(n)' = Cases(n) /\ (should_parallel_expand(n)' <=> should_parallel_expand(n))
         /\ AbortOn' = AbortOn /\ Attacks' = Attacks
<1>1. \A n : Cases(n)' = Cases(n)
  BY DEF Cases
<1>2. \A n : should_parallel_expand(n)' <=> should_parallel_expand(n)
  BY <1>1 DEF should_parallel_expand
<1>3. AbortOn' = AbortOn /\ Attacks' = Attacks
  BY DEF AbortOn, Attacks
<1> QED
  BY <1>1, <1>2, <1>3

\* expand returns on n with the method m and the status s: what the steps that do so have in common.
Answer(n, m, s) ==
  /\ Expands(n)
  /\ Return(n, m, s)
  /\ \/ m \in Finished /\ s = m /\ world[n] = m
     \/ m \in Sorries /\ s = "Sorry"
     \/ m = "step" /\ s = "Contradictory" /\ world[n] = "open" /\ Cases(n) = {}
  /\ m \in Finished \cup {"step"} => Len(n) < max_depth /\ Len(n) < setup.bound
  /\ IF m = "depth limit" THEN Len(n) < setup.bound /\ Len(n) >= max_depth /\ hit' = hit \cup {Job(n)}
                          ELSE hit' = hit
  /\ m = "bound hit" => Len(n) >= setup.bound
  /\ m = "deadline reached" => late'
  /\ m = "no method" => late' \/ world[n] = "stuck"
  /\ m = "Oracle ranked no proof methods" => world[n] = "quit"
  /\ m \notin {"sorry", "bound reached", "ignored"}
  /\ late' \in BOOLEAN /\ (late => late')
  /\ UNCHANGED <<world, setup, max_depth, phase>>

\* They are the steps that return at once.
LEMMA AnswerSteps ==
  ASSUME Sound, NEW n \in DOMAIN node,
         Bound(n) \/ Park(n) \/ Close(n) \/ GiveUp(n) \/ NoMethod(n) \/ NoCases(n)
  PROVE  \E m \in Methods, s \in Statuses : Answer(n, m, s)
<1>0. late \in BOOLEAN
  BY NodeTypes DEF Sound
<1>1. CASE Bound(n)
  <2>1. Answer(n, "bound hit", "Sorry")
    BY <1>0, <1>1 DEF Bound, Answer, Sorries, Finished
  <2> QED
    BY <2>1 DEF Methods, Sorries, Statuses
<1>2. CASE Park(n)
  <2>1. Answer(n, "depth limit", "Sorry")
    BY <1>0, <1>2 DEF Park, Evaluates, Answer, Sorries, Finished
  <2> QED
    BY <2>1 DEF Methods, Sorries, Statuses
<1>3. CASE Close(n)
  <2>1. Answer(n, world[n], world[n])
    BY <1>0, <1>3 DEF Close, Evaluates, Answer, Sorries, Finished
  <2>2. world[n] \in Finished
    BY <1>3 DEF Close
  <2> QED
    BY <2>1, <2>2 DEF Methods, Statuses
<1>4. CASE GiveUp(n)
  <2>1. Answer(n, "deadline reached", "Sorry")
    BY <1>0, <1>4 DEF GiveUp, Opens, Evaluates, Answer, Sorries, Finished
  <2> QED
    BY <2>1 DEF Methods, Sorries, Statuses
<1>5. CASE NoMethod(n)
  <2>1. Answer(n, "no method", "Sorry")
    BY <1>0, <1>5 DEF NoMethod, Opens, Evaluates, Answer, Sorries, Finished
  <2> QED
    BY <2>1 DEF Methods, Sorries, Statuses
<1>6. CASE NoCases(n) /\ world[n] = "quit"
  <2>1. Answer(n, "Oracle ranked no proof methods", "Sorry")
    BY <1>0, <1>6 DEF NoCases, Opens, Evaluates, Answer, Sorries, Finished
  <2> QED
    BY <2>1 DEF Methods, Sorries, Statuses
<1>7. CASE NoCases(n) /\ world[n] = "open"
  <2>1. Answer(n, "step", "Contradictory")
    BY <1>0, <1>7 DEF NoCases, Opens, Evaluates, Answer, Sorries, Finished
  <2> QED
    BY <2>1 DEF Methods, Sorries, Statuses, Finished
<1>8. NoCases(n) => world[n] \in {"quit", "open"}
  BY DEF NoCases
<1> QED
  BY <1>1, <1>2, <1>3, <1>4, <1>5, <1>6, <1>7, <1>8

\* What expand finds: a node that has not been expanded, with its system.
LEMMA ExpandsFinds ==
  ASSUME Sound, NEW n \in DOMAIN node, Expands(n)
  PROVE  /\ n \in DOMAIN world /\ n \in Paths
         /\ node[n].at \in {"new", "again"} /\ node[n].method \in {"unset", "depth limit"}
         /\ node[n].method = "depth limit" => node[n].at = "again"
         /\ Children(n) = {} /\ n \in live
         /\ \A x \in DOMAIN node : x # <<>> /\ Front(x) = n => FALSE
         /\ \A x \in DOMAIN node : IsPrefix(n, x) => x = n
         /\ n # <<>> => /\ Front(n) \in DOMAIN node /\ n \in Children(Front(n))
                        /\ node[Front(n)].at \in {"expanding", "walking"}
                        /\ node[Front(n)].at = "expanding" /\ ~should_parallel_expand(Front(n)) => ~Aborts(Front(n))
                        /\ \A s \in Children(Front(n)) : Last(s) < Last(n) =>
                             \/ node[s].at = "returned"
                             \/ node[Front(n)].at = "expanding" /\ should_parallel_expand(Front(n))
<1>1. n \in DOMAIN world /\ n \in Paths
  BY NodeTypes, WorldTree DEF Sound
<1>2. NodeOK(n) /\ \A x \in DOMAIN node : ParentOK(x)
  BY DEF Sound, TreeOK, NodeOK
<1>3. /\ node[n].at \in {"new", "again"} /\ node[n].method \in {"unset", "depth limit"}
      /\ node[n].method = "depth limit" => node[n].at = "again"
      /\ n \in live
  BY <1>2 DEF Expands, NodeOK, StateOK, LiveOK, is_depth_limited
<1>4. \A x \in DOMAIN node : x # <<>> /\ Front(x) = n => FALSE
  BY <1>2, <1>3 DEF ParentOK
<1>5. Children(n) = {}
  BY <1>1, <1>4, CasesAre DEF Sound
<1>6. \A x \in DOMAIN node : IsPrefix(n, x) => x = n
  BY <1>1, <1>2, <1>3, Ancestors DEF Sound
<1>7. ASSUME n # <<>>
      PROVE  /\ Front(n) \in DOMAIN node /\ n \in Children(Front(n))
             /\ node[Front(n)].at \in {"expanding", "walking"}
             /\ node[Front(n)].at = "expanding" /\ ~should_parallel_expand(Front(n)) => ~Aborts(Front(n))
             /\ \A s \in Children(Front(n)) : Last(s) < Last(n) =>
                  \/ node[s].at = "returned"
                  \/ node[Front(n)].at = "expanding" /\ should_parallel_expand(Front(n))
  <2>1. Front(n) \in DOMAIN node
    BY <1>2, <1>7 DEF ParentOK
  <2>2. n \in Children(Front(n))
    BY <1>1, <1>7, <2>1, CasesAre, NodeTypes DEF Sound
  <2>3. Reached(n)
    BY DEF Expands
  <2> QED
    BY <1>7, <2>1, <2>2, <2>3 DEF Reached
<1> QED
  BY <1>1, <1>3, <1>4, <1>5, <1>6, <1>7

\* What an answer changes.
LEMMA AnswerEffect ==
  ASSUME Sound, NEW n \in DOMAIN node, NEW m \in Methods, NEW s \in Statuses, Answer(n, m, s)
  PROVE  /\ DOMAIN node' = DOMAIN node /\ node' = [x \in DOMAIN node' |-> node'[x]]
         /\ node'[n].at = "returned" /\ node'[n].method = m /\ node'[n].status = s /\ node'[n] \in Node
         /\ \A x \in DOMAIN node : x # n => node'[x] = node[x]
         /\ \A x : Children(x)' = Children(x)
         /\ live \ {n} \subseteq live' /\ live' \subseteq live
         /\ m = "depth limit" \/ (setup.keep # "DropAll" /\ m = "Solved") => n \in live'
         /\ s \in Finished \cup {"Sorry"}
<1>1. node' = [node EXCEPT ![n] = Returned(m, s)]
  BY DEF Answer, Return
<1>2. node = [x \in DOMAIN node |-> node[x]]
  BY DEF Sound, Types, TypeOK
<1>3. /\ DOMAIN node' = DOMAIN node /\ node' = [x \in DOMAIN node' |-> node'[x]]
      /\ node'[n] = Returned(m, s)
      /\ \A x \in DOMAIN node : x # n => node'[x] = node[x]
  BY <1>1, <1>2
<1>4. \A x : Children(x)' = Children(x)
  BY <1>3 DEF Children
<1>5. node'[n].at = "returned" /\ node'[n].method = m /\ node'[n].status = s /\ node'[n] \in Node
  BY <1>3 DEF Returned, Node, Places
<1>6. n \in live
  BY ExpandsFinds DEF Answer
<1>7. live \ {n} \subseteq live' /\ live' \subseteq live
  BY DEF Answer, Return
<1>8. m = "depth limit" \/ (setup.keep # "DropAll" /\ m = "Solved") => n \in live'
  BY <1>6 DEF Answer, Return, drop_sys_after_expand
<1>9. s \in Finished \cup {"Sorry"}
  BY DEF Answer, Finished
<1> QED
  BY <1>3, <1>4, <1>5, <1>7, <1>8, <1>9

\* The types, after a step that leaves the tree a tree.
LEMMA AnswerTypes ==
  ASSUME Sound, NEW n \in DOMAIN node, NEW m \in Methods, NEW s \in Statuses, Answer(n, m, s)
  PROVE  Types'
<1>1. world' = world /\ setup' = setup /\ max_depth' = max_depth /\ phase' = phase
  BY DEF Answer
<1>2. hit' \subseteq DOMAIN node'
  <2>1. PICK j \in DOMAIN node : j = Job(n)
    BY JobIs DEF Sound, TreeOK, NodeOK
  <2>2. hit' \subseteq hit \cup {j}
    BY <2>1 DEF Answer
  <2> QED
    BY <2>2, AnswerEffect DEF Sound, Types, TypeOK
<1>3. \A x \in DOMAIN node' : node'[x] \in Node
  BY AnswerEffect DEF Sound, Types, TypeOK
<1>4. live' \subseteq DOMAIN node' /\ late' \in BOOLEAN
  BY AnswerEffect DEF Sound, Types, TypeOK, Answer
<1> QED
  BY <1>1, <1>2, <1>3, <1>4, AnswerEffect DEF Sound, Types, TypeOK

\* An answer keeps the invariant.
LEMMA AnswerKeeps ==
  ASSUME Sound, NEW n \in DOMAIN node, NEW m \in Methods, NEW s \in Statuses, Answer(n, m, s)
  PROVE  TreeOK'
<1>0. /\ world' = world /\ setup' = setup /\ max_depth' = max_depth /\ phase' = phase
      /\ late \in BOOLEAN /\ late' \in BOOLEAN /\ (late => late') /\ Expands(n)
  BY NodeTypes DEF Answer, Sound
<1>1. /\ DOMAIN node' = DOMAIN node
      /\ node'[n].at = "returned" /\ node'[n].method = m /\ node'[n].status = s
      /\ \A x \in DOMAIN node : x # n => node'[x] = node[x]
      /\ \A x : Children(x)' = Children(x)
      /\ live \ {n} \subseteq live'
      /\ m = "depth limit" \/ (setup.keep # "DropAll" /\ m = "Solved") => n \in live'
      /\ s \in Finished \cup {"Sorry"}
  BY AnswerEffect
<1>2. /\ \A x : Cases(x)' = Cases(x) /\ (should_parallel_expand(x)' <=> should_parallel_expand(x))
      /\ AbortOn' = AbortOn /\ Attacks' = Attacks
  BY <1>0, Frame
<1>3. /\ n \in DOMAIN world /\ n \in Paths
      /\ node[n].at \in {"new", "again"} /\ node[n].method \in {"unset", "depth limit"}
      /\ node[n].method = "depth limit" => node[n].at = "again"
      /\ Children(n) = {}
      /\ \A x \in DOMAIN node : x # <<>> /\ Front(x) = n => FALSE
      /\ \A x \in DOMAIN node : IsPrefix(n, x) => x = n
      /\ n # <<>> => /\ Front(n) \in DOMAIN node /\ n \in Children(Front(n))
                     /\ node[Front(n)].at \in {"expanding", "walking"}
                     /\ node[Front(n)].at = "expanding" /\ ~should_parallel_expand(Front(n)) => ~Aborts(Front(n))
                     /\ \A r \in Children(Front(n)) : Last(r) < Last(n) =>
                          \/ node[r].at = "returned"
                          \/ node[Front(n)].at = "expanding" /\ should_parallel_expand(Front(n))
  BY <1>0, ExpandsFinds
<1>4. /\ DOMAIN node \subseteq DOMAIN world
      /\ \A x \in DOMAIN node : x \in Paths /\ x \in DOMAIN world /\ NodeOK(x)
      /\ \A x \in DOMAIN node : \A y \in Children(x) : y \in DOMAIN node /\ y # <<>> /\ Front(y) = x /\ y # x
  <2>1. \A x \in DOMAIN node : x \in Paths /\ x \in DOMAIN world /\ NodeOK(x)
    BY NodeTypes, WorldTree DEF Sound, TreeOK
  <2>2. \A x \in DOMAIN node : \A y \in Children(x) : y \in DOMAIN node /\ y # <<>> /\ Front(y) = x
    BY <2>1, CasesAre DEF Sound
  <2> QED
    BY <2>1, <2>2, Siblings2
<1>5. /\ m \in Finished => s = m /\ world[n] = m
      /\ m \in Sorries => s = "Sorry"
      /\ m = "step" => s = "Contradictory" /\ world[n] = "open" /\ Cases(n) = {}
      /\ m # "unset"
  BY DEF Answer, Finished, Sorries
<1>6. ASSUME NEW x \in DOMAIN node PROVE NodeOK(x)'
  <2>0. /\ ParentOK(x) /\ StateOK(x) /\ CasesOK(x) /\ PlaceOK(x) /\ RollOK(x) /\ OrderOK(x)
        /\ EvalOK(x) /\ OldOK(x) /\ LiveOK(x)
    BY <1>4, <1>6 DEF NodeOK
  <2>1. ParentOK(x)'
    BY <1>1, <1>3, <1>6, <2>0 DEF ParentOK
  <2>2. StateOK(x)'
    <3>1. CASE x = n
      BY <1>0, <1>1, <1>5, <3>1 DEF StateOK, Finished, Sorries
    <3>2. CASE x # n
      BY <1>0, <1>1, <1>6, <2>0, <3>2 DEF StateOK
    <3> QED
      BY <3>1, <3>2
  <2>3. CasesOK(x)'
    <3>1. CASE x = n
      BY <1>1, <1>2, <1>3, <1>5, <3>1 DEF CasesOK
    <3>2. CASE x # n
      <4>1. \A r \in Children(x) : node[r].at = "returned" => r \in DOMAIN node /\ r # n /\ node'[r] = node[r]
        BY <1>1, <1>3, <1>4, <1>6
      <4> QED
        BY <1>0, <1>1, <1>2, <1>6, <2>0, <3>2, <4>1 DEF CasesOK
    <3> QED
      BY <3>1, <3>2
  <2>4. PlaceOK(x)'
    <3>1. CASE x = n
      BY <1>1, <3>1 DEF PlaceOK
    <3>2. CASE x # n /\ x # <<>>
      <4>1. Front(x) \in DOMAIN node /\ Front(x) # n
        BY <1>3, <1>6, <2>0, <3>2 DEF ParentOK
      <4> QED
        BY <1>1, <1>6, <2>0, <3>2, <4>1 DEF PlaceOK
    <3> QED
      BY <3>1, <3>2 DEF PlaceOK
  <2>5. RollOK(x)'
    <3>1. CASE x = n
      BY <1>1, <1>3, <3>1 DEF RollOK
    <3>2. CASE x # n
      <4>1. ASSUME node[x].at \in {"again", "returned"}
            PROVE  {node'[r].status : r \in Children(x)} = {node[r].status : r \in Children(x)}
        <5>1. n \notin Children(x)
          BY <1>3, <1>4, <1>6, <4>1
        <5>2. \A r \in Children(x) : node'[r] = node[r]
          BY <1>1, <1>4, <1>6, <5>1
        <5> QED
          BY <5>2
      <4> QED
        BY <1>1, <1>6, <2>0, <3>2, <4>1 DEF RollOK
    <3> QED
      BY <3>1, <3>2
  <2>6. OrderOK(x)'
    <3>1. (node[x].at = "again" => node[x].status # "Solved")'
      BY <1>1, <1>6, <2>0 DEF OrderOK
    <3>2. ASSUME x # <<>>, NEW r \in Children(Front(x)), Last(r) < Last(x)
          PROVE  /\ node'[Front(x)].at = "walking" /\ node'[x].at # "again" => node'[r].at = "returned"
                 /\ node'[Front(x)].at = "expanding" /\ ~should_parallel_expand(Front(x)) /\ node'[x].at # "new" =>
                      node'[r].at = "returned" /\ node'[r].status \notin AbortOn
      <4>1. Front(x) \in DOMAIN node /\ r \in DOMAIN node /\ Front(x) # n /\ r # <<>> /\ Front(r) = Front(x)
        BY <1>3, <1>4, <1>6, <2>0, <3>2 DEF ParentOK
      <4>2. node'[Front(x)] = node[Front(x)]
        BY <1>1, <4>1
      <4>3. CASE x = n
        <5>1. r # n
          <6>1. Last(n) \in Nat
            BY <1>3, <3>2, <4>3, Siblings2
          <6> QED
            BY <3>2, <4>3, <6>1
        <5>2. node'[r] = node[r]
          BY <1>1, <4>1, <5>1
        <5>3. \A y \in Children(Front(n)) : node[y].at = "returned" => node[y].status \notin AbortOn \/
             Aborts(Front(n))
          BY DEF Aborts
        <5> QED
          BY <1>3, <3>2, <4>2, <4>3, <5>2, <5>3
      <4>4. CASE x # n /\ r # n
        BY <1>1, <1>6, <2>0, <3>2, <4>1, <4>2, <4>4 DEF OrderOK
      <4>5. CASE x # n /\ r = n
        BY <1>1, <1>3, <1>6, <2>0, <3>2, <4>1, <4>2, <4>5 DEF OrderOK
      <4> QED
        BY <4>3, <4>4, <4>5
    <3> QED
      BY <1>1, <1>2, <3>1, <3>2 DEF OrderOK
  <2>7. EvalOK(x)'
    <3>1. CASE x = n
      BY <1>0, <1>1, <3>1 DEF EvalOK, Answer, Finished
    <3>2. CASE x # n
      BY <1>0, <1>1, <1>6, <2>0, <3>2 DEF EvalOK
    <3> QED
      BY <3>1, <3>2
  <2>8. OldOK(x)'
    <3>1. CASE x = n
      <4>1. m = "depth limit" => Len(n) >= max_depth
        BY DEF Answer
      <4>2. Len(n) \in Nat /\ max_depth \in Nat
        BY <1>3, WorldTree, NodeTypes DEF Sound
      <4>3. Len(n) >= max_depth => ~(Len(n) < max_depth)
        BY <4>2
      <4>4. is_depth_limited(x)' => m = "depth limit"
        BY <1>1, <3>1 DEF is_depth_limited
      <4>5. is_depth_limited(x)' => ~(Len(x) < max_depth)
        BY <3>1, <4>1, <4>3, <4>4, Zenon
      <4> QED
        BY <1>0, <4>5 DEF OldOK
    <3>2. CASE x # n
      <4>1. ASSUME is_depth_limited(x)', Len(x) < max_depth, ~late'
            PROVE  \/ \E q \in DOMAIN node : IsPrefix(q, x) /\ node'[q].at = "again"
                   \/ /\ setup.cut # "Bfs"
                      /\ \E r \in DOMAIN node : node'[r].at = "returned" /\ node'[r].status = "Solved" /\ Earlier(r,
                         x)
        <5>1. is_depth_limited(x) /\ ~late
          BY <1>0, <1>1, <1>6, <3>2, <4>1 DEF is_depth_limited
        <5>2. CASE \E q \in DOMAIN node : IsPrefix(q, x) /\ node[q].at = "again"
          <6>1. PICK q \in DOMAIN node : IsPrefix(q, x) /\ node[q].at = "again"
            BY <5>2
          <6>2. q # n
            BY <1>3, <1>6, <3>2, <6>1
          <6> QED
            BY <1>1, <6>1, <6>2
        <5>3. CASE setup.cut # "Bfs" /\ \E r \in DOMAIN node : node[r].at = "returned" /\
             node[r].status = "Solved" /\ Earlier(r, x)
          <6>1. PICK r \in DOMAIN node : node[r].at = "returned" /\ node[r].status = "Solved" /\ Earlier(r, x)
            BY <5>3
          <6>2. r # n
            BY <1>3, <6>1
          <6> QED
            BY <1>1, <5>3, <6>1, <6>2
        <5> QED
          BY <2>0, <4>1, <5>1, <5>2, <5>3 DEF OldOK
      <4> QED
        BY <1>0, <1>1, <4>1 DEF OldOK
    <3> QED
      BY <3>1, <3>2
  <2>9. LiveOK(x)'
    <3>1. CASE x = n
      BY <1>0, <1>1, <3>1 DEF LiveOK, is_depth_limited
    <3>2. CASE x # n
      BY <1>0, <1>1, <1>6, <2>0, <3>2 DEF LiveOK, is_depth_limited
    <3> QED
      BY <3>1, <3>2
  <2> QED
    BY <2>1, <2>2, <2>3, <2>4, <2>5, <2>6, <2>7, <2>8, <2>9 DEF NodeOK
<1>7. HitOK'
  <2>1. PICK j \in DOMAIN node :
           /\ j = Job(n) /\ IsPrefix(j, n)
           /\ j # <<>> => /\ Front(j) \in DOMAIN node /\ IsPrefix(Front(j), n) /\ Front(j) # n
                          /\ node[Front(j)].at = "expanding" /\ should_parallel_expand(Front(j))
    BY JobIs DEF Sound, TreeOK, NodeOK
  <2>2. hit' \subseteq hit \cup {j} /\ hit \subseteq hit' /\ (m = "depth limit" => j \in hit')
    BY <2>1 DEF Answer
  <2>3. hit \subseteq DOMAIN node
    BY DEF Sound, Types, TypeOK
  <2>4. ASSUME NEW k \in hit', k # <<>> PROVE node'[Front(k)].at = "expanding" /\ should_parallel_expand(Front(k))
    <3>1. k \in DOMAIN node /\ node[Front(k)].at = "expanding" /\ should_parallel_expand(Front(k))
      BY <2>1, <2>2, <2>3, <2>4 DEF Sound, TreeOK, HitOK
    <3>2. Front(k) \in DOMAIN node /\ Front(k) # n
      BY <1>3, <1>4, <2>4, <3>1 DEF NodeOK, ParentOK
    <3> QED
      BY <1>1, <3>1, <3>2
  <2>5. ASSUME NEW x \in DOMAIN node, is_depth_limited(x)', Len(x) >= max_depth PROVE \E k \in hit' : IsPrefix(k, x)
    <3>1. CASE x = n
      BY <1>1, <2>1, <2>2, <2>5, <3>1 DEF is_depth_limited
    <3>2. CASE x # n
      <4>1. is_depth_limited(x)
        BY <1>1, <2>5, <3>2 DEF is_depth_limited
      <4> QED
        BY <2>2, <2>5, <4>1 DEF Sound, TreeOK, HitOK
    <3> QED
      BY <3>1, <3>2
  <2> QED
    BY <1>0, <1>1, <1>2, <2>4, <2>5 DEF HitOK
<1>8. RoundOK'
  <2>1. setup.cut \notin {"Dfs", "Bfs"} => max_depth = Unlimited /\ m # "depth limit"
    <3>1. setup.cut \notin {"Dfs", "Bfs"} => max_depth = Unlimited
      BY DEF Sound, TreeOK, RoundOK
    <3>2. m = "depth limit" => Len(n) >= max_depth
      BY DEF Answer
    <3>3. Len(n) \in Nat /\ Len(n) < DepthCap
      BY <1>3, WorldTree DEF Sound
    <3>4. DepthCap \in Nat /\ Unlimited \in Nat /\ ~(Len(n) >= Unlimited)
      BY <3>3, SearchAssumption
    <3> QED
      BY <3>1, <3>2, <3>4
  <2>2. setup.cut \notin {"Dfs", "Bfs"} =>
          \A x \in DOMAIN node : node'[x].at \notin {"again", "walking"} /\ ~is_depth_limited(x)'
    <3>1. ASSUME setup.cut \notin {"Dfs", "Bfs"}, NEW x \in DOMAIN node
          PROVE  node'[x].at \notin {"again", "walking"} /\ ~is_depth_limited(x)'
      <4>1. node[x].at \notin {"again", "walking"} /\ ~is_depth_limited(x)
        BY <3>1 DEF Sound, TreeOK, RoundOK
      <4> QED
        BY <1>1, <2>1, <3>1, <4>1 DEF is_depth_limited
    <3> QED
      BY <3>1
  <2>3. /\ setup.cut = "Dfs" =>
            /\ max_depth >= InitialDepth
            /\ max_depth > InitialDepth => \A b \in Attacks : 2 * Len(b) >= max_depth
        /\ setup.cut = "Bfs" => max_depth >= 2 /\ \A b \in Attacks : b = <<>> \/ Len(b) >= Level
    BY DEF Sound, TreeOK, RoundOK
  <2>4. Level' = Level
    BY <1>0 DEF Level
  <2> QED
    BY <1>0, <1>1, <1>2, <2>1, <2>2, <2>3, <2>4 DEF RoundOK
<1>9. SorryOK'
  <2>1. ASSUME setup.cut = "AfterSorry", NEW k \in DOMAIN node, NEW x \in DOMAIN node, BadLeaf(k)', Earlier(k, x)
        PROVE  Untried(x)'
    <3>1. CASE k = n
      <4>1. node[x].at = "new" /\ x # n
        BY <1>3, <2>1, <3>1, NewAfter DEF Sound, TreeOK, Tree
      <4> QED
        BY <1>1, <4>1 DEF Untried
    <3>2. CASE k # n
      <4>1. BadLeaf(k)
        BY <1>1, <2>1, <3>2 DEF BadLeaf
      <4>2. x # n
        BY <1>0, <2>1, <4>1, NoneBefore DEF Sound, TreeOK, Tree
      <4>3. Untried(x)
        BY <2>1, <4>1 DEF Sound, TreeOK, SorryOK
      <4> QED
        BY <1>1, <4>2, <4>3 DEF Untried
    <3> QED
      BY <3>1, <3>2
  <2> QED
    BY <1>0, <1>1, <2>1 DEF SorryOK
<1> QED
  BY <1>1, <1>6, <1>7, <1>8, <1>9 DEF TreeOK

\* What a split changes.
LEMMA BranchEffect ==
  ASSUME Sound, NEW n \in DOMAIN node, Branch(n)
  PROVE  /\ Expands(n) /\ world[n] = "open" /\ Cases(n) # {} /\ Len(n) < max_depth /\ Len(n) < setup.bound
         /\ DOMAIN node' = DOMAIN node \cup Cases(n) /\ node' = [x \in DOMAIN node' |-> node'[x]]
         /\ node'[n].at = "expanding" /\ node'[n].method = "step" /\ node'[n].status = "Open" /\ node'[n] \in Node
         /\ \A c \in Cases(n) : /\ c \in DOMAIN world /\ c # <<>> /\ Front(c) = n /\ c \notin DOMAIN node /\ c # n
                                /\ node'[c].at = "new" /\ node'[c].method = "unset" /\ node'[c].status = "Open"
                                /\ node'[c] \in Node /\ Children(c)' = {}
         /\ \A x \in DOMAIN node : x # n => node'[x] = node[x] /\ Children(x)' = Children(x)
         /\ Children(n)' = Cases(n)
         /\ live' = live \cup Cases(n)
<1>1. /\ Expands(n) /\ world[n] = "open" /\ Cases(n) # {} /\ Len(n) < max_depth /\ Len(n) < setup.bound
      /\ live' = live \cup Cases(n)
  BY DEF Branch, Opens, Evaluates
<1>2. /\ n \in DOMAIN world /\ n \in Paths /\ DOMAIN node \subseteq DOMAIN world
      /\ \A x \in DOMAIN node : x # <<>> /\ Front(x) = n => FALSE
  BY <1>1, ExpandsFinds, NodeTypes DEF Sound
<1>3. \A c \in Cases(n) : c \in DOMAIN world /\ c \in Paths /\ c # <<>> /\ Front(c) = n /\ c \notin DOMAIN node /\
     c # n
  BY <1>2, CasesAre, WorldTree, Siblings2 DEF Sound
<1>4. node' = [m \in DOMAIN node \cup Cases(n) |->
                IF m = n THEN [at |-> "expanding", method |-> "step", status |-> "Open"]
                ELSE IF m \in Cases(n) THEN New ELSE node[m]]
  BY DEF Branch
<1>5. DOMAIN node' = DOMAIN node \cup Cases(n) /\ node' = [x \in DOMAIN node' |-> node'[x]]
  BY <1>4
<1>6. node'[n] = [at |-> "expanding", method |-> "step", status |-> "Open"]
  BY <1>4
<1>7. node'[n].at = "expanding" /\ node'[n].method = "step" /\ node'[n].status = "Open" /\ node'[n] \in Node
  BY <1>6 DEF Node, Places, Methods, Statuses
<1>8. \A c \in Cases(n) : node'[c] = New
  BY <1>3, <1>4
<1>9. \A c \in Cases(n) : node'[c].at = "new" /\ node'[c].method = "unset" /\ node'[c].status = "Open" /\
     node'[c] \in Node
  BY <1>8 DEF New, Node, Places, Methods, Statuses
<1>10. \A x \in DOMAIN node : x # n => node'[x] = node[x]
  BY <1>3, <1>4
<1>11. Children(n)' = Cases(n)
  <2>1. \A m \in {Append(n, c) : c \in CaseNames} : m \in DOMAIN node' <=> m \in DOMAIN world
    <3>1. ASSUME NEW m \in {Append(n, c) : c \in CaseNames}, m \in DOMAIN world PROVE m \in DOMAIN node'
      BY <1>5, <3>1 DEF Cases
    <3>2. DOMAIN node' \subseteq DOMAIN world
      BY <1>2, <1>3, <1>5
    <3> QED
      BY <3>1, <3>2
  <2> QED
    BY <2>1 DEF Children, Cases
<1>12. ASSUME NEW x \in DOMAIN world, x # n PROVE Children(x)' = Children(x)
  <2>1. \A m \in Cases(n) : m \notin Cases(x)
    BY <1>3, <1>12, CasesAre DEF Sound
  <2>2. \A m \in {Append(x, c) : c \in CaseNames} : m \in DOMAIN node' <=> m \in DOMAIN node
    BY <1>3, <1>5, <2>1 DEF Cases
  <2> QED
    BY <2>2 DEF Children
<1>13. \A c \in Cases(n) : Children(c)' = {}
  <2>1. \A x \in DOMAIN node : ParentOK(x)
    BY DEF Sound, TreeOK, NodeOK
  <2>2. \A c \in Cases(n) : Children(c) = {}
    BY <1>3, <2>1, CasesAre DEF ParentOK, Sound
  <2> QED
    BY <1>3, <1>12, <2>2
<1> QED
  BY <1>1, <1>2, <1>3, <1>5, <1>7, <1>9, <1>10, <1>11, <1>12, <1>13

\* A split keeps the types.
LEMMA BranchTypes ==
  ASSUME Sound, NEW n \in DOMAIN node, Branch(n)
  PROVE  Types'
<1>1. world' = world /\ setup' = setup /\ max_depth' = max_depth /\ phase' = phase /\ hit' = hit /\ late' = late
  BY DEF Branch
<1>2. /\ DOMAIN node' = DOMAIN node \cup Cases(n) /\ node' = [x \in DOMAIN node' |-> node'[x]]
      /\ node'[n] \in Node /\ live' = live \cup Cases(n)
      /\ \A c \in Cases(n) : c \in DOMAIN world /\ node'[c] \in Node
      /\ \A x \in DOMAIN node : x # n => node'[x] = node[x]
  BY BranchEffect
<1>3. /\ DOMAIN node \subseteq DOMAIN world /\ <<>> \in DOMAIN node /\ live \subseteq DOMAIN node /\
         hit \subseteq DOMAIN node
      /\ \A x \in DOMAIN node : node[x] \in Node
  BY DEF Sound, Types, TypeOK
<1>4. \A x \in DOMAIN node' : node'[x] \in Node
  BY <1>2, <1>3
<1>5. DOMAIN node' \subseteq DOMAIN world /\ <<>> \in DOMAIN node' /\ live' \subseteq DOMAIN node' /\
     hit' \subseteq DOMAIN node'
  BY <1>1, <1>2, <1>3
<1> QED
  BY <1>1, <1>2, <1>4, <1>5 DEF Sound, Types, TypeOK

\* A split keeps the invariant.
LEMMA BranchKeeps ==
  ASSUME Sound, NEW n \in DOMAIN node, Branch(n)
  PROVE  TreeOK'
<1>0. world' = world /\ setup' = setup /\ max_depth' = max_depth /\ phase' = phase /\ late' = late /\ hit' = hit
  BY DEF Branch
<1>1. /\ Expands(n) /\ world[n] = "open" /\ Cases(n) # {} /\ Len(n) < max_depth /\ Len(n) < setup.bound
      /\ DOMAIN node' = DOMAIN node \cup Cases(n)
      /\ node'[n].at = "expanding" /\ node'[n].method = "step" /\ node'[n].status = "Open"
      /\ \A c \in Cases(n) : /\ c \in DOMAIN world /\ c # <<>> /\ Front(c) = n /\ c \notin DOMAIN node /\ c # n
                             /\ node'[c].at = "new" /\ node'[c].method = "unset" /\ node'[c].status = "Open"
                             /\ Children(c)' = {}
      /\ \A x \in DOMAIN node : x # n => node'[x] = node[x] /\ Children(x)' = Children(x)
      /\ Children(n)' = Cases(n)
      /\ live' = live \cup Cases(n)
  BY BranchEffect
<1>2. /\ \A x : Cases(x)' = Cases(x) /\ (should_parallel_expand(x)' <=> should_parallel_expand(x))
      /\ AbortOn' = AbortOn /\ Attacks' = Attacks
  BY <1>0, Frame
<1>3. /\ n \in DOMAIN world /\ n \in Paths
      /\ node[n].at \in {"new", "again"} /\ node[n].method \in {"unset", "depth limit"}
      /\ node[n].method = "depth limit" => node[n].at = "again"
      /\ Children(n) = {}
      /\ \A x \in DOMAIN node : x # <<>> /\ Front(x) = n => FALSE
      /\ \A x \in DOMAIN node : IsPrefix(n, x) => x = n
      /\ n # <<>> => /\ Front(n) \in DOMAIN node /\ n \in Children(Front(n))
                     /\ node[Front(n)].at \in {"expanding", "walking"}
                     /\ node[Front(n)].at = "expanding" /\ ~should_parallel_expand(Front(n)) => ~Aborts(Front(n))
                     /\ \A r \in Children(Front(n)) : Last(r) < Last(n) =>
                          \/ node[r].at = "returned"
                          \/ node[Front(n)].at = "expanding" /\ should_parallel_expand(Front(n))
  BY <1>1, ExpandsFinds
<1>4. /\ DOMAIN node \subseteq DOMAIN world
      /\ \A x \in DOMAIN node : x \in Paths /\ x \in DOMAIN world /\ NodeOK(x)
      /\ \A x \in DOMAIN node : \A y \in Children(x) : y \in DOMAIN node /\ y # <<>> /\ Front(y) = x /\ y # x
  <2>1. \A x \in DOMAIN node : x \in Paths /\ x \in DOMAIN world /\ NodeOK(x)
    BY NodeTypes, WorldTree DEF Sound, TreeOK
  <2>2. \A x \in DOMAIN node : \A y \in Children(x) : y \in DOMAIN node /\ y # <<>> /\ Front(y) = x
    BY <2>1, CasesAre DEF Sound
  <2> QED
    BY <2>1, <2>2, Siblings2
<1>5. ASSUME NEW x \in Cases(n) PROVE NodeOK(x)'
  <2>1. ParentOK(x)' /\ StateOK(x)' /\ CasesOK(x)' /\ RollOK(x)' /\ OldOK(x)' /\ LiveOK(x)'
    BY <1>1, <1>5 DEF ParentOK, StateOK, CasesOK, RollOK, OldOK, LiveOK, is_depth_limited, Finished, Sorries
  <2>2. PlaceOK(x)' /\ EvalOK(x)'
    BY <1>1, <1>5 DEF PlaceOK, EvalOK, Finished
  <2>3. OrderOK(x)'
    BY <1>1, <1>5 DEF OrderOK
  <2> QED
    BY <2>1, <2>2, <2>3 DEF NodeOK
<1>6. ASSUME NEW x \in DOMAIN node PROVE NodeOK(x)'
  <2>0. /\ ParentOK(x) /\ StateOK(x) /\ CasesOK(x) /\ PlaceOK(x) /\ RollOK(x) /\ OrderOK(x)
        /\ EvalOK(x) /\ OldOK(x) /\ LiveOK(x)
    BY <1>4, <1>6 DEF NodeOK
  <2>1. ParentOK(x)'
    BY <1>1, <1>3, <1>6, <2>0 DEF ParentOK
  <2>2. StateOK(x)'
    <3>1. CASE x = n
      BY <1>0, <1>1, <3>1 DEF StateOK, Finished, Sorries
    <3>2. CASE x # n
      BY <1>0, <1>1, <1>6, <2>0, <3>2 DEF StateOK
    <3> QED
      BY <3>1, <3>2
  <2>3. CasesOK(x)'
    <3>1. CASE x = n
      BY <1>1, <1>2, <3>1 DEF CasesOK
    <3>2. CASE x # n
      <4>1. \A r \in Children(x) : node[r].at = "returned" => r \in DOMAIN node /\ r # n /\ node'[r] = node[r]
        BY <1>1, <1>3, <1>4, <1>6
      <4> QED
        BY <1>0, <1>1, <1>2, <1>6, <2>0, <3>2, <4>1 DEF CasesOK
    <3> QED
      BY <3>1, <3>2
  <2>4. PlaceOK(x)'
    <3>1. CASE x = n
      <4>1. n # <<>> => Front(n) \in DOMAIN node /\ Front(n) # n
        BY <1>3, Siblings2
      <4> QED
        BY <1>1, <1>3, <3>1, <4>1 DEF PlaceOK
    <3>2. CASE x # n /\ x # <<>>
      <4>1. Front(x) \in DOMAIN node /\ Front(x) # n
        BY <1>3, <1>6, <2>0, <3>2 DEF ParentOK
      <4> QED
        BY <1>1, <1>6, <2>0, <3>2, <4>1 DEF PlaceOK
    <3> QED
      BY <3>1, <3>2 DEF PlaceOK
  <2>5. RollOK(x)'
    <3>1. CASE x = n
      BY <1>1, <3>1 DEF RollOK
    <3>2. CASE x # n
      <4>1. ASSUME node[x].at \in {"again", "returned"}
            PROVE  {node'[r].status : r \in Children(x)} = {node[r].status : r \in Children(x)}
        <5>1. n \notin Children(x)
          BY <1>3, <1>4, <1>6, <4>1
        <5>2. \A r \in Children(x) : node'[r] = node[r]
          BY <1>1, <1>4, <1>6, <5>1
        <5> QED
          BY <5>2
      <4> QED
        BY <1>1, <1>6, <2>0, <3>2, <4>1 DEF RollOK
    <3> QED
      BY <3>1, <3>2
  <2>6. OrderOK(x)'
    <3>1. (node[x].at = "again" => node[x].status # "Solved")'
      BY <1>1, <1>6, <2>0 DEF OrderOK
    <3>2. ASSUME x # <<>>, NEW r \in Children(Front(x))', Last(r) < Last(x)
          PROVE  /\ node'[Front(x)].at = "walking" /\ node'[x].at # "again" => node'[r].at = "returned"
                 /\ node'[Front(x)].at = "expanding" /\ ~should_parallel_expand(Front(x)) /\ node'[x].at # "new" =>
                      node'[r].at = "returned" /\ node'[r].status \notin AbortOn
      <4>0. Front(x) \in DOMAIN node /\ Front(x) # n
        BY <1>3, <1>6, <2>0, <3>2 DEF ParentOK
      <4>1. r \in Children(Front(x)) /\ r \in DOMAIN node /\ r # <<>> /\ Front(r) = Front(x)
        BY <1>1, <1>4, <3>2, <4>0
      <4>2. node'[Front(x)] = node[Front(x)]
        BY <1>1, <4>0
      <4>3. CASE x = n
        <5>1. r # n
          <6>1. Last(n) \in Nat
            BY <1>3, <3>2, <4>3, Siblings2
          <6> QED
            BY <3>2, <4>3, <6>1
        <5>2. node'[r] = node[r]
          BY <1>1, <4>1, <5>1
        <5>3. \A y \in Children(Front(n)) : node[y].at = "returned" => node[y].status \notin AbortOn \/
             Aborts(Front(n))
          BY DEF Aborts
        <5> QED
          BY <1>3, <3>2, <4>1, <4>2, <4>3, <5>2, <5>3
      <4>4. CASE x # n /\ r # n
        BY <1>1, <1>6, <2>0, <3>2, <4>1, <4>2, <4>4 DEF OrderOK
      <4>5. CASE x # n /\ r = n
        BY <1>1, <1>3, <1>6, <2>0, <3>2, <4>1, <4>2, <4>5 DEF OrderOK
      <4> QED
        BY <4>3, <4>4, <4>5
    <3> QED
      BY <1>2, <3>1, <3>2 DEF OrderOK
  <2>7. EvalOK(x)'
    <3>1. CASE x = n
      BY <1>0, <1>1, <3>1 DEF EvalOK, Finished
    <3>2. CASE x # n
      BY <1>0, <1>1, <1>6, <2>0, <3>2 DEF EvalOK
    <3> QED
      BY <3>1, <3>2
  <2>8. OldOK(x)'
    <3>1. CASE x = n
      BY <1>1, <3>1 DEF OldOK, is_depth_limited
    <3>2. CASE x # n
      <4>1. ASSUME is_depth_limited(x)', Len(x) < max_depth, ~late'
            PROVE  \/ \E q \in DOMAIN node' : IsPrefix(q, x) /\ node'[q].at = "again"
                   \/ /\ setup.cut # "Bfs"
                      /\ \E r \in DOMAIN node' : node'[r].at = "returned" /\ node'[r].status = "Solved" /\
                         Earlier(r, x)
        <5>1. is_depth_limited(x) /\ ~late
          BY <1>0, <1>1, <1>6, <3>2, <4>1 DEF is_depth_limited
        <5>2. CASE \E q \in DOMAIN node : IsPrefix(q, x) /\ node[q].at = "again"
          <6>1. PICK q \in DOMAIN node : IsPrefix(q, x) /\ node[q].at = "again"
            BY <5>2
          <6>2. q # n
            BY <1>3, <1>6, <3>2, <6>1
          <6> QED
            BY <1>1, <6>1, <6>2
        <5>3. CASE setup.cut # "Bfs" /\ \E r \in DOMAIN node : node[r].at = "returned" /\
             node[r].status = "Solved" /\ Earlier(r, x)
          <6>1. PICK r \in DOMAIN node : node[r].at = "returned" /\ node[r].status = "Solved" /\ Earlier(r, x)
            BY <5>3
          <6>2. r # n
            BY <1>3, <6>1
          <6> QED
            BY <1>1, <5>3, <6>1, <6>2
        <5> QED
          BY <2>0, <4>1, <5>1, <5>2, <5>3 DEF OldOK
      <4> QED
        BY <1>0, <4>1 DEF OldOK
    <3> QED
      BY <3>1, <3>2
  <2>9. LiveOK(x)'
    <3>1. CASE x = n
      BY <1>0, <1>1, <3>1 DEF LiveOK, is_depth_limited
    <3>2. CASE x # n
      BY <1>0, <1>1, <1>6, <2>0, <3>2 DEF LiveOK, is_depth_limited
    <3> QED
      BY <3>1, <3>2
  <2> QED
    BY <2>1, <2>2, <2>3, <2>4, <2>5, <2>6, <2>7, <2>8, <2>9 DEF NodeOK
<1>7. HitOK'
  <2>1. hit \subseteq DOMAIN node
    BY DEF Sound, Types, TypeOK
  <2>2. ASSUME NEW k \in hit, k # <<>> PROVE node'[Front(k)].at = "expanding" /\ should_parallel_expand(Front(k))
    <3>1. k \in DOMAIN node /\ node[Front(k)].at = "expanding" /\ should_parallel_expand(Front(k))
      BY <2>1, <2>2 DEF Sound, TreeOK, HitOK
    <3>2. Front(k) \in DOMAIN node /\ Front(k) # n
      BY <1>3, <1>4, <2>2, <3>1 DEF NodeOK, ParentOK
    <3> QED
      BY <1>1, <3>1, <3>2
  <2>3. ASSUME NEW x \in DOMAIN node', is_depth_limited(x)', Len(x) >= max_depth PROVE \E k \in hit : IsPrefix(k, x)
    <3>1. x \in DOMAIN node /\ x # n
      BY <1>1, <2>3 DEF is_depth_limited
    <3>2. is_depth_limited(x)
      BY <1>1, <2>3, <3>1 DEF is_depth_limited
    <3> QED
      BY <2>3, <3>1, <3>2 DEF Sound, TreeOK, HitOK
  <2> QED
    BY <1>0, <1>2, <2>2, <2>3 DEF HitOK
<1>8. RoundOK'
  <2>1. ASSUME setup.cut \notin {"Dfs", "Bfs"}
        PROVE  /\ max_depth = Unlimited
               /\ \A x \in DOMAIN node' : node'[x].at \notin {"again", "walking"} /\ ~is_depth_limited(x)'
    <3>1. max_depth = Unlimited /\ \A x \in DOMAIN node : node[x].at \notin {"again", "walking"} /\
         ~is_depth_limited(x)
      BY <2>1 DEF Sound, TreeOK, RoundOK
    <3>2. ASSUME NEW x \in DOMAIN node' PROVE node'[x].at \notin {"again", "walking"} /\ ~is_depth_limited(x)'
      BY <1>1, <3>1, <3>2 DEF is_depth_limited
    <3> QED
      BY <3>1, <3>2
  <2>3. /\ setup.cut = "Dfs" =>
            /\ max_depth >= InitialDepth
            /\ max_depth > InitialDepth => \A b \in Attacks : 2 * Len(b) >= max_depth
        /\ setup.cut = "Bfs" => max_depth >= 2 /\ \A b \in Attacks : b = <<>> \/ Len(b) >= Level
    BY DEF Sound, TreeOK, RoundOK
  <2>4. Level' = Level
    BY <1>0 DEF Level
  <2> QED
    BY <1>0, <1>2, <2>1, <2>3, <2>4 DEF RoundOK
<1>9. SorryOK'
  <2>1. ASSUME setup.cut = "AfterSorry", NEW k \in DOMAIN node', NEW x \in DOMAIN node', BadLeaf(k)', Earlier(k, x)
        PROVE  Untried(x)'
    <3>1. k \in DOMAIN node /\ k # n
      BY <1>1, <2>1 DEF BadLeaf
    <3>2. BadLeaf(k)
      BY <1>1, <2>1, <3>1 DEF BadLeaf
    <3>3. CASE x \in Cases(n)
      BY <1>1, <3>3 DEF Untried
    <3>4. CASE x \in DOMAIN node
      <4>1. x # n
        BY <1>1, <2>1, <3>1, <3>2, <3>4, NoneBefore DEF Sound, TreeOK, Tree
      <4>2. Untried(x)
        BY <2>1, <3>1, <3>2, <3>4 DEF Sound, TreeOK, SorryOK
      <4> QED
        BY <1>1, <3>4, <4>1, <4>2 DEF Untried
    <3> QED
      BY <1>1, <2>1, <3>3, <3>4
  <2> QED
    BY <1>0, <2>1 DEF SorryOK
<1> QED
  BY <1>1, <1>5, <1>6, <1>7, <1>8, <1>9 DEF TreeOK

\* The loop over the cases of n ends: R are the cases it did not get to, K those it keeps.
Left(n, R, K) ==
  /\ R = {m \in Cases(n) : node[m].at = "new"} /\ K = (IF setup.cut = "AfterSorry" THEN R ELSE {})
  /\ R # {} => Aborts(n) /\ ~should_parallel_expand(n)
  /\ DOMAIN node' = (DOMAIN node \ R) \cup K /\ node' = [x \in DOMAIN node' |-> node'[x]]
  /\ \A x \in DOMAIN node \ R : x # n => node'[x] = node[x]
  /\ \A k \in K : /\ node'[k].at = "returned" /\ node'[k] \in Node
                  /\ \/ node'[k].method \in Finished /\ node'[k].status = node'[k].method /\
                        world[k] = node'[k].method
                     \/ node'[k].method = "sorry" /\ node'[k].status = "Sorry"
  /\ node'[n].at = "returned" /\ node'[n].method = "step" /\ node'[n] \in Node
  /\ node'[n].status = rollup_status({node'[m].status : m \in Children(n)'})
  /\ node'[n].status \in Finished \cup {"Sorry"}
  /\ Children(n)' = Cases(n) \ (R \ K)
  /\ \A x \in DOMAIN world : x # n => Children(x)' = Children(x)
  /\ (live \ (R \ K)) \ {n} \subseteq live' /\ live' \subseteq live \ (R \ K)

\* The cases of a node whose cases are being expanded.
LEMMA Expanding ==
  ASSUME Sound, NEW n \in DOMAIN node, node[n].at \in {"expanding", "walking"}
  PROVE  /\ n \in DOMAIN world /\ n \in Paths /\ node[n].method = "step" /\ world[n] = "open"
         /\ Children(n) = Cases(n) /\ Cases(n) # {}
         /\ \A c \in Cases(n) : /\ c \in DOMAIN node /\ c \in DOMAIN world /\ c \in Paths /\ c # <<>> /\ Front(c) = n
                                /\ c # n /\ c \notin Cases(c) /\ Last(c) \in Nat
                                /\ node[c].at = "new" => \A y \in DOMAIN node : y # <<>> => Front(y) # c
<1>1. n \in DOMAIN world /\ n \in Paths /\ NodeOK(n) /\ \A y \in DOMAIN node : ParentOK(y) /\ StateOK(y)
  BY NodeTypes, WorldTree DEF Sound, TreeOK, NodeOK
<1>2. node[n].method = "step" /\ world[n] = "open"
  BY <1>1 DEF NodeOK, StateOK
<1>3. Children(n) = Cases(n) /\ Cases(n) # {}
  BY <1>1, <1>2 DEF NodeOK, CasesOK
<1>4. \A c \in Cases(n) : c \in DOMAIN node /\ c \in DOMAIN world /\ c \in Paths /\ c # <<>> /\ Front(c) = n
  BY <1>1, <1>3, CasesAre, NodeTypes, WorldTree DEF Sound
<1>5. \A c \in Cases(n) : c # n /\ c \notin Cases(c) /\ Last(c) \in Nat
  BY <1>4, Siblings2, CasesAre DEF Sound
<1>6. \A c \in Cases(n) : node[c].at = "new" => \A y \in DOMAIN node : y # <<>> => Front(y) # c
  BY <1>1, <1>4 DEF ParentOK, StateOK
<1> QED
  BY <1>1, <1>2, <1>3, <1>4, <1>5, <1>6

\* What the end of the loop changes.
LEMMA LeaveEffect ==
  ASSUME Sound, NEW n \in DOMAIN node, Leave(n)
  PROVE  \E R, K : Left(n, R, K)
<1>1. PICK R : R = {m \in Cases(n) : node[m].at = "new"}
  OBVIOUS
<1>2. PICK K : K = (IF setup.cut = "AfterSorry" THEN R ELSE {})
  OBVIOUS
<1>3. PICK F : F = [m \in (DOMAIN node \ R) \cup K |->
                      IF m \in K THEN (IF world[m] \in Finished THEN Returned(world[m], world[m])
                                       ELSE Returned("sorry", "Sorry"))
                      ELSE node[m]]
  OBVIOUS
<1>4. PICK u : u = rollup_status({F[m].status : m \in Cases(n) \cap DOMAIN F})
  OBVIOUS
<1>5. /\ node[n].at = "expanding" /\ (R # {} => Aborts(n) /\ ~should_parallel_expand(n))
      /\ node' = [F EXCEPT ![n] = Returned("step", u)]
      /\ live' = (live \ (R \ K)) \ (IF drop_sys_after_expand("step") THEN {n} ELSE {})
  BY <1>1, <1>2, <1>3, <1>4 DEF Leave
<1>6. /\ n \in DOMAIN world /\ n \in Paths /\ Children(n) = Cases(n)
      /\ \A c \in Cases(n) : c \in DOMAIN node /\ c \in DOMAIN world /\ c \in Paths /\ c # <<>> /\ Front(c) = n /\
         c # n
  BY <1>5, Expanding
<1>7. K \subseteq R /\ R \subseteq Cases(n) /\ n \notin R /\ R \subseteq DOMAIN node
  BY <1>1, <1>2, <1>6
<1>8. DOMAIN F = (DOMAIN node \ R) \cup K /\ n \in DOMAIN F
  BY <1>3, <1>7
<1>9. /\ DOMAIN node' = (DOMAIN node \ R) \cup K /\ node' = [x \in DOMAIN node' |-> node'[x]]
      /\ node'[n] = Returned("step", u) /\ \A x \in DOMAIN F : x # n => node'[x] = F[x]
  BY <1>3, <1>5, <1>8
<1>10. \A x \in DOMAIN node \ R : x # n => node'[x] = node[x]
  <2>1. \A x \in DOMAIN node \ R : x \in DOMAIN F /\ F[x] = node[x]
    BY <1>3, <1>7, <1>8
  <2> QED
    BY <1>9, <2>1
<1>11. ASSUME NEW k \in K
       PROVE  /\ node'[k].at = "returned" /\ node'[k] \in Node
              /\ \/ node'[k].method \in Finished /\ node'[k].status = node'[k].method /\ world[k] = node'[k].method
                 \/ node'[k].method = "sorry" /\ node'[k].status = "Sorry"
  <2>1. k \in DOMAIN F /\ k # n /\ node'[k] = F[k]
    BY <1>6, <1>7, <1>8, <1>9
  <2>2. CASE world[k] \in Finished
    <3>1. node'[k] = Returned(world[k], world[k])
      BY <1>3, <2>1, <2>2
    <3> QED
      BY <2>2, <3>1 DEF Returned, Node, Places, Methods, Statuses
  <2>3. CASE world[k] \notin Finished
    <3>1. node'[k] = Returned("sorry", "Sorry")
      BY <1>3, <2>1, <2>3
    <3> QED
      BY <3>1 DEF Returned, Node, Places, Methods, Sorries, Statuses
  <2> QED
    BY <2>2, <2>3
<1>12. Cases(n) \cap DOMAIN F = Cases(n) \ (R \ K)
  BY <1>6, <1>7, <1>8
<1>13. Children(n)' = Cases(n) \ (R \ K)
  <2>1. \A m \in {Append(n, c) : c \in CaseNames} : m \in DOMAIN node' <=> m \in Cases(n) \ (R \ K)
    <3>1. ASSUME NEW m \in {Append(n, c) : c \in CaseNames}, m \in DOMAIN node' PROVE m \in Cases(n) \ (R \ K)
      <4>1. m \in DOMAIN node /\ (m \in R => m \in K)
        BY <1>7, <1>9, <3>1
      <4>2. m \in Cases(n)
        BY <1>6, <3>1, <4>1 DEF Children
      <4> QED
        BY <4>1, <4>2
    <3>2. ASSUME NEW m \in Cases(n) \ (R \ K) PROVE m \in DOMAIN node'
      BY <1>6, <1>9, <3>2
    <3> QED
      BY <3>1, <3>2
  <2>2. Cases(n) \subseteq {Append(n, c) : c \in CaseNames}
    BY DEF Cases
  <2> QED
    BY <2>1, <2>2 DEF Children
<1>14. u = rollup_status({node'[m].status : m \in Children(n)'})
  <2>1. \A m \in Cases(n) \cap DOMAIN F : F[m] = node'[m]
    BY <1>6, <1>9
  <2>2. {F[m].status : m \in Cases(n) \cap DOMAIN F} = {node'[m].status : m \in Children(n)'}
    BY <1>12, <1>13, <2>1
  <2> QED
    BY <1>4, <2>2
<1>15. u \in Finished \cup {"Sorry"}
  BY <1>4, RollUp DEF Finished
<1>16. node'[n].at = "returned" /\ node'[n].method = "step" /\ node'[n].status = u /\ node'[n] \in Node
  BY <1>9, <1>15 DEF Returned, Node, Places, Methods, Statuses
<1>17. ASSUME NEW x \in DOMAIN world, x # n PROVE Children(x)' = Children(x)
  <2>1. \A m \in R : m \notin Cases(x)
    BY <1>6, <1>7, <1>17, CasesAre DEF Sound
  <2>2. \A m \in {Append(x, c) : c \in CaseNames} : m \in DOMAIN node' <=> m \in DOMAIN node
    <3>1. \A m \in {Append(x, c) : c \in CaseNames} : m \in R => FALSE
      BY <1>6, <1>7, <2>1 DEF Cases
    <3> QED
      BY <1>7, <1>9, <3>1
  <2> QED
    BY <2>2 DEF Children
<1>18. (live \ (R \ K)) \ {n} \subseteq live' /\ live' \subseteq live \ (R \ K)
  BY <1>5
<1>19. Left(n, R, K)
  BY <1>1, <1>2, <1>5, <1>9, <1>10, <1>11, <1>13, <1>14, <1>15, <1>16, <1>17, <1>18 DEF Left
<1> QED
  BY <1>19

\* Where the flags of the cases go at the end of the loop.
LEMMA LeaveHits ==
  ASSUME Sound, NEW n \in DOMAIN node, Leave(n)
  PROVE  \E j \in DOMAIN node :
           /\ hit' \subseteq (hit \ Cases(n)) \cup {j} /\ hit \ Cases(n) \subseteq hit'
           /\ Cases(n) \cap hit # {} => j \in hit'
           /\ IsPrefix(j, n) /\ j \notin Cases(n)
           /\ j # <<>> => /\ Front(j) \in DOMAIN node /\ Front(j) # n
                          /\ node[Front(j)].at = "expanding" /\ should_parallel_expand(Front(j))
<1>1. PICK j \in DOMAIN node :
           /\ j = Job(n) /\ IsPrefix(j, n)
           /\ j # <<>> => /\ Front(j) \in DOMAIN node /\ IsPrefix(Front(j), n) /\ Front(j) # n
                          /\ node[Front(j)].at = "expanding" /\ should_parallel_expand(Front(j))
  BY JobIs DEF Sound, TreeOK, NodeOK
<1>2. hit' = IF Cases(n) \cap hit = {} THEN hit ELSE (hit \ Cases(n)) \cup {j}
  BY <1>1 DEF Leave, JoinHits
<1>3. hit' \subseteq (hit \ Cases(n)) \cup {j} /\ hit \ Cases(n) \subseteq hit' /\ (Cases(n) \cap hit # {} =>
     j \in hit')
  BY <1>2
<1>4. ASSUME j \in Cases(n) PROVE FALSE
  <2>1. node[n].at = "expanding"
    BY DEF Leave
  <2>2. j \in Paths /\ j # <<>> /\ Front(j) = n
    BY <1>4, <2>1, Expanding
  <2> QED
    BY <1>1, <2>2
<1> QED
  BY <1>1, <1>3, <1>4

\* The end of the loop keeps the types.
LEMMA LeaveTypes ==
  ASSUME Sound, NEW n \in DOMAIN node, Leave(n)
  PROVE  Types'
<1>0. /\ world' = world /\ setup' = setup /\ max_depth' = max_depth /\ phase' = phase /\ late' = late
      /\ node[n].at = "expanding"
  BY DEF Leave
<1>1. PICK R, K : Left(n, R, K)
  BY LeaveEffect
<1>2. /\ R = {m \in Cases(n) : node[m].at = "new"} /\ K \subseteq R
      /\ DOMAIN node' = (DOMAIN node \ R) \cup K /\ node' = [x \in DOMAIN node' |-> node'[x]]
      /\ \A x \in DOMAIN node \ R : x # n => node'[x] = node[x]
      /\ \A k \in K : node'[k] \in Node
      /\ node'[n] \in Node /\ live' \subseteq live \ (R \ K)
  BY <1>1 DEF Left
<1>3. /\ DOMAIN node \subseteq DOMAIN world /\ <<>> \in DOMAIN node /\ live \subseteq DOMAIN node /\
         hit \subseteq DOMAIN node
      /\ \A x \in DOMAIN node : node[x] \in Node
  BY DEF Sound, Types, TypeOK
<1>4. \A c \in Cases(n) : c \in DOMAIN node /\ c # <<>>
  BY <1>0, Expanding
<1>5. \A x \in DOMAIN node' : node'[x] \in Node
  BY <1>2, <1>3
<1>6. DOMAIN node' \subseteq DOMAIN world /\ <<>> \in DOMAIN node' /\ live' \subseteq DOMAIN node'
  BY <1>2, <1>3, <1>4
<1>7. hit' \subseteq DOMAIN node'
  <2>1. PICK j \in DOMAIN node : hit' \subseteq (hit \ Cases(n)) \cup {j} /\ j \notin Cases(n)
    BY LeaveHits
  <2> QED
    BY <1>2, <1>3, <2>1
<1> QED
  BY <1>0, <1>2, <1>5, <1>6, <1>7 DEF Sound, Types, TypeOK

\* The end of the loop keeps the invariant.
LEMMA LeaveKeeps ==
  ASSUME Sound, NEW n \in DOMAIN node, Leave(n)
  PROVE  TreeOK'
<1>0. /\ world' = world /\ setup' = setup /\ max_depth' = max_depth /\ phase' = phase /\ late' = late
      /\ node[n].at = "expanding"
  BY DEF Leave
<1>1. PICK R, K : Left(n, R, K)
  BY LeaveEffect
<1>2. /\ \A x : Cases(x)' = Cases(x) /\ (should_parallel_expand(x)' <=> should_parallel_expand(x))
      /\ AbortOn' = AbortOn /\ Attacks' = Attacks
  BY <1>0, Frame
<1>3. /\ n \in DOMAIN world /\ n \in Paths /\ node[n].method = "step" /\ world[n] = "open"
      /\ Children(n) = Cases(n) /\ Cases(n) # {}
      /\ \A c \in Cases(n) : /\ c \in DOMAIN node /\ c \in DOMAIN world /\ c \in Paths /\ c # <<>> /\ Front(c) = n
                             /\ c # n /\ c \notin Cases(c) /\ Last(c) \in Nat
                             /\ node[c].at = "new" => \A y \in DOMAIN node : y # <<>> => Front(y) # c
  BY <1>0, Expanding
<1>4. /\ DOMAIN node \subseteq DOMAIN world
      /\ \A x \in DOMAIN node : x \in Paths /\ x \in DOMAIN world /\ NodeOK(x)
      /\ \A x \in DOMAIN node : \A y \in Children(x) : y \in DOMAIN node /\ y # <<>> /\ Front(y) = x /\ y # x
  <2>1. \A x \in DOMAIN node : x \in Paths /\ x \in DOMAIN world /\ NodeOK(x)
    BY NodeTypes, WorldTree DEF Sound, TreeOK
  <2>2. \A x \in DOMAIN node : \A y \in Children(x) : y \in DOMAIN node /\ y # <<>> /\ Front(y) = x
    BY <2>1, CasesAre DEF Sound
  <2> QED
    BY <2>1, <2>2, Siblings2
<1>5. /\ R = {m \in Cases(n) : node[m].at = "new"} /\ K = (IF setup.cut = "AfterSorry" THEN R ELSE {}) /\
         K \subseteq R
      /\ R # {} => Aborts(n) /\ ~should_parallel_expand(n)
      /\ DOMAIN node' = (DOMAIN node \ R) \cup K
      /\ \A x \in DOMAIN node \ R : x # n => node'[x] = node[x]
      /\ \A k \in K : /\ node'[k].at = "returned"
                      /\ \/ node'[k].method \in Finished /\ node'[k].status = node'[k].method /\
                            world[k] = node'[k].method
                         \/ node'[k].method = "sorry" /\ node'[k].status = "Sorry"
      /\ node'[n].at = "returned" /\ node'[n].method = "step"
      /\ node'[n].status = rollup_status({node'[m].status : m \in Children(n)'})
      /\ node'[n].status \in Finished \cup {"Sorry"}
      /\ Children(n)' = Cases(n) \ (R \ K)
      /\ \A x \in DOMAIN world : x # n => Children(x)' = Children(x)
      /\ (live \ (R \ K)) \ {n} \subseteq live'
  BY <1>1 DEF Left
<1>6. /\ \A r \in R : r \in Cases(n) /\ node[r].at = "new" /\ node[r].method = "unset" /\ node[r].status = "Open"
      /\ n \notin R /\ DOMAIN node' \subseteq DOMAIN node /\ n \in DOMAIN node'
      /\ \A r \in R : r \in DOMAIN node /\ r # <<>> /\ Front(r) = n /\ \A y \in DOMAIN node : y # <<>> => Front(y) # r
  <2>1. \A r \in R : r \in DOMAIN node => node[r].method = "unset" /\ node[r].status = "Open"
    BY <1>4, <1>5 DEF NodeOK, StateOK
  <2> QED
    BY <1>3, <1>5, <2>1
<1>7. ASSUME NEW x \in K PROVE NodeOK(x)'
  <2>0. /\ x \in R /\ x \in DOMAIN node /\ x # <<>> /\ Front(x) = n /\ setup.cut = "AfterSorry" /\ x # n
        /\ x \in live /\ x \in live'
    <3>1. x \in live
      BY <1>4, <1>5, <1>6, <1>7 DEF NodeOK, LiveOK
    <3> QED
      BY <1>5, <1>6, <1>7, <3>1
  <2>1. Children(x)' = {}
    <3>1. Children(x) = {}
      BY <1>4, <1>6, <2>0
    <3> QED
      BY <1>4, <1>5, <2>0, <3>1
  <2>2. ParentOK(x)' /\ PlaceOK(x)'
    BY <1>5, <1>6, <1>7, <2>0 DEF ParentOK, PlaceOK
  <2>3. StateOK(x)' /\ CasesOK(x)'
    BY <1>0, <1>5, <1>7 DEF StateOK, CasesOK, Finished, Sorries
  <2>4. RollOK(x)' /\ OrderOK(x)'
    BY <1>5, <1>7, <2>0, <2>1 DEF RollOK, OrderOK
  <2>5. EvalOK(x)' /\ OldOK(x)' /\ LiveOK(x)'
    BY <1>0, <1>5, <1>7, <2>0 DEF EvalOK, OldOK, LiveOK, is_depth_limited, Finished
  <2> QED
    BY <2>2, <2>3, <2>4, <2>5 DEF NodeOK
<1>8. ASSUME NEW x \in DOMAIN node \ R PROVE NodeOK(x)'
  <2>0. /\ ParentOK(x) /\ StateOK(x) /\ CasesOK(x) /\ PlaceOK(x) /\ RollOK(x) /\ OrderOK(x)
        /\ EvalOK(x) /\ OldOK(x) /\ LiveOK(x)
    BY <1>4, <1>8 DEF NodeOK
  <2>a. x # <<>> => Front(x) \in DOMAIN node \ R
    BY <1>6, <1>8, <2>0 DEF ParentOK
  <2>b. x # n => node'[x] = node[x] /\ Children(x)' = Children(x)
    BY <1>4, <1>5, <1>8
  <2>1. ParentOK(x)'
    <3>1. ASSUME x # <<>> PROVE Front(x) \in DOMAIN node' /\ node'[Front(x)].method = "step"
      <4>1. node[Front(x)].method = "step" /\ Front(x) \in DOMAIN node'
        BY <1>5, <2>0, <2>a, <3>1 DEF ParentOK
      <4> QED
        BY <1>5, <2>a, <3>1, <4>1
    <3> QED
      BY <3>1 DEF ParentOK
  <2>2. StateOK(x)'
    <3>1. CASE x = n
      BY <1>0, <1>3, <1>5, <3>1 DEF StateOK, Finished, Sorries
    <3>2. CASE x # n
      BY <1>0, <2>b, <2>0, <3>2 DEF StateOK
    <3> QED
      BY <3>1, <3>2
  <2>3. CasesOK(x)'
    <3>1. CASE x = n
      <4>1. Children(n)' # {}
        <5>1. CASE R = {}
          BY <1>3, <1>5, <5>1
        <5>2. CASE R # {}
          <6>1. PICK r \in Cases(n) : node[r].at = "returned"
            BY <1>3, <1>5, <5>2 DEF Aborts
          <6>2. r \notin R
            BY <1>5, <6>1
          <6> QED
            BY <1>5, <6>1, <6>2
        <5> QED
          BY <5>1, <5>2
      <4>2. ASSUME NEW c \in Cases(n) \ Children(n)'
            PROVE  /\ setup.cut \in {"Dfs", "SeqDfs"}
                   /\ \E r \in Children(n)' : Last(r) < Last(c) /\ node'[r].at = "returned" /\
                      node'[r].status = "Solved"
        <5>1. c \in R /\ c \notin K /\ c \in Cases(n) /\ node[c].at = "new"
          BY <1>5, <4>2
        <5>2. PICK r \in Cases(n) : node[r].at = "returned" /\ node[r].status \in AbortOn
          BY <1>3, <1>5, <5>1 DEF Aborts
        <5>3. setup.cut \in {"Dfs", "SeqDfs"} /\ node[r].status = "Solved"
          BY <1>5, <5>1, <5>2 DEF AbortOn
        <5>4. r \notin R /\ r \in DOMAIN node /\ r # n /\ r \in Children(n)'
          BY <1>3, <1>5, <5>2
        <5>5. node'[r] = node[r]
          BY <1>5, <5>4
        <5>6. Last(r) < Last(c)
          <6>1. ~(Last(c) < Last(r))
            BY <1>0, <1>3, <1>4, <1>5, <5>1, <5>2, <5>4 DEF NodeOK, OrderOK
          <6>2. Last(c) # Last(r)
            BY <1>3, <5>1, <5>2, Siblings2
          <6> QED
            BY <1>3, <5>1, <5>2, <6>1, <6>2
        <5> QED
          BY <5>2, <5>3, <5>4, <5>5, <5>6
      <4> QED
        BY <1>0, <1>2, <1>5, <3>1, <4>1, <4>2 DEF CasesOK
    <3>2. CASE x # n
      <4>1. \A r \in Children(x) : node[r].at = "returned" => node'[r] = node[r]
        BY <1>0, <1>4, <1>5, <1>8
      <4> QED
        BY <1>0, <1>2, <2>0, <2>b, <3>2, <4>1 DEF CasesOK
    <3> QED
      BY <3>1, <3>2
  <2>4. PlaceOK(x)'
    <3>1. CASE x = n
      BY <1>5, <3>1 DEF PlaceOK
    <3>2. CASE x # n /\ x # <<>> /\ Front(x) = n
      <4>1. x \in Cases(n)
        BY <1>3, <1>4, <1>8, <3>2, CasesAre DEF Sound
      <4>2. node[x].at = "returned"
        <5>1. node[x].at \in {"new", "returned"}
          BY <4>1 DEF Leave
        <5> QED
          BY <1>5, <1>8, <4>1, <5>1
      <4> QED
        BY <2>b, <3>2, <4>2 DEF PlaceOK
    <3>3. CASE x # n /\ x # <<>> /\ Front(x) # n
      <4>1. node'[Front(x)] = node[Front(x)]
        BY <1>5, <2>a, <3>3
      <4> QED
        BY <2>0, <2>b, <3>3, <4>1 DEF PlaceOK
    <3> QED
      BY <3>1, <3>2, <3>3 DEF PlaceOK
  <2>5. RollOK(x)'
    <3>1. CASE x = n
      BY <1>5, <3>1 DEF RollOK
    <3>2. CASE x # n
      <4>1. ASSUME node[x].at \in {"again", "returned"}
            PROVE  {node'[r].status : r \in Children(x)} = {node[r].status : r \in Children(x)}
        <5>1. n \notin Children(x)
          BY <1>0, <1>4, <1>8, <4>1 DEF NodeOK, PlaceOK
        <5>2. \A r \in Children(x) : r \notin R
          BY <1>4, <1>6, <1>8, <3>2
        <5>3. \A r \in Children(x) : node'[r] = node[r]
          BY <1>4, <1>5, <1>8, <5>1, <5>2
        <5> QED
          BY <5>3
      <4> QED
        BY <2>0, <2>b, <3>2, <4>1 DEF RollOK
    <3> QED
      BY <3>1, <3>2
  <2>6. OrderOK(x)'
    <3>1. (node[x].at = "again" => node[x].status # "Solved")'
      BY <1>5, <2>0, <2>b DEF OrderOK
    <3>2. ASSUME x # <<>>, NEW r \in Children(Front(x))', Last(r) < Last(x)
          PROVE  /\ node'[Front(x)].at = "walking" /\ node'[x].at # "again" => node'[r].at = "returned"
                 /\ node'[Front(x)].at = "expanding" /\ ~should_parallel_expand(Front(x)) /\ node'[x].at # "new" =>
                      node'[r].at = "returned" /\ node'[r].status \notin AbortOn
      <4>1. CASE Front(x) = n
        BY <1>5, <4>1
      <4>2. CASE Front(x) # n
        <5>1. node'[Front(x)] = node[Front(x)] /\ r \in Children(Front(x)) /\ r \in DOMAIN node /\ r # <<>> /\
             Front(r) = Front(x)
          BY <1>4, <1>5, <2>a, <3>2, <4>2
        <5>2. r \notin R
          BY <1>6, <4>2, <5>1
        <5>3. CASE x = n
          <6>1. r # n
            <7>1. Last(n) \in Nat
              BY <1>3, <3>2, <5>3, Siblings2
            <7> QED
              BY <3>2, <5>3, <7>1
          <6>2. node'[r] = node[r]
            BY <1>5, <5>1, <5>2, <6>1
          <6> QED
            BY <1>0, <2>0, <3>2, <5>1, <5>3, <6>2 DEF OrderOK
        <5>4. CASE x # n /\ r # n
          <6>1. node'[r] = node[r]
            BY <1>5, <5>1, <5>2, <5>4
          <6> QED
            BY <2>0, <2>b, <3>2, <5>1, <5>4, <6>1 DEF OrderOK
        <5>5. CASE x # n /\ r = n
          BY <1>0, <1>5, <2>0, <2>b, <3>2, <5>1, <5>5 DEF OrderOK
        <5> QED
          BY <5>3, <5>4, <5>5
      <4> QED
        BY <4>1, <4>2
    <3> QED
      BY <1>2, <3>1, <3>2 DEF OrderOK
  <2>7. EvalOK(x)'
    <3>1. CASE x = n
      BY <1>0, <1>3, <1>5, <2>0, <3>1 DEF EvalOK, Finished
    <3>2. CASE x # n
      BY <1>0, <2>0, <2>b, <3>2 DEF EvalOK
    <3> QED
      BY <3>1, <3>2
  <2>8. OldOK(x)'
    <3>1. CASE x = n
      BY <1>5, <3>1 DEF OldOK, is_depth_limited
    <3>2. CASE x # n
      <4>1. ASSUME is_depth_limited(x)', Len(x) < max_depth, ~late'
            PROVE  \/ \E q \in DOMAIN node' : IsPrefix(q, x) /\ node'[q].at = "again"
                   \/ /\ setup.cut # "Bfs"
                      /\ \E r \in DOMAIN node' : node'[r].at = "returned" /\ node'[r].status = "Solved" /\
                         Earlier(r, x)
        <5>1. is_depth_limited(x) /\ ~late
          BY <1>0, <2>b, <3>2, <4>1 DEF is_depth_limited
        <5>2. CASE \E q \in DOMAIN node : IsPrefix(q, x) /\ node[q].at = "again"
          <6>1. PICK q \in DOMAIN node : IsPrefix(q, x) /\ node[q].at = "again"
            BY <5>2
          <6>2. q # n /\ q \notin R
            BY <1>0, <1>5, <6>1
          <6> QED
            BY <1>5, <6>1, <6>2
        <5>3. CASE setup.cut # "Bfs" /\ \E r \in DOMAIN node : node[r].at = "returned" /\
             node[r].status = "Solved" /\ Earlier(r, x)
          <6>1. PICK r \in DOMAIN node : node[r].at = "returned" /\ node[r].status = "Solved" /\ Earlier(r, x)
            BY <5>3
          <6>2. r # n /\ r \notin R
            BY <1>0, <1>5, <6>1
          <6> QED
            BY <1>5, <5>3, <6>1, <6>2
        <5> QED
          BY <2>0, <4>1, <5>1, <5>2, <5>3 DEF OldOK
      <4> QED
        BY <1>0, <4>1 DEF OldOK
    <3> QED
      BY <3>1, <3>2
  <2>9. LiveOK(x)'
    <3>1. CASE x = n
      BY <1>0, <1>5, <3>1 DEF LiveOK, is_depth_limited
    <3>2. CASE x # n
      BY <1>0, <1>5, <1>8, <2>0, <2>b, <3>2 DEF LiveOK, is_depth_limited
    <3> QED
      BY <3>1, <3>2
  <2> QED
    BY <2>1, <2>2, <2>3, <2>4, <2>5, <2>6, <2>7, <2>8, <2>9 DEF NodeOK
<1>9. HitOK'
  <2>1. PICK j \in DOMAIN node :
           /\ hit' \subseteq (hit \ Cases(n)) \cup {j} /\ hit \ Cases(n) \subseteq hit'
           /\ Cases(n) \cap hit # {} => j \in hit'
           /\ IsPrefix(j, n) /\ j \notin Cases(n)
           /\ j # <<>> => /\ Front(j) \in DOMAIN node /\ Front(j) # n
                          /\ node[Front(j)].at = "expanding" /\ should_parallel_expand(Front(j))
    BY LeaveHits
  <2>2. hit \subseteq DOMAIN node
    BY DEF Sound, Types, TypeOK
  <2>3. ASSUME NEW k \in hit', k # <<>> PROVE node'[Front(k)].at = "expanding" /\ should_parallel_expand(Front(k))
    <3>1. k \in DOMAIN node /\ k \notin Cases(n) /\ node[Front(k)].at = "expanding" /\
         should_parallel_expand(Front(k))
      BY <2>1, <2>2, <2>3 DEF Sound, TreeOK, HitOK
    <3>2. Front(k) \in DOMAIN node /\ Front(k) # n
      <4>1. Front(k) = n => k \in Cases(n)
        BY <1>3, <1>4, <2>3, <3>1, CasesAre DEF Sound
      <4> QED
        BY <1>4, <2>3, <3>1, <4>1 DEF NodeOK, ParentOK
    <3>3. Front(k) \notin R
      BY <1>5, <3>1
    <3> QED
      BY <1>5, <3>1, <3>2, <3>3
  <2>4. ASSUME NEW x \in DOMAIN node', is_depth_limited(x)', Len(x) >= max_depth PROVE \E k \in hit' : IsPrefix(k, x)
    <3>1. x \in DOMAIN node \ R /\ x # n
      BY <1>5, <1>6, <2>4 DEF is_depth_limited, Finished
    <3>2. is_depth_limited(x)
      BY <1>5, <2>4, <3>1 DEF is_depth_limited
    <3>3. PICK k \in hit : IsPrefix(k, x)
      BY <2>4, <3>1, <3>2 DEF Sound, TreeOK, HitOK
    <3>4. CASE k \notin Cases(n)
      BY <2>1, <3>3, <3>4
    <3>5. CASE k \in Cases(n)
      <4>1. j \in hit' /\ k \in Paths /\ k # <<>> /\ Front(k) = n /\ j \in Paths /\ x \in Paths
        BY <1>3, <1>4, <2>1, <3>1, <3>3, <3>5
      <4>2. IsPrefix(n, k)
        BY <4>1, PrefixOrder
      <4>3. IsPrefix(n, x)
        BY <1>3, <3>3, <4>1, <4>2, PrefixOrder
      <4>4. IsPrefix(j, x)
        BY <1>3, <2>1, <4>1, <4>3, PrefixOrder
      <4> QED
        BY <4>1, <4>4
    <3> QED
      BY <3>4, <3>5
  <2> QED
    BY <1>0, <1>2, <2>3, <2>4 DEF HitOK
<1>10. RoundOK'
  <2>1. ASSUME setup.cut \notin {"Dfs", "Bfs"}
        PROVE  /\ max_depth = Unlimited
               /\ \A x \in DOMAIN node' : node'[x].at \notin {"again", "walking"} /\ ~is_depth_limited(x)'
    <3>1. max_depth = Unlimited /\ \A x \in DOMAIN node : node[x].at \notin {"again", "walking"} /\
         ~is_depth_limited(x)
      BY <2>1 DEF Sound, TreeOK, RoundOK
    <3>2. ASSUME NEW x \in DOMAIN node' PROVE node'[x].at \notin {"again", "walking"} /\ ~is_depth_limited(x)'
      <4>1. CASE x \in K \/ x = n
        BY <1>5, <4>1 DEF is_depth_limited, Finished
      <4>2. CASE x \in DOMAIN node \ R /\ x # n
        <5>1. node'[x] = node[x]
          BY <1>5, <4>2
        <5>2. node[x].at \notin {"again", "walking"} /\ ~is_depth_limited(x)
          BY <3>1, <4>2
        <5> QED
          BY <5>1, <5>2 DEF is_depth_limited
      <4> QED
        BY <1>5, <3>2, <4>1, <4>2
    <3> QED
      BY <3>1, <3>2
  <2>3. /\ setup.cut = "Dfs" =>
            /\ max_depth >= InitialDepth
            /\ max_depth > InitialDepth => \A b \in Attacks : 2 * Len(b) >= max_depth
        /\ setup.cut = "Bfs" => max_depth >= 2 /\ \A b \in Attacks : b = <<>> \/ Len(b) >= Level
    BY DEF Sound, TreeOK, RoundOK
  <2>4. Level' = Level
    BY <1>0 DEF Level
  <2> QED
    BY <1>0, <1>2, <2>1, <2>3, <2>4 DEF RoundOK
<1>11. SorryOK'
  <2>1. ASSUME setup.cut = "AfterSorry", NEW k \in DOMAIN node', NEW x \in DOMAIN node', BadLeaf(k)', Earlier(k, x)
        PROVE  Untried(x)'
    <3>0. K = R /\ k \in DOMAIN node /\ x \in DOMAIN node
      BY <1>5, <1>6, <2>1
    <3>1. k # n
      BY <1>3, <1>5, <2>1, <3>0 DEF BadLeaf
    <3>2. ASSUME node[x].at = "new" PROVE Untried(x)'
      <4>1. CASE x \in R
        BY <1>5, <3>0, <4>1 DEF Untried
      <4>2. CASE x \notin R
        BY <1>0, <1>5, <3>0, <3>2, <4>2 DEF Untried
      <4> QED
        BY <4>1, <4>2
    <3>3. CASE k \in R
      <4>1. node[k].at # "returned"
        BY <1>6, <3>3
      <4>2. node[x].at = "new"
        BY <2>1, <3>0, <4>1, NewAfter DEF Sound, TreeOK, Tree
      <4> QED
        BY <3>2, <4>2
    <3>4. CASE k \notin R
      <4>1. BadLeaf(k)
        BY <1>4, <1>5, <2>1, <3>0, <3>1, <3>4 DEF BadLeaf
      <4>2. Untried(x)
        BY <2>1, <3>0, <4>1 DEF Sound, TreeOK, SorryOK
      <4>3. CASE node[x].at = "new"
        BY <3>2, <4>3
      <4>4. CASE node[x].at # "new"
        <5>1. node[x].method \in Finished \cup {"sorry"}
          BY <4>2, <4>4 DEF Untried
        <5>2. x # n /\ x \notin R
          BY <1>3, <1>6, <4>4, <5>1 DEF Finished
        <5> QED
          BY <1>5, <3>0, <5>1, <5>2 DEF Untried
      <4> QED
        BY <4>3, <4>4
    <3> QED
      BY <3>3, <3>4
  <2> QED
    BY <1>0, <2>1 DEF SorryOK
<1> QED
  BY <1>5, <1>7, <1>8, <1>9, <1>10, <1>11 DEF TreeOK

\* The walk has come to n, and t is where it puts n: back, or at its cases.
Walked(n, t) ==
  /\ node[n].at = "again" /\ ~is_depth_limited(n) /\ n \in DOMAIN world /\ n \in Paths
  /\ node[n].status \notin {"Solved", "Open"} /\ setup.cut \in {"Dfs", "Bfs"}
  /\ n # <<>> => /\ Front(n) \in DOMAIN node /\ node[Front(n)].at = "walking"
                 /\ \A r \in Children(Front(n)) : Last(r) < Last(n) => node[r].at = "returned"
  /\ \A c \in Children(n) : c \in DOMAIN node /\ c # <<>> /\ Front(c) = n /\ node[c].at = "returned" /\ c # n
                            /\ node[c].status # "Solved" /\ (n # <<>> => Front(n) # c)
  /\ Children(n) # {} => node[n].method = "step"
  /\ t \in {"returned", "walking"}
  /\ t = "returned" => node[n].status \in Finished \/ Children(n) = {}
  /\ t = "walking" => node[n].status \notin Finished /\ Children(n) # {}
  /\ DOMAIN node' = DOMAIN node /\ node' = [x \in DOMAIN node' |-> node'[x]]
  /\ \A x : Children(x)' = Children(x)
  /\ node'[n].at = t
  /\ \A x \in DOMAIN node : node'[x] \in Node /\ node'[x].method = node[x].method /\ node'[x].status = node[x].status
  /\ \A c \in Children(n) : node'[c].at = (IF t = "walking" THEN "again" ELSE "returned")
  /\ \A x \in DOMAIN node : x # n /\ x \notin Children(n) => node'[x].at = node[x].at

\* What a record with a new place is.
LEMMA PlaceOnly ==
  ASSUME NEW r \in Node, NEW a \in Places
  PROVE  /\ [r EXCEPT !.at = a] \in Node /\ [r EXCEPT !.at = a].at = a
         /\ [r EXCEPT !.at = a].method = r.method /\ [r EXCEPT !.at = a].status = r.status
<1>1. [r EXCEPT !.at = a] = [at |-> a, method |-> r.method, status |-> r.status]
  BY DEF Node
<1>2. r.method \in Methods /\ r.status \in Statuses
  BY DEF Node
<1> QED
  BY <1>1, <1>2 DEF Node

\* What the walk finds and does at a node.
LEMMA WalkEffect ==
  ASSUME Sound, NEW n \in DOMAIN node, Walk(n)
  PROVE  \E t : Walked(n, t)
<1>1. /\ node[n].at = "again" /\ ~is_depth_limited(n) /\ Reached(n)
      /\ IF node[n].status \in Finished \/ Children(n) = {}
           THEN node' = [node EXCEPT ![n].at = "returned"]
           ELSE node' = [m \in DOMAIN node |->
                           IF m = n THEN [node[m] EXCEPT !.at = "walking"]
                           ELSE IF m \in Children(n) THEN [node[m] EXCEPT !.at = "again"] ELSE node[m]]
  BY DEF Walk
<1>2. n \in DOMAIN world /\ n \in Paths /\ NodeOK(n) /\ DOMAIN node \subseteq DOMAIN world
  BY NodeTypes, WorldTree DEF Sound, TreeOK
<1>3. node[n].status \notin {"Solved", "Open"}
  BY <1>1, <1>2 DEF NodeOK, StateOK, OrderOK
<1>4. setup.cut \in {"Dfs", "Bfs"}
  BY <1>1 DEF Sound, TreeOK, RoundOK
<1>5. ASSUME n # <<>>
      PROVE  /\ Front(n) \in DOMAIN node /\ node[Front(n)].at = "walking"
             /\ \A r \in Children(Front(n)) : Last(r) < Last(n) => node[r].at = "returned"
  <2>1. Front(n) \in DOMAIN node /\ node[Front(n)].at # "expanding"
    BY <1>1, <1>2, <1>5 DEF NodeOK, ParentOK, PlaceOK
  <2> QED
    BY <1>1, <1>5, <2>1 DEF Reached
<1>6. \A c \in Children(n) : c \in DOMAIN node /\ c \in Paths /\ c # <<>> /\ Front(c) = n
  BY <1>2, CasesAre, WorldTree DEF Sound
<1>7. ASSUME NEW c \in Children(n)
      PROVE  node[c].at = "returned" /\ c # n /\ node[c].status # "Solved" /\ (n # <<>> => Front(n) # c)
  <2>1. node[c].at = "returned"
    BY <1>1, <1>6 DEF Sound, TreeOK, NodeOK, PlaceOK
  <2>2. node[n].status = rollup_status({node[m].status : m \in Children(n)})
    BY <1>1, <1>2 DEF NodeOK, RollOK
  <2>3. PICK U : U = {node[m].status : m \in Children(n)}
    OBVIOUS
  <2>4. "Solved" \notin U
    BY <1>3, <2>2, <2>3, RollUp
  <2>5. node[c].status # "Solved"
    BY <2>3, <2>4
  <2>6. n # <<>> => Front(n) # c
    <3>1. Len(c) = Len(n) + 1 /\ (n # <<>> => Len(n) = Len(Front(n)) + 1) /\ Len(n) \in Nat
      BY <1>2, <1>6, Siblings2, WorldTree DEF Sound
    <3>2. n # <<>> => Len(Front(n)) \in Nat
      BY <1>5, <1>2, WorldTree DEF Sound
    <3> QED
      BY <3>1, <3>2
  <2> QED
    BY <1>1, <2>1, <2>5, <2>6
<1>8. Children(n) # {} => node[n].method = "step"
  BY <1>6 DEF Sound, TreeOK, NodeOK, ParentOK
<1>9. \A x \in DOMAIN node : node[x] \in Node
  BY DEF Sound, Types, TypeOK
<1>10. CASE node[n].status \in Finished \/ Children(n) = {}
  <2>1. node' = [node EXCEPT ![n] = [node[n] EXCEPT !.at = "returned"]]
    BY <1>1, <1>10
  <2>2. /\ DOMAIN node' = DOMAIN node /\ node' = [x \in DOMAIN node' |-> node'[x]]
        /\ node'[n] = [node[n] EXCEPT !.at = "returned"] /\ \A x \in DOMAIN node : x # n => node'[x] = node[x]
    BY <2>1 DEF Sound, Types, TypeOK
  <2>3. /\ node'[n] \in Node /\ node'[n].at = "returned"
        /\ node'[n].method = node[n].method /\ node'[n].status = node[n].status
    <3>1. PICK r \in Node : r = node[n]
      BY <1>9
    <3>2. node'[n] = [r EXCEPT !.at = "returned"]
      BY <2>2, <3>1
    <3>3. "returned" \in Places
      BY DEF Places
    <3>4. /\ [r EXCEPT !.at = "returned"] \in Node /\ [r EXCEPT !.at = "returned"].at = "returned"
          /\ [r EXCEPT !.at = "returned"].method = r.method /\ [r EXCEPT !.at = "returned"].status = r.status
      BY <3>3, PlaceOnly
    <3> QED
      BY <3>1, <3>2, <3>4
  <2>4. \A x : Children(x)' = Children(x)
    BY <2>2 DEF Children
  <2>5. \A x \in DOMAIN node : node'[x] \in Node /\ node'[x].method = node[x].method /\
       node'[x].status = node[x].status
    BY <1>9, <2>2, <2>3
  <2>6. Walked(n, "returned")
    BY <1>1, <1>2, <1>3, <1>4, <1>5, <1>6, <1>7, <1>8, <1>10, <2>2, <2>3, <2>4, <2>5 DEF Walked
  <2> QED
    BY <2>6
<1>11. CASE ~(node[n].status \in Finished \/ Children(n) = {})
  <2>1. node' = [m \in DOMAIN node |->
                   IF m = n THEN [node[m] EXCEPT !.at = "walking"]
                   ELSE IF m \in Children(n) THEN [node[m] EXCEPT !.at = "again"] ELSE node[m]]
    BY <1>1, <1>11
  <2>2. /\ DOMAIN node' = DOMAIN node /\ node' = [x \in DOMAIN node' |-> node'[x]]
        /\ node'[n] = [node[n] EXCEPT !.at = "walking"]
        /\ \A c \in Children(n) : node'[c] = [node[c] EXCEPT !.at = "again"]
        /\ \A x \in DOMAIN node : x # n /\ x \notin Children(n) => node'[x] = node[x]
    BY <1>6, <1>7, <2>1
  <2>3. /\ node'[n] \in Node /\ node'[n].at = "walking"
        /\ node'[n].method = node[n].method /\ node'[n].status = node[n].status
    <3>1. PICK r \in Node : r = node[n]
      BY <1>9
    <3>2. node'[n] = [r EXCEPT !.at = "walking"]
      BY <2>2, <3>1
    <3>3. "walking" \in Places
      BY DEF Places
    <3>4. /\ [r EXCEPT !.at = "walking"] \in Node /\ [r EXCEPT !.at = "walking"].at = "walking"
          /\ [r EXCEPT !.at = "walking"].method = r.method /\ [r EXCEPT !.at = "walking"].status = r.status
      BY <3>3, PlaceOnly
    <3> QED
      BY <3>1, <3>2, <3>4
  <2>4. ASSUME NEW c \in Children(n)
        PROVE  /\ node'[c] \in Node /\ node'[c].at = "again"
               /\ node'[c].method = node[c].method /\ node'[c].status = node[c].status
    <3>1. PICK r \in Node : r = node[c]
      BY <1>6, <1>9, <2>4
    <3>2. node'[c] = [r EXCEPT !.at = "again"]
      BY <2>2, <2>4, <3>1
    <3>3. "again" \in Places
      BY DEF Places
    <3>4. /\ [r EXCEPT !.at = "again"] \in Node /\ [r EXCEPT !.at = "again"].at = "again"
          /\ [r EXCEPT !.at = "again"].method = r.method /\ [r EXCEPT !.at = "again"].status = r.status
      BY <3>3, PlaceOnly
    <3> QED
      BY <3>1, <3>2, <3>4
  <2>5. \A x : Children(x)' = Children(x)
    BY <2>2 DEF Children
  <2>6. \A x \in DOMAIN node : node'[x] \in Node /\ node'[x].method = node[x].method /\
       node'[x].status = node[x].status
    BY <1>9, <2>2, <2>3, <2>4
  <2>7. Walked(n, "walking")
    BY <1>1, <1>2, <1>3, <1>4, <1>5, <1>6, <1>7, <1>8, <1>11, <2>2, <2>3, <2>4, <2>5, <2>6 DEF Walked
  <2> QED
    BY <2>7
<1> QED
  BY <1>10, <1>11

\* A step of the walk keeps the types.
LEMMA WalkTypes ==
  ASSUME Sound, NEW n \in DOMAIN node, Walk(n)
  PROVE  Types'
<1>1. PICK t : Walked(n, t)
  BY WalkEffect
<1>2. DOMAIN node' = DOMAIN node /\ node' = [x \in DOMAIN node' |-> node'[x]] /\ \A x \in DOMAIN node :
     node'[x] \in Node
  BY <1>1 DEF Walked
<1>3. UNCHANGED <<world, setup, live, max_depth, hit, late, phase>>
  BY DEF Walk
<1> QED
  BY <1>2, <1>3 DEF Sound, Types, TypeOK

\* A step of the walk keeps the invariant.
LEMMA WalkKeeps ==
  ASSUME Sound, NEW n \in DOMAIN node, Walk(n)
  PROVE  TreeOK'
<1>0. /\ world' = world /\ setup' = setup /\ max_depth' = max_depth /\ phase' = phase /\ late' = late
      /\ live' = live /\ hit' = hit
  BY DEF Walk
<1>1. PICK t : Walked(n, t)
  BY WalkEffect
<1>2. /\ \A x : Cases(x)' = Cases(x) /\ (should_parallel_expand(x)' <=> should_parallel_expand(x))
      /\ AbortOn' = AbortOn /\ Attacks' = Attacks
  BY <1>0, Frame
<1>3. /\ node[n].at = "again" /\ ~is_depth_limited(n) /\ n \in DOMAIN world /\ n \in Paths
      /\ node[n].status \notin {"Solved", "Open"} /\ setup.cut \in {"Dfs", "Bfs"}
      /\ n # <<>> => /\ Front(n) \in DOMAIN node /\ node[Front(n)].at = "walking"
                     /\ \A r \in Children(Front(n)) : Last(r) < Last(n) => node[r].at = "returned"
      /\ \A c \in Children(n) : c \in DOMAIN node /\ c # <<>> /\ Front(c) = n /\ node[c].at = "returned" /\ c # n
                                /\ node[c].status # "Solved" /\ (n # <<>> => Front(n) # c)
      /\ Children(n) # {} => node[n].method = "step"
      /\ t \in {"returned", "walking"}
      /\ t = "returned" => node[n].status \in Finished \/ Children(n) = {}
      /\ t = "walking" => node[n].status \notin Finished /\ Children(n) # {}
  BY <1>1 DEF Walked
<1>4. /\ DOMAIN node \subseteq DOMAIN world
      /\ \A x \in DOMAIN node : x \in Paths /\ x \in DOMAIN world /\ NodeOK(x)
      /\ \A x \in DOMAIN node : \A y \in Children(x) : y \in DOMAIN node /\ y # <<>> /\ Front(y) = x /\ y # x
      /\ \A x \in DOMAIN node : node[x].status \in Statuses
  <2>1. \A x \in DOMAIN node : x \in Paths /\ x \in DOMAIN world /\ NodeOK(x)
    BY NodeTypes, WorldTree DEF Sound, TreeOK
  <2>2. \A x \in DOMAIN node : \A y \in Children(x) : y \in DOMAIN node /\ y # <<>> /\ Front(y) = x
    BY <2>1, CasesAre DEF Sound
  <2> QED
    BY <2>1, <2>2, Siblings2, NodeTypes DEF Sound
<1>5. /\ DOMAIN node' = DOMAIN node
      /\ \A x : Children(x)' = Children(x)
      /\ node'[n].at = t
      /\ \A x \in DOMAIN node : node'[x].method = node[x].method /\ node'[x].status = node[x].status
      /\ \A c \in Children(n) : node'[c].at = (IF t = "walking" THEN "again" ELSE "returned")
      /\ \A x \in DOMAIN node : x # n /\ x \notin Children(n) => node'[x].at = node[x].at
  BY <1>1 DEF Walked
<1>6. \A x \in DOMAIN node : is_depth_limited(x)' <=> is_depth_limited(x)
  BY <1>5 DEF is_depth_limited
<1>7. ASSUME NEW x \in DOMAIN node PROVE NodeOK(x)'
  <2>0. /\ ParentOK(x) /\ StateOK(x) /\ CasesOK(x) /\ PlaceOK(x) /\ RollOK(x) /\ OrderOK(x)
        /\ EvalOK(x) /\ OldOK(x) /\ LiveOK(x)
    BY <1>4, <1>7 DEF NodeOK
  <2>1. ParentOK(x)'
    BY <1>5, <1>7, <2>0 DEF ParentOK
  <2>2. StateOK(x)'
    <3>1. CASE x = n
      <4>1. node[n].status \in Finished \cup {"Sorry"} /\ node[n].method # "unset"
        BY <1>3, <1>4, <1>7, <2>0, <3>1 DEF StateOK, Statuses
      <4> QED
        BY <1>0, <1>3, <1>5, <1>7, <2>0, <3>1, <4>1 DEF StateOK
    <3>2. CASE x \in Children(n)
      BY <1>0, <1>3, <1>5, <1>7, <2>0, <3>2 DEF StateOK
    <3>3. CASE x # n /\ x \notin Children(n)
      BY <1>0, <1>5, <1>7, <2>0, <3>3 DEF StateOK
    <3> QED
      BY <3>1, <3>2, <3>3
  <2>3. CasesOK(x)'
    <3>1. CASE x = n /\ t = "walking"
      <4>1. ASSUME NEW c \in Cases(n) \ Children(n), node[n].method = "step" PROVE FALSE
        <5>1. \E s \in Children(n) : node[s].status = "Solved"
          BY <2>0, <3>1, <4>1 DEF CasesOK
        <5> QED
          BY <1>3, <5>1
      <4>2. node[n].method = "step" => Children(n) = Cases(n)
        BY <1>3, <4>1, CasesAre DEF Sound
      <4> QED
        BY <1>2, <1>3, <1>5, <3>1, <4>2 DEF CasesOK
    <3>2. CASE x # n \/ t = "returned"
      <4>1. \A r \in Children(x) : node[r].at = "returned" => r \in DOMAIN node /\ node'[r].at = "returned" /\
           node'[r].status = node[r].status
        <5>1. ASSUME NEW r \in Children(x), node[r].at = "returned"
              PROVE  r \in DOMAIN node /\ node'[r].at = "returned" /\ node'[r].status = node[r].status
          <6>1. r \in DOMAIN node /\ Front(r) = x /\ r # n
            BY <1>3, <1>4, <1>7, <5>1
          <6>2. CASE r \in Children(n)
            BY <1>3, <1>5, <3>2, <6>1, <6>2
          <6>3. CASE r \notin Children(n)
            BY <1>5, <5>1, <6>1, <6>3
          <6> QED
            BY <6>2, <6>3
        <5> QED
          BY <5>1
      <4>2. /\ node[x].at \in {"again", "returned"} => node'[x].at \in {"again", "returned"}
            /\ node'[x].at \in {"expanding", "walking"} => node'[x].at = node[x].at
        <5>1. CASE x = n
          BY <1>5, <3>2, <5>1
        <5>2. CASE x \in Children(n)
          BY <1>5, <5>2
        <5>3. CASE x # n /\ x \notin Children(n)
          BY <1>5, <1>7, <5>3
        <5> QED
          BY <5>1, <5>2, <5>3
      <4>3. node'[x].method = node[x].method /\ node'[x].status = node[x].status /\ Children(x)' = Children(x) /\
           Cases(x)' = Cases(x)
        BY <1>2, <1>5, <1>7
      <4> QED
        BY <1>0, <2>0, <4>1, <4>2, <4>3 DEF CasesOK
    <3> QED
      BY <1>3, <3>1, <3>2
  <2>4. PlaceOK(x)'
    <3>0. SUFFICES ASSUME x # <<>>
                   PROVE  /\ node'[Front(x)].at \in {"again", "returned"} => node'[x].at = "returned"
                          /\ node'[Front(x)].at = "expanding" => node'[x].at \in {"new", "expanding", "returned"}
                          /\ node'[Front(x)].at = "walking" => node'[x].at \in {"again", "walking", "expanding",
                             "returned"}
      BY DEF PlaceOK
    <3>1. Front(x) \in DOMAIN node
      BY <2>0, <3>0 DEF ParentOK
    <3>2. CASE x = n
      <4>1. node'[Front(n)].at = "walking"
        BY <1>3, <1>4, <1>5, <3>0, <3>2
      <4> QED
        BY <1>3, <1>5, <3>2, <4>1
    <3>3. CASE x \in Children(n)
      BY <1>3, <1>5, <3>3
    <3>4. CASE x # n /\ x \notin Children(n)
      <4>0. Front(x) # n
        BY <1>3, <1>4, <1>7, <3>0, <3>4, CasesAre DEF Sound
      <4>1. node'[x].at = node[x].at
        BY <1>5, <1>7, <3>4
      <4>2. CASE Front(x) \in Children(n)
        BY <1>3, <1>5, <2>0, <3>0, <4>1, <4>2 DEF PlaceOK
      <4>3. CASE Front(x) \notin Children(n)
        <5>1. node'[Front(x)].at = node[Front(x)].at
          BY <1>5, <3>1, <4>0, <4>3
        <5> QED
          BY <2>0, <3>0, <4>1, <5>1 DEF PlaceOK
      <4> QED
        BY <4>2, <4>3
    <3> QED
      BY <3>2, <3>3, <3>4
  <2>5. RollOK(x)'
    <3>1. \A r \in Children(x) : node'[r].status = node[r].status
      BY <1>4, <1>5, <1>7
    <3>2. {node'[r].status : r \in Children(x)} = {node[r].status : r \in Children(x)}
      BY <3>1
    <3>3. node'[x].at \in {"again", "returned"} => node[x].at \in {"again", "returned"}
      BY <1>3, <1>5, <1>7
    <3> QED
      BY <1>5, <1>7, <2>0, <3>2, <3>3 DEF RollOK
  <2>6. OrderOK(x)'
    <3>1. node'[x].at = "again" => node'[x].status # "Solved"
      <4>1. CASE x = n \/ x \in Children(n)
        BY <1>3, <1>5, <1>7, <4>1
      <4>2. CASE x # n /\ x \notin Children(n)
        BY <1>5, <1>7, <2>0, <4>2 DEF OrderOK
      <4> QED
        BY <4>1, <4>2
    <3>2. ASSUME x # <<>>, NEW r \in Children(Front(x)), Last(r) < Last(x)
          PROVE  /\ node'[Front(x)].at = "walking" /\ node'[x].at # "again" => node'[r].at = "returned"
                 /\ node'[Front(x)].at = "expanding" /\ ~should_parallel_expand(Front(x)) /\ node'[x].at # "new" =>
                      node'[r].at = "returned" /\ node'[r].status \notin AbortOn
      <4>0. Front(x) \in DOMAIN node /\ r \in DOMAIN node /\ r # <<>> /\ Front(r) = Front(x)
        BY <1>4, <2>0, <3>2 DEF ParentOK
      <4>1. CASE x = n
        <5>1. r # n
          <6>1. Last(n) \in Nat
            BY <1>3, <3>2, <4>1, Siblings2
          <6> QED
            BY <3>2, <4>1, <6>1
        <5>2. r \notin Children(n)
          BY <1>3, <1>4, <3>2, <4>0, <4>1
        <5>3. node'[r].at = "returned" /\ node'[Front(x)].at = "walking"
          BY <1>3, <1>4, <1>5, <3>2, <4>0, <4>1, <5>1, <5>2
        <5> QED
          BY <5>3
      <4>2. CASE x \in Children(n)
        BY <1>3, <1>5, <4>2
      <4>3. CASE x # n /\ x \notin Children(n)
        <5>0. Front(x) # n
          BY <1>3, <1>4, <1>7, <3>2, <4>3, CasesAre DEF Sound
        <5>1. CASE Front(x) \in Children(n)
          BY <1>3, <1>5, <5>1
        <5>2. CASE Front(x) \notin Children(n)
          <6>1. node'[Front(x)].at = node[Front(x)].at /\ node'[x].at = node[x].at /\ node'[r].status = node[r].status
            BY <1>5, <1>7, <4>0, <4>3, <5>0, <5>2
          <6>2. node[r].at = "returned" => node'[r].at = "returned"
            BY <1>3, <1>5, <4>0, <5>0
          <6> QED
            BY <2>0, <3>2, <6>1, <6>2 DEF OrderOK
        <5> QED
          BY <5>1, <5>2
      <4> QED
        BY <4>1, <4>2, <4>3
    <3> QED
      BY <1>2, <1>5, <3>1, <3>2 DEF OrderOK
  <2>7. EvalOK(x)'
    BY <1>0, <1>5, <1>7, <2>0 DEF EvalOK
  <2>8. OldOK(x)'
    <3>1. ASSUME is_depth_limited(x)', Len(x) < max_depth, ~late'
          PROVE  \/ \E q \in DOMAIN node : IsPrefix(q, x) /\ node'[q].at = "again"
                 \/ /\ setup.cut # "Bfs"
                    /\ \E r \in DOMAIN node : node'[r].at = "returned" /\ node'[r].status = "Solved" /\ Earlier(r, x)
      <4>1. is_depth_limited(x) /\ ~late /\ x # n
        BY <1>0, <1>3, <1>6, <1>7, <3>1
      <4>2. CASE \E q \in DOMAIN node : IsPrefix(q, x) /\ node[q].at = "again"
        <5>1. PICK q \in DOMAIN node : IsPrefix(q, x) /\ node[q].at = "again"
          BY <4>2
        <5>2. CASE q # n
          <6>1. node'[q].at = "again"
            BY <1>3, <1>5, <5>1, <5>2
          <6> QED
            BY <5>1, <6>1
        <5>3. CASE q = n /\ t = "walking"
          <6>1. PICK c \in Children(n) : IsPrefix(c, x)
            BY <1>3, <1>4, <1>7, <4>1, <5>1, <5>3, Ancestors DEF Sound, NodeOK
          <6> QED
            BY <1>3, <1>5, <5>3, <6>1
        <5>4. CASE q = n /\ t = "returned"
          <6>1. Children(n) # {}
            BY <1>3, <1>4, <1>7, <4>1, <5>1, <5>4, Ancestors DEF Sound, NodeOK
          <6>2. PICK T : T = {"Solved", "Sorry"}
            OBVIOUS
          <6>3. node[x].status \in T /\ T \in Tops
            BY <4>1, <6>2 DEF is_depth_limited, Tops
          <6>4. node[n].status \in T
            BY <1>3, <1>7, <5>1, <5>4, <6>3, StatusUp DEF Sound, TreeOK, Tree
          <6> QED
            BY <1>3, <5>4, <6>1, <6>2, <6>4 DEF Finished
        <5> QED
          BY <1>3, <5>2, <5>3, <5>4
      <4>3. CASE setup.cut # "Bfs" /\ \E r \in DOMAIN node : node[r].at = "returned" /\ node[r].status = "Solved" /\
           Earlier(r, x)
        <5>1. PICK r \in DOMAIN node : node[r].at = "returned" /\ node[r].status = "Solved" /\ Earlier(r, x)
          BY <4>3
        <5>2. r # n /\ r \notin Children(n)
          BY <1>3, <5>1
        <5> QED
          BY <1>5, <4>3, <5>1, <5>2
      <4> QED
        BY <2>0, <3>1, <4>1, <4>2, <4>3 DEF OldOK
    <3> QED
      BY <1>0, <1>5, <3>1 DEF OldOK
  <2>9. LiveOK(x)'
    <3>1. node'[x].at = "new" => node[x].at = "new"
      BY <1>3, <1>5, <1>7
    <3> QED
      BY <1>0, <1>5, <1>6, <1>7, <2>0, <3>1 DEF LiveOK
  <2> QED
    BY <2>1, <2>2, <2>3, <2>4, <2>5, <2>6, <2>7, <2>8, <2>9 DEF NodeOK
<1>8. HitOK'
  <2>1. hit \subseteq DOMAIN node
    BY DEF Sound, Types, TypeOK
  <2>2. ASSUME NEW k \in hit, k # <<>> PROVE node'[Front(k)].at = "expanding" /\ should_parallel_expand(Front(k))
    <3>1. k \in DOMAIN node /\ node[Front(k)].at = "expanding" /\ should_parallel_expand(Front(k))
      BY <2>1, <2>2 DEF Sound, TreeOK, HitOK
    <3>2. Front(k) \in DOMAIN node /\ Front(k) # n /\ Front(k) \notin Children(n)
      BY <1>3, <1>4, <2>2, <3>1 DEF NodeOK, ParentOK
    <3> QED
      BY <1>5, <3>1, <3>2
  <2>3. ASSUME NEW x \in DOMAIN node, is_depth_limited(x)', Len(x) >= max_depth PROVE \E k \in hit : IsPrefix(k, x)
    BY <1>6, <2>3 DEF Sound, TreeOK, HitOK
  <2> QED
    BY <1>0, <1>2, <1>5, <2>2, <2>3 DEF HitOK
<1>9. RoundOK'
  <2>1. /\ setup.cut = "Dfs" =>
            /\ max_depth >= InitialDepth
            /\ max_depth > InitialDepth => \A b \in Attacks : 2 * Len(b) >= max_depth
        /\ setup.cut = "Bfs" => max_depth >= 2 /\ \A b \in Attacks : b = <<>> \/ Len(b) >= Level
    BY DEF Sound, TreeOK, RoundOK
  <2>2. Level' = Level
    BY <1>0 DEF Level
  <2> QED
    BY <1>0, <1>2, <1>3, <2>1, <2>2 DEF RoundOK
<1>10. SorryOK'
  BY <1>0, <1>3 DEF SorryOK
<1> QED
  BY <1>5, <1>7, <1>8, <1>9, <1>10 DEF TreeOK

\* The walk over the cases of n ends: u is the status it rolls up.
WalkLeft(n, u) ==
  /\ node[n].at = "walking" /\ setup.cut \in {"Dfs", "Bfs"}
  /\ \A c \in Children(n) : node[c].at \in {"again", "returned"}
  /\ (\E c \in Children(n) : node[c].at = "again") => Skips(n)
  /\ DOMAIN node' = DOMAIN node /\ node' = [x \in DOMAIN node' |-> node'[x]]
  /\ \A x : Children(x)' = Children(x)
  /\ \A x \in DOMAIN node : node'[x] \in Node /\ node'[x].method = node[x].method
  /\ node'[n].at = "returned" /\ node'[n].status = u
  /\ u = rollup_status({node[c].status : c \in Children(n)}) /\ u \in Finished \cup {"Sorry"}
  /\ \A c \in Children(n) : node'[c].at = "returned"
  /\ \A x \in DOMAIN node : x # n => node'[x].status = node[x].status
  /\ \A x \in DOMAIN node : x # n /\ x \notin Children(n) => node'[x].at = node[x].at

\* What the end of the walk finds and changes.
LEMMA LeaveWalkEffect ==
  ASSUME Sound, NEW n \in DOMAIN node, LeaveWalk(n)
  PROVE  \E u : WalkLeft(n, u)
<1>1. PICK u : u = rollup_status({node[c].status : c \in Children(n)})
  OBVIOUS
<1>2. /\ node[n].at = "walking" /\ \A c \in Children(n) : node[c].at \in {"again", "returned"}
      /\ (\E c \in Children(n) : node[c].at = "again") => Skips(n)
      /\ node' = [m \in DOMAIN node |->
                    IF m = n THEN Returned(node[n].method, u)
                    ELSE IF m \in Children(n) THEN [node[m] EXCEPT !.at = "returned"] ELSE node[m]]
  BY <1>1 DEF LeaveWalk
<1>3. /\ n \in DOMAIN world /\ Children(n) = Cases(n) /\ Cases(n) # {}
      /\ \A c \in Cases(n) : c \in DOMAIN node /\ c # n
  BY <1>2, Expanding
<1>4. setup.cut \in {"Dfs", "Bfs"}
  BY <1>2 DEF Sound, TreeOK, RoundOK
<1>5. \A x \in DOMAIN node : node[x] \in Node /\ node[x].method \in Methods
  BY NodeTypes DEF Sound, Types, TypeOK
<1>6. u \in Finished \cup {"Sorry"} /\ u \in Statuses
  <2>1. u \in {"Solved", "Sorry", "Unfinishable", "Contradictory"}
    BY <1>1, RollUp
  <2> QED
    BY <2>1 DEF Finished, Statuses
<1>7. /\ DOMAIN node' = DOMAIN node /\ node' = [x \in DOMAIN node' |-> node'[x]]
      /\ node'[n] = Returned(node[n].method, u)
      /\ \A c \in Children(n) : node'[c] = [node[c] EXCEPT !.at = "returned"]
      /\ \A x \in DOMAIN node : x # n /\ x \notin Children(n) => node'[x] = node[x]
  BY <1>2, <1>3
<1>8. \A x : Children(x)' = Children(x)
  BY <1>7 DEF Children
<1>9. node'[n] \in Node /\ node'[n].at = "returned" /\ node'[n].method = node[n].method /\ node'[n].status = u
  BY <1>5, <1>6, <1>7 DEF Returned, Node, Places
<1>10. ASSUME NEW c \in Children(n)
       PROVE  /\ node'[c] \in Node /\ node'[c].at = "returned"
              /\ node'[c].method = node[c].method /\ node'[c].status = node[c].status
  <2>1. PICK r \in Node : r = node[c]
    BY <1>3, <1>5, <1>10
  <2>2. node'[c] = [r EXCEPT !.at = "returned"]
    BY <1>7, <1>10, <2>1
  <2>3. "returned" \in Places
    BY DEF Places
  <2>4. /\ [r EXCEPT !.at = "returned"] \in Node /\ [r EXCEPT !.at = "returned"].at = "returned"
        /\ [r EXCEPT !.at = "returned"].method = r.method /\ [r EXCEPT !.at = "returned"].status = r.status
    BY <2>3, PlaceOnly
  <2> QED
    BY <2>1, <2>2, <2>4
<1>11. /\ \A x \in DOMAIN node : node'[x] \in Node /\ node'[x].method = node[x].method
       /\ \A x \in DOMAIN node : x # n => node'[x].status = node[x].status
       /\ \A x \in DOMAIN node : x # n /\ x \notin Children(n) => node'[x].at = node[x].at
  BY <1>5, <1>7, <1>9, <1>10
<1>12. WalkLeft(n, u)
  BY <1>1, <1>2, <1>4, <1>6, <1>7, <1>8, <1>9, <1>10, <1>11 DEF WalkLeft
<1> QED
  BY <1>12

\* The end of the walk keeps the types.
LEMMA LeaveWalkTypes ==
  ASSUME Sound, NEW n \in DOMAIN node, LeaveWalk(n)
  PROVE  Types'
<1>1. PICK u : WalkLeft(n, u)
  BY LeaveWalkEffect
<1>2. DOMAIN node' = DOMAIN node /\ node' = [x \in DOMAIN node' |-> node'[x]] /\ \A x \in DOMAIN node :
     node'[x] \in Node
  BY <1>1 DEF WalkLeft
<1>3. UNCHANGED <<world, setup, live, max_depth, hit, late, phase>>
  BY DEF LeaveWalk
<1> QED
  BY <1>2, <1>3 DEF Sound, Types, TypeOK

\* The end of the walk keeps the invariant.
LEMMA LeaveWalkKeeps ==
  ASSUME Sound, NEW n \in DOMAIN node, LeaveWalk(n)
  PROVE  TreeOK'
<1>0. /\ world' = world /\ setup' = setup /\ max_depth' = max_depth /\ phase' = phase /\ late' = late
      /\ live' = live /\ hit' = hit
  BY DEF LeaveWalk
<1>1. PICK u : WalkLeft(n, u)
  BY LeaveWalkEffect
<1>2. /\ \A x : Cases(x)' = Cases(x) /\ (should_parallel_expand(x)' <=> should_parallel_expand(x))
      /\ AbortOn' = AbortOn /\ Attacks' = Attacks
  BY <1>0, Frame
<1>3. /\ node[n].at = "walking" /\ setup.cut \in {"Dfs", "Bfs"}
      /\ \A c \in Children(n) : node[c].at \in {"again", "returned"}
      /\ (\E c \in Children(n) : node[c].at = "again") => Skips(n)
      /\ DOMAIN node' = DOMAIN node
      /\ \A x : Children(x)' = Children(x)
      /\ \A x \in DOMAIN node : node'[x].method = node[x].method
      /\ node'[n].at = "returned" /\ node'[n].status = u
      /\ u = rollup_status({node[c].status : c \in Children(n)}) /\ u \in Finished \cup {"Sorry"}
      /\ \A c \in Children(n) : node'[c].at = "returned"
      /\ \A x \in DOMAIN node : x # n => node'[x].status = node[x].status
      /\ \A x \in DOMAIN node : x # n /\ x \notin Children(n) => node'[x].at = node[x].at
  BY <1>1 DEF WalkLeft
<1>4. /\ DOMAIN node \subseteq DOMAIN world
      /\ \A x \in DOMAIN node : x \in Paths /\ x \in DOMAIN world /\ NodeOK(x)
      /\ \A x \in DOMAIN node : \A y \in Children(x) : y \in DOMAIN node /\ y # <<>> /\ Front(y) = x /\ y # x
      /\ \A x \in DOMAIN node : x # <<>> => Front(x) \in DOMAIN node /\ x \in Children(Front(x)) /\ Front(x) # x
      /\ \A x \in DOMAIN node : node[x].status \in Statuses
  <2>1. \A x \in DOMAIN node : x \in Paths /\ x \in DOMAIN world /\ NodeOK(x)
    BY NodeTypes, WorldTree DEF Sound, TreeOK
  <2>2. \A x \in DOMAIN node : \A y \in Children(x) : y \in DOMAIN node /\ y # <<>> /\ Front(y) = x
    BY <2>1, CasesAre DEF Sound
  <2>3. \A x \in DOMAIN node : x # <<>> => Front(x) \in DOMAIN node
    BY <2>1 DEF NodeOK, ParentOK
  <2>4. \A x \in DOMAIN node : x # <<>> => x \in Children(Front(x))
    BY <2>1, <2>3, CasesAre DEF Sound
  <2> QED
    BY <2>1, <2>2, <2>3, <2>4, Siblings2, NodeTypes DEF Sound
<1>5. /\ Children(n) = Cases(n) /\ Children(n) # {} /\ node[n].method = "step"
      /\ \A c \in Children(n) : c \in DOMAIN node /\ c # n /\ c \notin Children(c) /\ Front(c) = n /\ c # <<>> /\
         Last(c) \in Nat
  BY <1>3, Expanding, CasesAre DEF Sound
<1>6. \A x \in DOMAIN node : node[x].method = "depth limit" => node[x].status = "Sorry" /\ x # n
  BY <1>4, <1>5 DEF NodeOK, StateOK, Sorries
<1>7. \A x \in DOMAIN node : is_depth_limited(x)' <=> is_depth_limited(x)
  BY <1>3, <1>6 DEF is_depth_limited
<1>8. ASSUME NEW q \in Children(n), node[q].at = "again", ~late
      PROVE  /\ setup.cut # "Bfs"
             /\ \E r \in DOMAIN node : /\ node'[r].at = "returned" /\ node'[r].status = "Solved"
                                       /\ Siblings(r, q)
  <2>1. setup.cut # "Bfs" /\ \E r \in Children(n) : node[r].status = "Solved"
    BY <1>3, <1>8 DEF Skips
  <2>2. PICK r \in Children(n) : node[r].status = "Solved"
    BY <2>1
  <2>3. node[r].at = "returned" /\ r \in DOMAIN node /\ q \in DOMAIN node /\ r # q
    BY <1>3, <1>4, <1>5, <1>8, <2>2 DEF NodeOK, OrderOK
  <2>4. ~(Last(q) < Last(r))
    <3>1. OrderOK(r)
      BY <1>4, <2>3 DEF NodeOK
    <3>2. r # <<>> /\ Front(r) = n
      BY <1>5
    <3>3. \A s \in Children(n) : Last(s) < Last(r) =>
            (node[n].at = "walking" /\ node[r].at # "again" => node[s].at = "returned")
      BY <3>1, <3>2 DEF OrderOK
    <3> QED
      BY <1>3, <1>8, <2>3, <3>3
  <2>5. Last(q) # Last(r)
    BY <1>4, <1>5, <2>3, Siblings2
  <2>6. Last(r) < Last(q)
    BY <1>5, <2>4, <2>5
  <2>7. Siblings(r, q)
    BY <1>5, <2>6 DEF Siblings
  <2>8. node'[r].at = "returned" /\ node'[r].status = "Solved"
    BY <1>3, <1>5, <2>2
  <2> QED
    BY <2>1, <2>3, <2>7, <2>8
<1>9. ASSUME NEW x \in DOMAIN node PROVE NodeOK(x)'
  <2>0. /\ ParentOK(x) /\ StateOK(x) /\ CasesOK(x) /\ PlaceOK(x) /\ RollOK(x) /\ OrderOK(x)
        /\ EvalOK(x) /\ OldOK(x) /\ LiveOK(x)
    BY <1>4, <1>9 DEF NodeOK
  <2>1. ParentOK(x)'
    BY <1>3, <1>9, <2>0 DEF ParentOK
  <2>2. StateOK(x)'
    <3>1. CASE x = n
      <4>1. "step" \notin Finished \cup Sorries \cup {"unset"} /\ "Open" \notin Finished \cup {"Sorry"}
        BY DEF Finished, Sorries
      <4> QED
        BY <1>0, <1>3, <1>5, <1>9, <2>0, <3>1, <4>1 DEF StateOK
    <3>2. CASE x \in Children(n)
      BY <1>0, <1>3, <1>5, <1>9, <2>0, <3>2 DEF StateOK
    <3>3. CASE x # n /\ x \notin Children(n)
      BY <1>0, <1>3, <1>9, <2>0, <3>3 DEF StateOK
    <3> QED
      BY <3>1, <3>2, <3>3
  <2>3. CasesOK(x)'
    <3>1. CASE x = n
      BY <1>2, <1>3, <1>5, <3>1 DEF CasesOK
    <3>2. CASE x # n
      <4>1. \A r \in Children(x) : node[r].at = "returned" /\ node[r].status = "Solved" =>
              node'[r].at = "returned" /\ node'[r].status = "Solved"
        <5>1. ASSUME NEW r \in Children(x), node[r].at = "returned", node[r].status = "Solved"
              PROVE  node'[r].at = "returned" /\ node'[r].status = "Solved"
          <6>1. r \in DOMAIN node /\ r # n
            BY <1>3, <1>4, <1>9, <5>1
          <6> QED
            BY <1>3, <5>1, <6>1
        <5> QED
          BY <5>1
      <4>2. /\ node[x].at \in {"again", "returned"} => node'[x].at \in {"again", "returned"}
            /\ node'[x].at \in {"expanding", "walking"} => node'[x].at = node[x].at
        BY <1>3, <1>9, <3>2
      <4>3. node'[x].method = node[x].method /\ node'[x].status = node[x].status /\ Children(x)' = Children(x) /\
           Cases(x)' = Cases(x)
        BY <1>2, <1>3, <1>9, <3>2
      <4> QED
        BY <1>0, <2>0, <4>1, <4>2, <4>3 DEF CasesOK
    <3> QED
      BY <3>1, <3>2
  <2>4. PlaceOK(x)'
    <3>0. SUFFICES ASSUME x # <<>>
                   PROVE  /\ node'[Front(x)].at \in {"again", "returned"} => node'[x].at = "returned"
                          /\ node'[Front(x)].at = "expanding" => node'[x].at \in {"new", "expanding", "returned"}
                          /\ node'[Front(x)].at = "walking" => node'[x].at \in {"again", "walking", "expanding",
                             "returned"}
      BY DEF PlaceOK
    <3>1. Front(x) \in DOMAIN node /\ x \in Children(Front(x)) /\ Front(x) # x
      BY <1>4, <1>9, <3>0
    <3>2. CASE x = n
      BY <1>3, <1>5, <2>0, <3>0, <3>1, <3>2 DEF PlaceOK
    <3>3. CASE x \in Children(n)
      BY <1>3, <3>3
    <3>4. CASE x # n /\ x \notin Children(n)
      <4>1. node'[x].at = node[x].at /\ Front(x) # n
        BY <1>3, <1>9, <3>1, <3>4
      <4>2. CASE Front(x) \in Children(n)
        <5>1. node[x].at = "returned"
          BY <1>3, <2>0, <3>0, <4>2 DEF PlaceOK
        <5> QED
          BY <4>1, <5>1
      <4>3. CASE Front(x) \notin Children(n)
        <5>1. node'[Front(x)].at = node[Front(x)].at
          BY <1>3, <3>1, <4>1, <4>3
        <5> QED
          BY <2>0, <3>0, <4>1, <5>1 DEF PlaceOK
      <4> QED
        BY <4>2, <4>3
    <3> QED
      BY <3>2, <3>3, <3>4
  <2>5. RollOK(x)'
    <3>1. CASE x = n
      <4>1. \A r \in Children(n) : node'[r].status = node[r].status
        BY <1>3, <1>5
      <4>2. {node'[r].status : r \in Children(n)} = {node[r].status : r \in Children(n)}
        BY <4>1
      <4> QED
        BY <1>3, <3>1, <4>2 DEF RollOK
    <3>2. CASE x # n
      <4>1. node'[x].at \in {"again", "returned"} => node[x].at \in {"again", "returned"}
        BY <1>3, <1>9, <3>2
      <4>2. SUFFICES ASSUME node[x].at \in {"again", "returned"}, Children(x) # {}
                     PROVE  node'[x].status = rollup_status({node'[r].status : r \in Children(x)})
        BY <1>3, <4>1 DEF RollOK
      <4>3. \A r \in Children(x) : r # n /\ r \in DOMAIN node
        <5>1. ASSUME NEW r \in Children(x), r = n PROVE FALSE
          <6>1. n # <<>> /\ Front(n) = x
            BY <1>4, <1>9, <5>1
          <6> QED
            BY <1>3, <1>4, <4>2, <6>1 DEF NodeOK, PlaceOK
        <5> QED
          BY <1>4, <1>9, <5>1
      <4>4. {node'[r].status : r \in Children(x)} = {node[r].status : r \in Children(x)}
        BY <1>3, <4>3
      <4> QED
        BY <1>3, <1>9, <2>0, <3>2, <4>2, <4>4 DEF RollOK
    <3> QED
      BY <3>1, <3>2
  <2>6. OrderOK(x)'
    <3>1. node'[x].at = "again" => node'[x].status # "Solved"
      BY <1>3, <1>9, <2>0 DEF OrderOK
    <3>2. ASSUME x # <<>>, NEW r \in Children(Front(x)), Last(r) < Last(x)
          PROVE  /\ node'[Front(x)].at = "walking" /\ node'[x].at # "again" => node'[r].at = "returned"
                 /\ node'[Front(x)].at = "expanding" /\ ~should_parallel_expand(Front(x)) /\ node'[x].at # "new" =>
                      node'[r].at = "returned" /\ node'[r].status \notin AbortOn
      <4>0. Front(x) \in DOMAIN node /\ x \in Children(Front(x)) /\ r \in DOMAIN node /\ Front(r) = Front(x)
        BY <1>4, <1>9, <3>2
      <4>1. CASE Front(x) = n \/ Front(x) \in Children(n)
        BY <1>3, <1>5, <4>1
      <4>2. CASE Front(x) # n /\ Front(x) \notin Children(n)
        <5>1. node'[Front(x)].at = node[Front(x)].at
          BY <1>3, <4>0, <4>2
        <5>2. x \notin Children(n) /\ r \notin Children(n)
          BY <1>5, <4>0, <4>2
        <5>3. CASE x = n
          <6>1. r # n
            BY <1>4, <3>2, <5>3, Siblings2
          <6>2. node'[r].at = node[r].at /\ node'[r].status = node[r].status
            BY <1>3, <4>0, <5>2, <6>1
          <6>3. /\ node[Front(n)].at = "walking" => node[r].at = "returned"
                /\ node[Front(n)].at = "expanding" /\ ~should_parallel_expand(Front(n)) =>
                     node[r].at = "returned" /\ node[r].status \notin AbortOn
            BY <1>3, <2>0, <3>2, <5>3 DEF OrderOK
          <6> QED
            BY <5>1, <5>3, <6>2, <6>3
        <5>4. CASE x # n /\ r # n
          <6>1. node'[r].at = node[r].at /\ node'[r].status = node[r].status /\ node'[x].at = node[x].at
            BY <1>3, <1>9, <4>0, <5>2, <5>4
          <6> QED
            BY <2>0, <3>2, <5>1, <6>1 DEF OrderOK
        <5>5. CASE x # n /\ r = n
          <6>1. node'[x].at = node[x].at
            BY <1>3, <1>9, <5>2, <5>5
          <6>2. ~(node[Front(x)].at = "expanding")
            BY <1>3, <1>4, <1>9, <3>2, <4>0, <5>5 DEF NodeOK, PlaceOK
          <6> QED
            BY <1>3, <5>1, <5>5, <6>2
        <5> QED
          BY <5>3, <5>4, <5>5
      <4> QED
        BY <4>1, <4>2
    <3> QED
      BY <1>2, <1>3, <3>1, <3>2 DEF OrderOK
  <2>7. EvalOK(x)'
    BY <1>0, <1>3, <1>9, <2>0 DEF EvalOK
  <2>8. OldOK(x)'
    <3>1. ASSUME is_depth_limited(x)', Len(x) < max_depth, ~late'
          PROVE  \/ \E q \in DOMAIN node : IsPrefix(q, x) /\ node'[q].at = "again"
                 \/ /\ setup.cut # "Bfs"
                    /\ \E r \in DOMAIN node : node'[r].at = "returned" /\ node'[r].status = "Solved" /\ Earlier(r, x)
      <4>1. is_depth_limited(x) /\ ~late
        BY <1>0, <1>7, <1>9, <3>1
      <4>2. CASE \E q \in DOMAIN node : IsPrefix(q, x) /\ node[q].at = "again"
        <5>1. PICK q \in DOMAIN node : IsPrefix(q, x) /\ node[q].at = "again"
          BY <4>2
        <5>2. CASE q \notin Children(n)
          <6>1. node'[q].at = "again"
            BY <1>3, <5>1, <5>2
          <6> QED
            BY <5>1, <6>1
        <5>3. CASE q \in Children(n)
          <6>1. PICK r \in DOMAIN node : node'[r].at = "returned" /\ node'[r].status = "Solved" /\ Siblings(r, q)
            BY <1>8, <4>1, <5>1, <5>3
          <6>2. setup.cut # "Bfs"
            BY <1>8, <4>1, <5>1, <5>3
          <6>3. IsPrefix(r, r)
            BY <1>4, PrefixOrder
          <6>4. Earlier(r, x)
            BY <1>4, <1>9, <5>1, <6>1, <6>3, EarlierIs
          <6> QED
            BY <6>1, <6>2, <6>4
        <5> QED
          BY <5>2, <5>3
      <4>3. CASE setup.cut # "Bfs" /\ \E r \in DOMAIN node : node[r].at = "returned" /\ node[r].status = "Solved" /\
           Earlier(r, x)
        <5>1. PICK r \in DOMAIN node : node[r].at = "returned" /\ node[r].status = "Solved" /\ Earlier(r, x)
          BY <4>3
        <5>2. r # n /\ node'[r].at = "returned" /\ node'[r].status = "Solved"
          BY <1>3, <5>1
        <5> QED
          BY <4>3, <5>1, <5>2
      <4> QED
        BY <2>0, <3>1, <4>1, <4>2, <4>3 DEF OldOK
    <3> QED
      BY <1>0, <1>3, <3>1 DEF OldOK
  <2>9. LiveOK(x)'
    <3>1. node'[x].at = "new" => node[x].at = "new"
      BY <1>3, <1>9
    <3> QED
      BY <1>0, <1>3, <1>7, <1>9, <2>0, <3>1 DEF LiveOK
  <2> QED
    BY <2>1, <2>2, <2>3, <2>4, <2>5, <2>6, <2>7, <2>8, <2>9 DEF NodeOK
<1>10. HitOK'
  <2>1. hit \subseteq DOMAIN node
    BY DEF Sound, Types, TypeOK
  <2>2. ASSUME NEW k \in hit, k # <<>> PROVE node'[Front(k)].at = "expanding" /\ should_parallel_expand(Front(k))
    <3>1. k \in DOMAIN node /\ node[Front(k)].at = "expanding" /\ should_parallel_expand(Front(k))
      BY <2>1, <2>2 DEF Sound, TreeOK, HitOK
    <3>2. Front(k) \in DOMAIN node /\ Front(k) # n /\ Front(k) \notin Children(n)
      BY <1>3, <1>4, <2>2, <3>1
    <3> QED
      BY <1>3, <3>1, <3>2
  <2>3. ASSUME NEW x \in DOMAIN node, is_depth_limited(x)', Len(x) >= max_depth PROVE \E k \in hit : IsPrefix(k, x)
    BY <1>7, <2>3 DEF Sound, TreeOK, HitOK
  <2> QED
    BY <1>0, <1>2, <1>3, <2>2, <2>3 DEF HitOK
<1>11. RoundOK'
  <2>1. /\ setup.cut = "Dfs" =>
            /\ max_depth >= InitialDepth
            /\ max_depth > InitialDepth => \A b \in Attacks : 2 * Len(b) >= max_depth
        /\ setup.cut = "Bfs" => max_depth >= 2 /\ \A b \in Attacks : b = <<>> \/ Len(b) >= Level
    BY DEF Sound, TreeOK, RoundOK
  <2>2. Level' = Level
    BY <1>0 DEF Level
  <2> QED
    BY <1>0, <1>2, <1>3, <2>1, <2>2 DEF RoundOK
<1>12. SorryOK'
  BY <1>0, <1>3 DEF SorryOK
<1> QED
  BY <1>3, <1>9, <1>10, <1>11, <1>12 DEF TreeOK

\* A round that is over without an attack shows that there is none above its limit.
LEMMA NoAttackYet ==
  ASSUME Sound, node[<<>>].at = "returned", ~late, setup.cut # "AfterSorry", node[<<>>].status # "Solved",
         NEW b \in Attacks
  PROVE  Len(b) \in Nat /\ Len(b) >= max_depth
<1>0. Tree /\ b \in Paths /\ Len(b) \in Nat /\ max_depth \in Nat /\ <<>> \in DOMAIN node /\
     DOMAIN node \subseteq Paths
  BY NodeTypes, WorldTree DEF Sound, TreeOK, Tree, Attacks
<1>1. ASSUME NEW s \in DOMAIN node, node[s].status = "Solved" PROVE FALSE
  <2>1. PICK T : T = {"Solved"}
    OBVIOUS
  <2>2. node[s].status \in T /\ T \in Tops
    BY <1>1, <2>1 DEF Tops
  <2>3. node[<<>>].at \in {"again", "returned"} /\ <<>> \in DOMAIN node /\ IsPrefix(<<>>, s)
    BY <1>0, PrefixOrder
  <2>4. node[<<>>].status \in T
    BY <1>0, <2>2, <2>3, StatusUp
  <2> QED
    BY <2>1, <2>4
<1>2. CASE b \in DOMAIN node /\ node[b].method = "Solved"
  <2>1. node[b].status = "Solved"
    BY <1>0, <1>2, SolvedNode
  <2> QED
    BY <1>1, <1>2, <2>1
<1>3. CASE \E s \in DOMAIN node : node[s].at = "returned" /\ node[s].status = "Solved" /\ Earlier(s, b)
  BY <1>1, <1>3
<1>4. CASE \E p \in DOMAIN node : IsPrefix(p, b) /\ is_depth_limited(p) /\ Len(p) >= max_depth
  <2>1. PICK p \in DOMAIN node : IsPrefix(p, b) /\ Len(p) >= max_depth
    BY <1>4
  <2>2. Len(p) <= Len(b) /\ Len(p) \in Nat
    BY <1>0, <2>1, PrefixOrder, PrefixIs
  <2> QED
    BY <1>0, <2>1, <2>2
<1> QED
  BY <1>0, <1>2, <1>3, <1>4, Uncovered

\* BFS: a level without an attack that is not the last has not answered the root either.
LEMMA RootOpenBfs ==
  ASSUME Sound, node[<<>>].at = "returned", setup.cut = "Bfs", ~BfsFound, BfsIncomplete
  PROVE  node[<<>>].status # "Solved"
<1>0. Tree /\ <<>> \in DOMAIN node /\ DOMAIN node \subseteq Paths /\ max_depth \in Nat /\ max_depth >= 2
  <2>1. Tree /\ <<>> \in DOMAIN node /\ DOMAIN node \subseteq Paths
    BY NodeTypes, WorldTree DEF Sound, TreeOK, Tree
  <2>2. max_depth \in Nat
    BY NodeTypes DEF Sound
  <2>3. max_depth >= 2
    BY DEF Sound, TreeOK, RoundOK
  <2> QED
    BY <2>1, <2>2, <2>3
<1> SUFFICES ASSUME node[<<>>].status = "Solved" PROVE FALSE
  OBVIOUS
<1>1. PICK l \in DOMAIN node : node[l].method = "Solved"
  <2>1. node[<<>>].at \in {"again", "returned"} /\ "Solved" \in {"Solved", "Sorry", "Unfinishable"}
    OBVIOUS
  <2> QED
    BY <1>0, <2>1, LeafOf
<1>2. l \in Attacks /\ Len(l) < max_depth
  BY <1>0, <1>1, SolvedNode
<1>3. l = <<>> \/ Len(l) >= Level
  BY <1>2 DEF Sound, TreeOK, RoundOK
<1>4. CASE l = <<>>
  <2>1. PICK n \in DOMAIN node : Len(n) = Level
    BY DEF BfsIncomplete, Pending
  <2>2. n # <<>>
    <3>1. Len(<<>>) = 0 /\ Level # 0
      BY <1>0 DEF Level
    <3> QED
      BY <2>1, <3>1
  <2>3. IsPrefix(<<>>, n) /\ <<>> \in Paths
    BY <1>0, PrefixOrder
  <2>4. node[<<>>].method = "step"
    BY <1>0, <2>2, <2>3, Ancestors DEF Tree, NodeOK
  <2> QED
    BY <1>1, <1>4, <2>4
<1>5. CASE l # <<>>
  <2>1. Len(l) \in Nat
    BY <1>0, PrefixIs
  <2>2. Len(l) = Level
    BY <1>0, <1>2, <1>3, <1>5, <2>1 DEF Level
  <2> QED
    BY <1>1, <2>2 DEF BfsFound
<1> QED
  BY <1>4, <1>5

\* The next limit of a strategy that has rounds, and what it rests on.
Deeper(d) ==
  /\ Deepen(d) /\ d \in Nat /\ d > max_depth
  /\ node[<<>>].at = "returned" /\ node[<<>>].status # "Solved" /\ setup.cut \in {"Dfs", "Bfs"}
  /\ setup.cut = "Dfs" => d >= InitialDepth /\ \A b \in Attacks : 2 * Len(b) >= d
  /\ setup.cut = "Bfs" => d >= 2 /\ \A b \in Attacks : b = <<>> \/ Len(b) >= d - 1

\* The steps to the next round are of this kind.
LEMMA NextRounds ==
  ASSUME Sound, NextRoundDfs \/ NextRoundBfs
  PROVE  \E d : Deeper(d)
<1>0. /\ max_depth \in Nat \ {0} /\ node[<<>>].at = "returned" /\ InitialDepth \in Nat
      /\ DepthCap \in Nat /\ InitialDepth < DepthCap
  BY NodeTypes, SearchAssumption DEF Sound, NextRoundDfs, NextRoundBfs, RoundOver
<1>1. CASE NextRoundDfs
  <2>1. PICK d : d = Min({2 * max_depth, DepthCap})
    OBVIOUS
  <2>2. /\ Deepen(d) /\ setup.cut = "Dfs" /\ node[<<>>].status # "Solved" /\ ~late /\ max_depth < DepthCap
    <3>1. /\ Deepen(d) /\ setup.cut = "Dfs" /\ node[<<>>].status # "Solved" /\ ~late /\ ~(max_depth >= DepthCap)
      BY <1>1, <2>1 DEF NextRoundDfs, DfsStops
    <3>2. max_depth < DepthCap
      BY <1>0, <3>1
    <3> QED
      BY <3>1, <3>2
  <2>3. d \in Nat /\ d <= 2 * max_depth /\ (d = 2 * max_depth \/ d = DepthCap)
    <3>1. PICK a \in Nat : a = 2 * max_depth
      BY <1>0
    <3>2. \E x \in {a, DepthCap} : \A y \in {a, DepthCap} : x <= y
      BY <1>0
    <3>3. d \in {a, DepthCap} /\ \A y \in {a, DepthCap} : d <= y
      BY <2>1, <3>1, <3>2 DEF Min
    <3> QED
      BY <1>0, <3>1, <3>3
  <2>4. d > max_depth
    BY <1>0, <2>2, <2>3
  <2>5. max_depth >= InitialDepth
    BY <2>2 DEF Sound, TreeOK, RoundOK
  <2>6. \A b \in Attacks : 2 * Len(b) >= d
    <3>1. ASSUME NEW b \in Attacks PROVE 2 * Len(b) >= d
      <4>1. setup.cut # "AfterSorry"
        BY <2>2
      <4>2. Len(b) \in Nat /\ Len(b) >= max_depth
        BY <1>0, <2>2, <4>1, NoAttackYet
      <4> QED
        BY <1>0, <2>3, <4>2
    <3> QED
      BY <3>1
  <2>7. d >= InitialDepth
    BY <1>0, <2>3, <2>4, <2>5
  <2>8. Deeper(d)
    BY <1>0, <2>2, <2>3, <2>4, <2>6, <2>7 DEF Deeper
  <2> QED
    BY <2>8
<1>2. CASE NextRoundBfs
  <2>1. PICK d : d = max_depth + 1
    OBVIOUS
  <2>2. Deepen(d) /\ setup.cut = "Bfs" /\ ~late /\ ~BfsFound /\ BfsIncomplete
    BY <1>2, <2>1 DEF NextRoundBfs
  <2>3. node[<<>>].status # "Solved"
    BY <1>0, <2>2, RootOpenBfs
  <2>4. max_depth >= 2
    BY <2>2 DEF Sound, TreeOK, RoundOK
  <2>5. ASSUME NEW b \in Attacks PROVE Len(b) >= d - 1
    <3>1. setup.cut # "AfterSorry"
      BY <2>2
    <3>2. Len(b) \in Nat /\ Len(b) >= max_depth
      BY <1>0, <2>2, <2>3, <3>1, NoAttackYet
    <3> QED
      BY <1>0, <2>1, <3>2
  <2>6. d \in Nat /\ d > max_depth /\ d >= 2
    BY <1>0, <2>1, <2>4
  <2>7. Deeper(d)
    BY <1>0, <2>2, <2>3, <2>5, <2>6 DEF Deeper
  <2> QED
    BY <2>7
<1> QED
  BY <1>1, <1>2

\* The step to the next round changes the place of the root only.
LEMMA DeepenEffect ==
  ASSUME Sound, NEW d, Deeper(d)
  PROVE  /\ DOMAIN node' = DOMAIN node /\ node' = [x \in DOMAIN node' |-> node'[x]]
         /\ \A x : Children(x)' = Children(x)
         /\ node'[<<>>].at = "again"
         /\ \A x \in DOMAIN node : node'[x] \in Node /\ node'[x].method = node[x].method /\
            node'[x].status = node[x].status
         /\ \A x \in DOMAIN node : x # <<>> => node'[x] = node[x]
<1>1. <<>> \in DOMAIN node /\ \A x \in DOMAIN node : node[x] \in Node
  BY DEF Sound, Types, TypeOK
<1>2. PICK r \in Node : r = node[<<>>]
  BY <1>1
<1>3. node' = [node EXCEPT ![<<>>] = [r EXCEPT !.at = "again"]]
  BY <1>2 DEF Deeper, Deepen
<1>4. /\ DOMAIN node' = DOMAIN node /\ node' = [x \in DOMAIN node' |-> node'[x]]
      /\ node'[<<>>] = [r EXCEPT !.at = "again"] /\ \A x \in DOMAIN node : x # <<>> => node'[x] = node[x]
  BY <1>1, <1>3 DEF Sound, Types, TypeOK
<1>5. "again" \in Places
  BY DEF Places
<1>6. /\ [r EXCEPT !.at = "again"] \in Node /\ [r EXCEPT !.at = "again"].at = "again"
      /\ [r EXCEPT !.at = "again"].method = r.method /\ [r EXCEPT !.at = "again"].status = r.status
  BY <1>5, PlaceOnly
<1>7. \A x \in DOMAIN node : node'[x] \in Node /\ node'[x].method = node[x].method /\ node'[x].status = node[x].status
  BY <1>1, <1>2, <1>4, <1>6
<1>8. \A x : Children(x)' = Children(x)
  BY <1>4 DEF Children
<1> QED
  BY <1>4, <1>6, <1>7, <1>8

\* The step to the next round keeps the types.
LEMMA DeepenTypes ==
  ASSUME Sound, NEW d, Deeper(d)
  PROVE  Types'
<1>1. DOMAIN node' = DOMAIN node /\ node' = [x \in DOMAIN node' |-> node'[x]] /\ \A x \in DOMAIN node :
     node'[x] \in Node
  BY DeepenEffect
<1>2. UNCHANGED <<world, setup, live, late, phase>> /\ hit' = {} /\ max_depth' = d
  BY DEF Deeper, Deepen
<1>3. d \in Nat \ {0}
  BY NodeTypes DEF Sound, Deeper
<1> QED
  BY <1>1, <1>2, <1>3 DEF Sound, Types, TypeOK

\* The step to the next round keeps the invariant.
LEMMA DeepenKeeps ==
  ASSUME Sound, NEW d, Deeper(d)
  PROVE  TreeOK'
<1>0. /\ world' = world /\ setup' = setup /\ max_depth' = d /\ phase' = phase /\ late' = late
      /\ live' = live /\ hit' = {}
      /\ node[<<>>].at = "returned" /\ node[<<>>].status # "Solved" /\ setup.cut \in {"Dfs", "Bfs"}
  BY DEF Deeper, Deepen
<1>1. d \in Nat /\ d > max_depth /\ max_depth \in Nat
  BY NodeTypes DEF Deeper, Sound
<1>2. /\ \A x : Cases(x)' = Cases(x) /\ (should_parallel_expand(x)' <=> should_parallel_expand(x))
      /\ AbortOn' = AbortOn /\ Attacks' = Attacks
  BY <1>0, Frame
<1>3. /\ DOMAIN node' = DOMAIN node
      /\ \A x : Children(x)' = Children(x)
      /\ node'[<<>>].at = "again"
      /\ \A x \in DOMAIN node : node'[x].method = node[x].method /\ node'[x].status = node[x].status
      /\ \A x \in DOMAIN node : x # <<>> => node'[x] = node[x]
  BY DeepenEffect
<1>4. /\ \A x \in DOMAIN node : x \in Paths /\ NodeOK(x)
      /\ \A x \in DOMAIN node : node[x].at = "returned"
      /\ \A x \in DOMAIN node : \A y \in Children(x) : y \in DOMAIN node /\ y # <<>>
      /\ <<>> \in DOMAIN node
  <2>1. \A x \in DOMAIN node : x \in Paths /\ x \in DOMAIN world /\ NodeOK(x)
    BY NodeTypes, WorldTree DEF Sound, TreeOK
  <2>2. \A x \in DOMAIN node : \A y \in Children(x) : y \in DOMAIN node /\ y # <<>>
    BY <2>1, CasesAre DEF Sound
  <2>3. \A x \in DOMAIN node : node[x].at = "returned"
    BY <1>0, AllBack DEF Sound, TreeOK, Tree
  <2> QED
    BY <2>1, <2>2, <2>3, NodeTypes DEF Sound
<1>5. /\ \A x \in DOMAIN node : node'[x].at \in {"again", "returned"}
      /\ \A x \in DOMAIN node : x # <<>> => node'[x].at = "returned"
  BY <1>3, <1>4
<1>6. \A x \in DOMAIN node : is_depth_limited(x)' <=> is_depth_limited(x)
  BY <1>3 DEF is_depth_limited
<1>7. \A x \in DOMAIN node : Len(x) \in Nat /\ Len(x) <= max_depth /\ Len(x) < d
  BY <1>1, Depths DEF Sound, TreeOK, Tree
<1>8. ASSUME NEW x \in DOMAIN node PROVE NodeOK(x)'
  <2>0. /\ ParentOK(x) /\ StateOK(x) /\ CasesOK(x) /\ PlaceOK(x) /\ RollOK(x) /\ OrderOK(x)
        /\ EvalOK(x) /\ OldOK(x) /\ LiveOK(x)
    BY <1>4, <1>8 DEF NodeOK
  <2>1. ParentOK(x)'
    BY <1>3, <1>8, <2>0 DEF ParentOK
  <2>2. StateOK(x)'
    BY <1>0, <1>3, <1>4, <1>5, <1>8, <2>0 DEF StateOK
  <2>3. CasesOK(x)'
    <3>1. \A r \in Children(x) : node'[r] = node[r]
      BY <1>3, <1>4, <1>8
    <3> QED
      BY <1>0, <1>2, <1>3, <1>4, <1>5, <1>8, <2>0, <3>1 DEF CasesOK
  <2>4. PlaceOK(x)'
    <3>1. x # <<>> => Front(x) \in DOMAIN node
      BY <2>0 DEF ParentOK
    <3>2. x # <<>> => node'[x].at = "returned"
      BY <1>5, <1>8
    <3> QED
      BY <3>2 DEF PlaceOK
  <2>5. RollOK(x)'
    <3>1. {node'[r].status : r \in Children(x)} = {node[r].status : r \in Children(x)}
      BY <1>3, <1>4, <1>8
    <3> QED
      BY <1>3, <1>4, <1>8, <2>0, <3>1 DEF RollOK
  <2>6. OrderOK(x)'
    <3>1. x # <<>> => node'[Front(x)].at \in {"again", "returned"}
      BY <1>5, <2>0 DEF ParentOK
    <3>2. node'[x].at = "again" => node'[x].status # "Solved"
      BY <1>0, <1>3, <1>5, <1>8
    <3> QED
      BY <3>1, <3>2 DEF OrderOK
  <2>7. EvalOK(x)'
    <3>1. Len(x) < d
      BY <1>7, <1>8
    <3> QED
      BY <1>0, <1>3, <1>8, <2>0, <3>1 DEF EvalOK
  <2>8. OldOK(x)'
    <3>1. IsPrefix(<<>>, x) /\ <<>> \in DOMAIN node'
      BY <1>3, <1>4, <1>8, PrefixOrder
    <3> QED
      BY <1>3, <3>1 DEF OldOK
  <2>9. LiveOK(x)'
    BY <1>0, <1>3, <1>4, <1>5, <1>6, <1>8, <2>0 DEF LiveOK
  <2> QED
    BY <2>1, <2>2, <2>3, <2>4, <2>5, <2>6, <2>7, <2>8, <2>9 DEF NodeOK
<1>9. HitOK'
  <2>1. \A x \in DOMAIN node : ~(Len(x) >= d)
    BY <1>1, <1>7
  <2> QED
    BY <1>0, <1>3, <2>1 DEF HitOK
<1>10. RoundOK'
  <2>1. Level' = d - 1
    BY <1>0 DEF Level
  <2> QED
    BY <1>0, <1>2, <2>1 DEF RoundOK, Deeper
<1>11. SorryOK'
  BY <1>0 DEF SorryOK
<1> QED
  BY <1>3, <1>8, <1>9, <1>10, <1>11 DEF TreeOK

-----------------------------------------------------------------------------
(* The start, the clock, and a search step in general.                     *)

\* The search starts with a new root.
LEMMA InitSound ==
  ASSUME Init
  PROVE  Sound /\ phase = "search"
<1>0. /\ world \in Worlds /\ setup \in Setups /\ node = [n \in {<<>>} |-> New] /\ live = {<<>>}
      /\ hit = {} /\ late = FALSE /\ phase = "search"
      /\ max_depth = CASE setup.cut = "Dfs" -> InitialDepth
                       [] setup.cut = "Bfs" -> 2
                       [] OTHER -> Unlimited
  BY DEF Init
<1>1. DOMAIN node = {<<>>} /\ node[<<>>].at = "new" /\ node[<<>>].method = "unset" /\ node[<<>>].status = "Open"
  BY <1>0 DEF New
<1>2. /\ InitialDepth \in Nat \ {0} /\ Unlimited \in Nat \ {0} /\ setup.bound \in Nat /\ setup.cut \in Strategies
      /\ IsWorld(world)
  BY <1>0, SearchAssumption
<1>3. /\ setup.cut = "Dfs" => max_depth = InitialDepth
      /\ setup.cut = "Bfs" => max_depth = 2
      /\ setup.cut \notin {"Dfs", "Bfs"} => max_depth = Unlimited
  BY <1>0
<1>4. Types
  <2>1. <<>> \in DOMAIN world
    BY <1>2 DEF IsWorld
  <2>2. New \in Node
    BY DEF New, Node, Places, Methods, Statuses
  <2>3. node = [n \in DOMAIN node |-> node[n]] /\ \A n \in DOMAIN node : node[n] \in Node
    BY <1>0, <2>2
  <2>4. max_depth \in Nat \ {0}
    BY <1>2, <1>3
  <2> QED
    BY <1>0, <1>1, <2>1, <2>3, <2>4 DEF Types, TypeOK
<1>5. \A n : Children(n) \subseteq {<<>>}
  BY <1>1 DEF Children
<1>6. ~is_depth_limited(<<>>)
  BY <1>1 DEF is_depth_limited
<1>7. NodeOK(<<>>)
  <2>1. ParentOK(<<>>) /\ PlaceOK(<<>>)
    BY DEF ParentOK, PlaceOK
  <2>2. StateOK(<<>>)
    BY <1>1 DEF StateOK, Finished, Sorries
  <2>3. CasesOK(<<>>) /\ RollOK(<<>>) /\ OrderOK(<<>>)
    BY <1>1 DEF CasesOK, RollOK, OrderOK
  <2>4. EvalOK(<<>>)
    BY <1>1 DEF EvalOK, Finished
  <2>5. OldOK(<<>>)
    BY <1>6 DEF OldOK
  <2>6. LiveOK(<<>>)
    BY <1>0, <1>1 DEF LiveOK
  <2> QED
    BY <2>1, <2>2, <2>3, <2>4, <2>5, <2>6 DEF NodeOK
<1>8. HitOK
  BY <1>0, <1>1, <1>6 DEF HitOK
<1>9. RoundOK
  <2>1. setup.cut \notin {"Dfs", "Bfs"} =>
          /\ max_depth = Unlimited
          /\ \A n \in DOMAIN node : node[n].at \notin {"again", "walking"} /\ ~is_depth_limited(n)
    BY <1>1, <1>3, <1>6
  <2>2. setup.cut = "Dfs" => max_depth >= InitialDepth /\ ~(max_depth > InitialDepth)
    BY <1>2, <1>3
  <2>3. setup.cut = "Bfs" => max_depth >= 2 /\ \A b \in Attacks : b = <<>> \/ Len(b) >= Level
    <3>1. ASSUME setup.cut = "Bfs", NEW b \in Attacks, b # <<>> PROVE Len(b) >= Level
      <4>1. b \in Paths /\ Level = 1
        BY <1>3, <1>4, <3>1, WorldTree DEF Attacks, Level
      <4>2. Len(b) \in Nat /\ Len(b) > 0
        BY <3>1, <4>1, PathEnds
      <4> QED
        BY <4>1, <4>2
    <3>2. setup.cut = "Bfs" => max_depth >= 2
      BY <1>3
    <3> QED
      BY <3>1, <3>2
  <2> QED
    BY <2>1, <2>2, <2>3 DEF RoundOK
<1>10. SorryOK
  BY <1>1 DEF SorryOK, BadLeaf
<1> QED
  BY <1>0, <1>1, <1>4, <1>7, <1>8, <1>9, <1>10 DEF Sound, TreeOK

\* The deadline may pass at any time.
LEMMA ClockKeeps ==
  ASSUME Sound, Expire \/ UNCHANGED vars
  PROVE  Sound' /\ phase' = phase
<1>0. /\ world' = world /\ setup' = setup /\ node' = node /\ live' = live /\ max_depth' = max_depth
      /\ hit' = hit /\ late' \in BOOLEAN /\ (late => late') /\ phase' = phase
  <2>1. late \in BOOLEAN
    BY NodeTypes DEF Sound
  <2>2. CASE Expire
    BY <2>2 DEF Expire
  <2>3. CASE UNCHANGED vars
    BY <2>1, <2>3 DEF vars
  <2> QED
    BY <2>2, <2>3
<1>1. Types'
  BY <1>0 DEF Sound, Types, TypeOK
<1>2. /\ \A x : Cases(x)' = Cases(x) /\ (should_parallel_expand(x)' <=> should_parallel_expand(x))
      /\ AbortOn' = AbortOn /\ Attacks' = Attacks
  BY <1>0, Frame
<1>3. /\ \A x : Children(x)' = Children(x)
      /\ \A x : is_depth_limited(x)' <=> is_depth_limited(x)
      /\ Level' = Level
  BY <1>0 DEF Children, is_depth_limited, Level
<1>4. ASSUME NEW x \in DOMAIN node PROVE NodeOK(x)'
  <2>0. /\ ParentOK(x) /\ StateOK(x) /\ CasesOK(x) /\ PlaceOK(x) /\ RollOK(x) /\ OrderOK(x)
        /\ EvalOK(x) /\ OldOK(x) /\ LiveOK(x)
    BY <1>4 DEF NodeOK, Sound, TreeOK
  <2>1. ParentOK(x)' /\ StateOK(x)' /\ PlaceOK(x)'
    BY <1>0, <2>0 DEF ParentOK, StateOK, PlaceOK
  <2>2. CasesOK(x)'
    BY <1>0, <1>2, <1>3, <2>0 DEF CasesOK
  <2>3. RollOK(x)'
    BY <1>0, <1>3, <2>0 DEF RollOK
  <2>4. OrderOK(x)'
    BY <1>0, <1>2, <1>3, <2>0 DEF OrderOK
  <2>5. EvalOK(x)'
    BY <1>0, <2>0 DEF EvalOK
  <2>6. OldOK(x)'
    BY <1>0, <1>3, <2>0 DEF OldOK
  <2>7. LiveOK(x)'
    BY <1>0, <1>3, <2>0 DEF LiveOK
  <2> QED
    BY <2>1, <2>2, <2>3, <2>4, <2>5, <2>6, <2>7 DEF NodeOK
<1>5. HitOK'
  <2>1. HitOK
    BY DEF Sound, TreeOK
  <2> QED
    BY <1>0, <1>2, <1>3, <2>1 DEF HitOK
<1>6. RoundOK'
  <2>1. RoundOK
    BY DEF Sound, TreeOK
  <2> QED
    BY <1>0, <1>2, <1>3, <2>1 DEF RoundOK
<1>7. SorryOK'
  <2>1. SorryOK
    BY DEF Sound, TreeOK
  <2> QED
    BY <1>0, <1>3, <2>1 DEF SorryOK, BadLeaf, Untried
<1> QED
  BY <1>0, <1>1, <1>4, <1>5, <1>6, <1>7 DEF Sound, TreeOK

\* Every step that does not end the search keeps the tree in order.
LEMMA StepKeeps ==
  ASSUME Sound, NEW n \in DOMAIN node,
         Bound(n) \/ Park(n) \/ Close(n) \/ GiveUp(n) \/ NoMethod(n) \/ NoCases(n)
           \/ Branch(n) \/ Leave(n) \/ Walk(n) \/ LeaveWalk(n)
  PROVE  Sound' /\ phase' = phase
<1>1. CASE Bound(n) \/ Park(n) \/ Close(n) \/ GiveUp(n) \/ NoMethod(n) \/ NoCases(n)
  <2>1. PICK m \in Methods, s \in Statuses : Answer(n, m, s)
    BY <1>1, AnswerSteps
  <2>2. phase' = phase
    BY <2>1 DEF Answer
  <2> QED
    BY <2>1, <2>2, AnswerTypes, AnswerKeeps DEF Sound
<1>2. CASE Branch(n)
  <2>1. phase' = phase
    BY <1>2 DEF Branch
  <2> QED
    BY <1>2, <2>1, BranchTypes, BranchKeeps DEF Sound
<1>3. CASE Leave(n)
  <2>1. phase' = phase
    BY <1>3 DEF Leave
  <2> QED
    BY <1>3, <2>1, LeaveTypes, LeaveKeeps DEF Sound
<1>4. CASE Walk(n)
  <2>1. phase' = phase
    BY <1>4 DEF Walk
  <2> QED
    BY <1>4, <2>1, WalkTypes, WalkKeeps DEF Sound
<1>5. CASE LeaveWalk(n)
  <2>1. phase' = phase
    BY <1>5 DEF LeaveWalk
  <2> QED
    BY <1>5, <2>1, LeaveWalkTypes, LeaveWalkKeeps DEF Sound
<1> QED
  BY <1>1, <1>2, <1>3, <1>4, <1>5

\* And so does the step to the next round.
LEMMA RoundKeeps ==
  ASSUME Sound, NextRoundDfs \/ NextRoundBfs
  PROVE  Sound' /\ phase' = phase
<1>1. PICK d : Deeper(d)
  BY NextRounds
<1>2. phase' = phase
  BY <1>1 DEF Deeper, Deepen
<1> QED
  BY <1>1, <1>2, DeepenTypes, DeepenKeeps DEF Sound

-----------------------------------------------------------------------------
(* The end of the search.                                                  *)

\* What is known of the tree when a round is over.
LEMMA Back ==
  ASSUME Sound, node[<<>>].at = "returned"
  PROVE  /\ Tree /\ <<>> \in DOMAIN node /\ <<>> \in Paths
         /\ \A x \in DOMAIN node : /\ node[x].at = "returned" /\ x \in Paths /\ x \in DOMAIN world /\ NodeOK(x)
                                   /\ node[x].method \in Methods /\ node[x].method # "unset"
                                   /\ IsPrefix(<<>>, x) /\ Len(x) \in Nat /\ Len(x) <= max_depth
         /\ max_depth \in Nat /\ hit \subseteq {<<>>}
<1>1. Tree
  BY DEF Sound, TreeOK, Tree
<1>2. \A x \in DOMAIN node : /\ x \in Paths /\ x \in DOMAIN world /\ NodeOK(x)
                             /\ node[x].method \in Methods /\ Len(x) \in Nat /\ Len(x) <= max_depth
  BY <1>1, NodeTypes, WorldTree, Depths DEF Sound, TreeOK
<1>3. \A x \in DOMAIN node : node[x].at = "returned"
  BY <1>1, AllBack
<1>4. \A x \in DOMAIN node : node[x].method # "unset"
  BY <1>2, <1>3 DEF NodeOK, StateOK
<1>5. <<>> \in DOMAIN node /\ max_depth \in Nat
  BY NodeTypes DEF Sound
<1>6. <<>> \in Paths /\ \A x \in DOMAIN node : IsPrefix(<<>>, x)
  BY <1>2, <1>5, PrefixOrder
<1>7. ASSUME NEW j \in hit, j # <<>> PROVE FALSE
  <2>1. j \in DOMAIN node /\ node[Front(j)].at = "expanding"
    BY <1>7 DEF Sound, TreeOK, HitOK, Types, TypeOK
  <2>2. Front(j) \in DOMAIN node
    BY <1>2, <1>7, <2>1 DEF NodeOK, ParentOK
  <2> QED
    BY <1>3, <2>1, <2>2
<1> QED
  BY <1>1, <1>2, <1>3, <1>4, <1>5, <1>6, <1>7

\* An attack anywhere in the tree solves the root, and a leaf shows it.
LEMMA SolvedMeans ==
  ASSUME Sound, node[<<>>].at = "returned", NEW s \in DOMAIN node, node[s].status = "Solved"
  PROVE  /\ node[<<>>].status = "Solved"
         /\ \E l \in SolvedLeaves : IsPrefix(s, l) /\ node[l].method = "Solved"
<1>0. Tree /\ <<>> \in DOMAIN node /\ IsPrefix(<<>>, s) /\ node[s].at \in {"again", "returned"}
      /\ node[<<>>].at \in {"again", "returned"}
  BY Back
<1>1. PICK T : T = {"Solved"}
  OBVIOUS
<1>2. node[s].status \in T /\ T \in Tops
  BY <1>1 DEF Tops
<1>3. node[<<>>].status \in T
  BY <1>0, <1>2, StatusUp
<1>4. "Solved" \in {"Solved", "Sorry", "Unfinishable"} /\ "Solved" # "Sorry"
  OBVIOUS
<1>5. \E l \in DOMAIN node : IsPrefix(s, l) /\ Children(l) = {} /\ node[l].status = "Solved" /\
     node[l].method = "Solved"
  BY <1>0, <1>4, LeafOf
<1> QED
  BY <1>1, <1>3, <1>5 DEF SolvedLeaves

\* The first solved leaf, and the path to it.
LEMMA ExtractedIs ==
  ASSUME Sound, node[<<>>].at = "returned", node[<<>>].status = "Solved"
  PROVE  \E f \in DOMAIN node :
           /\ Extracted = [n \in {m \in DOMAIN node : IsPrefix(m, f)} |-> node[n]]
           /\ node[f].method = "Solved" /\ \A m \in SolvedLeaves : ~Earlier(m, f)
<1>0. /\ Tree /\ <<>> \in DOMAIN node /\ max_depth \in Nat
      /\ \A x \in DOMAIN node : x \in Paths /\ Len(x) <= max_depth /\ NodeOK(x) /\ node[x].at = "returned"
  BY Back
<1>1. PICK L : L = SolvedLeaves
  OBVIOUS
<1>2. L # {} /\ L \subseteq Paths /\ \A n \in L : Len(n) <= max_depth
  BY <1>0, <1>1, SolvedMeans DEF SolvedLeaves
<1>3. \E n \in L : \A m \in L : ~Earlier(m, n)
  BY <1>0, <1>2, FirstPath
<1>4. PICK f : f = CHOOSE n \in L : \A m \in L : ~Earlier(m, n)
  OBVIOUS
<1>5. f \in L /\ \A m \in L : ~Earlier(m, f)
  BY <1>3, <1>4
<1>6. f \in DOMAIN node /\ node[f].status = "Solved" /\ Children(f) = {}
  BY <1>1, <1>5 DEF SolvedLeaves
<1>7. Extracted = [n \in {m \in DOMAIN node : IsPrefix(m, f)} |-> node[n]]
  BY <1>1, <1>4 DEF Extracted
<1>8. PICK l \in SolvedLeaves : IsPrefix(f, l) /\ node[l].method = "Solved"
  BY <1>6, SolvedMeans
<1>9. l = f
  <2>1. l \in DOMAIN node /\ f \in Paths
    BY <1>0, <1>6, <1>8 DEF SolvedLeaves
  <2>2. f # l => \E c \in Children(f) : IsPrefix(c, l)
    BY <1>0, <1>8, <2>1, Ancestors DEF Tree, NodeOK
  <2> QED
    BY <1>6, <2>2
<1> QED
  BY <1>1, <1>5, <1>6, <1>7, <1>8, <1>9

\* The three ways to end.  With the whole tree:
EndsWhole ==
  /\ RoundOver /\ Stop(node)
  /\ setup.cut = "Dfs" => DfsStops
  /\ setup.cut = "Bfs" => ~BfsFound /\ (~BfsIncomplete \/ late \/ Level >= DepthCap)
  /\ setup.cut \in {"Dfs", "SeqDfs"} => node[<<>>].status # "Solved"
\* With one path.
EndsWithPath == RoundOver /\ setup.cut \in {"Dfs", "SeqDfs"} /\ node[<<>>].status = "Solved" /\ Stop(Extracted)
\* With what BFS keeps.
EndsAtLevel == RoundOver /\ setup.cut = "Bfs" /\ BfsFound /\ Stop(BfsCut)

\* There are no others.
LEMMA Endings ==
  ASSUME EndDfs \/ EndBfs
  PROVE  EndsWhole \/ EndsWithPath \/ EndsAtLevel
<1>1. CASE EndDfs /\ setup.cut \in {"Dfs", "SeqDfs"} /\ node[<<>>].status = "Solved"
  BY <1>1 DEF EndDfs, EndsWithPath
<1>2. CASE EndDfs /\ ~(setup.cut \in {"Dfs", "SeqDfs"} /\ node[<<>>].status = "Solved")
  BY <1>2 DEF EndDfs, EndsWhole
<1>3. CASE EndBfs
  BY <1>3 DEF EndBfs, EndsWhole, EndsAtLevel
<1> QED
  BY <1>1, <1>2, <1>3

\* A search that ends in time with its whole tree has no stub in it.
LEMMA StubsGone ==
  ASSUME Sound, EndsWhole, ~late, NEW p \in DOMAIN node, is_depth_limited(p)
  PROVE  FALSE
<1>0. node[<<>>].at = "returned"
  BY DEF EndsWhole, RoundOver
<1>1. /\ Tree /\ HitOK /\ max_depth \in Nat /\ p \in Paths /\ Len(p) \in Nat /\ DepthCap \in Nat
      /\ \A x \in DOMAIN node : node[x].at = "returned"
      /\ OldOK(p) /\ setup.cut \in {"Dfs", "Bfs"}
  <2>1. setup.cut \in {"Dfs", "Bfs"}
    BY DEF Sound, TreeOK, RoundOK
  <2> QED
    BY <1>0, <2>1, Back, SearchAssumption DEF Sound, TreeOK, NodeOK
<1>2. CASE Len(p) >= max_depth
  <2>1. /\ <<>> \in hit /\ node[<<>>].status \in {"Solved", "Sorry"} /\ max_depth < DepthCap
        /\ Front(p) \in DOMAIN node /\ Len(Front(p)) = Level /\ Children(Front(p)) # {}
    BY <1>0, <1>1, <1>2, StubsAtEnd
  <2>2. ~(max_depth >= DepthCap) /\ ~(Level >= DepthCap)
    BY <1>1, <2>1 DEF Level
  <2>3. CASE setup.cut = "Dfs"
    BY <2>1, <2>2, <2>3 DEF EndsWhole, DfsStops
  <2>4. CASE setup.cut = "Bfs"
    <3>1. BfsIncomplete
      BY <2>1 DEF BfsIncomplete, Pending
    <3> QED
      BY <2>2, <2>4, <3>1 DEF EndsWhole
  <2> QED
    BY <1>1, <2>3, <2>4
<1>3. CASE Len(p) < max_depth
  <2>1. setup.cut # "Bfs" /\ \E s \in DOMAIN node : node[s].status = "Solved"
    BY <1>1, <1>3 DEF OldOK
  <2>2. node[<<>>].status = "Solved"
    BY <1>0, <2>1, SolvedMeans
  <2> QED
    BY <1>1, <2>1, <2>2 DEF EndsWhole
<1> QED
  BY <1>1, <1>2, <1>3

\* What the fold over the methods of the whole tree says is the status of its root.
LEMMA Verdict ==
  ASSUME Sound, node[<<>>].at = "returned"
  PROVE  proof_status = CASE Root.status = "Solved" -> "TraceFound"
                          [] Root.status = "Sorry" -> "Incomplete"
                          [] Root.status = "Unfinishable" -> "Unfinishable"
                          [] OTHER -> "Complete"
<1>0. /\ Tree /\ <<>> \in DOMAIN node /\ node[<<>>].at \in {"again", "returned"}
      /\ \A x \in DOMAIN node : NodeOK(x) /\ IsPrefix(<<>>, x)
  BY Back
<1>1. PICK M : M = {node[n].method : n \in DOMAIN node}
  OBVIOUS
<1>2. proof_status = IF "Solved" \in M THEN "TraceFound"
                     ELSE IF M \cap Sorries # {} THEN "Incomplete"
                     ELSE IF "Unfinishable" \in M THEN "Unfinishable" ELSE "Complete"
  BY <1>1 DEF proof_status
<1>3. \A v \in {"Solved", "Sorry", "Unfinishable"} :
        Root.status = v => \E l \in DOMAIN node : (v # "Sorry" => node[l].method = v) /\ (v = "Sorry" =>
          node[l].method \in Sorries)
  <2>1. ASSUME NEW v \in {"Solved", "Sorry", "Unfinishable"}, Root.status = v
        PROVE  \E l \in DOMAIN node : (v # "Sorry" => node[l].method = v) /\ (v = "Sorry" =>
          node[l].method \in Sorries)
    <3>1. node[<<>>].status = v
      BY <2>1 DEF Root
    <3> QED
      BY <1>0, <3>1, LeafOf
  <2> QED
    BY <2>1
<1>4. ASSUME NEW x \in DOMAIN node, NEW T \in Tops, node[x].status \in T PROVE Root.status \in T
  <2>1. node[<<>>].status \in T
    BY <1>0, <1>4, StatusUp
  <2> QED
    BY <2>1 DEF Root
<1>5. {"Solved"} \in Tops /\ {"Solved", "Sorry"} \in Tops /\ {"Solved", "Sorry", "Unfinishable"} \in Tops
  BY DEF Tops
<1>6. "Solved" \in M => Root.status = "Solved"
  <2>1. ASSUME NEW x \in DOMAIN node, node[x].method = "Solved" PROVE Root.status = "Solved"
    <3>1. node[x].status \in {"Solved"}
      BY <1>0, <2>1 DEF NodeOK, StateOK, Finished
    <3> QED
      BY <1>4, <1>5, <3>1
  <2> QED
    BY <1>1, <2>1
<1>7. M \cap Sorries # {} => Root.status \in {"Solved", "Sorry"}
  <2>1. ASSUME NEW x \in DOMAIN node, node[x].method \in Sorries PROVE Root.status \in {"Solved", "Sorry"}
    <3>1. node[x].status \in {"Solved", "Sorry"}
      BY <1>0, <2>1 DEF NodeOK, StateOK
    <3> QED
      BY <1>4, <1>5, <3>1
  <2> QED
    BY <1>1, <2>1
<1>8. "Unfinishable" \in M => Root.status \in {"Solved", "Sorry", "Unfinishable"}
  <2>1. ASSUME NEW x \in DOMAIN node, node[x].method = "Unfinishable" PROVE Root.status \in {"Solved", "Sorry",
       "Unfinishable"}
    <3>1. node[x].status \in {"Solved", "Sorry", "Unfinishable"}
      BY <1>0, <2>1 DEF NodeOK, StateOK, Finished
    <3> QED
      BY <1>4, <1>5, <3>1
  <2> QED
    BY <1>1, <2>1
<1>9. /\ Root.status = "Solved" => "Solved" \in M
      /\ Root.status = "Sorry" => M \cap Sorries # {}
      /\ Root.status = "Unfinishable" => "Unfinishable" \in M
  BY <1>1, <1>3
<1>10. CASE Root.status = "Solved"
  BY <1>2, <1>9, <1>10
<1>11. CASE Root.status = "Sorry"
  BY <1>2, <1>6, <1>9, <1>11
<1>12. CASE Root.status = "Unfinishable"
  BY <1>2, <1>6, <1>7, <1>9, <1>12
<1>13. CASE Root.status \notin {"Solved", "Sorry", "Unfinishable"}
  BY <1>2, <1>6, <1>7, <1>8, <1>13
<1> QED
  BY <1>10, <1>11, <1>12, <1>13

\* A whole tree without an attack, a sorry or an unfinishable case closes every case.
LEMMA AllClosed ==
  ASSUME Sound, node[<<>>].at = "returned", proof_status = "Complete", NEW b \in DOMAIN world
  PROVE  world[b] \in {"open", "Contradictory"}
<1>0. /\ Tree /\ \A x \in DOMAIN node : node[x].at = "returned" /\ NodeOK(x) /\ node[x].method \in Methods /\
         node[x].method # "unset"
  BY Back
<1>1. PICK M : M = {node[n].method : n \in DOMAIN node}
  OBVIOUS
<1>2. "Solved" \notin M /\ M \cap Sorries = {} /\ "Unfinishable" \notin M
  BY <1>1 DEF proof_status
<1>3. ASSUME NEW x \in DOMAIN node PROVE node[x].method \in {"Contradictory", "step"}
  BY <1>0, <1>1, <1>2, <1>3 DEF Methods, Finished
<1>4. PICK p \in DOMAIN node :
           p = b \/ (world[p] = "open" /\ \E c \in Cases(p) \ Children(p) : IsPrefix(c, b))
  BY <1>0, Covered
<1>5. StateOK(p) /\ CasesOK(p)
  BY <1>0 DEF NodeOK
<1>6. CASE p = b
  BY <1>3, <1>5, <1>6 DEF StateOK, Finished
<1>7. CASE world[p] = "open" /\ \E c \in Cases(p) \ Children(p) : IsPrefix(c, b)
  <2>1. node[p].method = "step"
    BY <1>3, <1>5, <1>7 DEF StateOK, Finished
  <2>2. PICK s \in Children(p) : node[s].status = "Solved"
    BY <1>5, <1>7, <2>1 DEF CasesOK
  <2>3. s \in DOMAIN node
    BY DEF Children
  <2>4. PICK l \in SolvedLeaves : node[l].method = "Solved"
    BY <2>2, <2>3, SolvedMeans
  <2>5. l \in DOMAIN node
    BY <2>4 DEF SolvedLeaves
  <2> QED
    BY <1>3, <2>4, <2>5
<1> QED
  BY <1>4, <1>6, <1>7

\* A tree with an attack in it, and a root that says so, has the right verdict.
LEMMA Traced ==
  ASSUME <<>> \in DOMAIN node', node'[<<>>].status = "Solved", NEW n \in DOMAIN node', node'[n].method = "Solved"
  PROVE  NoFalseProof' /\ AttackIsFound' /\ VerdictMatchesRoot'
<1>1. PICK M : M = {node'[x].method : x \in DOMAIN node'}
  OBVIOUS
<1>2. "Solved" \in M
  BY <1>1
<1>3. proof_status' = "TraceFound"
  BY <1>1, <1>2 DEF proof_status
<1>4. Root'.status = "Solved"
  BY DEF Root
<1> QED
  BY <1>3, <1>4 DEF NoFalseProof, AttackIsFound, VerdictMatchesRoot

\* The end with the whole tree.
LEMMA WholeResult ==
  ASSUME Sound, EndsWhole
  PROVE  Types' /\ Result' /\ phase' = "done"
<1>0. /\ node[<<>>].at = "returned" /\ world' = world /\ setup' = setup /\ node' = node /\ max_depth' = max_depth
      /\ hit' = hit /\ late' = late /\ phase' = "done" /\ live' = live \cap DOMAIN node
  BY DEF EndsWhole, RoundOver, Stop
<1>1. Types'
  BY <1>0 DEF Sound, Types, TypeOK
<1>2. /\ \A x : Children(x)' = Children(x)
      /\ \A x : is_depth_limited(x)' <=> is_depth_limited(x)
      /\ Attacks' = Attacks /\ Root' = Root /\ proof_status' = proof_status
  BY <1>0 DEF Children, is_depth_limited, Attacks, Root, proof_status
<1>3. /\ Tree /\ <<>> \in DOMAIN node /\ live \subseteq DOMAIN node
      /\ \A x \in DOMAIN node : node[x].at = "returned" /\ NodeOK(x) /\ x \in Paths /\ node[x].method # "unset"
  BY <1>0, Back DEF Sound, Types, TypeOK
<1>4. NoFalseProof'
  <2>1. proof_status = "Complete" => \A b \in DOMAIN world : world[b] \in {"open", "Contradictory"}
    BY <1>0, AllClosed
  <2> QED
    BY <1>0, <1>2, <2>1 DEF NoFalseProof
<1>5. AttackIsFound'
  <2>1. ASSUME ~late, setup.cut # "AfterSorry", NEW b \in Attacks PROVE proof_status = "TraceFound"
    <3>1. \E s \in DOMAIN node : node[s].status = "Solved"
      <4>1. CASE b \in DOMAIN node /\ node[b].method = "Solved"
        BY <1>3, <4>1, SolvedNode
      <4>2. CASE \E s \in DOMAIN node : node[s].status = "Solved" /\ Earlier(s, b)
        BY <4>2
      <4>3. CASE \E p \in DOMAIN node : is_depth_limited(p)
        BY <2>1, <4>3, StubsGone
      <4> QED
        BY <1>0, <1>3, <2>1, <4>1, <4>2, <4>3, Uncovered
    <3>2. Root.status = "Solved"
      BY <1>0, <3>1, SolvedMeans DEF Root
    <3>3. proof_status = CASE Root.status = "Solved" -> "TraceFound"
                          [] Root.status = "Sorry" -> "Incomplete"
                          [] Root.status = "Unfinishable" -> "Unfinishable"
                          [] OTHER -> "Complete"
      BY <1>0, Verdict
    <3> QED
      BY <3>2, <3>3
  <2> QED
    BY <1>0, <1>2, <2>1 DEF AttackIsFound
<1>6. VerdictMatchesRoot'
  <2>1. proof_status = CASE Root.status = "Solved" -> "TraceFound"
                          [] Root.status = "Sorry" -> "Incomplete"
                          [] Root.status = "Unfinishable" -> "Unfinishable"
                          [] OTHER -> "Complete"
    BY <1>0, Verdict
  <2> QED
    BY <1>2, <2>1 DEF VerdictMatchesRoot
<1>7. FirstAttack'
  BY <1>0, <1>2 DEF FirstAttack, EndsWhole, Root
<1>8. ShallowestAttacks'
  <2>1. SUFFICES ASSUME setup.cut = "Bfs", node[<<>>].status = "Solved"
                 PROVE  /\ \A a \in Attacks : \A n \in DOMAIN node : Len(n) <= Len(a)
                        /\ \A a \in Attacks : (\A b \in Attacks : Len(a) <= Len(b)) =>
                             a \in DOMAIN node /\ node[a].method = "Solved"
    BY <1>0, <1>2 DEF ShallowestAttacks, Root
  <2>2. PICK l \in DOMAIN node : node[l].method = "Solved"
    BY <1>0, <1>3, <2>1, SolvedMeans DEF SolvedLeaves
  <2>3. l \in Attacks /\ Len(l) < max_depth /\ max_depth \in Nat /\ Len(l) \in Nat
    BY <1>0, <1>3, <2>1, <2>2, SolvedNode, Back
  <2>4. l = <<>>
    <3>1. l = <<>> \/ Len(l) >= Level
      BY <2>1, <2>3 DEF Sound, TreeOK, RoundOK
    <3>2. Len(l) >= Level => Len(l) = Level
      BY <2>3 DEF Level
    <3> QED
      BY <2>1, <2>2, <3>1, <3>2 DEF EndsWhole, BfsFound
  <2>5. \A n \in DOMAIN world : n = <<>>
    <3>1. ASSUME NEW n \in DOMAIN world, n # <<>> PROVE FALSE
      <4>1. Closed(DOMAIN world) /\ n \in Paths
        BY WorldTree DEF Sound
      <4>2. IsPrefix(<<>>, n) /\ <<>> \in Paths
        BY <1>3, <4>1, PrefixOrder
      <4>3. PICK c \in DOMAIN world : c # <<>> /\ Front(c) = <<>>
        BY <3>1, <4>1, <4>2, PrefixIn
      <4>4. world[<<>>] = "open"
        BY <4>3, WorldTree DEF Sound
      <4>5. world[<<>>] = "Solved"
        BY <2>3, <2>4 DEF Attacks
      <4> QED
        BY <4>4, <4>5
    <3> QED
      BY <3>1
  <2>6. DOMAIN node \subseteq DOMAIN world /\ Attacks \subseteq DOMAIN world
    BY NodeTypes DEF Sound, Attacks
  <2>7. \A a \in Attacks : a = <<>>
    BY <2>5, <2>6
  <2>8. \A n \in DOMAIN node : n = <<>>
    BY <2>5, <2>6
  <2>9. Len(<<>>) <= Len(<<>>)
    OBVIOUS
  <2> QED
    BY <1>3, <2>2, <2>4, <2>7, <2>8, <2>9
<1>9. NothingAfterSorry'
  <2>1. ASSUME setup.cut = "AfterSorry", NEW m \in DOMAIN node, NEW n \in DOMAIN node,
               node[m].status \in {"Sorry", "Solved"}, Children(m) = {}, Earlier(m, n)
        PROVE  node[n].method \in Finished \cup {"sorry"}
    <3>1. BadLeaf(m)
      BY <1>3, <2>1 DEF BadLeaf
    <3>2. Untried(n)
      BY <2>1, <3>1 DEF Sound, TreeOK, SorryOK
    <3> QED
      BY <1>3, <3>2 DEF Untried
  <2> QED
    BY <1>0, <1>2, <2>1 DEF NothingAfterSorry
<1>10. NoStubIsLeft'
  <2>1. ~late => \A n \in DOMAIN node : ~is_depth_limited(n)
    BY StubsGone
  <2> QED
    BY <1>0, <1>2, <2>1 DEF NoStubIsLeft
<1>11. SystemsAreThere'
  <2>1. setup.keep # "DropAll" => \A n \in DOMAIN node : node[n].method = "Solved" => n \in live
    BY <1>3 DEF NodeOK, LiveOK
  <2> QED
    BY <1>0, <1>3, <2>1 DEF SystemsAreThere
<1> QED
  BY <1>0, <1>1, <1>4, <1>5, <1>6, <1>7, <1>8, <1>9, <1>10, <1>11 DEF Result

\* The end with the path to the first attack.
LEMMA PathResult ==
  ASSUME Sound, EndsWithPath
  PROVE  Types' /\ Result' /\ phase' = "done"
<1>0. /\ node[<<>>].at = "returned" /\ world' = world /\ setup' = setup /\ node' = Extracted /\ max_depth' = max_depth
      /\ hit' = hit /\ late' = late /\ phase' = "done" /\ live' = live \cap DOMAIN node'
      /\ setup.cut \in {"Dfs", "SeqDfs"} /\ node[<<>>].status = "Solved"
  BY DEF EndsWithPath, RoundOver, Stop
<1>1. PICK f \in DOMAIN node :
           /\ Extracted = [n \in {m \in DOMAIN node : IsPrefix(m, f)} |-> node[n]]
           /\ node[f].method = "Solved" /\ \A m \in SolvedLeaves : ~Earlier(m, f)
  BY <1>0, ExtractedIs
<1>2. /\ Tree /\ <<>> \in DOMAIN node /\ max_depth \in Nat /\ hit \subseteq {<<>>}
      /\ \A x \in DOMAIN node : x \in Paths /\ x \in DOMAIN world /\ node[x].at = "returned" /\ NodeOK(x) /\
         IsPrefix(<<>>, x)
  BY <1>0, Back
<1>3. /\ DOMAIN node' = {m \in DOMAIN node : IsPrefix(m, f)} /\ node' = [x \in DOMAIN node' |-> node'[x]]
      /\ \A x \in DOMAIN node' : x \in DOMAIN node /\ IsPrefix(x, f) /\ node'[x] = node[x]
  BY <1>0, <1>1
<1>4. <<>> \in DOMAIN node' /\ f \in DOMAIN node' /\ node'[f].method = "Solved" /\ node'[<<>>].status = "Solved"
  BY <1>0, <1>1, <1>2, <1>3, PrefixOrder
<1>5. Types'
  <2>1. \A x \in DOMAIN node' : node'[x] \in Node
    BY <1>3 DEF Sound, Types, TypeOK
  <2> QED
    BY <1>0, <1>2, <1>3, <1>4, <2>1 DEF Sound, Types, TypeOK
<1>6. NoFalseProof' /\ AttackIsFound' /\ VerdictMatchesRoot'
  BY <1>4, Traced
<1>7. f \in Attacks /\ Len(f) < max_depth /\ f \in Paths
  BY <1>0, <1>1, <1>2, SolvedNode
<1>8. FirstAttack'
  <2>1. SUFFICES ASSUME ~late
                 PROVE  /\ DOMAIN node' = {n \in DOMAIN world : IsPrefix(n, f)}
                        /\ Len(f) < max_depth
                        /\ \A b \in Attacks : Len(b) < max_depth => ~Earlier(b, f)
                        /\ setup.cut = "Dfs" /\ max_depth > InitialDepth => \A b \in Attacks : 2 * Len(b) >= max_depth
    <3>1. Attacks' = Attacks
      BY <1>0, Frame
    <3> QED
      BY <1>0, <1>7, <3>1 DEF FirstAttack
  <2>2. DOMAIN node' = {n \in DOMAIN world : IsPrefix(n, f)}
    <3>1. ASSUME NEW n \in DOMAIN world, IsPrefix(n, f) PROVE n \in DOMAIN node
      <4>1. n \in Paths
        BY WorldTree DEF Sound
      <4> QED
        BY <1>2, <3>1, <4>1, Ancestors DEF Tree, NodeOK
    <3> QED
      BY <1>2, <1>3, <3>1
  <2>3. ASSUME NEW b \in Attacks, Len(b) < max_depth, Earlier(b, f) PROVE FALSE
    <3>0. b \in Paths /\ Len(b) \in Nat
      BY WorldTree DEF Sound, Attacks
    <3>1. CASE b \in DOMAIN node /\ node[b].method = "Solved"
      <4>1. b \in SolvedLeaves
        BY <1>2, <3>1, SolvedNode DEF SolvedLeaves
      <4> QED
        BY <1>1, <2>3, <4>1
    <3>2. CASE \E s \in DOMAIN node : node[s].status = "Solved" /\ Earlier(s, b)
      <4>1. PICK s \in DOMAIN node : node[s].status = "Solved" /\ Earlier(s, b)
        BY <3>2
      <4>2. PICK l \in SolvedLeaves : IsPrefix(s, l)
        BY <1>0, <4>1, SolvedMeans
      <4>3. s \in Paths /\ l \in Paths
        BY <1>2, <4>1, <4>2 DEF SolvedLeaves
      <4>4. Earlier(s, f)
        BY <1>7, <2>3, <3>0, <4>1, <4>3, EarlierOrder
      <4>5. Earlier(l, f)
        BY <1>7, <4>2, <4>3, <4>4, EarlierOrder
      <4> QED
        BY <1>1, <4>2, <4>5
    <3>3. CASE \E p \in DOMAIN node : IsPrefix(p, b) /\ Len(p) >= max_depth
      <4>1. PICK p \in DOMAIN node : IsPrefix(p, b) /\ Len(p) >= max_depth
        BY <3>3
      <4>2. Len(p) <= Len(b) /\ Len(p) \in Nat
        BY <1>2, <3>0, <4>1, PrefixOrder, PrefixIs
      <4> QED
        BY <1>2, <2>3, <3>0, <4>1, <4>2
    <3>4. setup.cut # "AfterSorry"
      BY <1>0
    <3> QED
      BY <1>0, <1>2, <2>1, <3>1, <3>2, <3>3, <3>4, Uncovered
  <2>4. setup.cut = "Dfs" /\ max_depth > InitialDepth => \A b \in Attacks : 2 * Len(b) >= max_depth
    BY DEF Sound, TreeOK, RoundOK
  <2> QED
    BY <1>7, <2>2, <2>3, <2>4
<1>9. ShallowestAttacks' /\ NothingAfterSorry'
  BY <1>0 DEF ShallowestAttacks, NothingAfterSorry
<1>10. NoStubIsLeft'
  <2>1. ASSUME NEW n \in DOMAIN node' PROVE node'[n].method # "depth limit"
    <3>1. CASE n = f
      BY <1>4, <3>1
    <3>2. CASE n # f
      <4>1. n \in DOMAIN node /\ n \in Paths /\ IsPrefix(n, f) /\ node'[n] = node[n]
        BY <1>2, <1>3, <2>1
      <4>2. node[n].method = "step"
        BY <1>2, <3>2, <4>1, Ancestors DEF Tree, NodeOK
      <4> QED
        BY <4>1, <4>2
    <3> QED
      BY <3>1, <3>2
  <2> QED
    BY <2>1 DEF NoStubIsLeft, is_depth_limited
<1>11. SystemsAreThere'
  <2>1. ASSUME setup.keep # "DropAll", NEW n \in DOMAIN node', node'[n].method = "Solved" PROVE n \in live'
    BY <1>0, <1>2, <1>3, <2>1 DEF NodeOK, LiveOK
  <2> QED
    BY <1>0, <2>1 DEF SystemsAreThere
<1> QED
  BY <1>0, <1>5, <1>6, <1>8, <1>9, <1>10, <1>11 DEF Result

\* What BFS keeps of the tree: D are the nodes down to its level, L those that become leaves.
Cut(F, D, L) ==
  /\ D = {n \in DOMAIN node : Len(n) <= Level} /\ L = {n \in D : Len(n) = Level \/ Children(n) = {}}
  /\ DOMAIN F = D /\ F = [x \in DOMAIN F |-> F[x]]
  /\ \A n \in L : Pending(n) => F[n].method \in {"bound reached", "ignored"} /\ F[n] \in Node
  /\ \A n \in L : ~Pending(n) => F[n] = node[n]
  /\ \A n \in D \ L : F[n] \in Node /\ F[n].method = node[n].method
  /\ \A n \in D \ L : \A b \in L : IsPrefix(n, b) /\ ~Pending(b) /\ node[b].status = "Solved" =>
     F[n].status = "Solved"

\* What a record with a new status is.
LEMMA StatusOnly ==
  ASSUME NEW r \in Node, NEW s \in Statuses
  PROVE  /\ [r EXCEPT !.status = s] \in Node /\ [r EXCEPT !.status = s].status = s
         /\ [r EXCEPT !.status = s].method = r.method
<1>1. [r EXCEPT !.status = s] = [at |-> r.at, method |-> r.method, status |-> s]
  BY DEF Node
<1>2. r.at \in Places /\ r.method \in Methods
  BY DEF Node
<1> QED
  BY <1>1, <1>2 DEF Node

\* The tree of BfsCut is such a tree.
LEMMA BfsCutIs ==
  ASSUME Types
  PROVE  \E D, L : Cut(BfsCut, D, L)
<1>1. PICK D : D = {n \in DOMAIN node : Len(n) <= Level}
  OBVIOUS
<1>2. PICK L : L = {n \in D : Len(n) = Level \/ Children(n) = {}}
  OBVIOUS
<1>3. PICK F : F = BfsCut
  OBVIOUS
<1>4. PICK G : G = [n \in D |-> IF ~Pending(n) THEN node[n]
                                ELSE Returned(IF \E m \in D : Len(m) = Level /\ node[m].method = "Solved" /\
                                  Earlier(m, n)
                                                THEN "ignored" ELSE "bound reached", "Sorry")]
  OBVIOUS
<1>5. \A n \in DOMAIN node : node[n] \in Node
  BY DEF Types, TypeOK
<1>6. /\ \A n \in D : Pending(n) => G[n].method \in {"bound reached", "ignored"} /\ G[n] \in Node
      /\ \A n \in D : ~Pending(n) => G[n] = node[n]
  <2>1. \A m \in {"bound reached", "ignored"} : Returned(m, "Sorry") \in Node /\ Returned(m, "Sorry").method = m
    BY DEF Returned, Node, Places, Methods, Sorries, Statuses
  <2>2. ASSUME NEW n \in D, Pending(n) PROVE \E m \in {"bound reached", "ignored"} : G[n] = Returned(m, "Sorry")
    BY <1>4, <2>2
  <2> QED
    BY <1>4, <2>1, <2>2
<1>7. F = [n \in D |-> IF n \in L THEN G[n]
                       ELSE [node[n] EXCEPT !.status = rollup_status({G[m].status : m \in {l \in L : IsPrefix(n,
                         l)}})]]
  <2>1. ASSUME NEW n \in D
        PROVE  {(IF ~Pending(m) THEN node[m]
                 ELSE Returned(IF \E k \in D : Len(k) = Level /\ node[k].method = "Solved" /\ Earlier(k, m)
                                 THEN "ignored" ELSE "bound reached", "Sorry")).status : m \in {l \in L :
                                   IsPrefix(n, l)}}
               = {G[m].status : m \in {l \in L : IsPrefix(n, l)}}
    BY <1>2, <1>4
  <2> QED
    BY <1>1, <1>2, <1>3, <1>4, <2>1 DEF BfsCut
<1>8. DOMAIN F = D /\ F = [x \in DOMAIN F |-> F[x]] /\ \A n \in L : F[n] = G[n]
  BY <1>2, <1>7
<1>9. ASSUME NEW n \in D \ L
      PROVE  /\ F[n] \in Node /\ F[n].method = node[n].method
             /\ \A b \in L : IsPrefix(n, b) /\ ~Pending(b) /\ node[b].status = "Solved" => F[n].status = "Solved"
  <2>1. PICK S : S = {G[m].status : m \in {l \in L : IsPrefix(n, l)}}
    OBVIOUS
  <2>2. PICK r \in Node : r = node[n]
    BY <1>1, <1>5
  <2>3. PICK s : s = rollup_status(S)
    OBVIOUS
  <2>4. F[n] = [r EXCEPT !.status = s]
    BY <1>7, <2>1, <2>2, <2>3
  <2>5. s \in Statuses /\ (s = "Solved" <=> "Solved" \in S)
    <3>1. s \in {"Solved", "Sorry", "Unfinishable", "Contradictory"} /\ (s = "Solved" <=> "Solved" \in S)
      BY <2>3, RollUp
    <3> QED
      BY <3>1 DEF Statuses, Finished
  <2>6. F[n] \in Node /\ F[n].method = node[n].method /\ F[n].status = s
    BY <2>2, <2>4, <2>5, StatusOnly
  <2>7. ASSUME NEW b \in L, IsPrefix(n, b), ~Pending(b), node[b].status = "Solved" PROVE "Solved" \in S
    <3>1. G[b].status = "Solved"
      BY <1>2, <1>6, <2>7
    <3> QED
      BY <2>1, <2>7, <3>1
  <2> QED
    BY <2>5, <2>6, <2>7
<1>10. Cut(F, D, L)
  BY <1>1, <1>2, <1>6, <1>8, <1>9 DEF Cut
<1> QED
  BY <1>3, <1>10

\* The end with what BFS keeps.
LEMMA LevelResult ==
  ASSUME Sound, EndsAtLevel
  PROVE  Types' /\ Result' /\ phase' = "done"
<1>0. /\ node[<<>>].at = "returned" /\ world' = world /\ setup' = setup /\ node' = BfsCut /\ max_depth' = max_depth
      /\ hit' = hit /\ late' = late /\ phase' = "done" /\ live' = live \cap DOMAIN node'
      /\ setup.cut = "Bfs" /\ BfsFound
  BY DEF EndsAtLevel, RoundOver, Stop
<1>1. PICK D, L : Cut(node', D, L)
  BY <1>0, BfsCutIs DEF Sound
<1>2. /\ D = {n \in DOMAIN node : Len(n) <= Level} /\ L = {n \in D : Len(n) = Level \/ Children(n) = {}}
      /\ DOMAIN node' = D /\ node' = [x \in DOMAIN node' |-> node'[x]]
      /\ \A n \in L : Pending(n) => node'[n].method \in {"bound reached", "ignored"} /\ node'[n] \in Node
      /\ \A n \in L : ~Pending(n) => node'[n] = node[n]
      /\ \A n \in D \ L : node'[n] \in Node /\ node'[n].method = node[n].method
      /\ \A n \in D \ L : \A b \in L : IsPrefix(n, b) /\ ~Pending(b) /\ node[b].status = "Solved" =>
         node'[n].status = "Solved"
  BY <1>1 DEF Cut
<1>3. /\ Tree /\ <<>> \in DOMAIN node /\ <<>> \in Paths /\ max_depth \in Nat /\ hit \subseteq {<<>>}
      /\ \A x \in DOMAIN node : x \in Paths /\ x \in DOMAIN world /\ node[x].at = "returned" /\ NodeOK(x) /\
         IsPrefix(<<>>, x)
      /\ \A x \in DOMAIN node : Len(x) \in Nat
      /\ DOMAIN node \subseteq DOMAIN world /\ live \subseteq DOMAIN node /\ \A x \in DOMAIN node : node[x] \in Node
  BY <1>0, Back, NodeTypes DEF Sound, Types, TypeOK
<1>4. Level \in Nat /\ Level >= 1 /\ Level < max_depth
  <2>1. max_depth >= 2
    BY <1>0 DEF Sound, TreeOK, RoundOK
  <2> QED
    BY <1>3, <2>1 DEF Level
\* A solved node of the level stays as it is.
<1>5. ASSUME NEW x \in DOMAIN node, node[x].method = "Solved", Len(x) = Level
      PROVE  x \in L /\ ~Pending(x) /\ node'[x] = node[x] /\ node[x].status = "Solved" /\ x \in Attacks
  <2>1. node[x].status = "Solved" /\ Children(x) = {} /\ x \in Attacks
    BY <1>0, <1>3, <1>5, SolvedNode
  <2>2. x \in L
    <3>1. Len(x) <= Level
      BY <1>4, <1>5
    <3> QED
      BY <1>2, <1>5, <2>1, <3>1
  <2>3. ~Pending(x)
    BY <1>5, <2>1 DEF Pending, is_depth_limited
  <2> QED
    BY <1>2, <2>1, <2>2, <2>3
<1>6. PICK b \in DOMAIN node : Len(b) = Level /\ node[b].method = "Solved"
  BY <1>0 DEF BfsFound
<1>7. b # <<>> /\ IsPrefix(<<>>, b)
  <2>1. Len(<<>>) = 0 /\ Level # 0
    BY <1>4
  <2> QED
    BY <1>3, <1>6, <2>1
<1>8. <<>> \in D \ L
  <2>1. Len(<<>>) = 0 /\ 0 <= Level /\ Level # 0
    BY <1>4
  <2>2. Children(<<>>) # {}
    BY <1>3, <1>7, Ancestors DEF Tree, NodeOK
  <2> QED
    BY <1>2, <1>3, <2>1, <2>2
<1>9. /\ <<>> \in DOMAIN node' /\ node'[<<>>].status = "Solved" /\ b \in DOMAIN node' /\ node'[b].method = "Solved"
      /\ b \in Attacks
  <2>1. b \in L /\ ~Pending(b) /\ node'[b] = node[b] /\ node[b].status = "Solved" /\ b \in Attacks
    BY <1>5, <1>6
  <2> QED
    BY <1>2, <1>6, <1>7, <1>8, <2>1
<1>10. NoFalseProof' /\ AttackIsFound' /\ VerdictMatchesRoot'
  BY <1>9, Traced
<1>11. Types'
  <2>1. \A x \in DOMAIN node' : node'[x] \in Node
    BY <1>2, <1>3
  <2>2. DOMAIN node' \subseteq DOMAIN world /\ hit \subseteq DOMAIN node' /\ live' \subseteq DOMAIN node'
    BY <1>0, <1>2, <1>3, <1>9
  <2> QED
    BY <1>0, <1>2, <1>9, <2>1, <2>2 DEF Sound, Types, TypeOK
\* No attack is above the level.
<1>12. ASSUME NEW a \in Attacks PROVE Len(a) \in Nat /\ Len(a) >= Level
  <2>1. a \in Paths /\ a \in DOMAIN world /\ world[a] = "Solved" /\ Len(a) \in Nat
    BY WorldTree DEF Sound, Attacks
  <2>2. a # <<>>
    <3>1. node[<<>>].method = "step"
      BY <1>3, <1>7, Ancestors DEF Tree, NodeOK
    <3>2. world[<<>>] = "open"
      BY <1>3, <3>1 DEF NodeOK, StateOK
    <3> QED
      BY <2>1, <3>2
  <2> QED
    BY <1>0, <2>1, <2>2 DEF Sound, TreeOK, RoundOK
<1>13. FirstAttack' /\ NothingAfterSorry'
  BY <1>0 DEF FirstAttack, NothingAfterSorry
<1>14. ShallowestAttacks'
  <2>1. Attacks' = Attacks
    BY <1>0, Frame
  <2>2. ASSUME NEW a \in Attacks, NEW n \in DOMAIN node' PROVE Len(n) <= Len(a)
    <3>1. Len(a) \in Nat /\ Len(a) >= Level
      BY <1>12
    <3>2. Len(n) \in Nat /\ Len(n) <= Level
      BY <1>2, <1>3
    <3> QED
      BY <1>4, <3>1, <3>2
  <2>3. ASSUME ~late, NEW a \in Attacks, \A c \in Attacks : Len(a) <= Len(c)
        PROVE  a \in DOMAIN node' /\ node'[a].method = "Solved"
    <3>1. Len(a) = Level /\ a \in Paths
      <4>1. Len(a) \in Nat /\ Len(a) >= Level /\ Len(a) <= Len(b)
        BY <1>9, <1>12, <2>3
      <4> QED
        BY <1>4, <1>6, <4>1, WorldTree DEF Sound, Attacks
    <3>2. ASSUME NEW p \in DOMAIN node, IsPrefix(p, a), Len(p) >= max_depth PROVE FALSE
      <4>1. Len(p) <= Len(a) /\ Len(p) \in Nat
        BY <1>3, <3>1, <3>2, PrefixOrder
      <4> QED
        BY <1>3, <1>4, <3>1, <3>2, <4>1
    <3>3. setup.cut # "AfterSorry"
      BY <1>0
    <3>4. a \in DOMAIN node /\ node[a].method = "Solved"
      BY <1>0, <1>3, <2>3, <3>2, <3>3, Uncovered
    <3>5. a \in L /\ node'[a] = node[a]
      BY <1>5, <3>1, <3>4
    <3> QED
      BY <1>2, <3>4, <3>5
  <2> QED
    BY <1>0, <2>1, <2>2, <2>3 DEF ShallowestAttacks
<1>15. NoStubIsLeft'
  <2>1. ASSUME ~late, NEW n \in D, node'[n].method = "depth limit" PROVE FALSE
    <3>1. CASE n \in L /\ Pending(n)
      BY <1>2, <2>1, <3>1
    <3>2. CASE n \in L /\ ~Pending(n)
      <4>1. n \in DOMAIN node /\ node[n].method = "depth limit"
        BY <1>2, <2>1, <3>2
      <4>2. is_depth_limited(n)
        BY <1>3, <4>1 DEF is_depth_limited, NodeOK, StateOK, Sorries
      <4>3. Len(n) # Level
        BY <3>2, <4>2 DEF Pending
      <4>4. Len(n) < max_depth
        <5>1. Len(n) \in Nat /\ Len(n) <= Level
          BY <1>2, <1>3, <4>1
        <5> QED
          BY <1>3, <1>4, <5>1
      <4>5. OldOK(n)
        BY <1>3, <4>1 DEF NodeOK
      <4> QED
        BY <1>0, <1>3, <2>1, <4>2, <4>4, <4>5 DEF OldOK
    <3>3. CASE n \notin L
      <4>1. n \in DOMAIN node /\ node[n].method = "depth limit" /\ Children(n) # {}
        BY <1>2, <2>1, <3>3
      <4>2. PICK c \in DOMAIN node : c # <<>> /\ Front(c) = n
        BY <1>3, <4>1, CasesAre DEF Sound
      <4>3. node[n].method = "step"
        BY <1>3, <4>2 DEF NodeOK, ParentOK
      <4> QED
        BY <4>1, <4>3
    <3> QED
      BY <3>1, <3>2, <3>3
  <2> QED
    BY <1>0, <1>2, <2>1 DEF NoStubIsLeft, is_depth_limited
<1>16. SystemsAreThere'
  <2>1. ASSUME setup.keep # "DropAll", NEW n \in D, node'[n].method = "Solved" PROVE n \in live'
    <3>1. n \in DOMAIN node /\ node[n].method = "Solved"
      BY <1>2, <2>1
    <3>2. n \in live
      BY <1>3, <2>1, <3>1 DEF NodeOK, LiveOK
    <3> QED
      BY <1>0, <1>2, <3>2
  <2> QED
    BY <1>0, <1>2, <2>1 DEF SystemsAreThere
<1> QED
  BY <1>0, <1>10, <1>11, <1>13, <1>14, <1>15, <1>16 DEF Result

\* However the search ends, its result is as it should be.
LEMMA StopKeeps ==
  ASSUME Sound, EndDfs \/ EndBfs
  PROVE  Types' /\ Result' /\ phase' = "done"
<1>1. EndsWhole \/ EndsWithPath \/ EndsAtLevel
  BY Endings
<1> QED
  BY <1>1, WholeResult, PathResult, LevelResult

-----------------------------------------------------------------------------
(* The theorems.                                                           *)

\* A search that is over stays as it is.
LEMMA OverKeeps ==
  ASSUME Types, Result, UNCHANGED vars
  PROVE  Types' /\ Result'
<1>0. /\ world' = world /\ setup' = setup /\ node' = node /\ live' = live /\ max_depth' = max_depth
      /\ hit' = hit /\ late' = late /\ phase' = phase
  BY DEF vars
<1>1. Types'
  BY <1>0 DEF Types, TypeOK
<1>2. /\ \A x : Children(x)' = Children(x)
      /\ \A x : is_depth_limited(x)' <=> is_depth_limited(x)
      /\ Attacks' = Attacks /\ Root' = Root /\ proof_status' = proof_status
  BY <1>0 DEF Children, is_depth_limited, Attacks, Root, proof_status
<1>3. NoFalseProof' /\ AttackIsFound' /\ VerdictMatchesRoot'
  BY <1>0, <1>2 DEF Result, NoFalseProof, AttackIsFound, VerdictMatchesRoot
<1>4. FirstAttack'
  BY <1>0, <1>2 DEF Result, FirstAttack
<1>5. ShallowestAttacks'
  BY <1>0, <1>2 DEF Result, ShallowestAttacks
<1>6. NothingAfterSorry' /\ NoStubIsLeft' /\ SystemsAreThere'
  BY <1>0, <1>2 DEF Result, NothingAfterSorry, NoStubIsLeft, SystemsAreThere
<1> QED
  BY <1>1, <1>3, <1>4, <1>5, <1>6 DEF Result

\* Every step keeps the invariant of the search.
LEMMA SearchKeeps ==
  ASSUME SearchInv, [Next]_vars
  PROVE  SearchInv'
<1>0. Types /\ phase \in {"search", "done", "error"}
  BY DEF SearchInv, Types, TypeOK
<1>1. CASE phase # "search"
  <2>1. UNCHANGED vars
    BY <1>1 DEF Next, Step, Bound, Park, Close, GiveUp, NoMethod, NoCases, Fail, Opens, Evaluates, Expands, Branch,
         Leave,
                Walk, LeaveWalk, EndDfs, NextRoundDfs, EndBfs, NextRoundBfs, RoundOver, Expire, Over
  <2>2. phase' = phase
    BY <2>1 DEF vars
  <2>3. Types'
    BY <1>0, <2>1 DEF vars, Types, TypeOK
  <2>4. phase = "done" => Result'
    BY <1>0, <2>1, OverKeeps DEF SearchInv
  <2> QED
    BY <1>1, <2>2, <2>3, <2>4 DEF SearchInv
<1>2. CASE phase = "search"
  <2>0. Sound
    BY <1>2 DEF SearchInv, Sound
  <2>1. Sound' /\ phase' = phase => SearchInv'
    BY <1>2 DEF SearchInv, Sound
  <2>2. ASSUME NEW n \in DOMAIN node,
               Bound(n) \/ Park(n) \/ Close(n) \/ GiveUp(n) \/ NoMethod(n) \/ NoCases(n)
                 \/ Branch(n) \/ Leave(n) \/ Walk(n) \/ LeaveWalk(n)
        PROVE  SearchInv'
    BY <2>0, <2>1, <2>2, StepKeeps
  <2>3. ASSUME NEW n \in DOMAIN node, Fail(n) PROVE SearchInv'
    <3>1. /\ world' = world /\ setup' = setup /\ node' = node /\ live' = live /\ max_depth' = max_depth
          /\ hit' = hit /\ late' = late /\ phase' = "error"
      BY <2>3 DEF Fail
    <3>2. Types'
      BY <1>0, <3>1 DEF Types, TypeOK
    <3> QED
      BY <3>1, <3>2 DEF SearchInv
  <2>4. CASE NextRoundDfs \/ NextRoundBfs
    BY <2>0, <2>1, <2>4, RoundKeeps
  <2>5. CASE EndDfs \/ EndBfs
    <3>1. Types' /\ Result' /\ phase' = "done"
      BY <2>0, <2>5, StopKeeps
    <3> QED
      BY <3>1 DEF SearchInv
  <2>6. CASE Expire \/ UNCHANGED vars
    BY <2>0, <2>1, <2>6, ClockKeeps
  <2>7. CASE Over
    BY <1>2, <2>7 DEF Over
  <2> QED
    BY <2>2, <2>3, <2>4, <2>5, <2>6, <2>7 DEF Next, Step
<1> QED
  BY <1>1, <1>2

\* The invariant holds at every moment of every search: a tree in order while it
\* runs, and a result as it should be once it is over.
THEOREM SearchInvariant == Spec => []SearchInv
<1>1. Init => SearchInv
  <2>1. Init => Sound /\ phase = "search"
    BY InitSound
  <2> QED
    BY <2>1 DEF SearchInv, Sound
<1>2. SearchInv /\ [Next]_vars => SearchInv'
  BY SearchKeeps
<1> QED
  BY <1>1, <1>2, PTL DEF Spec

\* What the invariant says of the properties.
LEMMA InvariantMeans ==
  ASSUME SearchInv
  PROVE  /\ TypeOK /\ NoFalseProof /\ AttackIsFound /\ VerdictMatchesRoot /\ FirstAttack /\ ShallowestAttacks
         /\ NothingAfterSorry /\ NoStubIsLeft /\ SystemsAreThere
<1>1. TypeOK
  BY DEF SearchInv, Types
<1>2. CASE phase = "done"
  BY <1>1, <1>2 DEF SearchInv, Result
<1>3. CASE phase # "done"
  <2>1. phase = "search" => \A n \in DOMAIN node : node[n].at = "new" \/ is_depth_limited(n) => n \in live
    BY DEF SearchInv, TreeOK, NodeOK, LiveOK
  <2>2. SystemsAreThere
    BY <1>3, <2>1 DEF SystemsAreThere
  <2>3. NoFalseProof /\ AttackIsFound /\ VerdictMatchesRoot /\ FirstAttack /\ ShallowestAttacks
        /\ NothingAfterSorry /\ NoStubIsLeft
    BY <1>3 DEF NoFalseProof, AttackIsFound, VerdictMatchesRoot, FirstAttack, ShallowestAttacks,
                NothingAfterSorry, NoStubIsLeft
  <2> QED
    BY <1>1, <2>2, <2>3
<1> QED
  BY <1>2, <1>3

\* The tree has its type: nodes of the search space only, and systems and flags of
\* nodes that exist.
THEOREM SearchTypes == Spec => []TypeOK
<1>1. SearchInv => TypeOK
  BY InvariantMeans
<1> QED
  BY <1>1, SearchInvariant, PTL

\* A proof that is complete has closed every case there is, under every strategy,
\* bound and deadline and in every order of the workers.
THEOREM NoProofIsFalse == Spec => []NoFalseProof
<1>1. SearchInv => NoFalseProof
  BY InvariantMeans
<1> QED
  BY <1>1, SearchInvariant, PTL

\* A search that is given the time finds an attack if there is one above the bound.
THEOREM AttacksAreFound == Spec => []AttackIsFound
<1>1. SearchInv => AttackIsFound
  BY InvariantMeans
<1> QED
  BY <1>1, SearchInvariant, PTL

\* The verdict that the fold over the methods gives is the status of the root.
THEOREM VerdictsMatch == Spec => []VerdictMatchesRoot
<1>1. SearchInv => VerdictMatchesRoot
  BY InvariantMeans
<1> QED
  BY <1>1, SearchInvariant, PTL

\* The path that is printed leads to the first attack, in case order, of the first
\* round that sees one: the schedule of the workers does not show in it.
THEOREM PathIsFirst == Spec => []FirstAttack
<1>1. SearchInv => FirstAttack
  BY InvariantMeans
<1> QED
  BY <1>1, SearchInvariant, PTL

\* BFS keeps the attacks of the least depth, all of them, and nothing deeper.
THEOREM LevelIsShallowest == Spec => []ShallowestAttacks
<1>1. SearchInv => ShallowestAttacks
  BY InvariantMeans
<1> QED
  BY <1>1, SearchInvariant, PTL

\* AfterSorry tries nothing after the first sorry or attack.
THEOREM SorryIsLast == Spec => []NothingAfterSorry
<1>1. SearchInv => NothingAfterSorry
  BY InvariantMeans
<1> QED
  BY <1>1, SearchInvariant, PTL

\* A search that ends in time leaves no stub of the depth limit in its result.
THEOREM StubsAreGone == Spec => []NoStubIsLeft
<1>1. SearchInv => NoStubIsLeft
  BY InvariantMeans
<1> QED
  BY <1>1, SearchInvariant, PTL

\* No node is expanded without its system, and no attack is printed without its own.
THEOREM SystemsAreKept == Spec => []SystemsAreThere
<1>1. SearchInv => SystemsAreThere
  BY InvariantMeans
<1> QED
  BY <1>1, SearchInvariant, PTL

\* While the search goes on, a node keeps the method it was given.
LEMMA MethodKept ==
  ASSUME Sound, Next, phase' = "search",
         NEW x \in DOMAIN node, node[x].method \notin {"unset", "depth limit"}
  PROVE  x \in DOMAIN node' /\ node'[x].method = node[x].method
<1>1. ASSUME NEW n \in DOMAIN node,
             Bound(n) \/ Park(n) \/ Close(n) \/ GiveUp(n) \/ NoMethod(n) \/ NoCases(n)
      PROVE  x \in DOMAIN node' /\ node'[x].method = node[x].method
  <2>1. PICK m \in Methods, s \in Statuses : Answer(n, m, s)
    BY <1>1, AnswerSteps
  <2>2. DOMAIN node' = DOMAIN node /\ \A y \in DOMAIN node : y # n => node'[y] = node[y]
    BY <2>1, AnswerEffect
  <2>3. node[n].method \in {"unset", "depth limit"}
    BY <2>1, ExpandsFinds DEF Answer
  <2> QED
    BY <2>2, <2>3
<1>2. ASSUME NEW n \in DOMAIN node, Branch(n)
      PROVE  x \in DOMAIN node' /\ node'[x].method = node[x].method
  <2>1. Expands(n) /\ DOMAIN node' = DOMAIN node \cup Cases(n) /\ \A y \in DOMAIN node : y # n =>
       node'[y] = node[y] /\ Children(y)' = Children(y)
    BY <1>2, BranchEffect
  <2>2. node[n].method \in {"unset", "depth limit"}
    BY <2>1, ExpandsFinds
  <2> QED
    BY <2>1, <2>2
<1>3. ASSUME NEW n \in DOMAIN node, Leave(n)
      PROVE  x \in DOMAIN node' /\ node'[x].method = node[x].method
  <2>1. PICK R, K : Left(n, R, K)
    BY <1>3, LeaveEffect
  <2>2. /\ R = {m \in Cases(n) : node[m].at = "new"} /\ DOMAIN node' = (DOMAIN node \ R) \cup K
        /\ \A y \in DOMAIN node \ R : y # n => node'[y] = node[y]
        /\ node'[n].method = "step"
    BY <2>1 DEF Left
  <2>3. x \notin R
    BY <2>2 DEF Sound, TreeOK, NodeOK, StateOK
  <2>4. node[n].method = "step"
    <3>1. node[n].at = "expanding"
      BY <1>3 DEF Leave
    <3> QED
      BY <3>1, Expanding
  <2> QED
    BY <2>2, <2>3, <2>4
<1>4. ASSUME NEW n \in DOMAIN node, Walk(n)
      PROVE  x \in DOMAIN node' /\ node'[x].method = node[x].method
  <2>1. PICK t : Walked(n, t)
    BY <1>4, WalkEffect
  <2> QED
    BY <2>1 DEF Walked
<1>5. ASSUME NEW n \in DOMAIN node, LeaveWalk(n)
      PROVE  x \in DOMAIN node' /\ node'[x].method = node[x].method
  <2>1. PICK u : WalkLeft(n, u)
    BY <1>5, LeaveWalkEffect
  <2> QED
    BY <2>1 DEF WalkLeft
<1>6. CASE NextRoundDfs \/ NextRoundBfs
  <2>1. PICK d : Deeper(d)
    BY <1>6, NextRounds
  <2> QED
    BY <2>1, DeepenEffect
<1>7. ASSUME NEW n \in DOMAIN node, Fail(n) PROVE FALSE
  BY <1>7 DEF Fail
<1>8. ASSUME EndDfs \/ EndBfs PROVE FALSE
  BY <1>8 DEF EndDfs, EndBfs, Stop
<1>9. CASE Expire \/ Over
  BY <1>9 DEF Expire, Over, vars
<1> QED
  BY <1>1, <1>2, <1>3, <1>4, <1>5, <1>6, <1>7, <1>8, <1>9 DEF Next, Step

\* Deepening keeps what it has: no node that was given a method is evaluated again.
THEOREM SearchEvaluatesOnce == Spec => EvaluatedOnce
<1>1. ASSUME SearchInv, [Next]_vars
      PROVE  [\A n \in DOMAIN node :
                node[n].method \notin {"unset", "depth limit"} /\ phase' = "search" =>
                  n \in DOMAIN node' /\ node'[n].method = node[n].method]_vars
  <2>1. CASE UNCHANGED vars
    BY <2>1
  <2>2. CASE Next /\ phase = "search"
    <3>1. Sound
      BY <1>1, <2>2 DEF SearchInv, Sound
    <3> QED
      BY <2>2, <3>1, MethodKept
  <2>3. CASE Next /\ phase # "search"
    <3>1. UNCHANGED vars
      BY <2>3 DEF Next, Step, Bound, Park, Close, GiveUp, NoMethod, NoCases, Fail, Opens, Evaluates, Expands,
           Branch, Leave,
                  Walk, LeaveWalk, EndDfs, NextRoundDfs, EndBfs, NextRoundBfs, RoundOver, Expire, Over
    <3> QED
      BY <3>1
  <2> QED
    BY <1>1, <2>1, <2>2, <2>3
<1>2. Spec => [][Next]_vars
  BY DEF Spec
<1> QED
  BY <1>1, <1>2, SearchInvariant, PTL DEF EvaluatedOnce
=============================================================================
