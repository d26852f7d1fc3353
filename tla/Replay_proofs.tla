---------------------------- MODULE Replay_proofs ----------------------------
(***************************************************************************)
(* Proofs about Replay, for every calculus, stored proof and theory.       *)
(*                                                                         *)
(* TreeInv is inductive.  It says of every node where its system comes     *)
(* from (UpOK), and of a call that is on its way or has returned what is   *)
(* below it (CasesOK, SplitOK, DoneOK, CallOK): a step that applied has a  *)
(* node for each of its cases, unless the prover solved one of them.       *)
(* VerdictIsTrue follows: a solved node has a solution, which the steps    *)
(* above it hand up to the root; and if the root has a solution, the       *)
(* longest path of nodes with one ends at a node that is no proof.         *)
(*                                                                         *)
(* LoadInv says where the blocks of a stored step are while a file is      *)
(* loaded, and NothingIsDropped follows, step by step from the root.       *)
(*                                                                         *)
(* Keeps is the frame of both: a step changes a node and what is below it. *)
(***************************************************************************)
EXTENDS Replay, SequenceTheorems, FiniteSetTheorems, WellFoundedInduction, TLAPS

-----------------------------------------------------------------------------
(* Sequences as paths.                                                     *)

\* The least element of a set of numbers.
LEMMA LeastNat ==
  ASSUME NEW S, S \subseteq Nat, S # {}
  PROVE  \E n \in S : \A m \in S : n <= m
<1>1. PICK n \in S : \A m \in S : ~(<<m, n>> \in OpToRel(<, Nat))
  BY WFMin, NatLessThanWellFounded
<1>2. \A m \in S : <<m, n>> \in Nat \X Nat /\ <<m, n>>[1] = m /\ <<m, n>>[2] = n
  OBVIOUS
<1>3. \A m \in S : ~(m < n)
  BY <1>1, <1>2 DEF OpToRel
<1> QED
  BY <1>3

\* The greatest element of a bounded set of numbers.
LEMMA GreatestNat ==
  ASSUME NEW S, NEW b \in Nat, S \subseteq 0..b, S # {}
  PROVE  \E n \in S : \A m \in S : m <= n
<1>1. PICK D : D = {b - n : n \in S}
  OBVIOUS
<1>2. D \subseteq Nat /\ D # {}
  <2>1. \A n \in S : n \in Nat /\ n <= b /\ b - n \in Nat
    OBVIOUS
  <2> QED
    BY <1>1, <2>1
<1>3. PICK d \in D : \A e \in D : d <= e
  BY <1>2, LeastNat
<1>4. PICK n \in S : d = b - n
  BY <1>1, <1>3
<1>5. \A m \in S : b - m \in D /\ b - n <= b - m
  BY <1>1, <1>3, <1>4
<1> QED
  BY <1>5

\* The shortest and, if there is a bound, the longest of some paths.
LEMMA ByLength ==
  ASSUME NEW E, NEW S, S \subseteq Seq(E), S # {}
  PROVE  /\ \E p \in S : \A r \in S : Len(p) <= Len(r)
         /\ \A b \in Nat : (\A p \in S : Len(p) <= b) => \E p \in S : \A r \in S : Len(r) <= Len(p)
<1>1. PICK L : L = {Len(p) : p \in S}
  OBVIOUS
<1>2. L \subseteq Nat /\ L # {}
  <2>1. \A p \in S : Len(p) \in Nat
    BY LenProperties
  <2> QED
    BY <1>1, <2>1
<1>3. \E p \in S : \A r \in S : Len(p) <= Len(r)
  <2>1. PICK k \in L : \A l \in L : k <= l
    BY <1>2, LeastNat
  <2> QED
    BY <1>1, <2>1
<1>4. ASSUME NEW b \in Nat, \A p \in S : Len(p) <= b
      PROVE  \E p \in S : \A r \in S : Len(r) <= Len(p)
  <2>1. L \subseteq 0..b
    <3>1. \A p \in S : Len(p) \in Nat /\ Len(p) <= b
      BY <1>4, LenProperties
    <3> QED
      BY <1>1, <3>1
  <2>2. PICK k \in L : \A l \in L : l <= k
    BY <1>2, <2>1, GreatestNat
  <2> QED
    BY <1>1, <2>2
<1> QED
  BY <1>3, <1>4

\* The first k elements of a sequence.
LEMMA FirstPart ==
  ASSUME NEW E, NEW n \in Seq(E), NEW k \in 0..Len(n)
  PROVE  /\ SubSeq(n, 1, k) \in Seq(E) /\ Len(SubSeq(n, 1, k)) = k /\ Len(n) \in Nat /\ k \in Nat
         /\ \A i \in 1..k : SubSeq(n, 1, k)[i] = n[i] /\ n[i] \in E
<1>1. Len(n) \in Nat /\ k \in Nat /\ \A i \in 1..k : i \in 1..Len(n) /\ n[i] \in E
  BY ElementOfSeq, LenProperties
<1>2. /\ SubSeq(n, 1, k) \in Seq(E)
      /\ Len(SubSeq(n, 1, k)) = IF 1 <= k THEN k - 1 + 1 ELSE 0
      /\ \A i \in 1..k - 1 + 1 : SubSeq(n, 1, k)[i] = n[1 + i - 1]
  BY <1>1, SubSeqProperties
<1> QED
  BY <1>1, <1>2

\* A path is a shorter one and a last step.
LEMMA PathEnds ==
  ASSUME NEW E, NEW n \in Seq(E), n # <<>>
  PROVE  /\ Front(n) \in Seq(E) /\ Last(n) \in E /\ Len(n) \in Nat /\ Len(Front(n)) = Len(n) - 1
         /\ Len(n) > 0
         /\ n = Append(Front(n), Last(n))
         /\ \A i \in 1..Len(n) - 1 : Front(n)[i] = n[i]
<1>1. Len(n) \in Nat \ {0} /\ \A i \in 1..Len(n) : n[i] \in E
  BY EmptySeq, ElementOfSeq
<1>2. PICK k \in 0..Len(n) : k = Len(n) - 1
  <2>1. Len(n) - 1 \in 0..Len(n)
    BY <1>1
  <2> QED
    BY <2>1
<1>3. /\ Front(n) \in Seq(E) /\ Len(Front(n)) = Len(n) - 1
      /\ \A i \in 1..Len(n) - 1 : Front(n)[i] = n[i]
  <2>1. /\ SubSeq(n, 1, k) \in Seq(E) /\ Len(SubSeq(n, 1, k)) = k
        /\ \A i \in 1..k : SubSeq(n, 1, k)[i] = n[i]
    BY <1>2, FirstPart
  <2> QED
    BY <1>2, <2>1 DEF Front
<1>4. Last(n) \in E
  BY <1>1 DEF Last
<1>5. /\ Append(Front(n), Last(n)) \in Seq(E) /\ Len(Append(Front(n), Last(n))) = Len(n)
      /\ \A i \in 1..Len(n) - 1 : Append(Front(n), Last(n))[i] = Front(n)[i]
      /\ Append(Front(n), Last(n))[Len(n)] = Last(n)
  BY <1>1, <1>3, <1>4, AppendProperties
<1>6. \A i \in 1..Len(n) : n[i] = Append(Front(n), Last(n))[i]
  BY <1>1, <1>3, <1>5 DEF Last
<1>7. n = Append(Front(n), Last(n))
  BY <1>5, <1>6, SeqEqual
<1> QED
  BY <1>1, <1>3, <1>4, <1>7

\* A path with one more step.
LEMMA AppendEnds ==
  ASSUME NEW E, NEW n \in Seq(E), NEW c \in E
  PROVE  /\ Append(n, c) \in Seq(E) /\ Append(n, c) # <<>> /\ Append(n, c) # n
         /\ Front(Append(n, c)) = n /\ Last(Append(n, c)) = c
         /\ Len(Append(n, c)) = Len(n) + 1 /\ Len(n) \in Nat
<1>1. /\ Append(n, c) \in Seq(E) /\ Append(n, c) # <<>> /\ Len(Append(n, c)) = Len(n) + 1
      /\ Append(n, c)[Len(n) + 1] = c /\ Len(n) \in Nat
  BY AppendProperties, LenProperties
<1>2. Last(Append(n, c)) = c
  BY <1>1 DEF Last
<1>3. /\ Append(n, c) = Append(Front(Append(n, c)), Last(Append(n, c)))
      /\ Front(Append(n, c)) \in Seq(E) /\ Last(Append(n, c)) \in E
  BY <1>1, PathEnds
<1>4. Front(Append(n, c)) = n
  BY <1>3, AppendInjective
<1> QED
  BY <1>1, <1>2, <1>4

\* Prefixes, element by element.
LEMMA PrefixIs ==
  ASSUME NEW E, NEW m \in Seq(E), NEW n \in Seq(E)
  PROVE  /\ Len(m) \in Nat /\ Len(n) \in Nat
         /\ IsPrefix(m, n) <=> Len(m) <= Len(n) /\ \A i \in 1..Len(m) : m[i] = n[i]
<1>1. Len(m) \in Nat /\ Len(n) \in Nat
  BY LenProperties
<1>2. SubSeq(m, 1, Len(m)) = m
  BY SubSeqFull
<1>3. ASSUME Len(m) <= Len(n)
      PROVE  SubSeq(n, 1, Len(m)) = m <=> \A i \in 1..Len(m) : m[i] = n[i]
  <2>1. /\ SubSeq(n, 1, Len(m)) \in Seq(E) /\ Len(SubSeq(n, 1, Len(m))) = Len(m)
        /\ \A i \in 1..Len(m) : SubSeq(n, 1, Len(m))[i] = n[i]
    BY <1>1, <1>3, FirstPart
  <2>2. (\A i \in 1..Len(m) : m[i] = n[i]) => SubSeq(n, 1, Len(m)) = m
    BY <2>1, SeqEqual
  <2> QED
    BY <2>1, <2>2
<1> QED
  BY <1>1, <1>2, <1>3 DEF IsPrefix

\* Prefixes are ordered by length, and Front is the longest that is not the path itself.
LEMMA PrefixOrder ==
  ASSUME NEW E, NEW m \in Seq(E), NEW n \in Seq(E)
  PROVE  /\ IsPrefix(<<>>, n) /\ IsPrefix(n, n)
         /\ IsPrefix(m, n) => Len(m) <= Len(n) /\ Len(m) \in Nat /\ Len(n) \in Nat
         /\ IsPrefix(m, n) /\ Len(m) = Len(n) => m = n
         /\ n # <<>> => (IsPrefix(m, Front(n)) <=> IsPrefix(m, n) /\ m # n)
         /\ n # <<>> => IsPrefix(Front(n), n)
         /\ \A l \in Seq(E) : IsPrefix(l, m) /\ IsPrefix(m, n) => IsPrefix(l, n)
<1>1. <<>> \in Seq(E) /\ Len(<<>>) = 0
  BY EmptySeq
<1>2. IsPrefix(<<>>, n) /\ IsPrefix(n, n)
  <2>1. Len(n) \in Nat /\ (IsPrefix(n, n) <=> Len(n) <= Len(n) /\ \A i \in 1..Len(n) : n[i] = n[i])
    BY PrefixIs
  <2>2. PICK e \in Seq(E) : e = <<>>
    BY <1>1
  <2>3. IsPrefix(e, n) <=> Len(e) <= Len(n) /\ \A i \in 1..Len(e) : e[i] = n[i]
    BY PrefixIs
  <2>4. (\A i \in 1..Len(e) : FALSE) /\ Len(e) <= Len(n)
    BY <1>1, <2>1, <2>2
  <2> QED
    BY <2>1, <2>2, <2>3, <2>4
<1>3. IsPrefix(m, n) => Len(m) <= Len(n) /\ Len(m) \in Nat /\ Len(n) \in Nat
  BY PrefixIs
<1>4. IsPrefix(m, n) /\ Len(m) = Len(n) => m = n
  BY PrefixIs, SeqEqual
<1>5. ASSUME n # <<>>
      PROVE  (IsPrefix(m, Front(n)) <=> IsPrefix(m, n) /\ m # n) /\ IsPrefix(Front(n), n)
  <2>1. /\ Front(n) \in Seq(E) /\ Len(Front(n)) = Len(n) - 1 /\ Len(n) \in Nat /\ Len(m) \in Nat
        /\ \A i \in 1..Len(n) - 1 : Front(n)[i] = n[i]
    BY <1>5, PathEnds, LenProperties
  <2>2. IsPrefix(m, Front(n)) <=> Len(m) <= Len(n) - 1 /\ \A i \in 1..Len(m) : m[i] = n[i]
    BY <2>1, PrefixIs
  <2>3. IsPrefix(m, n) /\ m # n => Len(m) <= Len(n) - 1
    BY <1>3, <1>4, <2>1
  <2>4. IsPrefix(Front(n), n)
    BY <2>1, PrefixIs
  <2> QED
    BY <2>1, <2>2, <2>3, <2>4, PrefixIs
<1>6. ASSUME NEW l \in Seq(E), IsPrefix(l, m), IsPrefix(m, n) PROVE IsPrefix(l, n)
  BY <1>6, PrefixIs
<1> QED
  BY <1>2, <1>3, <1>4, <1>5, <1>6

-----------------------------------------------------------------------------
(* The invariants.                                                         *)

\* The cases of the method at n.
ExecOf(n) == calc.exec[node[n].sys][node[n].method]

\* The step at n applies.
Applies(n) == node[n].annotated /\ node[n].method \in Executable /\ ExecOf(n) # None

\* Every case of the step at n is a node that was replayed or proved.
AllCases(n) == \A k \in DOMAIN ExecOf(n) : Append(n, k) \in DOMAIN node /\ node[Append(n, k)].annotated

\* A node the prover built.
Searched(n) == node[n].annotated /\ node[n].from = None

\* The prover has solved a case below n, and perhaps dropped the others.
SolvedKid(n) == \E r \in Kids(n) : Searched(r) /\ node[r].status = "Solved"

\* A node with a system has it from the step above; a node without one stands
\* where no produced case is.
UpOK(n) ==
  /\ n # <<>> /\ node[n].annotated =>
       /\ Applies(Front(n)) /\ Last(n) \in DOMAIN ExecOf(Front(n))
       /\ node[n].sys = ExecOf(Front(n))[Last(n)]
  /\ n = <<>> => node[n].annotated /\ node[n].sys = Root
  /\ ~node[n].annotated =>
       /\ node[n].at = "done"
       /\ Applies(Front(n)) => Last(n) \notin DOMAIN ExecOf(Front(n))

CasesOK(n) == node[n].at = "cases" =>
  /\ Applies(n) /\ node[n].method = stored(n) /\ node[n].todo # 0

SplitOK(n) == node[n].at = "split" =>
  /\ Applies(n) /\ Searched(n) /\ AllCases(n)
  /\ \A r \in Kids(n) : Searched(r)

DoneOK(n) == node[n].at = "done" =>
  /\ KidsDone(n)
  /\ node[n].method # "unset"
  /\ node[n].annotated =>
       /\ node[n].method \in Results => node[n].method = calc.fin[node[n].sys]
       /\ node[n].method \in Executable => ExecOf(n) # None /\ (AllCases(n) \/ SolvedKid(n))
       /\ node[n].from = None /\ node[n].status = "Solved" => node[n].method = "Solved" \/ SolvedKid(n)

CallOK(n) == node[n].at = "search" => Searched(n)

Bounded == \E b \in Nat : \A n \in DOMAIN node : Len(n) <= b

TreeInv ==
  /\ TypeOK /\ Bounded
  /\ \A n \in DOMAIN node : UpOK(n) /\ CasesOK(n) /\ SplitOK(n) /\ DoneOK(n) /\ CallOK(n)

\* The blocks of the stored step at u.
Blocks(u) == {v \in DOMAIN text : v # <<>> /\ Front(v) = u}

\* Of its name, v is the last block before the i-th.
LastOf(v, i) == ~\E w \in Blocks(Front(v)) :
  Last(w) > Last(v) /\ Last(w) < i /\ text[w].name = text[v].name

\* The stored step v is at r, or below the sorry at r.
Stands(r, v) ==
  \/ node[r].from = v
  \/ /\ node[r].from = None /\ node[r].method = "sorry"
     /\ Append(r, Unnamed) \in DOMAIN node /\ node[Append(r, Unnamed)].from = v

HasBlock(n, v) == \E r \in Kids(n) : text[v].name \in {Last(r), Unnamed} /\ Stands(r, v)

\* The blocks of the stored step f that count are at n, all of them or those
\* before the d-th.
AllStand(n, f) == \A v \in Blocks(f) : ~Shadowed(v) => HasBlock(n, v)
LastStand(n, f, d) == \A v \in Blocks(f) : Last(v) < d /\ LastOf(v, d) => HasBlock(n, v)

LoadOK(n) ==
  /\ node[n].at \in {"replay", "cases", "done"}
  /\ node[n].from # None /\ node[n].at # "replay" => node[n].method = stored(n)
  /\ node[n].from # None /\ node[n].at = "done" => AllStand(n, node[n].from)
  /\ node[n].at = "cases" => LastStand(n, node[n].from, node[n].todo)

LoadInv == mode = "load" => Stands(<<>>, <<>>) /\ \A n \in DOMAIN node : LoadOK(n)

-----------------------------------------------------------------------------
(* A step changes one node and what is below it.                           *)

\* The same but for what the loop of a caller notes.
Like(r, s) ==
  /\ r.at = s.at /\ r.sys = s.sys /\ r.from = s.from
  /\ r.method = s.method /\ r.annotated = s.annotated /\ r.status = s.status

Below(n, p) == IsPrefix(n, p) /\ p # n

Began == {"cases", "split", "done"}

\* A step works on the call at n and makes the nodes D below it, perhaps in
\* place of others; all others are as before.
Changes(n, D) ==
  /\ UNCHANGED <<calc, text, mode>>
  /\ n \in DOMAIN node /\ node[n].at # "done"
  /\ n \in DOMAIN node' /\ node'[n].annotated /\ node'[n].sys = node[n].sys
  /\ node[n].from = None => node'[n].from = None
  /\ \A p \in D : p \in DOMAIN node' /\ p \in Seq(CaseNames) /\ Below(n, p)
  /\ \A p \in DOMAIN node' : node'[p] \in ProofNode
  /\ \A p \in DOMAIN node' : node'[p].at \in {"replay", "cases"} => node'[p].from # None
  /\ \A p \in DOMAIN node' : p \notin D /\ p # n =>
       /\ p \in DOMAIN node /\ Like(node'[p], node[p]) /\ node'[p].todo = node[p].todo
       /\ \A k \in CaseNames : /\ Append(p, k) \notin D
                               /\ Append(p, k) \in DOMAIN node => Append(p, k) \in DOMAIN node'
  /\ \A p \in DOMAIN node : ~Below(n, p) => p \in DOMAIN node'
  /\ \A p \in DOMAIN node' : p # <<>> =>
       /\ Front(p) \in DOMAIN node'
       /\ p \in D \/ Front(p) = n => node'[Front(p)].at \in Began
       /\ p \notin D => Front(p) \notin D

\* What the type invariant says of a node.
LEMMA Typed ==
  ASSUME TypeOK, NEW n \in DOMAIN node
  PROVE  /\ n \in Seq(CaseNames) /\ node[n] \in ProofNode
         /\ node[n].at \in Places /\ node[n].sys \in Systems /\ node[n].from \in DOMAIN text \cup {None}
         /\ node[n].method \in Methods \cup {"unset"} /\ node[n].annotated \in BOOLEAN
         /\ node[n].status \in Statuses /\ node[n].todo \in Nat /\ node[n].seen \in SUBSET Statuses
         /\ n # <<>> => Front(n) \in DOMAIN node /\ node[Front(n)].at \in Began
         /\ mode # "none" /\ <<>> \in DOMAIN node
BY DEF TypeOK, ProofNode, Began, NoNodes

\* A kid is its parent and a case name.
LEMMA KidIs ==
  ASSUME NEW dom, dom \subseteq Seq(CaseNames), NEW n \in Seq(CaseNames)
  PROVE  /\ \A k \in CaseNames : /\ Append(n, k) # <<>> /\ Front(Append(n, k)) = n /\ Last(Append(n, k)) = k
                                 /\ Append(n, k) # n /\ Append(n, k) \in Seq(CaseNames)
         /\ \A r \in dom : r # <<>> /\ Front(r) = n =>
              r \in Seq(CaseNames) /\ r = Append(n, Last(r)) /\ Last(r) \in CaseNames /\ r # n
<1>1. ASSUME NEW r \in dom, r # <<>>, Front(r) = n
      PROVE  r \in Seq(CaseNames) /\ r = Append(n, Last(r)) /\ Last(r) \in CaseNames /\ r # n
  <2>1. r \in Seq(CaseNames) /\ r = Append(n, Last(r)) /\ Last(r) \in CaseNames
    BY <1>1, PathEnds
  <2> QED
    BY <2>1, AppendEnds
<1> QED
  BY <1>1, AppendEnds

\* What a calculus says of a method on a system.
LEMMA ExecTypes ==
  ASSUME NEW c \in Calculi, NEW s \in Systems
  PROVE  /\ c.fin[s] \in Results \cup {"open"}
         /\ c.fin[s] = "Solved" => s \in c.solvable
         /\ c.fin[s] = "Contradictory" => s \notin c.solvable
         /\ \A m \in Executable : c.exec[s][m] # None =>
              /\ c.exec[s][m] \in CaseMaps
              /\ DOMAIN c.exec[s][m] \subseteq CaseNames
              /\ \A k \in DOMAIN c.exec[s][m] : c.exec[s][m][k] \in Systems
              /\ Unnamed \in DOMAIN c.exec[s][m] => DOMAIN c.exec[s][m] = {Unnamed}
              /\ s \in c.solvable <=> \E k \in DOMAIN c.exec[s][m] : c.exec[s][m][k] \in c.solvable
<1>1. IsCalculus(c)
  BY ReplayAssumption
<1>2. c.fin[s] \in Results \cup {"open"}
  BY <1>1 DEF IsCalculus
<1>3. /\ c.fin[s] = "Solved" => s \in c.solvable
      /\ c.fin[s] = "Contradictory" => s \notin c.solvable
  BY <1>1 DEF IsCalculus, Sound
<1>4. ASSUME NEW m \in Executable, c.exec[s][m] # None
      PROVE  /\ c.exec[s][m] \in CaseMaps
             /\ DOMAIN c.exec[s][m] \subseteq CaseNames
             /\ \A k \in DOMAIN c.exec[s][m] : c.exec[s][m][k] \in Systems
             /\ Unnamed \in DOMAIN c.exec[s][m] => DOMAIN c.exec[s][m] = {Unnamed}
             /\ s \in c.solvable <=> \E k \in DOMAIN c.exec[s][m] : c.exec[s][m][k] \in c.solvable
  <2>1. c.exec[s][m] \in CaseMaps
    BY <1>1, <1>4 DEF IsCalculus
  <2>2. PICK D \in SUBSET CaseNames : c.exec[s][m] \in [D -> Systems]
    BY <2>1 DEF CaseMaps
  <2>3. Unnamed \in DOMAIN c.exec[s][m] => DOMAIN c.exec[s][m] = {Unnamed}
    BY <1>1, <1>4 DEF IsCalculus
  <2>4. s \in c.solvable <=> \E k \in DOMAIN c.exec[s][m] : c.exec[s][m][k] \in c.solvable
    BY <1>1, <1>4 DEF IsCalculus, Sound
  <2> QED
    BY <2>1, <2>2, <2>3, <2>4
<1> QED
  BY <1>2, <1>3, <1>4

\* A call that has not returned is below one that has not, and has nothing below
\* it before it has begun its cases.
LEMMA Open ==
  ASSUME TreeInv, NEW n \in DOMAIN node, node[n].at # "done"
  PROVE  /\ node[n].annotated
         /\ n # <<>> => /\ Front(n) \in DOMAIN node /\ node[Front(n)].at \in {"cases", "split"}
                        /\ node[Front(n)].at = "split" => Searched(n)
         /\ node[n].at \in {"replay", "search"} => Kids(n) = {}
<1>1. TypeOK /\ UpOK(n)
  BY DEF TreeInv
<1>2. node[n].annotated
  BY <1>1, Typed DEF UpOK
<1>3. ASSUME n # <<>>
      PROVE  /\ Front(n) \in DOMAIN node /\ node[Front(n)].at \in {"cases", "split"}
             /\ node[Front(n)].at = "split" => Searched(n)
  <2>1. Front(n) \in DOMAIN node /\ node[Front(n)].at \in Began /\ n \in Kids(Front(n))
    BY <1>1, <1>3, Typed DEF Kids
  <2>2. DoneOK(Front(n)) /\ SplitOK(Front(n))
    BY <2>1 DEF TreeInv
  <2> QED
    BY <2>1, <2>2 DEF DoneOK, KidsDone, SplitOK, Began
<1>4. node[n].at \in {"replay", "search"} => Kids(n) = {}
  BY <1>1, Typed DEF Kids, Began
<1> QED
  BY <1>2, <1>3, <1>4

\* The tree is still one.
LEMMA KeepsTypes ==
  ASSUME TreeInv, NEW n, NEW D, Changes(n, D)
  PROVE  TypeOK' /\ n \in Seq(CaseNames) /\ node[n].annotated
<1>1. TypeOK /\ n \in DOMAIN node /\ n \in Seq(CaseNames) /\ mode # "none"
  BY Typed DEF TreeInv, Changes
<1>2. node[n].annotated
  BY <1>1, Open DEF Changes
<1>3. <<>> \in DOMAIN node'
  <2>1. PICK e \in Seq(CaseNames) : e = <<>>
    BY EmptySeq
  <2>2. e \in DOMAIN node /\ Len(e) = 0
    BY <1>1, <2>1, Typed, EmptySeq
  <2>3. ASSUME IsPrefix(n, e) PROVE n = e
    <3>1. Len(n) <= Len(e) /\ Len(n) \in Nat
      BY <1>1, <2>3, PrefixOrder
    <3>2. Len(n) = Len(e)
      BY <2>2, <3>1
    <3> QED
      BY <1>1, <2>3, <3>2, PrefixOrder
  <2> QED
    BY <2>1, <2>2, <2>3 DEF Changes, Below
<1>4. ASSUME NEW p \in DOMAIN node'
      PROVE  /\ p \in Seq(CaseNames) /\ node'[p] \in ProofNode
             /\ node'[p].at \in {"replay", "cases"} => node'[p].from # None
  BY <1>1, <1>4, Typed DEF Changes
<1>5. ASSUME NEW p \in DOMAIN node', p # <<>>
      PROVE  Front(p) \in DOMAIN node' /\ node'[Front(p)].at \in Began
  <2>1. CASE p \in D \/ Front(p) = n
    BY <1>5, <2>1 DEF Changes
  <2>2. CASE p \notin D /\ Front(p) # n
    <3>1. Front(p) \in DOMAIN node' /\ Front(p) \notin D
      BY <1>5, <2>2 DEF Changes
    <3>2. node'[Front(p)].at = node[Front(p)].at
      BY <2>2, <3>1 DEF Changes, Like
    <3>3. CASE p # n
      <4>1. p \in DOMAIN node
        BY <2>2, <3>3 DEF Changes
      <4> QED
        BY <1>1, <1>5, <3>1, <3>2, <4>1, Typed
    <3>4. CASE p = n
      BY <1>1, <1>5, <3>1, <3>2, <3>4, Typed
    <3> QED
      BY <3>3, <3>4
  <2> QED
    BY <2>1, <2>2
<1>6. ProofNode' = ProofNode
  BY DEF Changes, ProofNode
<1>7. calc' \in Calculi /\ text' \in Texts /\ mode' = mode /\ mode \in {"none", "load", "prove"}
  BY <1>1 DEF TypeOK, Changes
<1> QED
  BY <1>1, <1>2, <1>3, <1>4, <1>5, <1>6, <1>7 DEF TypeOK, Began

\* What is not below the node is as good as before.
LEMMA Keeps ==
  ASSUME TreeInv, NEW n, NEW D, Changes(n, D), NEW p \in DOMAIN node', p \notin D
  PROVE  /\ p = n \/ Front(p) # n => UpOK(p)'
         /\ p # n => CasesOK(p)' /\ SplitOK(p)' /\ DoneOK(p)' /\ CallOK(p)'
<1>1. TypeOK /\ TypeOK' /\ n \in Seq(CaseNames) /\ node[n].annotated /\ n \in DOMAIN node
  BY KeepsTypes DEF TreeInv, Changes
<1>2. p \in Seq(CaseNames) /\ p \in DOMAIN node
  BY <1>1, Typed DEF Changes
<1>3. UpOK(p) /\ CasesOK(p) /\ SplitOK(p) /\ DoneOK(p) /\ CallOK(p)
  BY <1>2 DEF TreeInv
<1>4. /\ node'[p].annotated = node[p].annotated /\ node'[p].sys = node[p].sys
      /\ p # n => Like(node'[p], node[p]) /\ node'[p].todo = node[p].todo
  BY <1>1, <1>2, Typed DEF Changes, Like
<1>5. calc' = calc /\ text' = text
  BY DEF Changes
<1>6. ASSUME p = n \/ Front(p) # n PROVE UpOK(p)'
  <2>1. CASE p = <<>>
    BY <1>3, <1>4, <2>1, <1>1 DEF UpOK
  <2>2. CASE p # <<>>
    <3>1. Front(p) \in Seq(CaseNames) /\ Front(p) # p
      BY <1>2, <2>2, PathEnds, LenProperties
    <3>2. Front(p) \in DOMAIN node' /\ Front(p) \notin D /\ Front(p) # n
      BY <1>6, <2>2, <3>1 DEF Changes
    <3>3. Like(node'[Front(p)], node[Front(p)])
      BY <3>2 DEF Changes
    <3>4. ExecOf(Front(p))' = ExecOf(Front(p)) /\ Applies(Front(p))' = Applies(Front(p))
      BY <3>3, <1>5 DEF ExecOf, Applies, Like
    <3>5. ~node[p].annotated => node'[p].at = node[p].at
      BY <1>1, <1>4 DEF Like
    <3> QED
      BY <1>3, <1>4, <2>2, <3>4, <3>5 DEF UpOK
  <2> QED
    BY <2>1, <2>2
<1>7. ASSUME p # n PROVE CasesOK(p)' /\ SplitOK(p)' /\ DoneOK(p)' /\ CallOK(p)'
  <2>1. Like(node'[p], node[p]) /\ node'[p].todo = node[p].todo
    BY <1>4, <1>7
  <2>2. /\ ExecOf(p)' = ExecOf(p) /\ Applies(p)' = Applies(p) /\ stored(p)' = stored(p)
        /\ Searched(p)' = Searched(p)
    BY <2>1, <1>5 DEF ExecOf, Applies, Like, stored, Searched
  <2>3. CasesOK(p)' /\ CallOK(p)'
    BY <1>3, <2>1, <2>2 DEF CasesOK, CallOK, Like
  <2>4. ASSUME NEW k \in CaseNames, Append(p, k) \in DOMAIN node
        PROVE  /\ Append(p, k) \in DOMAIN node'
               /\ node'[Append(p, k)].annotated = node[Append(p, k)].annotated
               /\ Searched(Append(p, k)) => Searched(Append(p, k))'
               /\ Append(p, k) # n => Like(node'[Append(p, k)], node[Append(p, k)])
    <3>1. Append(p, k) \in DOMAIN node' /\ Append(p, k) \notin D
      BY <1>7, <2>4 DEF Changes
    <3>2. Append(p, k) # n => Like(node'[Append(p, k)], node[Append(p, k)])
      BY <3>1 DEF Changes
    <3>3. CASE Append(p, k) # n
      BY <3>1, <3>2, <3>3 DEF Searched, Like
    <3>4. CASE Append(p, k) = n
      <4>1. node'[n].annotated /\ (node[n].from = None => node'[n].from = None)
        BY DEF Changes
      <4>2. node'[n].annotated = TRUE /\ node[n].annotated = TRUE
        BY <1>1, <4>1, Typed DEF Changes
      <4> QED
        BY <3>1, <3>4, <4>1, <4>2 DEF Searched
    <3> QED
      BY <3>3, <3>4
  <2>5. ASSUME NEW k \in CaseNames, Append(p, k) \in DOMAIN node' PROVE Append(p, k) \in DOMAIN node
    BY <1>7, <2>5, <1>1 DEF Changes
  <2>8. /\ \A r \in DOMAIN node' : r # <<>> /\ Front(r) = p =>
             /\ r \in Kids(p)
             /\ Searched(r) => node'[r].annotated /\ node'[r].from = None
             /\ r # n => Like(node'[r], node[r])
        /\ \A r \in Kids(p) : r \in DOMAIN node' /\ r # <<>> /\ Front(r) = p
    <3>1. /\ \A r \in DOMAIN node : r # <<>> /\ Front(r) = p => r = Append(p, Last(r)) /\ Last(r) \in CaseNames
          /\ \A r \in DOMAIN node' : r # <<>> /\ Front(r) = p => r = Append(p, Last(r)) /\ Last(r) \in CaseNames
      <4>1. DOMAIN node \subseteq Seq(CaseNames) /\ DOMAIN node' \subseteq Seq(CaseNames)
        BY <1>1 DEF TypeOK
      <4> QED
        BY <1>2, <4>1, KidIs
    <3>2. ASSUME NEW r \in DOMAIN node', r # <<>>, Front(r) = p
          PROVE  /\ r \in Kids(p)
                 /\ Searched(r) => node'[r].annotated /\ node'[r].from = None
                 /\ r # n => Like(node'[r], node[r])
      <4>1. r \in DOMAIN node' /\ r # <<>> /\ Front(r) = p
        BY <3>2
      <4>2. r = Append(p, Last(r)) /\ Last(r) \in CaseNames
        BY <3>1, <4>1
      <4>3. r \in DOMAIN node
        BY <2>5, <4>1, <4>2
      <4>4. r \in Kids(p)
        BY <4>1, <4>3 DEF Kids
      <4> QED
        BY <2>4, <4>2, <4>3, <4>4 DEF Searched
    <3>3. ASSUME NEW r \in Kids(p) PROVE r \in DOMAIN node' /\ r # <<>> /\ Front(r) = p
      <4>1. r \in DOMAIN node /\ r # <<>> /\ Front(r) = p
        BY <3>3 DEF Kids
      <4>2. r = Append(p, Last(r)) /\ Last(r) \in CaseNames
        BY <3>1, <4>1
      <4>3. r \in DOMAIN node'
        BY <2>4, <4>1, <4>2
      <4> QED
        BY <4>1, <4>3
    <3> QED
      BY <3>2, <3>3
  <2>6. SplitOK(p)'
    <3>1. SUFFICES ASSUME node[p].at = "split"
                   PROVE  /\ Applies(p) /\ Searched(p) /\ AllCases(p)'
                          /\ \A r \in Kids(p)' : Searched(r)'
      BY <2>1, <2>2 DEF SplitOK, Like
    <3>2. Applies(p) /\ Searched(p) /\ AllCases(p) /\ \A r \in Kids(p) : Searched(r)
      BY <1>3, <3>1 DEF SplitOK
    <3>3. DOMAIN ExecOf(p) \subseteq CaseNames
      BY <1>1, <1>2, <3>2, Typed, ExecTypes DEF ExecOf, Applies, TypeOK
    <3>4. AllCases(p)'
      BY <2>2, <2>4, <3>2, <3>3 DEF AllCases
    <3>5. ASSUME NEW r \in Kids(p)' PROVE Searched(r)'
      BY <3>2, <3>5, <2>8 DEF Kids, Searched
    <3> QED
      BY <3>2, <3>4, <3>5
  <2>7. DoneOK(p)'
    <3>1. SUFFICES ASSUME node[p].at = "done" PROVE DoneOK(p)'
      BY <2>1 DEF DoneOK, Like
    <3>2. n \notin Kids(p)
      BY <1>3, <3>1 DEF DoneOK, KidsDone, Changes
    <3>3. KidsDone(p)'
      <4>1. \A r \in Kids(p) : node[r].at = "done"
        BY <1>3, <3>1 DEF DoneOK, KidsDone
      <4>2. \A r \in DOMAIN node' : r # <<>> /\ Front(r) = p => node'[r].at = "done"
        BY <2>8, <3>2, <4>1 DEF Like
      <4> QED
        BY <4>2 DEF KidsDone, Kids
    <3>7. ASSUME SolvedKid(p) PROVE SolvedKid(p)'
      <4>1. PICK r \in Kids(p) : Searched(r) /\ node[r].status = "Solved"
        BY <3>7 DEF SolvedKid
      <4>2. r \in DOMAIN node' /\ r # <<>> /\ Front(r) = p /\ r # n
        BY <2>8, <3>2
      <4>3. Like(node'[r], node[r])
        BY <2>8, <4>2
      <4> QED
        BY <4>1, <4>2, <4>3 DEF SolvedKid, Kids, Searched, Like
    <3>4. ASSUME node[p].annotated, node[p].method \in Executable
          PROVE  ExecOf(p) # None /\ (AllCases(p)' \/ SolvedKid(p)')
      <4>1. ExecOf(p) # None /\ (AllCases(p) \/ SolvedKid(p))
        BY <1>3, <3>1, <3>4 DEF DoneOK
      <4>2. DOMAIN ExecOf(p) \subseteq CaseNames
        BY <1>1, <1>2, <3>4, <4>1, Typed, ExecTypes DEF ExecOf, TypeOK
      <4>3. AllCases(p) => AllCases(p)'
        BY <2>2, <2>4, <4>2 DEF AllCases
      <4> QED
        BY <4>1, <4>3, <3>7
    <3>5. ASSUME node[p].annotated, node[p].from = None, node[p].status = "Solved"
          PROVE  node[p].method = "Solved" \/ SolvedKid(p)'
      BY <1>3, <3>7, <3>1, <3>5 DEF DoneOK
    <3>6. /\ node[p].method # "unset"
          /\ node[p].annotated /\ node[p].method \in Results => node[p].method = calc.fin[node[p].sys]
      BY <1>3, <3>1 DEF DoneOK
    <3> QED
      BY <1>5, <2>1, <2>2, <3>3, <3>4, <3>5, <3>6 DEF DoneOK, Like
  <2> QED
    BY <2>3, <2>6, <2>7
<1> QED
  BY <1>6, <1>7

\* What With and Return make of the tree.
LEMMA WithIs ==
  ASSUME NEW old, NEW new
  PROVE  /\ DOMAIN With(old, new) = DOMAIN old \cup DOMAIN new
         /\ \A p \in DOMAIN new : With(old, new)[p] = new[p]
         /\ \A p \in DOMAIN old : p \notin DOMAIN new => With(old, new)[p] = old[p]
BY DEF With

\* The loop above notes a status, and nothing else changes.
LEMMA ToldIs ==
  ASSUME TypeOK, NEW n, n = <<>> \/ Front(n) \in DOMAIN node, NEW status \in Statuses
  PROVE  /\ DOMAIN Told(n, status) = DOMAIN node
         /\ \A p \in DOMAIN node : /\ Like(Told(n, status)[p], node[p])
                                   /\ Told(n, status)[p].todo = node[p].todo
                                   /\ Told(n, status)[p] \in ProofNode
<1>1. DOMAIN Told(n, status) = DOMAIN node
  BY DEF Told
<1>2. ASSUME NEW p \in DOMAIN node
      PROVE  /\ Like(Told(n, status)[p], node[p])
             /\ Told(n, status)[p].todo = node[p].todo
             /\ Told(n, status)[p] \in ProofNode
  <2>1. node[p] \in ProofNode
    BY Typed
  <2>2. CASE Told(n, status)[p] = node[p]
    BY <2>1, <2>2 DEF Like
  <2>3. CASE Told(n, status)[p] = [node[p] EXCEPT !.seen = @ \cup {status}]
    BY <2>1, <2>3 DEF Like, ProofNode
  <2>4. Told(n, status)[p] \in {node[p], [node[p] EXCEPT !.seen = @ \cup {status}]}
    BY DEF Told
  <2> QED
    BY <2>2, <2>3, <2>4
<1> QED
  BY <1>1, <1>2

\* A call returns with `new' at and below its node.
LEMMA ReturnIs ==
  ASSUME TypeOK, NEW n \in DOMAIN node, NEW new, n \in DOMAIN new, new[n].status \in Statuses, Return(n, new)
  PROVE  /\ DOMAIN node' = DOMAIN node \cup DOMAIN new
         /\ \A p \in DOMAIN new : node'[p] = new[p]
         /\ \A p \in DOMAIN node : p \notin DOMAIN new =>
              Like(node'[p], node[p]) /\ node'[p].todo = node[p].todo /\ node'[p] \in ProofNode
<1>1. n = <<>> \/ Front(n) \in DOMAIN node
  BY Typed
<1>2. PICK told : told = Told(n, new[n].status)
  OBVIOUS
<1>3. /\ DOMAIN told = DOMAIN node
      /\ \A p \in DOMAIN node : /\ Like(told[p], node[p]) /\ told[p].todo = node[p].todo
                                /\ told[p] \in ProofNode
  BY <1>1, <1>2, ToldIs
<1>4. node' = With(told, new)
  BY <1>2 DEF Return
<1>6. /\ DOMAIN With(told, new) = DOMAIN told \cup DOMAIN new
      /\ \A p \in DOMAIN new : With(told, new)[p] = new[p]
      /\ \A p \in DOMAIN told : p \notin DOMAIN new => With(told, new)[p] = told[p]
  BY WithIs
<1>5. /\ DOMAIN node' = DOMAIN told \cup DOMAIN new
      /\ \A p \in DOMAIN new : node'[p] = new[p]
      /\ \A p \in DOMAIN told : p \notin DOMAIN new => node'[p] = told[p]
  BY <1>4, <1>6
<1> QED
  BY <1>3, <1>5

\* A call that returns, or goes on, without a new node.
LEMMA UpdateKeeps ==
  ASSUME TreeInv, UNCHANGED <<calc, text, mode>>, NEW n \in DOMAIN node, node[n].at # "done",
         DOMAIN node' = DOMAIN node,
         node'[n] \in ProofNode, node'[n].annotated, node'[n].sys = node[n].sys,
         node[n].from = None => node'[n].from = None,
         node'[n].at \in {"replay", "cases"} => node'[n].from # None,
         Kids(n) # {} => node'[n].method = node[n].method /\ node'[n].at \in Began,
         \A p \in DOMAIN node : p # n =>
           Like(node'[p], node[p]) /\ node'[p].todo = node[p].todo /\ node'[p] \in ProofNode,
         CasesOK(n)', SplitOK(n)', DoneOK(n)', CallOK(n)'
  PROVE  TreeInv'
<1>1. TypeOK /\ node[n].annotated
  BY Open DEF TreeInv
<1>2. Changes(n, {})
  <2>1. ASSUME NEW p \in DOMAIN node, p # <<>>
        PROVE  Front(p) \in DOMAIN node /\ (Front(p) = n => p \in Kids(n))
    BY <1>1, <2>1, Typed DEF Kids
  <2>2. \A p \in DOMAIN node : p # n => node'[p].at = node[p].at /\ node'[p].from = node[p].from
    BY DEF Like
  <2>3. \A p \in DOMAIN node : node[p].at \in {"replay", "cases"} => node[p].from # None
    BY <1>1 DEF TypeOK
  <2> QED
    BY <2>1, <2>2, <2>3 DEF Changes, Began
<1>3. TypeOK' /\ n \in Seq(CaseNames)
  BY <1>2, KeepsTypes
<1>4. ASSUME NEW p \in DOMAIN node'
      PROVE  UpOK(p)' /\ CasesOK(p)' /\ SplitOK(p)' /\ DoneOK(p)' /\ CallOK(p)'
  <2>1. p \notin {} /\ (p # n => CasesOK(p)' /\ SplitOK(p)' /\ DoneOK(p)' /\ CallOK(p)')
    BY <1>2, Keeps
  <2>2. CASE p = n \/ Front(p) # n
    BY <1>2, <2>1, <2>2, Keeps
  <2>3. CASE p # n /\ Front(p) = n
    <3>1. CASE p = <<>>
      <4>1. UpOK(p) /\ Like(node'[p], node[p])
        BY <2>3 DEF TreeInv
      <4>2. node'[p].annotated /\ node'[p].sys = Root
        BY <3>1, <4>1 DEF UpOK, Like
      <4>3. node'[p].annotated = TRUE
        BY <4>1, <4>2, <3>1, <1>1, Typed DEF UpOK, Like
      <4> QED
        BY <2>1, <2>3, <3>1, <4>2, <4>3 DEF UpOK
    <3>2. CASE p # <<>>
      <4>1. p \in Kids(n) /\ UpOK(p) /\ Like(node'[p], node[p])
        BY <2>3, <3>2 DEF TreeInv, Kids
      <4>2. node'[n].method = node[n].method
        BY <4>1
      <4>3. ExecOf(Front(p))' = ExecOf(Front(p)) /\ (Applies(Front(p))' <=> Applies(Front(p)))
        BY <1>1, <2>3, <4>2 DEF ExecOf, Applies
      <4>4. UpOK(p)'
        BY <2>3, <3>2, <4>1, <4>3 DEF UpOK, Like
      <4> QED
        BY <2>1, <2>3, <4>4
    <3> QED
      BY <3>1, <3>2
  <2> QED
    BY <2>1, <2>2, <2>3
<1>5. Bounded'
  BY DEF TreeInv, Bounded
<1> QED
  BY <1>3, <1>4, <1>5 DEF TreeInv

\* A new node that is a stored step kept as it is.
CopyAt(n, p) ==
  /\ ~node'[p].annotated /\ node'[p].at = "done" /\ node'[p].method # "unset"
  /\ Front(p) = n /\ Applies(n)' => Last(p) \notin DOMAIN ExecOf(n)'

\* A new node that is a case of the step at n.
FreshAt(n, p) ==
  /\ Front(p) = n /\ Applies(n)' /\ Last(p) \in DOMAIN ExecOf(n)'
  /\ node'[p].annotated = TRUE /\ node'[p].sys = ExecOf(n)'[Last(p)]
  /\ node'[p].at \in {"replay", "search", "done"}
  /\ node'[p].at = "search" => node'[p].from = None
  /\ node'[p].at = "done" => node'[p].method = "sorry" /\ node'[p].status = "Sorry"

\* The kids of new nodes, and the nodes below n, among the new ones.
LEMMA NewKids ==
  ASSUME TreeInv, NEW n, NEW D, Changes(n, D), NEW p \in D
  PROVE  /\ p \in DOMAIN node' /\ p \in Seq(CaseNames) /\ p # <<>> /\ p # n
         /\ Front(p) = n \/ Front(p) \in D
         /\ \A r \in DOMAIN node' : r # <<>> /\ Front(r) = p => r \in D
<1>1. n \in Seq(CaseNames) /\ p \in DOMAIN node' /\ p \in Seq(CaseNames) /\ Below(n, p)
  BY KeepsTypes DEF Changes
<1>2. p # <<>>
  <2>1. SUFFICES ASSUME p = <<>> PROVE FALSE
    OBVIOUS
  <2>2. Len(p) = 0 /\ Len(n) <= Len(p) /\ Len(n) \in Nat
    BY <1>1, <2>1, PrefixOrder, EmptySeq DEF Below
  <2>3. Len(n) = Len(p)
    BY <2>2
  <2> QED
    BY <1>1, <2>3, PrefixOrder DEF Below
<1>3. Front(p) \in DOMAIN node' /\ p = Append(Front(p), Last(p)) /\ Last(p) \in CaseNames
  BY <1>1, <1>2, PathEnds DEF Changes
<1>4. Front(p) = n \/ Front(p) \in D
  BY <1>3 DEF Changes
<1>5. \A r \in DOMAIN node' : r # <<>> /\ Front(r) = p => r \in D
  BY DEF Changes
<1> QED
  BY <1>1, <1>2, <1>4, <1>5 DEF Below

\* A step with new nodes that are all kept steps, or all cases.
LEMMA StepKeeps ==
  ASSUME TreeInv, NEW n, NEW D, Changes(n, D), NEW b \in Nat, \A p \in D : Len(p) <= b,
         \A p \in DOMAIN node' : p \notin D /\ p # <<>> /\ p # n /\ Front(p) = n =>
           node'[n].method = node[n].method,
         CasesOK(n)', SplitOK(n)', DoneOK(n)', CallOK(n)',
         (\A p \in D : CopyAt(n, p)) \/ (\A p \in D : FreshAt(n, p))
  PROVE  TreeInv'
<1>1. TypeOK /\ TypeOK' /\ n \in Seq(CaseNames) /\ node[n].annotated /\ n \in DOMAIN node
  BY KeepsTypes DEF TreeInv, Changes
<1>2. ASSUME NEW p \in DOMAIN node', p \notin D
      PROVE  UpOK(p)' /\ CasesOK(p)' /\ SplitOK(p)' /\ DoneOK(p)' /\ CallOK(p)'
  <2>1. p # n => CasesOK(p)' /\ SplitOK(p)' /\ DoneOK(p)' /\ CallOK(p)'
    BY <1>2, Keeps
  <2>2. CASE p = n \/ Front(p) # n
    BY <1>2, <2>1, <2>2, Keeps
  <2>3. CASE p # n /\ Front(p) = n
    <3>1. p \in DOMAIN node /\ UpOK(p) /\ Like(node'[p], node[p])
      BY <1>2, <2>3 DEF TreeInv, Changes
    <3>2. CASE p = <<>>
      <4>1. node'[p].annotated = TRUE /\ node'[p].sys = Root
        BY <1>1, <3>1, <3>2, Typed DEF UpOK, Like
      <4>2. UpOK(p)'
        BY <3>2, <4>1 DEF UpOK
      <4> QED
        BY <2>1, <2>3, <4>2
    <3>3. CASE p # <<>>
      <4>1. node'[n].method = node[n].method /\ node'[n].annotated = node[n].annotated
            /\ node'[n].sys = node[n].sys /\ calc' = calc
        <5>1. node'[n].annotated = TRUE /\ node[n].annotated = TRUE
          BY <1>1, Typed DEF Changes, TypeOK, ProofNode
        <5> QED
          BY <1>2, <2>3, <3>3, <5>1 DEF Changes
      <4>2. ExecOf(Front(p))' = ExecOf(Front(p)) /\ (Applies(Front(p))' <=> Applies(Front(p)))
        BY <2>3, <4>1 DEF ExecOf, Applies
      <4>3. UpOK(p)'
        BY <3>1, <3>3, <4>2 DEF UpOK, Like
      <4> QED
        BY <2>1, <2>3, <4>3
    <3> QED
      BY <3>2, <3>3
  <2> QED
    BY <2>2, <2>3
<1>3. ASSUME NEW p \in D
      PROVE  UpOK(p)' /\ CasesOK(p)' /\ SplitOK(p)' /\ DoneOK(p)' /\ CallOK(p)'
  <2>1. /\ p \in DOMAIN node' /\ p \in Seq(CaseNames) /\ p # <<>> /\ p # n
        /\ Front(p) = n \/ Front(p) \in D
        /\ \A r \in DOMAIN node' : r # <<>> /\ Front(r) = p => r \in D
    BY NewKids
  <2>2. CASE \A q \in D : CopyAt(n, q)
    <3>1. ~node'[p].annotated /\ node'[p].at = "done" /\ node'[p].method # "unset"
      BY <2>2 DEF CopyAt
    <3>2. \A r \in DOMAIN node' : r # <<>> /\ Front(r) = p => node'[r].at = "done"
      BY <2>1, <2>2 DEF CopyAt
    <3>3. Front(p) # n => ~node'[Front(p)].annotated
      BY <2>1, <2>2 DEF CopyAt
    <3>4. UpOK(p)'
      BY <2>1, <2>2, <3>1, <3>3 DEF UpOK, CopyAt, Applies
    <3>5. DoneOK(p)'
      BY <3>1, <3>2 DEF DoneOK, KidsDone, Kids
    <3> QED
      BY <3>1, <3>4, <3>5 DEF CasesOK, SplitOK, CallOK
  <2>3. CASE \A q \in D : FreshAt(n, q)
    <3>1. FreshAt(n, p)
      BY <2>3
    <3>2. UpOK(p)'
      BY <2>1, <3>1 DEF UpOK, FreshAt
    <3>3. \A r \in DOMAIN node' : ~(r # <<>> /\ Front(r) = p)
      BY <2>1, <2>3 DEF FreshAt
    <3>4. DoneOK(p)'
      BY <3>1, <3>3 DEF DoneOK, KidsDone, Kids, FreshAt, Results, Executable
    <3>5. CallOK(p)' /\ CasesOK(p)' /\ SplitOK(p)'
      BY <3>1 DEF CallOK, CasesOK, SplitOK, FreshAt, Searched
    <3> QED
      BY <3>2, <3>4, <3>5
  <2> QED
    BY <2>2, <2>3
<1>4. Bounded'
  <2>1. PICK c \in Nat : \A p \in DOMAIN node : Len(p) <= c
    BY DEF TreeInv, Bounded
  <2>2. PICK d \in Nat : b <= d /\ c <= d
    BY <2>1
  <2>3. ASSUME NEW p \in DOMAIN node' PROVE Len(p) <= d
    <3>1. Len(p) \in Nat
      BY <1>1, LenProperties DEF TypeOK
    <3>2. p \in D \/ p \in DOMAIN node
      BY <1>1 DEF Changes
    <3> QED
      BY <2>1, <2>2, <3>1, <3>2
  <2> QED
    BY <2>2, <2>3 DEF Bounded
<1> QED
  BY <1>1, <1>2, <1>3, <1>4 DEF TreeInv

-----------------------------------------------------------------------------
(* The actions, one by one.                                                *)

\* A call that returns without a new node.
LEMMA ReturnKeeps ==
  ASSUME TreeInv, UNCHANGED <<calc, text, mode>>, NEW n \in DOMAIN node, node[n].at # "done",
         NEW t \in DOMAIN text \cup {None}, NEW m \in Methods, NEW status \in Statuses,
         Return(n, Only(n, Done(node[n].sys, t, m, TRUE, status))),
         node[n].from = None => t = None,
         Kids(n) # {} => m = node[n].method,
         KidsDone(n),
         m \in Results => m = calc.fin[node[n].sys],
         m \in Executable =>
           /\ calc.exec[node[n].sys][m] # None
           /\ \/ \A k \in DOMAIN calc.exec[node[n].sys][m] :
                   Append(n, k) \in DOMAIN node /\ node[Append(n, k)].annotated
              \/ SolvedKid(n),
         t = None /\ status = "Solved" => m = "Solved" \/ SolvedKid(n)
  PROVE  /\ TreeInv' /\ DOMAIN node' = DOMAIN node
         /\ node'[n].at = "done" /\ node'[n].from = t /\ node'[n].method = m
         /\ \A p \in DOMAIN node : p # n => Like(node'[p], node[p]) /\ node'[p].todo = node[p].todo
<1>1. TypeOK /\ n \in Seq(CaseNames) /\ node[n].sys \in Systems
  BY Typed DEF TreeInv
<1>2. PICK rec : rec = Done(node[n].sys, t, m, TRUE, status)
  OBVIOUS
<1>3. /\ rec \in ProofNode /\ rec.at = "done" /\ rec.sys = node[n].sys /\ rec.from = t
      /\ rec.method = m /\ rec.annotated = TRUE /\ rec.status = status
  <2>1. m \in Methods \cup {"unset"} /\ TRUE \in BOOLEAN
    OBVIOUS
  <2> QED
    BY <1>1, <1>2, <2>1 DEF Done, ProofNode, Places
<1>4. PICK new : new = Only(n, rec)
  OBVIOUS
<1>5. DOMAIN new = {n} /\ new[n] = rec /\ Return(n, new)
  BY <1>2, <1>4 DEF Only
<1>6. /\ DOMAIN node' = DOMAIN node /\ node'[n] = rec
      /\ \A p \in DOMAIN node : p # n =>
           Like(node'[p], node[p]) /\ node'[p].todo = node[p].todo /\ node'[p] \in ProofNode
  <2>1. new[n].status \in Statuses /\ n \in DOMAIN new
    BY <1>3, <1>5
  <2>2. /\ DOMAIN node' = DOMAIN node \cup DOMAIN new
        /\ \A p \in DOMAIN new : node'[p] = new[p]
        /\ \A p \in DOMAIN node : p \notin DOMAIN new =>
             Like(node'[p], node[p]) /\ node'[p].todo = node[p].todo /\ node'[p] \in ProofNode
    BY <1>1, <1>5, <2>1, ReturnIs
  <2> QED
    BY <1>5, <2>2
<1>7. CasesOK(n)' /\ SplitOK(n)' /\ CallOK(n)'
  BY <1>3, <1>6 DEF CasesOK, SplitOK, CallOK
<1>8. \A r \in DOMAIN node' : r # <<>> /\ Front(r) = n => r \in Kids(n) /\ r # n
  <2>1. ASSUME NEW r \in DOMAIN node, r # <<>>, Front(r) = n PROVE r # n
    <3>1. r \in Seq(CaseNames)
      BY <1>1 DEF TypeOK
    <3>2. Len(r) \in Nat /\ Len(Front(r)) = Len(r) - 1
      BY <2>1, <3>1, PathEnds
    <3> QED
      BY <2>1, <3>2
  <2> QED
    BY <1>6, <2>1 DEF Kids
<1>9. SolvedKid(n) => SolvedKid(n)'
  <2>1. SUFFICES ASSUME SolvedKid(n) PROVE SolvedKid(n)'
    OBVIOUS
  <2>2. PICK r \in Kids(n) : Searched(r) /\ node[r].status = "Solved"
    BY <2>1 DEF SolvedKid
  <2>3. r \in DOMAIN node' /\ r # <<>> /\ Front(r) = n /\ r # n
    BY <1>6, <1>8, <2>2 DEF Kids
  <2>4. Like(node'[r], node[r])
    BY <1>6, <2>3
  <2> QED
    BY <2>2, <2>3, <2>4 DEF SolvedKid, Kids, Searched, Like
<1>10. DoneOK(n)'
  <2>1. KidsDone(n)'
    <3>1. \A r \in DOMAIN node' : r # <<>> /\ Front(r) = n => node'[r].at = "done"
      BY <1>6, <1>8 DEF KidsDone, Like, Kids
    <3> QED
      BY <3>1 DEF KidsDone, Kids
  <2>2. m \in Results => m = calc'.fin[node'[n].sys]
    BY <1>3, <1>6
  <2>3. ASSUME m \in Executable PROVE ExecOf(n)' # None /\ (AllCases(n)' \/ SolvedKid(n)')
    <3>1. ExecOf(n)' = calc.exec[node[n].sys][m]
      BY <1>3, <1>6 DEF ExecOf
    <3>2. ASSUME \A k \in DOMAIN calc.exec[node[n].sys][m] :
                   Append(n, k) \in DOMAIN node /\ node[Append(n, k)].annotated
          PROVE  AllCases(n)'
      <4>1. DOMAIN calc.exec[node[n].sys][m] \subseteq CaseNames
        BY <1>1, <2>3, ExecTypes DEF TypeOK
      <4>2. ASSUME NEW k \in DOMAIN calc.exec[node[n].sys][m]
            PROVE  Append(n, k) \in DOMAIN node' /\ node'[Append(n, k)].annotated
        <5>1. Append(n, k) # n
          BY <1>1, <4>1, AppendEnds
        <5> QED
          BY <1>6, <3>2, <5>1 DEF Like
      <4> QED
        BY <3>1, <4>2 DEF AllCases
    <3> QED
      BY <1>9, <2>3, <3>1, <3>2
  <2>4. m # "unset"
    BY DEF Methods, Executable, Results
  <2> QED
    BY <1>3, <1>6, <1>9, <2>1, <2>2, <2>3, <2>4 DEF DoneOK
<1> QED
  <2>1. Kids(n) # {} => node'[n].method = node[n].method /\ node'[n].at \in Began
    BY <1>3, <1>6 DEF Began
  <2>2. /\ node'[n] \in ProofNode /\ node'[n].annotated /\ node'[n].sys = node[n].sys
        /\ node[n].from = None => node'[n].from = None
        /\ node'[n].at \in {"replay", "cases"} => node'[n].from # None
    BY <1>3, <1>6
  <2>3. DOMAIN node' = DOMAIN node
    BY <1>6
  <2>4. TreeInv'
    BY <1>6, <1>7, <1>10, <2>1, <2>2, <2>3, UpdateKeeps
  <2> QED
    BY <1>3, <1>6, <2>4

\* What the stored step of a call is.
LEMMA StoredIs ==
  ASSUME TypeOK, NEW n \in DOMAIN node, node[n].from # None
  PROVE  /\ node[n].from \in DOMAIN text /\ stored(n) \in Methods
         /\ IsText(text) /\ calc \in Calculi /\ node[n].sys \in Systems
<1>1. node[n].from \in DOMAIN text /\ node[n].sys \in Systems
  BY Typed
<1>2. IsText(text) /\ calc \in Calculi
  BY ReplayAssumption DEF TypeOK
<1>3. text[node[n].from].method \in Methods
  BY <1>1, <1>2 DEF IsText
<1> QED
  BY <1>1, <1>2, <1>3 DEF stored

\* The prover is called in place of the replay.
LEMMA StartSearchKeeps ==
  ASSUME TreeInv, UNCHANGED <<calc, text, mode>>, NEW n \in DOMAIN node, Called(n), StartSearch(n)
  PROVE  TreeInv'
<1>1. node[n].at = "replay" /\ node[n].at # "done" /\ Kids(n) = {} /\ TypeOK
  BY Open DEF Called, TreeInv
<1>2. PICK rec : rec = Search(node[n].sys)
  OBVIOUS
<1>3. /\ DOMAIN node' = DOMAIN node /\ node'[n] = rec
      /\ \A p \in DOMAIN node : p # n => node'[p] = node[p]
  BY <1>2 DEF StartSearch
<1>4. node[n].sys \in Systems
  BY <1>1, Typed
<1>5. /\ rec \in ProofNode /\ rec.at = "search" /\ rec.sys = node[n].sys /\ rec.from = None
      /\ rec.annotated = TRUE
  BY <1>2, <1>4 DEF Search, Call, ProofNode, Places, Statuses
<1>6. \A p \in DOMAIN node : p # n =>
        Like(node'[p], node[p]) /\ node'[p].todo = node[p].todo /\ node'[p] \in ProofNode
  BY <1>1, <1>3, Typed DEF Like
<1>7. CasesOK(n)' /\ SplitOK(n)' /\ DoneOK(n)' /\ CallOK(n)'
  BY <1>3, <1>5 DEF CasesOK, SplitOK, DoneOK, CallOK, Searched
<1>8. /\ node'[n] \in ProofNode /\ node'[n].annotated /\ node'[n].sys = node[n].sys
      /\ node[n].from = None => node'[n].from = None
      /\ node'[n].at \in {"replay", "cases"} => node'[n].from # None
      /\ Kids(n) # {} => node'[n].method = node[n].method /\ node'[n].at \in Began
  BY <1>1, <1>3, <1>5
<1> QED
  BY <1>1, <1>3, <1>6, <1>7, <1>8, UpdateKeeps

\* The call at n is all that changes, and is now at `at' with its stored method.
Becomes(n, at) ==
  /\ DOMAIN node' = DOMAIN node
  /\ node'[n].at = at /\ node'[n].from = node[n].from /\ node'[n].method = stored(n)
  /\ \A p \in DOMAIN node : p # n => Like(node'[p], node[p]) /\ node'[p].todo = node[p].todo

\* The stored method is found to apply.
LEMMA StepAppliesKeeps ==
  ASSUME TreeInv, NEW n \in DOMAIN node, StepApplies(n)
  PROVE  TreeInv' /\ Becomes(n, "cases") /\ node'[n].todo = 1
<1>1. node[n].at = "replay" /\ node[n].at # "done" /\ Kids(n) = {} /\ TypeOK /\ node[n].annotated = TRUE
  <2>1. node[n].at = "replay" /\ TypeOK
    BY DEF StepApplies, IsStep, Called, TreeInv
  <2> QED
    BY <2>1, Open, Typed
<1>2. UNCHANGED <<calc, text, mode>> /\ node[n].from # None /\ node[n] \in ProofNode
  BY <1>1, Typed DEF StepApplies, TypeOK
<1>3. PICK rec : rec = [node[n] EXCEPT !.at = "cases", !.method = stored(n), !.todo = 1]
  OBVIOUS
<1>4. /\ DOMAIN node' = DOMAIN node /\ node'[n] = rec
      /\ \A p \in DOMAIN node : p # n => node'[p] = node[p]
  BY <1>3 DEF StepApplies
<1>5. /\ rec \in ProofNode /\ rec.at = "cases" /\ rec.sys = node[n].sys /\ rec.from = node[n].from
      /\ rec.annotated = TRUE /\ rec.method = stored(n) /\ rec.todo = 1
  BY <1>1, <1>2, <1>3, StoredIs DEF ProofNode, Places
<1>6. \A p \in DOMAIN node : p # n =>
        Like(node'[p], node[p]) /\ node'[p].todo = node[p].todo /\ node'[p] \in ProofNode
  BY <1>1, <1>4, Typed DEF Like
<1>7. stored(n) \in Executable /\ calc.exec[node[n].sys][stored(n)] # None
  BY DEF StepApplies, produced, exec_method_for
<1>8. CasesOK(n)'
  BY <1>2, <1>4, <1>5, <1>7 DEF CasesOK, Applies, ExecOf, stored
<1>9. SplitOK(n)' /\ DoneOK(n)' /\ CallOK(n)'
  BY <1>4, <1>5 DEF SplitOK, DoneOK, CallOK
<1>10. /\ node'[n] \in ProofNode /\ node'[n].annotated /\ node'[n].sys = node[n].sys
       /\ node[n].from = None => node'[n].from = None
       /\ node'[n].at \in {"replay", "cases"} => node'[n].from # None
       /\ Kids(n) # {} => node'[n].method = node[n].method /\ node'[n].at \in Began
  BY <1>1, <1>2, <1>4, <1>5
<1>11. TreeInv'
  BY <1>1, <1>2, <1>4, <1>6, <1>8, <1>9, <1>10, UpdateKeeps
<1> QED
  BY <1>4, <1>5, <1>6, <1>11 DEF Becomes

\* The stored step closes its system again.
LEMMA StepClosesKeeps ==
  ASSUME TreeInv, NEW n \in DOMAIN node, StepCloses(n)
  PROVE  TreeInv' /\ Becomes(n, "done")
<1>1. node[n].at = "replay" /\ node[n].at # "done" /\ Kids(n) = {} /\ TypeOK
  <2>1. node[n].at = "replay" /\ TypeOK
    BY DEF StepCloses, IsStep, Called, TreeInv
  <2> QED
    BY <2>1, Open
<1>2. node[n].from # None /\ node[n].from \in DOMAIN text \cup {None} /\ KidsDone(n)
  BY <1>1, Typed DEF TypeOK, KidsDone
<1>3. PICK m : m = stored(n)
  OBVIOUS
<1>4. m \in Methods /\ m \in Executable /\ calc.exec[node[n].sys][m] = NoCases
      /\ calc.exec[node[n].sys][m] # None
  BY <1>1, <1>2, <1>3, StoredIs DEF StepCloses, Closes, produced, exec_method_for
<1>5. Return(n, Only(n, Done(node[n].sys, node[n].from, m, TRUE, "Contradictory")))
      /\ UNCHANGED <<calc, text, mode>> /\ "Contradictory" \in Statuses
  BY <1>3 DEF StepCloses, Statuses, Results
<1>6. DOMAIN calc.exec[node[n].sys][m] = {}
  BY <1>4 DEF NoCases
<1>7. m \notin Results
  BY <1>4 DEF Executable, Results
<1>8. /\ TreeInv' /\ DOMAIN node' = DOMAIN node
      /\ node'[n].at = "done" /\ node'[n].from = node[n].from /\ node'[n].method = m
      /\ \A p \in DOMAIN node : p # n => Like(node'[p], node[p]) /\ node'[p].todo = node[p].todo
  BY <1>1, <1>2, <1>4, <1>5, <1>6, <1>7, ReturnKeeps
<1> QED
  BY <1>3, <1>8 DEF Becomes

\* The status handed up is one.
LEMMA RollupIs ==
  ASSUME NEW statuses
  PROVE  rollup_status(statuses) \in Statuses /\ (rollup_status(statuses) = "Solved" <=> "Solved" \in statuses)
BY DEF rollup_status, Statuses, Results

\* All cases of a replayed step have returned.
LEMMA FinishKeeps ==
  ASSUME TreeInv, NEW n \in DOMAIN node, Finish(n)
  PROVE  TreeInv' /\ Becomes(n, "done")
<1>1. /\ node[n].at = "cases" /\ node[n].at # "done" /\ TypeOK /\ node[n].from # None
      /\ node[n].from \in DOMAIN text \cup {None} /\ KidsDone(n) /\ node[n].annotated /\ n \in Seq(CaseNames)
  <2>1. node[n].at = "cases" /\ TypeOK /\ KidsDone(n)
    BY DEF Finish, InLoop, TreeInv
  <2> QED
    BY <2>1, Open, Typed DEF TypeOK
<1>2. PICK m : m = node[n].method
  OBVIOUS
<1>3. PICK status : status = rollup_status(node[n].seen)
  OBVIOUS
<1>4. CasesOK(n) /\ m \in Executable /\ m = stored(n) /\ calc.exec[node[n].sys][m] # None
      /\ Applies(n) /\ produced(n) = ExecOf(n)
  BY <1>1, <1>2 DEF TreeInv, CasesOK, Applies, ExecOf, produced, exec_method_for
<1>5. m \in Methods /\ m \notin Results /\ status \in Statuses
  BY <1>3, <1>4, RollupIs DEF Methods, Executable, Results
<1>6. ASSUME NEW k \in DOMAIN calc.exec[node[n].sys][m]
      PROVE  Append(n, k) \in DOMAIN node /\ node[Append(n, k)].annotated
  <2>1. k \in CaseNames
    BY <1>1, <1>4, <1>6, Typed, ExecTypes DEF TypeOK
  <2>2. k \in DOMAIN produced(n)
    BY <1>2, <1>4 DEF ExecOf
  <2>3. Append(n, k) \in DOMAIN node
    BY <2>2 DEF Finish, Unclaimed
  <2>4. Append(n, k) # <<>> /\ Front(Append(n, k)) = n /\ Last(Append(n, k)) = k
    BY <1>1, <2>1, AppendEnds
  <2>5. UpOK(Append(n, k))
    BY <2>3 DEF TreeInv
  <2> QED
    BY <1>4, <2>2, <2>3, <2>4, <2>5 DEF UpOK
<1>7. Return(n, Only(n, Done(node[n].sys, node[n].from, m, TRUE, status))) /\ UNCHANGED <<calc, text, mode>>
  BY <1>2, <1>3 DEF Finish
<1>8. /\ TreeInv' /\ DOMAIN node' = DOMAIN node
      /\ node'[n].at = "done" /\ node'[n].from = node[n].from /\ node'[n].method = m
      /\ \A p \in DOMAIN node : p # n => Like(node'[p], node[p]) /\ node'[p].todo = node[p].todo
  BY <1>1, <1>2, <1>4, <1>5, <1>6, <1>7, ReturnKeeps
<1> QED
  BY <1>4, <1>8 DEF Becomes

\* The prover leaves a case open.
LEMMA LeaveOpenKeeps ==
  ASSUME TreeInv, NEW n \in DOMAIN node, LeaveOpen(n)
  PROVE  TreeInv'
<1>1. node[n].at = "search" /\ node[n].at # "done" /\ Kids(n) = {} /\ KidsDone(n)
  BY Open DEF LeaveOpen, KidsDone
<1>2. /\ Return(n, Only(n, Done(node[n].sys, None, "sorry", TRUE, "Sorry"))) /\ UNCHANGED <<calc, text, mode>>
      /\ "sorry" \in Methods /\ "Sorry" \in Statuses /\ None \in DOMAIN text \cup {None}
      /\ "sorry" \notin Results /\ "sorry" \notin Executable
  BY DEF LeaveOpen, annotated_sorry, Methods, Statuses, Results, Executable
<1> QED
  BY <1>1, <1>2, ReturnKeeps

\* The prover closes a system that is_finished.
LEMMA CloseKeeps ==
  ASSUME TreeInv, NEW n \in DOMAIN node, Close(n)
  PROVE  TreeInv'
<1>1. node[n].at = "search" /\ node[n].at # "done" /\ Kids(n) = {} /\ KidsDone(n)
  BY Open DEF Close, KidsDone
<1>2. PICK m : m = calc.fin[node[n].sys]
  OBVIOUS
<1>3. m \in Results /\ m \in Methods /\ m \in Statuses /\ m \notin Executable
  BY <1>2 DEF Close, Methods, Statuses, Results, Executable
<1>4. /\ Return(n, Only(n, Done(node[n].sys, None, m, TRUE, m))) /\ UNCHANGED <<calc, text, mode>>
      /\ None \in DOMAIN text \cup {None}
  BY <1>2 DEF Close
<1>5. m = "Solved" => m = "Solved" \/ SolvedKid(n)
  OBVIOUS
<1> QED
  BY <1>1, <1>2, <1>3, <1>4, <1>5, ReturnKeeps

\* The cases of the prover have returned, and all of them are kept.
LEMMA AllCasesTriedKeeps ==
  ASSUME TreeInv, NEW n \in DOMAIN node, AllCasesTried(n)
  PROVE  TreeInv'
<1>1. node[n].at = "split" /\ node[n].at # "done" /\ KidsDone(n)
  BY DEF AllCasesTried
<1>2. PICK m : m = node[n].method
  OBVIOUS
<1>3. PICK status : status = rollup_status({node[r].status : r \in Kids(n)})
  OBVIOUS
<1>4. Applies(n) /\ AllCases(n)
  BY <1>1 DEF TreeInv, SplitOK
<1>5. m \in Executable /\ m \in Methods /\ m \notin Results /\ calc.exec[node[n].sys][m] # None
      /\ \A k \in DOMAIN calc.exec[node[n].sys][m] : Append(n, k) \in DOMAIN node /\ node[Append(n, k)].annotated
  BY <1>2, <1>4 DEF Applies, AllCases, ExecOf, Methods, Executable, Results
<1>6. status \in Statuses
  BY <1>3, RollupIs
<1>7. /\ Return(n, Only(n, Done(node[n].sys, None, m, TRUE, status))) /\ UNCHANGED <<calc, text, mode>>
      /\ None \in DOMAIN text \cup {None}
  BY <1>2, <1>3 DEF AllCasesTried
<1>8. status = "Solved" => m = "Solved" \/ SolvedKid(n)
  <2>1. SUFFICES ASSUME status = "Solved" PROVE SolvedKid(n)
    OBVIOUS
  <2>2. "Solved" \in {node[r].status : r \in Kids(n)}
    BY <1>3, <2>1, RollupIs
  <2>3. \A r \in Kids(n) : Searched(r)
    BY <1>1 DEF TreeInv, SplitOK
  <2> QED
    BY <2>2, <2>3 DEF SolvedKid
<1> QED
  BY <1>1, <1>2, <1>5, <1>6, <1>7, <1>8, ReturnKeeps

-----------------------------------------------------------------------------
(* Steps with new nodes.                                                   *)

\* What may be kept of the tree when the call at n takes a step.
Keepable(n, K) ==
  /\ K \subseteq DOMAIN node /\ n \in K
  /\ \A p \in DOMAIN node : ~Below(n, p) => p \in K
  /\ \A p \in K : p # <<>> => Front(p) \in K
  /\ \A p \in K, c \in CaseNames : p # n /\ Append(p, c) \in DOMAIN node => Append(p, c) \in K

\* Everything may be kept, and everything but one case and what is below it.
LEMMA CutIs ==
  ASSUME TypeOK, NEW n \in DOMAIN node
  PROVE  /\ Keepable(n, DOMAIN node)
         /\ \A c \in CaseNames : Keepable(n, {q \in DOMAIN node : ~IsPrefix(Append(n, c), q)})
<1>1. n \in Seq(CaseNames) /\ DOMAIN node \subseteq Seq(CaseNames)
      /\ \A p \in DOMAIN node : p # <<>> => Front(p) \in DOMAIN node
  BY DEF TypeOK
<1>2. Keepable(n, DOMAIN node)
  BY <1>1 DEF Keepable
<1>3. ASSUME NEW c \in CaseNames, NEW r, r = Append(n, c), NEW K, K = {q \in DOMAIN node : ~IsPrefix(r, q)}
      PROVE  Keepable(n, K)
  <2>1. r \in Seq(CaseNames) /\ r # <<>> /\ Front(r) = n /\ Len(r) = Len(n) + 1 /\ Len(n) \in Nat
    BY <1>1, <1>3, AppendEnds
  <2>2. ~IsPrefix(r, n)
    BY <1>1, <2>1, PrefixOrder
  <2>3. ASSUME NEW p \in DOMAIN node, ~Below(n, p) PROVE p \in K
    <3>1. SUFFICES ASSUME IsPrefix(r, p) PROVE FALSE
      BY <1>3
    <3>2. p \in Seq(CaseNames) /\ IsPrefix(n, r)
      BY <1>1, <2>1, PrefixOrder
    <3>3. IsPrefix(n, p)
      BY <1>1, <2>1, <3>1, <3>2, PrefixOrder
    <3> QED
      BY <2>2, <2>3, <3>1, <3>3 DEF Below
  <2>4. ASSUME NEW p \in K, p # <<>> PROVE Front(p) \in K
    <3>1. p \in Seq(CaseNames) /\ Front(p) \in DOMAIN node /\ ~IsPrefix(r, p)
      BY <1>1, <1>3, <2>4
    <3>2. ~IsPrefix(r, Front(p))
      BY <2>1, <2>4, <3>1, PrefixOrder
    <3> QED
      BY <1>3, <3>1, <3>2
  <2>5. ASSUME NEW p \in K, NEW d \in CaseNames, p # n, Append(p, d) \in DOMAIN node
        PROVE  Append(p, d) \in K
    <3>1. p \in Seq(CaseNames) /\ ~IsPrefix(r, p)
      BY <1>1, <1>3
    <3>2. PICK q : q = Append(p, d)
      OBVIOUS
    <3>3. q \in Seq(CaseNames) /\ q # <<>> /\ Front(q) = p
      BY <3>1, <3>2, AppendEnds
    <3>4. ~IsPrefix(r, q)
      BY <2>1, <2>5, <3>1, <3>3, PrefixOrder
    <3> QED
      BY <1>3, <2>5, <3>2, <3>4
  <2> QED
    BY <1>3, <2>2, <2>3, <2>4, <2>5 DEF Keepable
<1> QED
  BY <1>2, <1>3

\* A call keeps K of the tree and makes the nodes D.
LEMMA GraftChanges ==
  ASSUME TreeInv, UNCHANGED <<calc, text, mode>>, NEW n \in DOMAIN node, node[n].at # "done",
         NEW K, NEW D, Keepable(n, K), DOMAIN node' = K \cup D, D \cap K = {},
         \A p \in D : /\ p \in Seq(CaseNames) /\ Below(n, p) /\ p # <<>> /\ (Front(p) = n \/ Front(p) \in D)
                      /\ node'[p] \in ProofNode
                      /\ node'[p].at \in {"replay", "cases"} => node'[p].from # None
                      /\ Front(p) \in D => node'[Front(p)].at \in Began,
         node'[n] \in ProofNode, node'[n].annotated, node'[n].sys = node[n].sys, node'[n].at \in Began,
         node[n].from = None => node'[n].from = None,
         node'[n].at = "cases" => node'[n].from # None,
         \A p \in K : p # n => Like(node'[p], node[p]) /\ node'[p].todo = node[p].todo /\ node'[p] \in ProofNode
  PROVE  Changes(n, D)
<1>1. TypeOK
  BY DEF TreeInv
<1>2. \A p \in DOMAIN node' : p \in K \/ p \in D
  OBVIOUS
<1>3. \A p \in DOMAIN node' : node'[p] \in ProofNode
  BY <1>2
<1>4. \A p \in DOMAIN node' : node'[p].at \in {"replay", "cases"} => node'[p].from # None
  <2>1. \A p \in K : p # n => node'[p].at = node[p].at /\ node'[p].from = node[p].from /\ p \in DOMAIN node
    BY DEF Like, Keepable
  <2>2. \A p \in DOMAIN node : node[p].at \in {"replay", "cases"} => node[p].from # None
    BY <1>1 DEF TypeOK
  <2>3. node'[n].at # "replay"
    BY DEF Began
  <2> QED
    BY <1>2, <2>1, <2>2, <2>3
<1>5. ASSUME NEW p \in DOMAIN node', p \notin D, p # n
      PROVE  /\ p \in DOMAIN node /\ Like(node'[p], node[p]) /\ node'[p].todo = node[p].todo
             /\ \A k \in CaseNames : /\ Append(p, k) \notin D
                                     /\ Append(p, k) \in DOMAIN node => Append(p, k) \in DOMAIN node'
  <2>1. p \in K /\ p \in DOMAIN node /\ p \in Seq(CaseNames)
    BY <1>1, <1>2, <1>5, Typed DEF Keepable
  <2>2. ASSUME NEW k \in CaseNames PROVE Append(p, k) \notin D
    <3>1. Front(Append(p, k)) = p
      BY <2>1, AppendEnds
    <3> QED
      BY <1>5, <3>1
  <2> QED
    BY <1>5, <2>1, <2>2 DEF Keepable
<1>6. \A p \in DOMAIN node : ~Below(n, p) => p \in DOMAIN node'
  BY DEF Keepable
<1>7. ASSUME NEW p \in DOMAIN node', p # <<>>
      PROVE  /\ Front(p) \in DOMAIN node'
             /\ p \in D \/ Front(p) = n => node'[Front(p)].at \in Began
             /\ p \notin D => Front(p) \notin D
  <2>1. CASE p \in D
    BY <1>7, <2>1 DEF Keepable
  <2>2. CASE p \notin D
    BY <1>2, <1>7, <2>2 DEF Keepable
  <2> QED
    BY <2>1, <2>2
<1>8. n \in DOMAIN node'
  BY DEF Keepable
<1> QED
  BY <1>3, <1>4, <1>5, <1>6, <1>7, <1>8 DEF Changes

\* The tree without r and what is below it.
Cut(r) == {q \in DOMAIN node : ~IsPrefix(r, q)}

\* A step at n keeps K of the tree and makes D.
Grown(n, K, D) ==
  /\ Keepable(n, K) /\ DOMAIN node' = K \cup D /\ D \cap K = {}
  /\ \A p \in K : p # n => Like(node'[p], node[p]) /\ node'[p].todo = node[p].todo

\* One case of the step at n is a new call.
LEMMA NewCaseKeeps ==
  ASSUME TreeInv, UNCHANGED <<calc, text, mode>>, NEW n \in DOMAIN node, node[n].at = "cases",
         NEW k \in DOMAIN produced(n), NEW r, r = Append(n, k),
         NEW K, Keepable(n, K), r \notin K, DOMAIN node' = K \cup {r},
         Like(node'[n], node[n]), node'[n] \in ProofNode, node'[n].todo # 0,
         \A p \in K : p # n => Like(node'[p], node[p]) /\ node'[p].todo = node[p].todo /\ node'[p] \in ProofNode,
         node'[r] \in ProofNode, node'[r].annotated = TRUE, node'[r].sys = produced(n)[k],
         \/ node'[r].at = "replay" /\ node'[r].from # None
         \/ node'[r].at = "search" /\ node'[r].from = None
         \/ node'[r].at = "done" /\ node'[r].method = "sorry" /\ node'[r].status = "Sorry"
  PROVE  TreeInv'
<1>1. TypeOK /\ node[n].annotated /\ n \in Seq(CaseNames) /\ node[n].from # None
  BY Open, Typed DEF TreeInv, TypeOK
<1>2. /\ node'[n].annotated /\ node'[n].sys = node[n].sys /\ node'[n].at \in Began /\ node'[n].from = node[n].from
      /\ node'[n].method = node[n].method /\ node'[n].at = "cases" /\ node'[n].annotated = node[n].annotated
  BY <1>1 DEF Like, Began
<1>3. CasesOK(n) /\ Applies(n) /\ produced(n) = ExecOf(n)
  <2>1. CasesOK(n)
    BY DEF TreeInv
  <2> QED
    BY <2>1 DEF CasesOK, Applies, ExecOf, produced, exec_method_for
<1>4. k \in CaseNames
  BY <1>1, <1>3, ExecTypes, Typed DEF ExecOf, Applies, TypeOK
<1>5. r \in Seq(CaseNames) /\ r # <<>> /\ Front(r) = n /\ Last(r) = k /\ r # n
  BY <1>1, <1>4, AppendEnds
<1>6. Below(n, r)
  BY <1>1, <1>5, PrefixOrder DEF Below
<1>7. PICK D : D = {r}
  OBVIOUS
<1>8. Changes(n, D)
  <2>1. \A p \in D : /\ p \in Seq(CaseNames) /\ Below(n, p) /\ p # <<>> /\ (Front(p) = n \/ Front(p) \in D)
                     /\ node'[p] \in ProofNode
                     /\ node'[p].at \in {"replay", "cases"} => node'[p].from # None
                     /\ Front(p) \in D => node'[Front(p)].at \in Began
    BY <1>5, <1>6, <1>7
  <2>2. DOMAIN node' = K \cup D /\ D \cap K = {}
    BY <1>7
  <2>3. /\ node[n].at # "done" /\ (node[n].from = None => node'[n].from = None)
        /\ node'[n].at = "cases" => node'[n].from # None
    BY <1>1, <1>2
  <2> QED
    BY <1>2, <2>1, <2>2, <2>3, GraftChanges
<1>9. ExecOf(n)' = ExecOf(n) /\ Applies(n)' /\ stored(n)' = stored(n)
  BY <1>2, <1>3 DEF ExecOf, Applies, stored
<1>10. FreshAt(n, r)
  BY <1>3, <1>5, <1>9 DEF FreshAt
<1>11. \A p \in D : FreshAt(n, p)
  BY <1>7, <1>10
<1>12. CasesOK(n)' /\ SplitOK(n)' /\ DoneOK(n)' /\ CallOK(n)'
  BY <1>2, <1>3, <1>9 DEF CasesOK, SplitOK, DoneOK, CallOK
<1>13. Len(r) \in Nat /\ \A p \in D : Len(p) <= Len(r)
  BY <1>5, <1>7, LenProperties
<1> QED
  BY <1>2, <1>8, <1>11, <1>12, <1>13, StepKeeps

\* The case that a stored name adopts is one that is produced.
LEMMA AdoptedIs ==
  ASSUME NEW name, NEW cases, None \notin DOMAIN cases, AdoptedBy(name, cases) # None
  PROVE  /\ AdoptedBy(name, cases) \in DOMAIN cases
         /\ name \in {AdoptedBy(name, cases), Unnamed}
<1>1. CASE name # Unnamed
  BY <1>1 DEF AdoptedBy
<1>2. CASE name = Unnamed
  <2>1. Cardinality(DOMAIN cases) = 1 /\ AdoptedBy(name, cases) = CHOOSE k \in DOMAIN cases : TRUE
    BY <1>2 DEF AdoptedBy
  <2>2. DOMAIN cases # {}
    BY <2>1, FS_EmptySet
  <2> QED
    BY <1>2, <2>1, <2>2
<1> QED
  BY <1>1, <1>2

\* The produced cases of a replayed step.
LEMMA ProducedIs ==
  ASSUME TreeInv, NEW n \in DOMAIN node, node[n].at = "cases"
  PROVE  /\ produced(n) = ExecOf(n) /\ ExecOf(n) # None /\ Applies(n) /\ node[n].method \in Executable
         /\ node[n].method = stored(n) /\ node[n].todo \in Nat \ {0}
         /\ DOMAIN produced(n) \subseteq CaseNames /\ None \notin DOMAIN produced(n)
         /\ \A k \in DOMAIN produced(n) : produced(n)[k] \in Systems
         /\ Unnamed \in DOMAIN produced(n) => DOMAIN produced(n) = {Unnamed}
         /\ node[n].from \in DOMAIN text /\ node[n] \in ProofNode
<1>1. TypeOK /\ CasesOK(n) /\ node[n].from # None
  BY DEF TreeInv, TypeOK
<1>2. produced(n) = ExecOf(n) /\ Applies(n) /\ node[n].method = stored(n)
  BY <1>1 DEF CasesOK, Applies, ExecOf, produced, exec_method_for
<1>3. calc \in Calculi /\ node[n].sys \in Systems /\ node[n].todo \in Nat \ {0} /\ None \notin CaseNames
      /\ node[n].from \in DOMAIN text /\ node[n] \in ProofNode
  BY <1>1, Typed, ReplayAssumption DEF TypeOK, CasesOK
<1>4. node[n].method \in Executable /\ calc.exec[node[n].sys][node[n].method] # None
  BY <1>2 DEF Applies, ExecOf
<1> QED
  BY <1>2, <1>3, <1>4, ExecTypes DEF ExecOf

\* A stored case that is matched is replayed.
LEMMA MatchedCaseKeeps ==
  ASSUME TreeInv, NEW n \in DOMAIN node, MatchedCase(n)
  PROVE  /\ TreeInv'
         /\ \E k \in CaseNames :
              /\ text[NextBlock(n)].name \in {k, Unnamed}
              /\ Grown(n, Cut(Append(n, k)), {Append(n, k)})
              /\ node'[Append(n, k)].at = "replay" /\ node'[Append(n, k)].from = NextBlock(n)
         /\ Like(node'[n], node[n]) /\ node'[n].todo = node[n].todo + 1
<1>1. node[n].at = "cases" /\ UNCHANGED <<calc, text, mode>> /\ NextBlock(n) \in DOMAIN text
  BY DEF MatchedCase, InLoop
<1>2. /\ DOMAIN produced(n) \subseteq CaseNames /\ None \notin DOMAIN produced(n)
      /\ \A k \in DOMAIN produced(n) : produced(n)[k] \in Systems
      /\ node[n] \in ProofNode /\ node[n].todo \in Nat \ {0} /\ n \in Seq(CaseNames) /\ TypeOK
  BY <1>1, ProducedIs, Typed DEF TreeInv
<1>3. PICK k : k = AdoptedBy(text[NextBlock(n)].name, produced(n))
  OBVIOUS
<1>4. k # None /\ k \in DOMAIN produced(n) /\ k \in CaseNames /\ text[NextBlock(n)].name \in {k, Unnamed}
  BY <1>2, <1>3, AdoptedIs DEF MatchedCase
<1>5. PICK r : r = Append(n, k)
  OBVIOUS
<1>6. r \in Seq(CaseNames) /\ IsPrefix(r, r) /\ r # n
  BY <1>2, <1>4, <1>5, AppendEnds, PrefixOrder
<1>7. PICK K : K = {q \in DOMAIN node : ~IsPrefix(r, q)}
  OBVIOUS
<1>8. Keepable(n, K) /\ r \notin K /\ n \in K
  BY <1>2, <1>4, <1>5, <1>6, <1>7, CutIs DEF Keepable
<1>9. PICK new : new = Call(produced(n)[k], NextBlock(n))
  OBVIOUS
<1>10. PICK told : told = [node[n] EXCEPT !.todo = @ + 1]
  OBVIOUS
<1>11. node' = With(With(Without(r), Only(n, told)), Only(r, new))
  BY <1>3, <1>5, <1>9, <1>10 DEF MatchedCase
<1>12. /\ DOMAIN node' = K \cup {r} /\ node'[n] = told /\ node'[r] = new
       /\ \A p \in K : p # n => node'[p] = node[p]
  BY <1>6, <1>7, <1>8, <1>11 DEF With, Without, Only
<1>13. told \in ProofNode /\ Like(told, node[n]) /\ told.todo # 0 /\ told.todo = node[n].todo + 1
  <2>1. Like(told, node[n]) /\ told.todo = node[n].todo + 1
    BY <1>2, <1>10 DEF ProofNode, Like
  <2>2. told \in ProofNode
    BY <1>2, <1>10 DEF ProofNode
  <2> QED
    BY <1>2, <2>1, <2>2
<1>14. /\ new \in ProofNode /\ new.annotated = TRUE /\ new.sys = produced(n)[k]
       /\ new.at = "replay" /\ new.from # None /\ new.from = NextBlock(n)
  <2>1. NextBlock(n) # None
    BY <1>1, <1>2, ReplayAssumption DEF TypeOK, IsText
  <2> QED
    BY <1>1, <1>2, <1>4, <1>9, <2>1 DEF Call, ProofNode, Places, Statuses
<1>15. \A p \in K : p # n => Like(node'[p], node[p]) /\ node'[p].todo = node[p].todo /\ node'[p] \in ProofNode
  BY <1>2, <1>12, <1>8, Typed DEF Like, Keepable
<1>16. TreeInv'
  BY <1>1, <1>4, <1>5, <1>8, <1>12, <1>13, <1>14, <1>15, NewCaseKeeps
<1>17. Grown(n, Cut(r), {r})
  <2>1. K = Cut(r) /\ {r} \cap K = {}
    BY <1>7, <1>8 DEF Cut
  <2> QED
    BY <1>8, <1>12, <1>15, <2>1 DEF Grown
<1>18. /\ text[NextBlock(n)].name \in {k, Unnamed} /\ Grown(n, Cut(r), {r})
       /\ node'[r].at = "replay" /\ node'[r].from = NextBlock(n)
  BY <1>4, <1>12, <1>14, <1>17
<1> QED
  BY <1>4, <1>5, <1>12, <1>13, <1>16, <1>18

\* A produced case that no stored one claims is proved, or left open.
LEMMA ProducedCaseKeeps ==
  ASSUME TreeInv, NEW n \in DOMAIN node, ProducedCase(n)
  PROVE  /\ TreeInv'
         /\ mode = "load" => \E k \in CaseNames :
              /\ Grown(n, DOMAIN node, {Append(n, k)})
              /\ node'[Append(n, k)].at = "done" /\ node'[Append(n, k)].from = None
         /\ Like(node'[n], node[n]) /\ node'[n].todo = node[n].todo
<1>1. node[n].at = "cases" /\ UNCHANGED <<calc, text, mode>>
  BY DEF ProducedCase, InLoop
<1>2. /\ DOMAIN produced(n) \subseteq CaseNames
      /\ \A k \in DOMAIN produced(n) : produced(n)[k] \in Systems
      /\ node[n] \in ProofNode /\ node[n].todo \in Nat \ {0} /\ n \in Seq(CaseNames) /\ TypeOK
  BY <1>1, ProducedIs, Typed DEF TreeInv
<1>3. PICK k \in Unclaimed(n) :
        LET r == Append(n, k)
            s == produced(n)[k]
        IN IF mode = "prove" THEN node' = With(node, Only(r, Search(s)))
           ELSE node' = With(Told(r, "Sorry"), Only(r, annotated_sorry(s, None)))
  BY DEF ProducedCase
<1>4. PICK r : r = Append(n, k)
  OBVIOUS
<1>5. k \in DOMAIN produced(n) /\ k \in CaseNames /\ r \notin DOMAIN node
  BY <1>2, <1>4 DEF Unclaimed
<1>6. r # n /\ Front(r) = n /\ r # <<>>
  BY <1>2, <1>4, <1>5, AppendEnds
<1>7. PICK K : K = DOMAIN node
  OBVIOUS
<1>8. Keepable(n, K) /\ r \notin K /\ n \in K
  BY <1>2, <1>5, <1>7, CutIs
<1>9. PICK s : s = produced(n)[k]
  OBVIOUS
<1>10. s \in Systems
  BY <1>2, <1>5, <1>9
<1>11. CASE mode = "prove"
  <2>1. PICK new : new = Search(s)
    OBVIOUS
  <2>2. node' = With(node, Only(r, new))
    BY <1>3, <1>4, <1>9, <1>11, <2>1
  <2>3. DOMAIN node' = K \cup {r} /\ node'[r] = new /\ \A p \in K : node'[p] = node[p]
    BY <1>7, <1>8, <2>2 DEF With, Only
  <2>4. new \in ProofNode /\ new.annotated = TRUE /\ new.sys = s /\ new.at = "search" /\ new.from = None
    BY <1>10, <2>1 DEF Search, Call, ProofNode, Places, Statuses
  <2>5. /\ \A p \in K : Like(node'[p], node[p]) /\ node'[p].todo = node[p].todo /\ node'[p] \in ProofNode
        /\ node'[n].todo # 0
    BY <1>2, <1>7, <2>3, Typed DEF Like
  <2>6. Like(node'[n], node[n]) /\ node'[n] \in ProofNode /\ DOMAIN node' = K \cup {r}
    BY <1>8, <2>3, <2>5
  <2>7. /\ node'[r] \in ProofNode /\ node'[r].annotated = TRUE /\ node'[r].sys = produced(n)[k]
        /\ node'[r].at = "search" /\ node'[r].from = None
    BY <1>9, <2>3, <2>4
  <2>8. TreeInv'
    BY <1>1, <1>4, <1>5, <1>8, <2>5, <2>6, <2>7, NewCaseKeeps
  <2> QED
    BY <1>8, <1>11, <2>5, <2>6, <2>8
<1>12. CASE mode # "prove"
  <2>1. PICK new : new = annotated_sorry(s, None)
    OBVIOUS
  <2>2. PICK told : told = Told(r, "Sorry")
    OBVIOUS
  <2>3. node' = With(told, Only(r, new))
    BY <1>3, <1>4, <1>9, <1>12, <2>1, <2>2
  <2>4. /\ DOMAIN told = DOMAIN node
        /\ \A p \in DOMAIN node : Like(told[p], node[p]) /\ told[p].todo = node[p].todo /\ told[p] \in ProofNode
    <3>1. "Sorry" \in Statuses /\ (r = <<>> \/ Front(r) \in DOMAIN node)
      BY <1>6 DEF Statuses
    <3> QED
      BY <1>2, <2>2, <3>1, ToldIs
  <2>5. DOMAIN node' = K \cup {r} /\ node'[r] = new /\ \A p \in K : node'[p] = told[p]
    BY <1>7, <1>8, <2>3, <2>4 DEF With, Only
  <2>6. /\ new \in ProofNode /\ new.annotated = TRUE /\ new.sys = s /\ new.at = "done"
        /\ new.method = "sorry" /\ new.status = "Sorry" /\ new.from = None
    BY <1>10, <2>1 DEF annotated_sorry, Done, ProofNode, Places, Statuses, Methods
  <2>7. /\ \A p \in K : Like(node'[p], node[p]) /\ node'[p].todo = node[p].todo /\ node'[p] \in ProofNode
        /\ node'[n].todo # 0
    BY <1>2, <1>7, <2>4, <2>5
  <2>8. TreeInv'
    BY <1>1, <1>4, <1>5, <1>7, <1>8, <1>9, <2>5, <2>6, <2>7, NewCaseKeeps
  <2>9. Grown(n, K, {r})
    BY <1>5, <1>7, <1>8, <2>5, <2>7 DEF Grown
  <2> QED
    BY <1>4, <1>5, <1>7, <1>8, <2>5, <2>6, <2>7, <2>8, <2>9
<1> QED
  BY <1>11, <1>12

\* The prover applies a method.
LEMMA SplitKeeps ==
  ASSUME TreeInv, NEW n \in DOMAIN node, Split(n)
  PROVE  TreeInv'
<1>1. /\ node[n].at = "search" /\ node[n].at # "done" /\ Kids(n) = {} /\ KidsDone(n) /\ TypeOK
      /\ UNCHANGED <<calc, text, mode>> /\ node[n].annotated = TRUE /\ node[n].from = None
      /\ n \in Seq(CaseNames) /\ node[n] \in ProofNode
  <2>1. node[n].at = "search" /\ TypeOK /\ UNCHANGED <<calc, text, mode>>
    BY DEF Split, TreeInv
  <2>2. Kids(n) = {} /\ CallOK(n) /\ node[n].annotated
    BY <2>1, Open DEF TreeInv
  <2> QED
    BY <2>1, <2>2, Typed DEF KidsDone, CallOK, Searched
<1>2. PICK m \in Executable :
        LET cases == calc.exec[node[n].sys][m]
            new == [p \in {Append(n, k) : k \in DOMAIN cases} |-> Search(cases[Last(p)])]
        IN /\ cases # None
           /\ IF cases = NoCases
              THEN Return(n, Only(n, Done(node[n].sys, None, m, TRUE, "Contradictory")))
              ELSE node' = With(With(node, Only(n, [node[n] EXCEPT !.at = "split", !.method = m])), new)
  BY DEF Split
<1>3. PICK cases : cases = calc.exec[node[n].sys][m]
  OBVIOUS
<1>4. cases # None /\ DOMAIN cases \subseteq CaseNames /\ \A k \in DOMAIN cases : cases[k] \in Systems
  BY <1>1, <1>2, <1>3, Typed, ExecTypes DEF TypeOK
<1>5. CASE cases = NoCases
  <2>1. /\ Return(n, Only(n, Done(node[n].sys, None, m, TRUE, "Contradictory")))
        /\ calc.exec[node[n].sys][m] # None
        /\ \A k \in DOMAIN calc.exec[node[n].sys][m] :
             Append(n, k) \in DOMAIN node /\ node[Append(n, k)].annotated
    BY <1>2, <1>3, <1>4, <1>5 DEF NoCases
  <2>2. m \in Methods /\ m \notin Results /\ "Contradictory" \in Statuses /\ None \in DOMAIN text \cup {None}
    BY <1>2 DEF Methods, Executable, Results, Statuses
  <2> QED
    BY <1>1, <1>2, <2>1, <2>2, ReturnKeeps
<1>6. CASE cases # NoCases
  <2>1. PICK rec : rec = [node[n] EXCEPT !.at = "split", !.method = m]
    OBVIOUS
  <2>2. PICK D : D = {Append(n, k) : k \in DOMAIN cases}
    OBVIOUS
  <2>3. PICK new : new = [p \in D |-> Search(cases[Last(p)])]
    OBVIOUS
  <2>4. node' = With(With(node, Only(n, rec)), new)
    BY <1>2, <1>3, <1>6, <2>1, <2>2, <2>3
  <2>5. PICK K : K = DOMAIN node
    OBVIOUS
  <2>6. \A p \in D : /\ p \in Seq(CaseNames) /\ p # n /\ p # <<>> /\ Front(p) = n /\ Last(p) \in DOMAIN cases
                     /\ Below(n, p) /\ Len(p) = Len(n) + 1
    <3>1. ASSUME NEW p \in D
          PROVE  /\ p \in Seq(CaseNames) /\ p # n /\ p # <<>> /\ Front(p) = n /\ Last(p) \in DOMAIN cases
                 /\ Below(n, p) /\ Len(p) = Len(n) + 1
      <4>1. PICK k \in DOMAIN cases : p = Append(n, k)
        BY <2>2
      <4>2. /\ p \in Seq(CaseNames) /\ p # n /\ p # <<>> /\ Front(p) = n /\ Last(p) = k
            /\ Len(p) = Len(n) + 1
        BY <1>1, <1>4, <4>1, AppendEnds
      <4>3. IsPrefix(n, p)
        BY <1>1, <4>2, PrefixOrder
      <4> QED
        BY <4>2, <4>3 DEF Below
    <3> QED
      BY <3>1
  <2>7. D \cap K = {}
    BY <1>1, <2>5, <2>6 DEF Kids
  <2>8. /\ DOMAIN node' = K \cup D /\ node'[n] = rec
        /\ \A p \in K : p # n => node'[p] = node[p]
        /\ \A p \in D : node'[p] = Search(cases[Last(p)])
    BY <2>3, <2>4, <2>5, <2>6, <2>7 DEF With, Only
  <2>9. /\ rec \in ProofNode /\ rec.at = "split" /\ rec.sys = node[n].sys /\ rec.from = None
        /\ rec.annotated = TRUE /\ rec.method = m
    BY <1>1, <1>2, <2>1 DEF ProofNode, Places, Methods
  <2>10. \A p \in D : /\ node'[p] \in ProofNode /\ node'[p].at = "search" /\ node'[p].sys = cases[Last(p)]
                      /\ node'[p].from = None /\ node'[p].annotated = TRUE
    <3>1. ASSUME NEW p \in D
          PROVE  /\ Search(cases[Last(p)]) \in ProofNode /\ Search(cases[Last(p)]).at = "search"
                 /\ Search(cases[Last(p)]).sys = cases[Last(p)] /\ Search(cases[Last(p)]).from = None
                 /\ Search(cases[Last(p)]).annotated = TRUE
      <4>1. cases[Last(p)] \in Systems
        BY <1>4, <2>6
      <4> QED
        BY <4>1 DEF Search, Call, ProofNode, Places, Statuses
    <3> QED
      BY <2>8, <3>1
  <2>11. \A p \in K : p # n => Like(node'[p], node[p]) /\ node'[p].todo = node[p].todo /\ node'[p] \in ProofNode
    BY <1>1, <2>5, <2>8, Typed DEF Like
  <2>12. Changes(n, D)
    <3>1. /\ node'[n] \in ProofNode /\ node'[n].annotated /\ node'[n].sys = node[n].sys /\ node'[n].at \in Began
          /\ node[n].from = None => node'[n].from = None
          /\ node'[n].at = "cases" => node'[n].from # None
      BY <2>8, <2>9 DEF Began
    <3>2. \A p \in D : /\ p \in Seq(CaseNames) /\ Below(n, p) /\ p # <<>> /\ (Front(p) = n \/ Front(p) \in D)
                       /\ node'[p] \in ProofNode
                       /\ node'[p].at \in {"replay", "cases"} => node'[p].from # None
                       /\ Front(p) \in D => node'[Front(p)].at \in Began
      <4>1. n \notin D
        BY <2>5, <2>7
      <4> QED
        BY <2>6, <2>10, <4>1
    <3>3. Keepable(n, K)
      BY <1>1, <2>5, CutIs
    <3> QED
      BY <1>1, <2>7, <2>8, <2>11, <3>1, <3>2, <3>3, GraftChanges
  <2>13. ExecOf(n)' = cases /\ Applies(n)'
    BY <1>1, <1>2, <1>3, <1>4, <2>8, <2>9 DEF ExecOf, Applies
  <2>14. \A p \in D : FreshAt(n, p)
    BY <2>6, <2>10, <2>13 DEF FreshAt
  <2>15. CasesOK(n)' /\ DoneOK(n)' /\ CallOK(n)'
    BY <2>8, <2>9 DEF CasesOK, DoneOK, CallOK
  <2>16. SplitOK(n)'
    <3>1. AllCases(n)'
      <4>1. \A k \in DOMAIN cases : Append(n, k) \in DOMAIN node' /\ node'[Append(n, k)].annotated
        BY <2>2, <2>8, <2>10
      <4> QED
        BY <2>13, <4>1 DEF AllCases
    <3>2. \A p \in DOMAIN node' : p # <<>> /\ Front(p) = n => node'[p].annotated /\ node'[p].from = None
      BY <1>1, <2>5, <2>8, <2>10 DEF Kids
    <3> QED
      BY <2>8, <2>9, <2>13, <3>1, <3>2 DEF SplitOK, Kids, Searched
  <2>17. \A p \in DOMAIN node' : p \notin D /\ p # <<>> /\ p # n /\ Front(p) = n => node'[n].method = node[n].method
    BY <1>1, <2>5, <2>8 DEF Kids
  <2>18. Len(n) + 1 \in Nat /\ \A p \in D : Len(p) <= Len(n) + 1
    BY <1>1, <2>6, LenProperties
  <2> QED
    BY <2>12, <2>14, <2>15, <2>16, <2>17, <2>18, StepKeeps
<1> QED
  BY <1>5, <1>6

\* A case is solved: the others go, whatever they are at.
LEMMA SolvedCaseKeeps ==
  ASSUME TreeInv, NEW n \in DOMAIN node, SolvedCase(n)
  PROVE  TreeInv'
<1>1. /\ node[n].at = "split" /\ node[n].at # "done" /\ TypeOK /\ UNCHANGED <<calc, text, mode>>
      /\ n \in Seq(CaseNames) /\ node[n] \in ProofNode /\ node[n].sys \in Systems
      /\ \A p \in DOMAIN node : p \in Seq(CaseNames)
  <2>1. node[n].at = "split" /\ TypeOK /\ UNCHANGED <<calc, text, mode>>
    BY DEF SolvedCase, TreeInv
  <2> QED
    BY <2>1, Typed
<1>2. Applies(n) /\ Searched(n) /\ AllCases(n) /\ \A r \in Kids(n) : Searched(r)
  BY <1>1 DEF TreeInv, SplitOK
<1>3. PICK r \in Kids(n) :
        /\ node[r].at = "done" /\ node[r].status = "Solved"
        /\ LET told == Told(n, "Solved")
               kept == {p \in DOMAIN node : IsPrefix(n, p) => p = n \/ IsPrefix(r, p)}
           IN node' = With([p \in kept |-> told[p]],
                           Only(n, Done(node[n].sys, None, node[n].method, TRUE, "Solved")))
  BY DEF SolvedCase
<1>4. PICK told : told = Told(n, "Solved")
  OBVIOUS
<1>5. PICK K : K = {p \in DOMAIN node : IsPrefix(n, p) => p = n \/ IsPrefix(r, p)}
  OBVIOUS
<1>6. PICK rec : rec = Done(node[n].sys, None, node[n].method, TRUE, "Solved")
  OBVIOUS
<1>7. node' = With([p \in K |-> told[p]], Only(n, rec))
  BY <1>3, <1>4, <1>5, <1>6
<1>8. /\ DOMAIN told = DOMAIN node
      /\ \A p \in DOMAIN node : Like(told[p], node[p]) /\ told[p].todo = node[p].todo /\ told[p] \in ProofNode
  <2>1. "Solved" \in Statuses /\ (n = <<>> \/ Front(n) \in DOMAIN node)
    BY <1>1, Typed DEF Statuses, Results
  <2> QED
    BY <1>1, <1>4, <2>1, ToldIs
<1>9. n \in K /\ K \subseteq DOMAIN node
  BY <1>5
<1>10. DOMAIN node' = K /\ node'[n] = rec /\ \A p \in K : p # n => node'[p] = told[p]
  BY <1>7, <1>9 DEF With, Only
<1>11. /\ rec \in ProofNode /\ rec.at = "done" /\ rec.sys = node[n].sys /\ rec.from = None
       /\ rec.annotated = TRUE /\ rec.status = "Solved" /\ rec.method = node[n].method
       /\ node[n].method \in Executable
  BY <1>1, <1>2, <1>6 DEF Done, ProofNode, Places, Applies, Statuses, Results
<1>12. r \in DOMAIN node /\ r \in Seq(CaseNames) /\ r # <<>> /\ Front(r) = n /\ IsPrefix(n, r) /\ IsPrefix(r, r)
       /\ r # n /\ Len(r) \in Nat /\ Len(n) = Len(r) - 1
  <2>1. r \in DOMAIN node /\ r \in Seq(CaseNames) /\ r # <<>> /\ Front(r) = n
    BY <1>1, <1>3 DEF Kids
  <2>2. IsPrefix(n, r) /\ IsPrefix(r, r) /\ Len(r) \in Nat /\ Len(n) = Len(r) - 1
    BY <2>1, PrefixOrder, PathEnds
  <2> QED
    BY <2>1, <2>2
<1>13. Keepable(n, K)
  <2>1. \A p \in DOMAIN node : ~Below(n, p) => p \in K
    BY <1>5 DEF Below
  <2>2. ASSUME NEW p \in K, p # <<>> PROVE Front(p) \in K
    <3>1. p \in Seq(CaseNames) /\ Front(p) \in DOMAIN node /\ Front(p) \in Seq(CaseNames)
      BY <1>1, <1>9, <2>2, Typed
    <3>2. SUFFICES ASSUME IsPrefix(n, Front(p)), Front(p) # n PROVE IsPrefix(r, Front(p))
      BY <1>5, <3>1
    <3>3. IsPrefix(n, p) /\ p # n
      BY <1>1, <2>2, <3>1, <3>2, PrefixOrder
    <3>4. IsPrefix(r, p)
      BY <1>5, <3>3
    <3>5. p # r
      BY <1>12, <3>2
    <3> QED
      BY <1>12, <2>2, <3>1, <3>4, <3>5, PrefixOrder
  <2>3. ASSUME NEW p \in K, NEW c \in CaseNames, p # n, Append(p, c) \in DOMAIN node PROVE Append(p, c) \in K
    <3>1. PICK q : q = Append(p, c)
      OBVIOUS
    <3>2. p \in Seq(CaseNames) /\ q \in Seq(CaseNames) /\ q # <<>> /\ Front(q) = p
      BY <1>1, <1>9, <3>1, AppendEnds
    <3>3. SUFFICES ASSUME IsPrefix(n, q), q # n PROVE IsPrefix(r, q)
      BY <1>5, <2>3, <3>1
    <3>4. IsPrefix(n, p)
      BY <1>1, <3>2, <3>3, PrefixOrder
    <3>5. IsPrefix(r, p)
      BY <1>5, <2>3, <3>4
    <3> QED
      BY <1>12, <3>2, <3>5, PrefixOrder
  <2> QED
    BY <1>9, <2>1, <2>2, <2>3 DEF Keepable
<1>14. PICK D : D = {}
  OBVIOUS
<1>15. Changes(n, D)
  <2>1. \A p \in K : p # n => Like(node'[p], node[p]) /\ node'[p].todo = node[p].todo /\ node'[p] \in ProofNode
    BY <1>8, <1>9, <1>10
  <2>2. /\ node'[n] \in ProofNode /\ node'[n].annotated /\ node'[n].sys = node[n].sys /\ node'[n].at \in Began
        /\ node[n].from = None => node'[n].from = None
        /\ node'[n].at = "cases" => node'[n].from # None
    BY <1>10, <1>11 DEF Began
  <2>3. DOMAIN node' = K \cup D /\ D \cap K = {}
    BY <1>10, <1>14
  <2>4. \A p \in D : /\ p \in Seq(CaseNames) /\ Below(n, p) /\ p # <<>> /\ (Front(p) = n \/ Front(p) \in D)
                     /\ node'[p] \in ProofNode
                     /\ node'[p].at \in {"replay", "cases"} => node'[p].from # None
                     /\ Front(p) \in D => node'[Front(p)].at \in Began
    BY <1>14
  <2> QED
    BY <1>1, <1>13, <2>1, <2>2, <2>3, <2>4, GraftChanges
<1>16. \A q \in DOMAIN node' : q # <<>> /\ Front(q) = n => q = r
  <2>1. SUFFICES ASSUME NEW q \in DOMAIN node', q # <<>>, Front(q) = n PROVE q = r
    OBVIOUS
  <2>2. q \in K /\ q \in Seq(CaseNames) /\ IsPrefix(n, q) /\ Len(n) = Len(q) - 1 /\ Len(q) \in Nat
    BY <1>1, <1>9, <1>10, <2>1, PathEnds, PrefixOrder
  <2>3. q # n
    BY <2>2
  <2>4. IsPrefix(r, q)
    BY <1>5, <2>2, <2>3
  <2>5. Len(r) = Len(q)
    BY <1>12, <2>2
  <2> QED
    BY <1>12, <2>2, <2>4, <2>5, PrefixOrder
<1>17. r \in DOMAIN node' /\ Like(node'[r], node[r])
  BY <1>5, <1>8, <1>10, <1>12
<1>18. DoneOK(n)'
  <2>1. KidsDone(n)'
    <3>1. \A q \in DOMAIN node' : q # <<>> /\ Front(q) = n => node'[q].at = "done"
      BY <1>3, <1>16, <1>17 DEF Like
    <3> QED
      BY <3>1 DEF KidsDone, Kids
  <2>2. SolvedKid(n)'
    <3>1. Searched(r)
      BY <1>2, <1>3
    <3> QED
      BY <1>3, <1>12, <1>17, <3>1 DEF SolvedKid, Kids, Searched, Like
  <2>3. ExecOf(n)' # None /\ node[n].method \notin Results /\ node[n].method # "unset"
    BY <1>1, <1>2, <1>10, <1>11 DEF ExecOf, Applies, Executable, Results
  <2> QED
    BY <1>10, <1>11, <2>1, <2>2, <2>3 DEF DoneOK
<1>19. CasesOK(n)' /\ SplitOK(n)' /\ CallOK(n)'
  BY <1>10, <1>11 DEF CasesOK, SplitOK, CallOK
<1>20. /\ \A p \in D : Len(p) <= 0
       /\ \A p \in D : FreshAt(n, p)
       /\ \A p \in DOMAIN node' : p \notin D /\ p # <<>> /\ p # n /\ Front(p) = n => node'[n].method = node[n].method
  BY <1>10, <1>11, <1>14
<1> QED
  BY <1>15, <1>18, <1>19, <1>20, StepKeeps

-----------------------------------------------------------------------------
(* Stored steps that are kept as they are.                                 *)

Position == Seq(Nat \ {0})

\* A stored proof is a tree of positions, of some height.
LEMMA TextIs ==
  ASSUME IsText(text)
  PROVE  /\ \A u \in DOMAIN text : /\ u \in Position /\ text[u].name \in CaseNames /\ text[u].method \in Methods
                                   /\ u # <<>> => Front(u) \in DOMAIN text /\ Front(u) # u
                                   /\ \A j \in 0..Len(u) : SubSeq(u, 1, j) \in DOMAIN text
         /\ \E b \in Nat : \A u \in DOMAIN text : Len(u) <= b
         /\ None \notin DOMAIN text /\ <<>> \in DOMAIN text
<1>1. /\ IsFiniteSet(DOMAIN text) /\ DOMAIN text \subseteq Position
      /\ \A u \in DOMAIN text : text[u] \in [name : CaseNames, method : Methods]
      /\ \A u \in DOMAIN text : u # <<>> => Front(u) \in DOMAIN text
      /\ <<>> \in DOMAIN text
  BY DEF IsText, Position
<1>2. ASSUME NEW u \in DOMAIN text, NEW j \in 0..Len(u)
      PROVE  SubSeq(u, 1, j) \in DOMAIN text
  <2>1. u \in Position /\ Len(u) \in Nat
    BY <1>1, LenProperties DEF Position
  <2>2. PICK S : S = {i \in 0..Len(u) : SubSeq(u, 1, i) \notin DOMAIN text}
    OBVIOUS
  <2>3. SUFFICES ASSUME S # {} PROVE FALSE
    BY <2>2
  <2>4. PICK i \in S : \A k \in S : k <= i
    BY <2>1, <2>2, <2>3, GreatestNat
  <2>5. SubSeq(u, 1, Len(u)) = u
    BY <2>1, SubSeqFull DEF Position
  <2>6. i \in Nat /\ i < Len(u)
    <3>1. i \in 0..Len(u) /\ SubSeq(u, 1, i) \notin DOMAIN text
      BY <2>2, <2>4
    <3>2. i # Len(u)
      BY <2>5, <3>1
    <3> QED
      BY <2>1, <3>1, <3>2
  <2>7. PICK k \in 0..Len(u) : k = i + 1
    BY <2>1, <2>6
  <2>8. SubSeq(u, 1, k) \in DOMAIN text
    BY <2>2, <2>4, <2>6, <2>7
  <2>9. PICK v : v = SubSeq(u, 1, k)
    OBVIOUS
  <2>10. PICK w : w = SubSeq(u, 1, i)
    OBVIOUS
  <2>11. v \in Position /\ Len(v) = k /\ k \in Nat /\ \A l \in 1..k : v[l] = u[l]
    BY <2>1, <2>9, FirstPart DEF Position
  <2>12. w \in Position /\ Len(w) = i /\ \A l \in 1..i : w[l] = u[l]
    BY <2>1, <2>2, <2>4, <2>10, FirstPart DEF Position
  <2>13. v # <<>>
    BY <2>6, <2>7, <2>11, EmptySeq
  <2>14. Front(v) \in Position /\ Len(Front(v)) = Len(v) - 1 /\ \A l \in 1..Len(v) - 1 : Front(v)[l] = v[l]
    BY <2>11, <2>13, PathEnds DEF Position
  <2>15. Len(Front(v)) = i /\ \A l \in 1..i : Front(v)[l] = w[l]
    BY <2>6, <2>7, <2>11, <2>12, <2>14
  <2>16. Front(v) = w
    BY <2>12, <2>14, <2>15, SeqEqual DEF Position
  <2>17. Front(v) \in DOMAIN text
    BY <1>1, <2>8, <2>9, <2>13
  <2> QED
    BY <2>2, <2>4, <2>10, <2>16, <2>17
<1>3. \E b \in Nat : \A u \in DOMAIN text : Len(u) <= b
  <2>1. PICK b : b = Cardinality(DOMAIN text)
    OBVIOUS
  <2>2. b \in Nat
    BY <1>1, <2>1, FS_CardinalityType
  <2>3. ASSUME NEW u \in DOMAIN text PROVE Len(u) <= b
    <3>1. u \in Position /\ Len(u) \in Nat
      BY <1>1, LenProperties DEF Position
    <3>2. SUFFICES ASSUME b < Len(u) PROVE FALSE
      BY <2>2, <3>1
    <3>3. PICK S : S = 0..Len(u)
      OBVIOUS
    <3>4. IsFiniteSet(S) /\ Cardinality(S) = Len(u) + 1
      BY <3>1, <3>3, FS_Interval
    <3>5. PICK f : f = [j \in S |-> SubSeq(u, 1, j)]
      OBVIOUS
    <3>6. f \in [S -> DOMAIN text]
      BY <1>2, <3>3, <3>5
    <3>7. PICK i \in S, j \in S : i # j /\ f[i] = f[j]
      BY <1>1, <2>1, <2>2, <3>1, <3>2, <3>4, <3>6, FS_PigeonHole
    <3>8. Len(SubSeq(u, 1, i)) = i /\ Len(SubSeq(u, 1, j)) = j
      BY <3>1, <3>3, FirstPart DEF Position
    <3> QED
      BY <3>5, <3>7, <3>8
  <2> QED
    BY <2>2, <2>3
<1>4. ASSUME NEW u \in DOMAIN text, u # <<>> PROVE Front(u) # u
  <2>1. u \in Position
    BY <1>1
  <2>2. Len(u) \in Nat /\ Len(Front(u)) = Len(u) - 1
    BY <1>4, <2>1, PathEnds DEF Position
  <2> QED
    BY <2>2
<1>5. None \notin DOMAIN text
  BY <1>1, ReplayAssumption DEF Position
<1> QED
  BY <1>1, <1>2, <1>3, <1>4, <1>5

\* The first elements of a sequence without its last.
LEMMA FirstOfFront ==
  ASSUME NEW E, NEW u \in Seq(E), u # <<>>, NEW j \in 0..Len(u) - 1
  PROVE  SubSeq(Front(u), 1, j) = SubSeq(u, 1, j)
<1>1. /\ Front(u) \in Seq(E) /\ Len(Front(u)) = Len(u) - 1 /\ Len(u) \in Nat
      /\ \A i \in 1..Len(u) - 1 : Front(u)[i] = u[i]
  BY PathEnds
<1>2. PICK k \in 0..Len(Front(u)) : k = j
  BY <1>1
<1>3. PICK l \in 0..Len(u) : l = j
  BY <1>1
<1>4. /\ SubSeq(Front(u), 1, k) \in Seq(E) /\ Len(SubSeq(Front(u), 1, k)) = k
      /\ \A i \in 1..k : SubSeq(Front(u), 1, k)[i] = Front(u)[i]
  BY <1>1, FirstPart
<1>5. /\ SubSeq(u, 1, l) \in Seq(E) /\ Len(SubSeq(u, 1, l)) = l
      /\ \A i \in 1..l : SubSeq(u, 1, l)[i] = u[i]
  BY FirstPart
<1> QED
  BY <1>1, <1>2, <1>3, <1>4, <1>5, SeqEqual

\* A kept step goes below the one it was below, under its name.
LEMMA PlaceIs ==
  ASSUME IsText(text), NEW n \in Seq(CaseNames), NEW t \in DOMAIN text, NEW u \in DOMAIN text, IsPrefix(t, u)
  PROVE  /\ Place(n, t, u) \in Seq(CaseNames)
         /\ Len(Place(n, t, u)) = Len(n) + Len(u) - Len(t)
         /\ \A k \in 1..Len(u) - Len(t) : Place(n, t, u)[Len(n) + k] = text[SubSeq(u, 1, Len(t) + k)].name
         /\ IsPrefix(n, Place(n, t, u))
         /\ u = t => Place(n, t, u) = n
         /\ u # t => /\ Place(n, t, u) = Append(Place(n, t, Front(u)), text[u].name)
                     /\ Front(u) \in DOMAIN text /\ IsPrefix(t, Front(u)) /\ u # <<>>
<1>1. t \in Position /\ u \in Position /\ Len(t) <= Len(u) /\ Len(t) \in Nat /\ Len(u) \in Nat /\ Len(n) \in Nat
  BY TextIs, PrefixOrder, LenProperties DEF Position
<1>2. ASSUME NEW v \in DOMAIN text, IsPrefix(t, v)
      PROVE  /\ Place(n, t, v) \in Seq(CaseNames)
             /\ Len(Place(n, t, v)) = Len(n) + Len(v) - Len(t)
             /\ \A k \in 1..Len(n) : Place(n, t, v)[k] = n[k]
             /\ \A k \in 1..Len(v) - Len(t) : Place(n, t, v)[Len(n) + k] = text[SubSeq(v, 1, Len(t) + k)].name
             /\ v = t => Place(n, t, v) = n
  <2>1. v \in Position /\ Len(t) <= Len(v) /\ Len(v) \in Nat
    BY <1>1, <1>2, TextIs, PrefixOrder, LenProperties DEF Position
  <2>2. PICK l \in Nat : l = Len(v) - Len(t)
    BY <1>1, <2>1
  <2>3. PICK w : w = [k \in 1..l |-> text[SubSeq(v, 1, Len(t) + k)].name]
    OBVIOUS
  <2>4. ASSUME NEW k \in 1..l PROVE text[SubSeq(v, 1, Len(t) + k)].name \in CaseNames
    <3>1. Len(t) + k \in 0..Len(v)
      BY <1>1, <2>1, <2>2
    <3>2. SubSeq(v, 1, Len(t) + k) \in DOMAIN text
      BY <3>1, TextIs
    <3> QED
      BY <3>2, TextIs
  <2>5. w \in Seq(CaseNames) /\ Len(w) = l
    BY <2>2, <2>3, <2>4, IsASeq, LenProperties
  <2>6. Place(n, t, v) = n \o w
    BY <2>2, <2>3 DEF Place
  <2>7. /\ n \o w \in Seq(CaseNames) /\ Len(n \o w) = Len(n) + l
        /\ \A i \in 1..Len(n) + l : (n \o w)[i] = IF i <= Len(n) THEN n[i] ELSE w[i - Len(n)]
    BY <2>5, ConcatProperties
  <2>8. \A k \in 1..l : (n \o w)[Len(n) + k] = w[k]
    BY <1>1, <2>2, <2>7
  <2>9. v = t => n \o w = n
    <3>1. SUFFICES ASSUME v = t PROVE n \o w = n
      OBVIOUS
    <3>2. Len(n \o w) = Len(n) /\ \A i \in 1..Len(n) : (n \o w)[i] = n[i]
      BY <1>1, <2>2, <2>7, <3>1
    <3> QED
      BY <2>7, <3>2, SeqEqual
  <2>10. \A k \in 1..Len(n) : (n \o w)[k] = n[k]
    BY <1>1, <2>2, <2>7
  <2> QED
    BY <1>1, <2>1, <2>2, <2>3, <2>6, <2>7, <2>8, <2>9, <2>10
<1>3. IsPrefix(n, Place(n, t, u))
  BY <1>1, <1>2, PrefixIs
<1>4. ASSUME u # t
      PROVE  /\ Place(n, t, u) = Append(Place(n, t, Front(u)), text[u].name)
             /\ Front(u) \in DOMAIN text /\ IsPrefix(t, Front(u)) /\ u # <<>>
  <2>1. u # <<>>
    <3>1. SUFFICES ASSUME u = <<>> PROVE FALSE
      OBVIOUS
    <3>2. Len(t) = Len(u)
      BY <1>1, <3>1, EmptySeq
    <3> QED
      BY <1>1, <1>4, <3>2, PrefixOrder DEF Position
  <2>2. Front(u) \in DOMAIN text /\ IsPrefix(t, Front(u)) /\ Len(Front(u)) = Len(u) - 1
    BY <1>1, <1>4, <2>1, TextIs, PrefixOrder, PathEnds DEF Position
  <2>3. text[u].name \in CaseNames
    BY TextIs
  <2>4. PICK l \in Nat : l = Len(u) - 1 - Len(t)
    <3>1. Front(u) \in Position
      BY <2>2, TextIs
    <3>2. Len(t) <= Len(Front(u))
      BY <1>1, <2>2, <3>1, PrefixOrder DEF Position
    <3>3. Len(u) - 1 - Len(t) \in Nat
      BY <1>1, <2>2, <3>2
    <3> QED
      BY <3>3
  <2>5. PICK p : p = Place(n, t, Front(u))
    OBVIOUS
  <2>6. PICK q : q = Place(n, t, u)
    OBVIOUS
  <2>7. /\ p \in Seq(CaseNames) /\ Len(p) = Len(n) + l
        /\ \A k \in 1..Len(n) : p[k] = n[k]
        /\ \A k \in 1..l : p[Len(n) + k] = text[SubSeq(Front(u), 1, Len(t) + k)].name
    BY <1>1, <1>2, <2>2, <2>4, <2>5
  <2>8. /\ q \in Seq(CaseNames) /\ Len(q) = Len(n) + l + 1
        /\ \A k \in 1..Len(n) : q[k] = n[k]
        /\ \A k \in 1..l + 1 : q[Len(n) + k] = text[SubSeq(u, 1, Len(t) + k)].name
    <3>1. l + 1 = Len(u) - Len(t) /\ Len(n) + l + 1 = Len(n) + Len(u) - Len(t)
      BY <1>1, <2>4
    <3> QED
      BY <1>2, <2>6, <3>1
  <2>9. \A k \in 1..l : SubSeq(Front(u), 1, Len(t) + k) = SubSeq(u, 1, Len(t) + k)
    <3>1. \A k \in 1..l : Len(t) + k \in 0..Len(u) - 1
      BY <1>1, <2>4
    <3> QED
      BY <1>1, <2>1, <3>1, FirstOfFront DEF Position
  <2>10. q[Len(n) + l + 1] = text[u].name
    <3>1. Len(t) + (l + 1) = Len(u) /\ l + 1 \in 1..l + 1 /\ Len(n) + (l + 1) = Len(n) + l + 1
      BY <1>1, <2>4
    <3>2. SubSeq(u, 1, Len(u)) = u
      BY <1>1, SubSeqFull DEF Position
    <3> QED
      BY <2>8, <3>1, <3>2
  <2>11. \A i \in 1..Len(n) + l : q[i] = p[i]
    <3>1. ASSUME NEW i \in 1..Len(n) + l PROVE q[i] = p[i]
      <4>1. CASE i <= Len(n)
        BY <1>1, <2>7, <2>8, <4>1
      <4>2. CASE i > Len(n)
        <5>1. PICK k \in 1..l : i = Len(n) + k
          <6>1. i - Len(n) \in 1..l /\ i = Len(n) + (i - Len(n))
            BY <1>1, <4>2
          <6> QED
            BY <6>1
        <5>2. k \in 1..l + 1
          OBVIOUS
        <5> QED
          BY <2>7, <2>8, <2>9, <5>1, <5>2
      <4> QED
        BY <1>1, <4>1, <4>2
    <3> QED
      BY <3>1
  <2>12. /\ Append(p, text[u].name) \in Seq(CaseNames) /\ Len(Append(p, text[u].name)) = Len(p) + 1
         /\ \A i \in 1..Len(p) : Append(p, text[u].name)[i] = p[i]
         /\ Append(p, text[u].name)[Len(p) + 1] = text[u].name
    BY <2>3, <2>7, AppendProperties
  <2>13. \A i \in 1..Len(q) : q[i] = Append(p, text[u].name)[i]
    BY <1>1, <2>7, <2>8, <2>10, <2>11, <2>12
  <2>14. q = Append(p, text[u].name)
    BY <1>1, <2>7, <2>8, <2>12, <2>13, SeqEqual
  <2> QED
    BY <2>1, <2>2, <2>5, <2>6, <2>14
<1> QED
  BY <1>2, <1>3, <1>4

\* What is shown of a stored step, and above a shown step.
LEMMA ShownIs ==
  ASSUME IsText(text), NEW t \in DOMAIN text
  PROVE  /\ t \in Shown(t) /\ Shown(t) \subseteq DOMAIN text
         /\ \A u \in Shown(t) : /\ IsPrefix(t, u)
                                /\ u # t => u # <<>> /\ Front(u) \in Shown(t) /\ ~Shadowed(u)
<1>1. \A u \in DOMAIN text : u \in Position
  BY TextIs
<1>2. t \in Shown(t)
  <2>1. t \in Position /\ IsPrefix(t, t) /\ Len(t) \in Nat
    BY <1>1, PrefixOrder, LenProperties DEF Position
  <2> QED
    BY <2>1 DEF Shown
<1>3. ASSUME NEW u \in Shown(t), u # t
      PROVE  u # <<>> /\ Front(u) \in Shown(t) /\ ~Shadowed(u)
  <2>1. u \in DOMAIN text /\ IsPrefix(t, u) /\ \A k \in (Len(t) + 1)..Len(u) : ~Shadowed(SubSeq(u, 1, k))
    BY DEF Shown
  <2>2. u # <<>> /\ Front(u) \in DOMAIN text /\ IsPrefix(t, Front(u)) /\ u \in Position /\ t \in Position
    <3>1. PICK e \in Seq(CaseNames) : e = <<>>
      BY EmptySeq
    <3>2. /\ Place(e, t, u) \in Seq(CaseNames)
          /\ u # t => /\ Place(e, t, u) = Append(Place(e, t, Front(u)), text[u].name)
                      /\ Front(u) \in DOMAIN text /\ IsPrefix(t, Front(u)) /\ u # <<>>
      BY <2>1, PlaceIs
    <3> QED
      BY <1>1, <1>3, <2>1, <3>2
  <2>3. Len(Front(u)) = Len(u) - 1 /\ Len(u) \in Nat /\ Len(t) \in Nat
    BY <2>2, PathEnds, LenProperties DEF Position
  <2>4. Len(t) <= Len(u) - 1
    <3>1. Front(u) \in Position
      BY <1>1, <2>2
    <3> QED
      BY <2>2, <2>3, <3>1, PrefixOrder DEF Position
  <2>5. ASSUME NEW k \in (Len(t) + 1)..Len(Front(u)) PROVE ~Shadowed(SubSeq(Front(u), 1, k))
    <3>1. k \in 0..Len(u) - 1 /\ k \in (Len(t) + 1)..Len(u)
      BY <2>3
    <3>2. SubSeq(Front(u), 1, k) = SubSeq(u, 1, k)
      BY <2>2, <3>1, FirstOfFront DEF Position
    <3> QED
      BY <2>1, <3>1, <3>2
  <2>6. ~Shadowed(u)
    <3>1. Len(u) \in (Len(t) + 1)..Len(u) /\ SubSeq(u, 1, Len(u)) = u
      BY <2>2, <2>3, <2>4, SubSeqFull DEF Position
    <3> QED
      BY <2>1, <3>1
  <2> QED
    BY <2>2, <2>5, <2>6 DEF Shown
<1> QED
  BY <1>2, <1>3 DEF Shown

\* Two shown steps do not go to one place.
LEMMA PlaceOnce ==
  ASSUME IsText(text), NEW n \in Seq(CaseNames), NEW t \in DOMAIN text,
         NEW u \in Shown(t), NEW v \in Shown(t), Place(n, t, u) = Place(n, t, v)
  PROVE  u = v
<1>1. /\ u \in DOMAIN text /\ v \in DOMAIN text /\ u \in Position /\ v \in Position /\ t \in Position
      /\ IsPrefix(t, u) /\ IsPrefix(t, v) /\ Len(n) \in Nat /\ Len(t) \in Nat /\ Len(u) \in Nat
  BY TextIs, LenProperties DEF Shown, Position
<1>2. Len(u) = Len(v) /\ Len(t) <= Len(u)
  <2>1. Len(Place(n, t, u)) = Len(n) + Len(u) - Len(t) /\ Len(Place(n, t, v)) = Len(n) + Len(v) - Len(t)
    BY <1>1, PlaceIs
  <2>2. Len(v) \in Nat /\ Len(t) <= Len(u)
    BY <1>1, LenProperties, PrefixOrder DEF Position
  <2> QED
    BY <1>1, <2>1, <2>2
<1>3. PICK S : S = {k \in 1..Len(u) : u[k] # v[k]}
  OBVIOUS
<1>4. CASE S = {}
  BY <1>1, <1>2, <1>3, <1>4, SeqEqual DEF Position
<1>5. CASE S # {}
  <2>1. PICK k \in S : \A j \in S : k <= j
    <3>1. S \subseteq Nat
      BY <1>1, <1>3
    <3> QED
      BY <1>5, <3>1, LeastNat
  <2>2. k \in 1..Len(u) /\ k \in Nat /\ k \in 0..Len(u) /\ k \in 0..Len(v) /\ u[k] # v[k]
    BY <1>2, <1>3, <2>1
  <2>3. \A j \in 1..k - 1 : u[j] = v[j]
    BY <1>1, <1>3, <2>1, <2>2
  <2>4. k > Len(t)
    <3>1. \A j \in 1..Len(t) : u[j] = t[j] /\ v[j] = t[j]
      BY <1>1, PrefixIs DEF Position
    <3> QED
      BY <1>1, <2>2, <3>1
  <2>5. PICK a : a = SubSeq(u, 1, k)
    OBVIOUS
  <2>6. PICK b : b = SubSeq(v, 1, k)
    OBVIOUS
  <2>7. /\ a \in DOMAIN text /\ b \in DOMAIN text /\ a \in Position /\ b \in Position
        /\ Len(a) = k /\ Len(b) = k
        /\ \A j \in 1..k : a[j] = u[j] /\ b[j] = v[j]
    <3>1. a \in DOMAIN text /\ b \in DOMAIN text
      BY <1>1, <2>2, <2>5, <2>6, TextIs
    <3>2. a \in Position /\ Len(a) = k /\ \A j \in 1..k : a[j] = u[j]
      BY <1>1, <2>2, <2>5, FirstPart DEF Position
    <3>3. b \in Position /\ Len(b) = k /\ \A j \in 1..k : b[j] = v[j]
      BY <1>1, <2>2, <2>6, FirstPart DEF Position
    <3> QED
      BY <3>1, <3>2, <3>3
  <2>8. a # <<>> /\ b # <<>> /\ Last(a) = u[k] /\ Last(b) = v[k]
    BY <2>2, <2>7, EmptySeq DEF Last
  <2>9. Front(a) = Front(b)
    <3>1. /\ Front(a) \in Position /\ Front(b) \in Position /\ Len(Front(a)) = k - 1 /\ Len(Front(b)) = k - 1
          /\ \A j \in 1..k - 1 : Front(a)[j] = a[j] /\ Front(b)[j] = b[j]
      BY <2>7, <2>8, PathEnds DEF Position
    <3>2. \A j \in 1..k - 1 : Front(a)[j] = Front(b)[j]
      BY <2>2, <2>3, <2>7, <3>1
    <3> QED
      BY <2>2, <3>1, <3>2, SeqEqual DEF Position
  <2>10. text[a].name = text[b].name
    <3>1. PICK i \in 1..Len(u) - Len(t) : k = Len(t) + i
      <4>1. k - Len(t) \in 1..Len(u) - Len(t) /\ k = Len(t) + (k - Len(t))
        BY <1>1, <2>2, <2>4
      <4> QED
        BY <4>1
    <3>2. Place(n, t, u)[Len(n) + i] = text[SubSeq(u, 1, Len(t) + i)].name
      BY <1>1, PlaceIs
    <3>3. Place(n, t, v)[Len(n) + i] = text[SubSeq(v, 1, Len(t) + i)].name
      BY <1>1, <1>2, PlaceIs
    <3> QED
      BY <2>5, <2>6, <3>1, <3>2, <3>3
  <2>11. u[k] \in Nat /\ v[k] \in Nat
    BY <1>1, <1>2, <2>2, ElementOfSeq DEF Position
  <2>12. Shadowed(a) \/ Shadowed(b)
    BY <2>2, <2>7, <2>8, <2>9, <2>10, <2>11 DEF Shadowed
  <2>13. ~Shadowed(a) /\ ~Shadowed(b)
    <3>1. k \in (Len(t) + 1)..Len(u) /\ k \in (Len(t) + 1)..Len(v)
      BY <1>1, <1>2, <2>2, <2>4
    <3> QED
      BY <2>5, <2>6, <3>1 DEF Shown
  <2> QED
    BY <2>12, <2>13
<1> QED
  BY <1>4, <1>5

\* What is kept of the stored step t, at n and below.
CopyOf(copy, n, t) ==
  /\ n \in DOMAIN copy
  /\ \A p \in DOMAIN copy :
       /\ p \in Seq(CaseNames) /\ IsPrefix(n, p)
       /\ p # n => p # <<>> /\ Front(p) \in DOMAIN copy
       /\ copy[p] \in ProofNode /\ copy[p].at = "done" /\ copy[p].annotated = FALSE
       /\ copy[p].method \in Methods
       /\ copy[p].from \in Shown(t) /\ p = Place(n, t, copy[p].from)
       /\ copy[p].method = text[copy[p].from].method
  /\ \A u \in Shown(t) : Place(n, t, u) \in DOMAIN copy /\ copy[Place(n, t, u)].from = u
  /\ \E b \in Nat : \A p \in DOMAIN copy : Len(p) <= b

\* parsed_to_unannotated makes such a copy.
LEMMA CopyIs ==
  ASSUME IsText(text), NEW n \in Seq(CaseNames), NEW t \in DOMAIN text, NEW s \in Systems
  PROVE  CopyOf(parsed_to_unannotated(n, t, s), n, t)
<1> DEFINE copy == parsed_to_unannotated(n, t, s)
<1> HIDE DEF copy
<1>1. /\ DOMAIN copy = {Place(n, t, u) : u \in Shown(t)}
      /\ \A p \in DOMAIN copy : copy[p] = Unannotated(s, CHOOSE u \in Shown(t) : p = Place(n, t, u))
  BY DEF parsed_to_unannotated, copy
<1>2. /\ t \in Shown(t) /\ Shown(t) \subseteq DOMAIN text
      /\ \A u \in Shown(t) : IsPrefix(t, u) /\ (u # t => u # <<>> /\ Front(u) \in Shown(t))
  BY ShownIs
<1>3. \A u \in Shown(t) : /\ Place(n, t, u) \in Seq(CaseNames) /\ IsPrefix(n, Place(n, t, u))
                          /\ Len(Place(n, t, u)) = Len(n) + Len(u) - Len(t)
                          /\ u = t => Place(n, t, u) = n
                          /\ u # t => Place(n, t, u) = Append(Place(n, t, Front(u)), text[u].name)
  <2>1. ASSUME NEW u \in Shown(t)
        PROVE  /\ Place(n, t, u) \in Seq(CaseNames) /\ IsPrefix(n, Place(n, t, u))
               /\ Len(Place(n, t, u)) = Len(n) + Len(u) - Len(t)
               /\ u = t => Place(n, t, u) = n
               /\ u # t => Place(n, t, u) = Append(Place(n, t, Front(u)), text[u].name)
    <3>1. u \in DOMAIN text /\ IsPrefix(t, u)
      BY <1>2
    <3>2. /\ Place(n, t, u) \in Seq(CaseNames)
          /\ Len(Place(n, t, u)) = Len(n) + Len(u) - Len(t)
          /\ IsPrefix(n, Place(n, t, u))
      BY <3>1, PlaceIs
    <3>3. u = t => Place(n, t, u) = n
      BY <3>1, PlaceIs
    <3>4. /\ Place(n, t, u) \in Seq(CaseNames)
          /\ u # t => /\ Place(n, t, u) = Append(Place(n, t, Front(u)), text[u].name)
                      /\ Front(u) \in DOMAIN text /\ IsPrefix(t, Front(u)) /\ u # <<>>
      BY <3>1, PlaceIs
    <3> QED
      BY <3>2, <3>3, <3>4
  <2> QED
    BY <2>1
<1>4. n \in DOMAIN copy
  BY <1>1, <1>2, <1>3
<1>5. ASSUME NEW p \in DOMAIN copy
      PROVE  /\ p \in Seq(CaseNames) /\ IsPrefix(n, p)
             /\ p # n => p # <<>> /\ Front(p) \in DOMAIN copy
             /\ copy[p] \in ProofNode /\ copy[p].at = "done" /\ copy[p].annotated = FALSE
             /\ copy[p].method \in Methods
             /\ copy[p].from \in Shown(t) /\ p = Place(n, t, copy[p].from)
             /\ copy[p].method = text[copy[p].from].method
  <2>1. PICK u : u = CHOOSE w \in Shown(t) : p = Place(n, t, w)
    OBVIOUS
  <2>2. u \in Shown(t) /\ p = Place(n, t, u) /\ copy[p] = Unannotated(s, u)
    BY <1>1, <2>1
  <2>3. u \in DOMAIN text /\ text[u].method \in Methods /\ text[u].name \in CaseNames
    BY <1>2, <2>2, TextIs
  <2>4. /\ copy[p] \in ProofNode /\ copy[p].at = "done" /\ copy[p].annotated = FALSE
        /\ copy[p].method = text[u].method /\ copy[p].from = u
    BY <2>2, <2>3 DEF Unannotated, Done, ProofNode, Places, Statuses
  <2>5. p # n => p # <<>> /\ Front(p) \in DOMAIN copy
    <3>1. SUFFICES ASSUME p # n PROVE p # <<>> /\ Front(p) \in DOMAIN copy
      OBVIOUS
    <3>2. u # t /\ Front(u) \in Shown(t) /\ p = Append(Place(n, t, Front(u)), text[u].name)
      BY <1>2, <1>3, <2>2, <3>1
    <3>3. Place(n, t, Front(u)) \in Seq(CaseNames)
      BY <1>3, <3>2
    <3>4. p # <<>> /\ Front(p) = Place(n, t, Front(u))
      BY <2>3, <3>2, <3>3, AppendEnds
    <3> QED
      BY <1>1, <3>2, <3>4
  <2> QED
    BY <1>3, <2>2, <2>3, <2>4, <2>5
<1>6. ASSUME NEW u \in Shown(t) PROVE Place(n, t, u) \in DOMAIN copy /\ copy[Place(n, t, u)].from = u
  <2>1. PICK p : p = Place(n, t, u)
    OBVIOUS
  <2>2. p \in DOMAIN copy
    BY <1>1, <2>1
  <2>3. copy[p].from \in Shown(t) /\ p = Place(n, t, copy[p].from)
    BY <1>5, <2>2
  <2>4. copy[p].from = u
    BY <2>1, <2>3, PlaceOnce
  <2> QED
    BY <2>1, <2>2, <2>4
<1>7. \E b \in Nat : \A p \in DOMAIN copy : Len(p) <= b
  <2>1. PICK b \in Nat : \A u \in DOMAIN text : Len(u) <= b
    BY TextIs
  <2>2. Len(n) \in Nat /\ Len(t) \in Nat /\ Len(n) + b \in Nat
    BY <2>1, TextIs, LenProperties DEF Position
  <2>3. ASSUME NEW p \in DOMAIN copy PROVE Len(p) <= Len(n) + b
    <3>1. PICK u \in Shown(t) : p = Place(n, t, u)
      BY <1>1
    <3>2. Len(u) \in Nat /\ Len(u) <= b /\ Len(p) = Len(n) + Len(u) - Len(t)
      BY <1>2, <1>3, <2>1, <3>1, TextIs, LenProperties DEF Position
    <3> QED
      BY <2>1, <2>2, <3>2
  <2> QED
    BY <2>2, <2>3
<1> QED
  BY <1>4, <1>5, <1>6, <1>7 DEF CopyOf, copy

\* Without kids there is nothing below.
LEMMA NothingBelow ==
  ASSUME TypeOK, NEW n \in DOMAIN node, Kids(n) = {}
  PROVE  \A p \in DOMAIN node : ~Below(n, p)
<1>1. PICK S : S = {p \in DOMAIN node : Below(n, p)}
  OBVIOUS
<1>2. SUFFICES ASSUME S # {} PROVE FALSE
  BY <1>1
<1>3. n \in Seq(CaseNames) /\ \A p \in DOMAIN node : p \in Seq(CaseNames)
  BY DEF TypeOK
<1>4. S \subseteq Seq(CaseNames)
  BY <1>1, <1>3
<1>5. PICK p \in S : \A q \in S : Len(p) <= Len(q)
  BY <1>2, <1>4, ByLength
<1>6. p \in DOMAIN node /\ p \in Seq(CaseNames) /\ IsPrefix(n, p) /\ p # n
  BY <1>1, <1>3 DEF Below
<1>7. p # <<>>
  <2>1. SUFFICES ASSUME p = <<>> PROVE FALSE
    OBVIOUS
  <2>2. Len(p) = 0 /\ Len(n) <= Len(p) /\ Len(n) \in Nat
    BY <1>3, <1>6, <2>1, PrefixOrder, EmptySeq
  <2>3. Len(n) = Len(p)
    BY <2>2
  <2> QED
    BY <1>3, <1>6, <2>3, PrefixOrder
<1>8. Front(p) \in DOMAIN node /\ IsPrefix(n, Front(p)) /\ Len(Front(p)) = Len(p) - 1 /\ Len(p) \in Nat
  BY <1>3, <1>6, <1>7, Typed, PrefixOrder, PathEnds
<1>9. Front(p) # n
  BY <1>6, <1>7 DEF Kids
<1>10. Front(p) \in S
  BY <1>1, <1>8, <1>9 DEF Below
<1>11. Len(p) <= Len(Front(p))
  BY <1>5, <1>10
<1> QED
  BY <1>8, <1>11

\* A call returns a sorry with a stored step kept at or below it.
LEMMA SorryKeeps ==
  ASSUME TreeInv, UNCHANGED <<calc, text, mode>>, NEW n \in DOMAIN node, Called(n),
         NEW root \in {n, Append(n, Unnamed)}, NEW f \in DOMAIN text \cup {None},
         Return(n, With(parsed_to_unannotated(root, node[n].from, node[n].sys),
                        Only(n, annotated_sorry(node[n].sys, f))))
  PROVE  /\ TreeInv'
         /\ \E copy :
              /\ CopyOf(copy, root, node[n].from)
              /\ Grown(n, DOMAIN node, DOMAIN copy \ {n})
              /\ \A p \in DOMAIN copy : p # n => node'[p] = copy[p]
         /\ node'[n].at = "done" /\ node'[n].from = f /\ node'[n].method = "sorry"
<1>1. /\ node[n].at = "replay" /\ node[n].at # "done" /\ TypeOK /\ n \in Seq(CaseNames)
      /\ Kids(n) = {} /\ node[n].from # None /\ node[n].from \in DOMAIN text /\ IsText(text) /\ node[n].sys \in Systems
  <2>1. node[n].at = "replay" /\ TypeOK
    BY DEF Called, TreeInv
  <2>2. node[n].from # None /\ Kids(n) = {}
    BY <2>1, Open DEF TypeOK
  <2> QED
    BY <2>1, <2>2, Typed, StoredIs
<1>2. Unnamed \in CaseNames
  BY ReplayAssumption, EmptySeq, ElementOfSeq DEF Unnamed
<1>3. root \in Seq(CaseNames) /\ IsPrefix(n, root) /\ (root # n => Front(root) = n)
  <2>1. CASE root = n
    BY <1>1, <2>1, PrefixOrder
  <2>2. CASE root = Append(n, Unnamed)
    <3>1. root \in Seq(CaseNames) /\ root # <<>> /\ Front(root) = n
      BY <1>1, <1>2, <2>2, AppendEnds
    <3> QED
      BY <3>1, PrefixOrder
  <2> QED
    BY <2>1, <2>2
<1>4. PICK copy : copy = parsed_to_unannotated(root, node[n].from, node[n].sys)
  OBVIOUS
<1>5. /\ CopyOf(copy, root, node[n].from)
      /\ \A p \in DOMAIN copy :
           /\ p \in Seq(CaseNames) /\ IsPrefix(root, p)
           /\ p # root => p # <<>> /\ Front(p) \in DOMAIN copy
           /\ copy[p] \in ProofNode /\ copy[p].at = "done" /\ copy[p].annotated = FALSE
           /\ copy[p].method \in Methods
      /\ \E b \in Nat : \A p \in DOMAIN copy : Len(p) <= b
  <2>1. CopyOf(copy, root, node[n].from)
    BY <1>1, <1>3, <1>4, CopyIs
  <2> QED
    BY <2>1 DEF CopyOf
<1>6. PICK rec : rec = annotated_sorry(node[n].sys, f)
  OBVIOUS
<1>7. /\ rec \in ProofNode /\ rec.at = "done" /\ rec.sys = node[n].sys /\ rec.from = f
      /\ rec.method = "sorry" /\ rec.annotated = TRUE /\ rec.status = "Sorry"
  BY <1>1, <1>6 DEF annotated_sorry, Done, ProofNode, Places, Statuses, Methods
<1>8. PICK new : new = With(copy, Only(n, rec))
  OBVIOUS
<1>9. /\ DOMAIN new = DOMAIN copy \cup {n} /\ new[n] = rec /\ Return(n, new)
      /\ \A p \in DOMAIN copy : p # n => new[p] = copy[p]
  BY <1>4, <1>6, <1>8 DEF With, Only
<1>10. /\ DOMAIN node' = DOMAIN node \cup DOMAIN new
       /\ \A p \in DOMAIN new : node'[p] = new[p]
       /\ \A p \in DOMAIN node : p \notin DOMAIN new =>
            Like(node'[p], node[p]) /\ node'[p].todo = node[p].todo /\ node'[p] \in ProofNode
  <2>1. new[n].status \in Statuses /\ n \in DOMAIN new
    BY <1>7, <1>9 DEF Statuses
  <2> QED
    BY <1>1, <1>9, <2>1, ReturnIs
<1>11. PICK D : D = DOMAIN copy \ {n}
  OBVIOUS
<1>12. PICK K : K = DOMAIN node
  OBVIOUS
<1>13. \A p \in K : ~Below(n, p)
  BY <1>1, <1>12, NothingBelow
<1>14. ASSUME NEW p \in D
       PROVE  /\ p \in Seq(CaseNames) /\ Below(n, p) /\ p # <<>> /\ (Front(p) = n \/ Front(p) \in D)
              /\ node'[p] = copy[p]
              /\ node'[p] \in ProofNode /\ node'[p].at = "done" /\ ~node'[p].annotated /\ node'[p].method # "unset"
  <2>1. p \in DOMAIN copy /\ p # n /\ p \in Seq(CaseNames) /\ IsPrefix(root, p) /\ node'[p] = copy[p]
    BY <1>5, <1>9, <1>10, <1>11
  <2>2. Below(n, p)
    BY <1>1, <1>3, <2>1, PrefixOrder DEF Below
  <2>3. p # <<>>
    <3>1. SUFFICES ASSUME p = <<>> PROVE FALSE
      OBVIOUS
    <3>2. Len(p) = 0 /\ Len(n) <= Len(p) /\ Len(n) \in Nat
      BY <1>1, <2>1, <2>2, <3>1, PrefixOrder, EmptySeq DEF Below
    <3>3. Len(n) = Len(p)
      BY <3>2
    <3> QED
      BY <1>1, <2>1, <2>2, <3>3, PrefixOrder DEF Below
  <2>4. Front(p) = n \/ Front(p) \in D
    BY <1>3, <1>5, <1>11, <2>1
  <2>5. "unset" \notin Methods
    BY DEF Methods, Executable, Results
  <2> QED
    BY <1>5, <2>1, <2>2, <2>3, <2>4, <2>5
<1>15. DOMAIN node' = K \cup D /\ D \cap K = {} /\ node'[n] = rec
  BY <1>9, <1>10, <1>11, <1>12, <1>13, <1>14
<1>16. \A p \in K : p # n => Like(node'[p], node[p]) /\ node'[p].todo = node[p].todo /\ node'[p] \in ProofNode
  BY <1>9, <1>10, <1>11, <1>12, <1>15
<1>17. Changes(n, D)
  <2>1. /\ node'[n] \in ProofNode /\ node'[n].annotated /\ node'[n].sys = node[n].sys /\ node'[n].at \in Began
        /\ node[n].from = None => node'[n].from = None
        /\ node'[n].at = "cases" => node'[n].from # None
    BY <1>1, <1>7, <1>15 DEF Began
  <2>2. \A p \in D : /\ p \in Seq(CaseNames) /\ Below(n, p) /\ p # <<>> /\ (Front(p) = n \/ Front(p) \in D)
                     /\ node'[p] \in ProofNode
                     /\ node'[p].at \in {"replay", "cases"} => node'[p].from # None
                     /\ Front(p) \in D => node'[Front(p)].at \in Began
    <3>1. \A p \in D : node'[p].at = "done"
      BY <1>14
    <3> QED
      BY <1>14, <3>1 DEF Began
  <2>3. Keepable(n, K)
    BY <1>1, <1>12, CutIs
  <2> QED
    BY <1>1, <1>15, <1>16, <2>1, <2>2, <2>3, GraftChanges
<1>18. \A p \in D : CopyAt(n, p)
  <2>1. ~Applies(n)'
    BY <1>7, <1>15 DEF Applies, Executable
  <2> QED
    BY <1>14, <2>1 DEF CopyAt
<1>19. CasesOK(n)' /\ SplitOK(n)' /\ CallOK(n)'
  BY <1>7, <1>15 DEF CasesOK, SplitOK, CallOK
<1>20. \A p \in DOMAIN node' : p # <<>> /\ Front(p) = n => p \in D
  BY <1>1, <1>12, <1>15 DEF Kids
<1>21. DoneOK(n)'
  <2>1. \A p \in DOMAIN node' : p # <<>> /\ Front(p) = n => node'[p].at = "done"
    BY <1>14, <1>20
  <2> QED
    BY <1>7, <1>15, <2>1 DEF DoneOK, KidsDone, Kids, Results, Executable
<1>22. PICK b \in Nat : \A p \in D : Len(p) <= b
  BY <1>5, <1>11
<1>23. TreeInv'
  BY <1>17, <1>18, <1>19, <1>20, <1>21, <1>22, StepKeeps
<1>24. Grown(n, DOMAIN node, DOMAIN copy \ {n})
  <2>1. Keepable(n, K)
    BY <1>1, <1>12, CutIs
  <2> QED
    BY <1>11, <1>12, <1>15, <1>16, <2>1 DEF Grown
<1>25. \A p \in DOMAIN copy : p # n => node'[p] = copy[p]
  BY <1>11, <1>14
<1> QED
  BY <1>5, <1>7, <1>15, <1>23, <1>24, <1>25

\* A stored sorry is proved, or stays one.
LEMMA StoredSorryKeeps ==
  ASSUME TreeInv, NEW n \in DOMAIN node, StoredSorry(n)
  PROVE  TreeInv'
<1>1. Called(n) /\ UNCHANGED <<calc, text, mode>>
  BY DEF StoredSorry
<1>2. CASE mode = "prove"
  BY <1>1, <1>2, StartSearchKeeps DEF StoredSorry
<1>3. CASE mode # "prove"
  <2>1. PICK f \in DOMAIN text \cup {None} : f = node[n].from
    BY Typed DEF TreeInv
  <2>2. PICK root \in {n, Append(n, Unnamed)} : root = n
    OBVIOUS
  <2>3. Return(n, annotated_sorry_with_children(n, node[n].from, node[n].sys))
    BY <1>3 DEF StoredSorry
  <2>4. Return(n, With(parsed_to_unannotated(root, node[n].from, node[n].sys),
                       Only(n, annotated_sorry(node[n].sys, f))))
    BY <2>1, <2>2, <2>3 DEF annotated_sorry_with_children
  <2> QED
    BY <1>1, <2>4, SorryKeeps
<1> QED
  BY <1>2, <1>3

\* A step that cannot be checked is proved, or kept below a sorry.
LEMMA FallThroughKeeps ==
  ASSUME TreeInv, UNCHANGED <<calc, text, mode>>, NEW n \in DOMAIN node, Called(n), FallThrough(n)
  PROVE  TreeInv'
<1>1. CASE mode = "prove"
  BY <1>1, StartSearchKeeps DEF FallThrough
<1>2. CASE mode # "prove"
  <2>1. PICK f \in DOMAIN text \cup {None} : f = None
    OBVIOUS
  <2>2. PICK root \in {n, Append(n, Unnamed)} : root = Append(n, Unnamed)
    OBVIOUS
  <2>3. Return(n, invalid_step_node(n, node[n].from, node[n].sys))
    BY <1>2 DEF FallThrough
  <2>4. Return(n, With(parsed_to_unannotated(root, node[n].from, node[n].sys),
                       Only(n, annotated_sorry(node[n].sys, f))))
    BY <2>1, <2>2, <2>3 DEF invalid_step_node
  <2> QED
    BY <2>4, SorryKeeps
<1> QED
  BY <1>1, <1>2

\* A stored result is checked.
LEMMA FinishedLeafKeeps ==
  ASSUME TreeInv, NEW n \in DOMAIN node, finished_leaf(n)
  PROVE  TreeInv' /\ (same_kind(n) => Becomes(n, "done"))
<1>1. Called(n) /\ UNCHANGED <<calc, text, mode>>
  BY DEF finished_leaf
<1>2. CASE ~same_kind(n)
  BY <1>1, <1>2, FallThroughKeeps DEF finished_leaf
<1>3. CASE same_kind(n)
  <2>1. node[n].at = "replay" /\ node[n].at # "done" /\ Kids(n) = {} /\ TypeOK
    BY <1>1, Open DEF Called, TreeInv
  <2>2. node[n].from # None /\ node[n].from \in DOMAIN text \cup {None} /\ KidsDone(n)
    BY <2>1, Typed DEF TypeOK, KidsDone
  <2>3. PICK m : m = stored(n)
    OBVIOUS
  <2>4. m \in Results /\ m \in Methods /\ m \in Statuses /\ m \notin Executable /\ m = calc.fin[node[n].sys]
    BY <1>3, <2>3 DEF finished_leaf, same_kind, Methods, Results, Executable, Statuses
  <2>5. PICK t \in DOMAIN text \cup {None}, status \in Statuses : t = node[n].from /\ status = m
    BY <2>2, <2>4
  <2>6. Return(n, Only(n, Done(node[n].sys, t, m, TRUE, status)))
    BY <1>3, <2>3, <2>5 DEF finished_leaf
  <2>7. t # None /\ node[n].from # None
    BY <2>2, <2>5
  <2>8. /\ TreeInv' /\ DOMAIN node' = DOMAIN node
        /\ node'[n].at = "done" /\ node'[n].from = t /\ node'[n].method = m
        /\ \A p \in DOMAIN node : p # n => Like(node'[p], node[p]) /\ node'[p].todo = node[p].todo
    BY <1>1, <2>1, <2>2, <2>4, <2>6, <2>7, ReturnKeeps
  <2> QED
    BY <2>3, <2>5, <2>8 DEF Becomes
<1> QED
  BY <1>2, <1>3

\* A stored step does not apply.
LEMMA StepFailsKeeps ==
  ASSUME TreeInv, NEW n \in DOMAIN node, StepFails(n)
  PROVE  TreeInv'
BY FallThroughKeeps DEF StepFails, IsStep

\* A case that no produced one answers is kept, and does not stand for one.
LEMMA UnmatchedCaseKeeps ==
  ASSUME TreeInv, NEW n \in DOMAIN node, UnmatchedCase(n)
  PROVE  /\ TreeInv'
         /\ \E copy :
              /\ CopyOf(copy, Append(n, text[NextBlock(n)].name), NextBlock(n))
              /\ Grown(n, Cut(Append(n, text[NextBlock(n)].name)), DOMAIN copy)
              /\ \A p \in DOMAIN copy : node'[p] = copy[p]
         /\ Like(node'[n], node[n]) /\ node'[n].todo = node[n].todo + 1
<1>1. /\ node[n].at = "cases" /\ node[n].at # "done" /\ UNCHANGED <<calc, text, mode>>
      /\ NextBlock(n) \in DOMAIN text
  BY DEF UnmatchedCase, InLoop
<1>2. /\ produced(n) = ExecOf(n) /\ Applies(n) /\ node[n].method = stored(n)
      /\ DOMAIN produced(n) \subseteq CaseNames
      /\ Unnamed \in DOMAIN produced(n) => DOMAIN produced(n) = {Unnamed}
      /\ node[n] \in ProofNode /\ node[n].todo \in Nat \ {0} /\ n \in Seq(CaseNames) /\ TypeOK
      /\ node[n].from \in DOMAIN text /\ node[n].from # None /\ IsText(text) /\ node[n].sys \in Systems
      /\ node[n].annotated
  BY <1>1, ProducedIs, Typed, StoredIs, Open DEF TreeInv, TypeOK
<1>3. PICK name : name = text[NextBlock(n)].name
  OBVIOUS
<1>4. name \in CaseNames /\ None \notin CaseNames
  BY <1>1, <1>2, <1>3, TextIs, ReplayAssumption
<1>5. name \notin DOMAIN produced(n)
  <2>1. AdoptedBy(name, produced(n)) = None
    BY <1>3 DEF UnmatchedCase
  <2>2. CASE name # Unnamed
    BY <1>4, <2>1, <2>2 DEF AdoptedBy
  <2>3. CASE name = Unnamed
    <3>1. SUFFICES ASSUME Unnamed \in DOMAIN produced(n) PROVE FALSE
      BY <2>3
    <3>2. DOMAIN produced(n) = {Unnamed}
      BY <1>2, <3>1
    <3>3. Cardinality(DOMAIN produced(n)) = 1
      BY <3>2, FS_Singleton
    <3>4. AdoptedBy(name, produced(n)) = CHOOSE k \in DOMAIN produced(n) : TRUE
      BY <2>3, <3>3 DEF AdoptedBy
    <3>5. (CHOOSE k \in DOMAIN produced(n) : TRUE) \in DOMAIN produced(n)
      BY <3>1
    <3> QED
      BY <1>2, <1>4, <2>1, <3>4, <3>5
  <2> QED
    BY <2>2, <2>3
<1>6. PICK r : r = Append(n, name)
  OBVIOUS
<1>7. r \in Seq(CaseNames) /\ r # <<>> /\ r # n /\ Front(r) = n /\ Last(r) = name /\ Len(r) \in Nat /\ Len(n) \in Nat
      /\ IsPrefix(n, r) /\ IsPrefix(r, r) /\ Len(r) = Len(n) + 1
  <2>1. r \in Seq(CaseNames) /\ r # <<>> /\ r # n /\ Front(r) = n /\ Last(r) = name /\ Len(r) = Len(n) + 1
    BY <1>2, <1>4, <1>6, AppendEnds
  <2> QED
    BY <1>2, <2>1, PrefixOrder, LenProperties
<1>8. PICK copy : copy = parsed_to_unannotated(r, NextBlock(n), node[n].sys)
  OBVIOUS
<1>9. CopyOf(copy, r, NextBlock(n))
  BY <1>1, <1>2, <1>7, <1>8, CopyIs
<1>10. PICK told : told = [node[n] EXCEPT !.todo = @ + 1, !.seen = @ \cup {"Sorry"}]
  OBVIOUS
<1>11. node' = With(With(Without(r), Only(n, told)), copy)
  BY <1>3, <1>6, <1>8, <1>10 DEF UnmatchedCase
<1>12. PICK K : K = {q \in DOMAIN node : ~IsPrefix(r, q)}
  OBVIOUS
<1>13. PICK D : D = DOMAIN copy
  OBVIOUS
<1>14. Keepable(n, K) /\ n \in K
  BY <1>2, <1>4, <1>6, <1>12, CutIs DEF Keepable
<1>15. \A p \in D : /\ p \in Seq(CaseNames) /\ IsPrefix(r, p) /\ p \in DOMAIN copy
                    /\ copy[p] \in ProofNode /\ copy[p].at = "done" /\ copy[p].annotated = FALSE
                    /\ copy[p].method # "unset"
                    /\ p # r => p # <<>> /\ Front(p) \in D
  BY <1>9, <1>13 DEF CopyOf, Methods, Executable, Results
<1>16. D \cap K = {} /\ n \notin D
  <2>1. \A p \in D : p \notin K
    BY <1>12, <1>15
  <2> QED
    BY <1>14, <2>1
<1>17. /\ DOMAIN node' = K \cup D /\ node'[n] = told
       /\ \A p \in D : node'[p] = copy[p]
       /\ \A p \in K : p # n => node'[p] = node[p]
  BY <1>11, <1>12, <1>13, <1>14, <1>16 DEF With, Without, Only
<1>18. told \in ProofNode /\ Like(told, node[n]) /\ told.todo # 0 /\ told.todo = node[n].todo + 1
  <2>1. Like(told, node[n]) /\ told.todo = node[n].todo + 1
    BY <1>2, <1>10 DEF ProofNode, Like
  <2>2. "Sorry" \in Statuses
    BY DEF Statuses
  <2>3. told \in ProofNode
    <3>1. node[n].todo + 1 \in Nat /\ node[n].seen \in SUBSET Statuses
      BY <1>2 DEF ProofNode
    <3>2. PICK x \in Nat, y \in SUBSET Statuses : x = node[n].todo + 1 /\ y = node[n].seen \cup {"Sorry"}
      BY <2>2, <3>1
    <3>3. told = [node[n] EXCEPT !.todo = x, !.seen = y]
      BY <1>2, <1>10, <3>2 DEF ProofNode
    <3> QED
      BY <1>2, <3>3 DEF ProofNode
  <2> QED
    BY <1>2, <2>1, <2>3
<1>19. ASSUME NEW p \in D
       PROVE  /\ p \in Seq(CaseNames) /\ Below(n, p) /\ p # <<>> /\ (Front(p) = n \/ Front(p) \in D)
              /\ node'[p] \in ProofNode /\ node'[p].at = "done" /\ ~node'[p].annotated /\ node'[p].method # "unset"
              /\ Front(p) = n => p = r
  <2>1. p \in Seq(CaseNames) /\ IsPrefix(r, p) /\ node'[p] = copy[p]
    BY <1>15, <1>17
  <2>2. IsPrefix(n, p) /\ p # n
    BY <1>2, <1>7, <1>16, <2>1, PrefixOrder
  <2>3. p # <<>> /\ (Front(p) = n \/ Front(p) \in D)
    BY <1>7, <1>15
  <2>4. Front(p) = n => p = r
    BY <1>15, <1>16
  <2> QED
    BY <1>15, <2>1, <2>2, <2>3, <2>4 DEF Below
<1>20. \A p \in K : p # n => Like(node'[p], node[p]) /\ node'[p].todo = node[p].todo /\ node'[p] \in ProofNode
  BY <1>2, <1>14, <1>17, Typed DEF Like, Keepable
<1>21. /\ node'[n] \in ProofNode /\ node'[n].annotated /\ node'[n].sys = node[n].sys /\ node'[n].at = "cases"
       /\ node'[n].from = node[n].from /\ node'[n].method = node[n].method /\ node'[n].todo # 0
  BY <1>1, <1>2, <1>17, <1>18 DEF Like
<1>22. Changes(n, D)
  <2>1. /\ node'[n] \in ProofNode /\ node'[n].annotated /\ node'[n].sys = node[n].sys /\ node'[n].at \in Began
        /\ node[n].from = None => node'[n].from = None
        /\ node'[n].at = "cases" => node'[n].from # None
    BY <1>2, <1>21 DEF Began
  <2>2. \A p \in D : /\ p \in Seq(CaseNames) /\ Below(n, p) /\ p # <<>> /\ (Front(p) = n \/ Front(p) \in D)
                     /\ node'[p] \in ProofNode
                     /\ node'[p].at \in {"replay", "cases"} => node'[p].from # None
                     /\ Front(p) \in D => node'[Front(p)].at \in Began
    <3>1. \A p \in D : node'[p].at = "done"
      BY <1>19
    <3> QED
      BY <1>19, <3>1 DEF Began
  <2> QED
    BY <1>1, <1>14, <1>16, <1>17, <1>20, <2>1, <2>2, GraftChanges
<1>23. ExecOf(n)' = ExecOf(n) /\ Applies(n)' /\ stored(n)' = stored(n)
  BY <1>1, <1>2, <1>21 DEF ExecOf, Applies, stored
<1>24. \A p \in D : CopyAt(n, p)
  <2>1. ASSUME NEW p \in D PROVE CopyAt(n, p)
    <3>1. ~node'[p].annotated /\ node'[p].at = "done" /\ node'[p].method # "unset"
      BY <1>19
    <3>2. Front(p) = n => Last(p) \notin DOMAIN ExecOf(n)'
      BY <1>2, <1>5, <1>7, <1>19, <1>23
    <3> QED
      BY <3>1, <3>2 DEF CopyAt
  <2> QED
    BY <2>1
<1>25. CasesOK(n)' /\ SplitOK(n)' /\ DoneOK(n)' /\ CallOK(n)'
  BY <1>2, <1>21, <1>23 DEF CasesOK, SplitOK, DoneOK, CallOK
<1>26. PICK b \in Nat : \A p \in D : Len(p) <= b
  BY <1>9, <1>13 DEF CopyOf
<1>27. TreeInv'
  BY <1>21, <1>22, <1>24, <1>25, <1>26, StepKeeps
<1>28. Grown(n, Cut(r), DOMAIN copy)
  <2>1. K = Cut(r)
    BY <1>12 DEF Cut
  <2> QED
    BY <1>13, <1>14, <1>16, <1>17, <1>20, <2>1 DEF Grown
<1>29. CopyOf(copy, r, NextBlock(n)) /\ Grown(n, Cut(r), DOMAIN copy) /\ \A p \in DOMAIN copy : node'[p] = copy[p]
  BY <1>9, <1>13, <1>17, <1>28
<1> QED
  BY <1>3, <1>6, <1>17, <1>18, <1>27, <1>29

-----------------------------------------------------------------------------
(* The tree invariant.                                                     *)

\* A tree without nodes satisfies it.
LEMMA NoTree ==
  ASSUME calc \in Calculi, text \in Texts, mode = "none", node = NoNodes
  PROVE  TreeInv
<1>1. DOMAIN node = {}
  BY DEF NoNodes
<1>2. TypeOK
  BY <1>1 DEF TypeOK
<1>3. Bounded
  BY <1>1 DEF Bounded
<1> QED
  BY <1>1, <1>2, <1>3 DEF TreeInv

\* Dropping the tree.
LEMMA NoTreeNext ==
  ASSUME calc' \in Calculi, text' \in Texts, mode' = "none", node' = NoNodes
  PROVE  TreeInv'
<1>1. DOMAIN node' = {}
  BY DEF NoNodes
<1>2. TypeOK'
  BY <1>1 DEF TypeOK
<1>3. Bounded'
  BY <1>1 DEF Bounded
<1> QED
  BY <1>1, <1>2, <1>3 DEF TreeInv

\* So does one call on the lemma's start system.
LEMMA StartIs ==
  ASSUME TypeOK, NEW m \in {"load", "prove"}, Start(m)
  PROVE  /\ TreeInv'
         /\ DOMAIN node' = {<<>>} /\ node'[<<>>].at = "replay" /\ node'[<<>>].from = <<>>
<1>1. PICK e \in Seq(CaseNames) : e = <<>>
  BY EmptySeq
<1>2. PICK rec : rec = Call(Root, e)
  OBVIOUS
<1>3. /\ calc' = calc /\ text' = text /\ mode' = m /\ calc \in Calculi /\ text \in Texts
      /\ DOMAIN node' = {e} /\ node'[e] = rec
  <2>1. node' = [p \in {e} |-> rec]
    BY <1>1, <1>2 DEF Start, Only
  <2> QED
    BY <2>1 DEF Start, TypeOK
<1>4. e \in DOMAIN text
  BY <1>1, <1>3, ReplayAssumption DEF IsText
<1>5. /\ rec \in ProofNode /\ rec.at = "replay" /\ rec.sys = Root /\ rec.from = e /\ rec.annotated = TRUE
  BY <1>2, <1>4, ReplayAssumption DEF Call, ProofNode, Places, Statuses
<1>6. TypeOK'
  <2>1. ProofNode' = ProofNode
    BY <1>3 DEF ProofNode
  <2>2. e # None
    <3>1. IsText(text)
      BY <1>3, ReplayAssumption
    <3> QED
      BY <1>4, <3>1, TextIs
  <2> QED
    BY <1>1, <1>3, <1>5, <2>1, <2>2 DEF TypeOK
<1>7. Bounded'
  <2>1. \A p \in DOMAIN node' : Len(p) <= 0
    BY <1>1, <1>3, EmptySeq
  <2> QED
    BY <2>1 DEF Bounded
<1>8. UpOK(e)' /\ CasesOK(e)' /\ SplitOK(e)' /\ DoneOK(e)' /\ CallOK(e)'
  BY <1>1, <1>3, <1>5 DEF UpOK, CasesOK, SplitOK, DoneOK, CallOK
<1>9. ASSUME NEW p \in DOMAIN node'
      PROVE  UpOK(p)' /\ CasesOK(p)' /\ SplitOK(p)' /\ DoneOK(p)' /\ CallOK(p)'
  BY <1>3, <1>8
<1>10. TreeInv'
  BY <1>6, <1>7, <1>9 DEF TreeInv
<1> QED
  BY <1>1, <1>3, <1>5, <1>10

\* The start.
LEMMA TreeInit == Init => TreeInv
BY NoTree DEF Init

\* Every step keeps the tree invariant.
LEMMA TreeStep == TreeInv /\ [Next]_vars => TreeInv'
<1> SUFFICES ASSUME TreeInv, [Next]_vars PROVE TreeInv'
  OBVIOUS
<1>1. TypeOK /\ calc \in Calculi /\ text \in Texts
  BY DEF TreeInv, TypeOK
<1>2. CASE Load
  BY <1>1, <1>2, StartIs DEF Load
<1>3. CASE Prove
  BY <1>1, <1>3, StartIs DEF Prove
<1>4. CASE Step
  <2> SUFFICES ASSUME NEW n \in DOMAIN node,
                      \/ StoredSorry(n) \/ finished_leaf(n) \/ StepFails(n) \/ StepCloses(n) \/ StepApplies(n)
                      \/ UnmatchedCase(n) \/ MatchedCase(n) \/ ProducedCase(n) \/ Finish(n)
                      \/ LeaveOpen(n) \/ Close(n) \/ Split(n) \/ SolvedCase(n) \/ AllCasesTried(n)
               PROVE  TreeInv'
    BY <1>4 DEF Step
  <2>1. CASE StoredSorry(n)
    BY <2>1, StoredSorryKeeps
  <2>2. CASE finished_leaf(n)
    BY <2>2, FinishedLeafKeeps
  <2>3. CASE StepFails(n)
    BY <2>3, StepFailsKeeps
  <2>4. CASE StepCloses(n)
    BY <2>4, StepClosesKeeps
  <2>5. CASE StepApplies(n)
    BY <2>5, StepAppliesKeeps
  <2>6. CASE UnmatchedCase(n)
    BY <2>6, UnmatchedCaseKeeps
  <2>7. CASE MatchedCase(n)
    BY <2>7, MatchedCaseKeeps
  <2>8. CASE ProducedCase(n)
    BY <2>8, ProducedCaseKeeps
  <2>9. CASE Finish(n)
    BY <2>9, FinishKeeps
  <2>10. CASE LeaveOpen(n)
    BY <2>10, LeaveOpenKeeps
  <2>11. CASE Close(n)
    BY <2>11, CloseKeeps
  <2>12. CASE Split(n)
    BY <2>12, SplitKeeps
  <2>13. CASE SolvedCase(n)
    BY <2>13, SolvedCaseKeeps
  <2>14. CASE AllCasesTried(n)
    BY <2>14, AllCasesTriedKeeps
  <2> QED
    BY <2>1, <2>2, <2>3, <2>4, <2>5, <2>6, <2>7, <2>8, <2>9, <2>10, <2>11, <2>12, <2>13, <2>14
<1>5. CASE Fail
  <2>1. calc' \in Calculi /\ text' \in Texts /\ mode' = "none" /\ node' = NoNodes
    BY <1>1, <1>5 DEF Fail
  <2> QED
    BY <2>1, NoTreeNext
<1>6. CASE Again
  <2>1. calc' \in Calculi /\ text' \in Texts /\ mode' = "none" /\ node' = NoNodes
    BY <1>6 DEF Again
  <2> QED
    BY <2>1, NoTreeNext
<1>7. CASE UNCHANGED vars
  <2>1. calc' = calc /\ text' = text /\ mode' = mode /\ node' = node
    BY <1>7 DEF vars
  <2> QED
    BY <2>1 DEF TreeInv, TypeOK, Bounded, UpOK, CasesOK, SplitOK, DoneOK, CallOK, ProofNode, Applies, ExecOf,
                AllCases, SolvedKid, Searched, Kids, KidsDone, stored
<1> QED
  BY <1>2, <1>3, <1>4, <1>5, <1>6, <1>7 DEF Next

\* The proof under construction is a tree whose nodes have their systems from the
\* steps above, and a step that has returned has a node for each of its cases,
\* unless the prover has solved one.
THEOREM TreeIsRight == Spec => []TreeInv
<1>1. Init => TreeInv
  BY TreeInit
<1>2. TreeInv /\ [Next]_vars => TreeInv'
  BY TreeStep
<1> QED
  BY <1>1, <1>2, PTL DEF Spec

\* The types of the variables, and that the nodes form a tree whose inner nodes
\* have begun their cases.
THEOREM TypeCorrect == Spec => []TypeOK
<1>1. TreeInv => TypeOK
  BY DEF TreeInv
<1> QED
  BY <1>1, TreeIsRight, PTL

-----------------------------------------------------------------------------
(* The verdict.                                                            *)

\* What a node or a tree may be said to be.
Summaries == {"Invalidated", "TraceFound", "Incomplete", "Unfinishable", "Complete", "Undetermined"}

\* The status of a tree is one of a node, and a complete one has no worse.
LEMMA CombineIs ==
  ASSUME NEW S, S \subseteq Summaries, S # {}
  PROVE  /\ combine(S) \in S
         /\ combine(S) = "Complete" => S \subseteq {"Complete", "Undetermined"}
<1>1. PICK I : I = {i \in 1..Len(Precedence) : Precedence[i] \in S}
  OBVIOUS
<1>2. Len(Precedence) = 6
  BY DEF Precedence
<1>3. I # {} /\ I \subseteq Nat
  <2>1. PICK x \in S : x \in Summaries
    OBVIOUS
  <2>2. \E i \in 1..6 : Precedence[i] = x
    <3>1. /\ Precedence[1] = "Invalidated" /\ Precedence[2] = "TraceFound" /\ Precedence[3] = "Incomplete"
          /\ Precedence[4] = "Unfinishable" /\ Precedence[5] = "Complete" /\ Precedence[6] = "Undetermined"
      BY DEF Precedence
    <3> QED
      BY <2>1, <3>1 DEF Summaries
  <2> QED
    BY <1>1, <1>2, <2>2
<1>4. PICK i \in I : \A j \in I : i <= j
  BY <1>3, LeastNat
<1>5. /\ i \in 1..Len(Precedence) /\ Precedence[i] \in S
      /\ \A j \in 1..(i - 1) : Precedence[j] \notin S
  BY <1>1, <1>2, <1>4
<1>6. PICK k : k = CHOOSE l \in 1..Len(Precedence) :
                     /\ Precedence[l] \in S
                     /\ \A j \in 1..(l - 1) : Precedence[j] \notin S
  OBVIOUS
<1>7. /\ k \in 1..6 /\ Precedence[k] \in S /\ combine(S) = Precedence[k]
      /\ \A j \in 1..(k - 1) : Precedence[j] \notin S
  BY <1>2, <1>5, <1>6 DEF combine
<1>8. combine(S) = "Complete" => S \subseteq {"Complete", "Undetermined"}
  <2>1. /\ Precedence[1] = "Invalidated" /\ Precedence[2] = "TraceFound" /\ Precedence[3] = "Incomplete"
        /\ Precedence[4] = "Unfinishable" /\ Precedence[5] = "Complete" /\ Precedence[6] = "Undetermined"
    BY DEF Precedence
  <2>2. SUFFICES ASSUME combine(S) = "Complete" PROVE S \subseteq {"Complete", "Undetermined"}
    OBVIOUS
  <2>3. k = 5
    <3>1. k = 1 \/ k = 2 \/ k = 3 \/ k = 4 \/ k = 5 \/ k = 6
      BY <1>7
    <3> QED
      BY <1>7, <2>1, <2>2, <3>1
  <2>4. "Invalidated" \notin S /\ "TraceFound" \notin S /\ "Incomplete" \notin S /\ "Unfinishable" \notin S
    <3>1. 1 \in 1..(k - 1) /\ 2 \in 1..(k - 1) /\ 3 \in 1..(k - 1) /\ 4 \in 1..(k - 1)
      BY <2>3
    <3> QED
      BY <1>7, <2>1, <3>1
  <2> QED
    BY <2>4 DEF Summaries
<1> QED
  BY <1>7, <1>8

\* When the root has returned, all have.
LEMMA AllDone ==
  ASSUME TreeInv, Judged
  PROVE  \A n \in DOMAIN node : node[n].at = "done"
<1>1. PICK S : S = {n \in DOMAIN node : node[n].at # "done"}
  OBVIOUS
<1>2. SUFFICES ASSUME S # {} PROVE FALSE
  BY <1>1
<1>3. \A n \in DOMAIN node : n \in Seq(CaseNames)
  BY DEF TreeInv, TypeOK
<1>4. PICK n \in S : \A m \in S : Len(n) <= Len(m)
  <2>1. S \subseteq Seq(CaseNames)
    BY <1>1, <1>3
  <2> QED
    BY <1>2, <2>1, ByLength
<1>5. n # <<>>
  BY <1>1, <1>4 DEF Judged
<1>6. Front(n) \in S
  <2>1. Front(n) \in DOMAIN node /\ node[Front(n)].at \in {"cases", "split"}
    BY <1>1, <1>4, <1>5, Open
  <2> QED
    BY <1>1, <2>1
<1>7. Len(Front(n)) = Len(n) - 1 /\ Len(n) \in Nat
  BY <1>1, <1>3, <1>4, <1>5, PathEnds
<1> QED
  BY <1>4, <1>6, <1>7

\* A node with a solution hands it up to the root.
LEMMA SolutionAtRoot ==
  ASSUME TreeInv, NEW n \in DOMAIN node, node[n].annotated, node[n].sys \in calc.solvable
  PROVE  Root \in calc.solvable
<1>1. PICK S : S = {m \in DOMAIN node : node[m].annotated /\ node[m].sys \in calc.solvable}
  OBVIOUS
<1>2. calc \in Calculi /\ \A m \in DOMAIN node : m \in Seq(CaseNames) /\ node[m].sys \in Systems
  <2>1. TypeOK
    BY DEF TreeInv
  <2> QED
    BY <2>1, Typed DEF TypeOK
<1>3. PICK m \in S : \A l \in S : Len(m) <= Len(l)
  <2>1. S \subseteq Seq(CaseNames) /\ S # {}
    BY <1>1, <1>2
  <2> QED
    BY <2>1, ByLength
<1>4. m \in DOMAIN node /\ node[m].annotated /\ node[m].sys \in calc.solvable /\ m \in Seq(CaseNames) /\ UpOK(m)
  BY <1>1, <1>2, <1>3 DEF TreeInv
<1>5. CASE m = <<>>
  BY <1>4, <1>5 DEF UpOK
<1>6. CASE m # <<>>
  <2>1. PICK f : f = Front(m)
    OBVIOUS
  <2>2. Applies(f) /\ Last(m) \in DOMAIN ExecOf(f) /\ node[m].sys = ExecOf(f)[Last(m)]
    BY <1>4, <1>6, <2>1 DEF UpOK
  <2>3. f \in DOMAIN node
    BY <1>4, <1>6, <2>1, Typed DEF TreeInv
  <2>4. node[f].sys \in calc.solvable
    <3>1. PICK x \in Executable : x = node[f].method /\ calc.exec[node[f].sys][x] # None
      BY <2>2 DEF Applies, ExecOf
    <3>2. node[f].sys \in calc.solvable
            <=> \E k \in DOMAIN calc.exec[node[f].sys][x] : calc.exec[node[f].sys][x][k] \in calc.solvable
      BY <1>2, <2>3, <3>1, ExecTypes
    <3> QED
      BY <1>4, <2>2, <3>1, <3>2 DEF ExecOf
  <2>5. f \in S
    BY <1>1, <2>2, <2>3, <2>4 DEF Applies
  <2>6. Len(f) = Len(m) - 1 /\ Len(m) \in Nat
    BY <1>4, <1>6, <2>1, PathEnds
  <2> QED
    BY <1>3, <2>5, <2>6
<1> QED
  BY <1>5, <1>6

\* If the prover says that it has solved a case, one says so below whose method
\* is that it is solved.
LEMMA SolvedBelow ==
  ASSUME TreeInv, \A n \in DOMAIN node : node[n].at = "done",
         NEW r \in DOMAIN node, Searched(r), node[r].status = "Solved"
  PROVE  \E n \in DOMAIN node : node[n].annotated /\ node[n].method = "Solved"
<1>1. PICK S : S = {n \in DOMAIN node : Searched(n) /\ node[n].status = "Solved"}
  OBVIOUS
<1>2. \A n \in DOMAIN node : n \in Seq(CaseNames)
  BY DEF TreeInv, TypeOK
<1>3. PICK b \in Nat : \A n \in DOMAIN node : Len(n) <= b
  BY DEF TreeInv, Bounded
<1>4. PICK n \in S : \A m \in S : Len(m) <= Len(n)
  <2>1. S \subseteq Seq(CaseNames) /\ S # {} /\ \A m \in S : Len(m) <= b
    BY <1>1, <1>2, <1>3
  <2> QED
    BY <2>1, ByLength
<1>5. n \in DOMAIN node /\ Searched(n) /\ node[n].status = "Solved" /\ DoneOK(n) /\ node[n].at = "done"
  BY <1>1, <1>4 DEF TreeInv
<1>6. node[n].method = "Solved" \/ SolvedKid(n)
  BY <1>5 DEF DoneOK, Searched
<1>7. ~SolvedKid(n)
  <2>1. SUFFICES ASSUME SolvedKid(n) PROVE FALSE
    OBVIOUS
  <2>2. PICK m \in Kids(n) : Searched(m) /\ node[m].status = "Solved"
    BY <2>1 DEF SolvedKid
  <2>3. m \in DOMAIN node /\ m # <<>> /\ Front(m) = n /\ m \in Seq(CaseNames)
    BY <1>2, <2>2 DEF Kids
  <2>4. Len(n) = Len(m) - 1 /\ Len(m) \in Nat
    BY <2>3, PathEnds
  <2> QED
    BY <1>1, <1>4, <2>2, <2>3, <2>4
<1> QED
  BY <1>5, <1>6, <1>7 DEF Searched

\* A root with a solution is above a node that is no proof.
LEMMA SolutionFound ==
  ASSUME TreeInv, Judged, Root \in calc.solvable
  PROVE  \E n \in DOMAIN node : node[n].annotated
           /\ node[n].method \in {"Solved", "Unfinishable", "sorry", "invalidated"}
<1>1. PICK S : S = {m \in DOMAIN node : node[m].annotated /\ node[m].sys \in calc.solvable}
  OBVIOUS
<1>2. calc \in Calculi /\ \A m \in DOMAIN node : /\ m \in Seq(CaseNames) /\ node[m].sys \in Systems
                                                 /\ node[m].method \in Methods \cup {"unset"}
  <2>1. TypeOK
    BY DEF TreeInv
  <2> QED
    BY <2>1, Typed DEF TypeOK
<1>3. \A m \in DOMAIN node : node[m].at = "done"
  BY AllDone
<1>4. PICK b \in Nat : \A n \in DOMAIN node : Len(n) <= b
  BY DEF TreeInv, Bounded
<1>5. PICK n \in S : \A m \in S : Len(m) <= Len(n)
  <2>1. \A p \in DOMAIN node : p = <<>> => p \in S
    <3>1. \A p \in DOMAIN node : UpOK(p)
      BY DEF TreeInv
    <3> QED
      BY <1>1, <3>1 DEF UpOK
  <2>2. S \subseteq Seq(CaseNames) /\ S # {} /\ \A m \in S : Len(m) <= b
    BY <1>1, <1>2, <1>4, <2>1 DEF Judged
  <2> QED
    BY <2>2, ByLength
<1>6. /\ n \in DOMAIN node /\ node[n].annotated /\ node[n].sys \in calc.solvable /\ DoneOK(n)
      /\ n \in Seq(CaseNames) /\ node[n].at = "done"
  BY <1>1, <1>2, <1>3, <1>5 DEF TreeInv
<1>7. node[n].method \in Methods /\ node[n].method # "Contradictory"
  <2>1. node[n].method # "unset" /\ (node[n].method \in Results => node[n].method = calc.fin[node[n].sys])
    BY <1>6 DEF DoneOK
  <2>2. calc.fin[node[n].sys] # "Contradictory"
    BY <1>2, <1>6, ExecTypes
  <2> QED
    BY <1>2, <1>6, <2>1, <2>2 DEF Results
<1>8. CASE node[n].method \notin Executable
  BY <1>6, <1>7, <1>8 DEF Methods, Results
<1>9. CASE node[n].method \in Executable
  <2>1. ExecOf(n) # None /\ (AllCases(n) \/ SolvedKid(n))
    BY <1>6, <1>9 DEF DoneOK
  <2>2. ~AllCases(n)
    <3>1. SUFFICES ASSUME AllCases(n) PROVE FALSE
      OBVIOUS
    <3>2. DOMAIN ExecOf(n) \subseteq CaseNames /\ \E k \in DOMAIN ExecOf(n) : ExecOf(n)[k] \in calc.solvable
      BY <1>2, <1>6, <1>9, <2>1, ExecTypes DEF ExecOf
    <3>3. PICK k \in DOMAIN ExecOf(n) : ExecOf(n)[k] \in calc.solvable /\ k \in CaseNames
      BY <3>2
    <3>4. PICK p : p = Append(n, k)
      OBVIOUS
    <3>5. p \in DOMAIN node /\ node[p].annotated /\ UpOK(p)
      BY <3>1, <3>4 DEF AllCases, TreeInv
    <3>6. p # <<>> /\ Front(p) = n /\ Last(p) = k /\ Len(p) = Len(n) + 1 /\ Len(n) \in Nat
      BY <1>6, <3>3, <3>4, AppendEnds
    <3>7. node[p].sys = ExecOf(n)[k]
      BY <3>5, <3>6 DEF UpOK
    <3>8. p \in S
      BY <1>1, <3>3, <3>5, <3>7
    <3> QED
      BY <1>5, <3>6, <3>8
  <2>3. PICK r \in Kids(n) : Searched(r) /\ node[r].status = "Solved"
    BY <2>1, <2>2 DEF SolvedKid
  <2>4. \E m \in DOMAIN node : node[m].annotated /\ node[m].method = "Solved"
    <3>1. r \in DOMAIN node
      BY <2>3 DEF Kids
    <3> QED
      BY <1>3, <2>3, <3>1, SolvedBelow
  <2> QED
    BY <2>4
<1> QED
  BY <1>8, <1>9

\* The tree invariant makes the verdict true.
LEMMA VerdictFromTree == TreeInv => VerdictIsTrue
<1>1. SUFFICES ASSUME TreeInv, Judged, NEW existsTrace \in BOOLEAN
               PROVE  LET verdict == lemma_verdict(proof_status, existsTrace)
                      IN /\ verdict = "Verified" => LemmaHolds(existsTrace)
                         /\ verdict = "Falsified" => ~LemmaHolds(existsTrace)
  BY DEF VerdictIsTrue
<1>2. PICK S : S = {from_step(n) : n \in DOMAIN node}
  OBVIOUS
<1>3. S \subseteq Summaries /\ S # {}
  <2>1. \A n \in DOMAIN node : from_step(n) \in Summaries
    BY DEF from_step, Summaries
  <2> QED
    BY <1>1, <1>2, <2>1 DEF Judged
<1>4. PICK status : status = proof_status
  OBVIOUS
<1>5. status \in S /\ status \in Summaries /\ (status = "Complete" => S \subseteq {"Complete", "Undetermined"})
  BY <1>2, <1>3, <1>4, CombineIs DEF proof_status
<1>6. status = "TraceFound" => Root \in calc.solvable
  <2>1. SUFFICES ASSUME status = "TraceFound" PROVE Root \in calc.solvable
    OBVIOUS
  <2>2. PICK n \in DOMAIN node : from_step(n) = "TraceFound"
    BY <1>2, <1>5, <2>1
  <2>3. node[n].annotated /\ node[n].method = "Solved"
    BY <2>2 DEF from_step
  <2>4. node[n].at = "done" /\ DoneOK(n) /\ calc \in Calculi /\ node[n].sys \in Systems
    BY <1>1, AllDone, Typed DEF TreeInv, TypeOK
  <2>5. calc.fin[node[n].sys] = "Solved"
    BY <2>3, <2>4 DEF DoneOK, Results
  <2>6. node[n].sys \in calc.solvable
    BY <2>4, <2>5, ExecTypes
  <2> QED
    BY <1>1, <2>3, <2>6, SolutionAtRoot
<1>7. status = "Complete" => Root \notin calc.solvable
  <2>1. SUFFICES ASSUME status = "Complete", Root \in calc.solvable PROVE FALSE
    OBVIOUS
  <2>2. PICK n \in DOMAIN node : node[n].annotated
           /\ node[n].method \in {"Solved", "Unfinishable", "sorry", "invalidated"}
    BY <1>1, <2>1, SolutionFound
  <2>3. from_step(n) \in {"TraceFound", "Unfinishable", "Incomplete", "Invalidated"}
    BY <2>2 DEF from_step
  <2>4. from_step(n) \in S
    BY <1>2
  <2> QED
    BY <1>5, <2>1, <2>3, <2>4
<1>8. /\ lemma_verdict(status, existsTrace) = "Verified" =>
           (status = "TraceFound" /\ existsTrace) \/ (status = "Complete" /\ ~existsTrace)
      /\ lemma_verdict(status, existsTrace) = "Falsified" =>
           (status = "TraceFound" /\ ~existsTrace) \/ (status = "Complete" /\ existsTrace)
  <2>1. CASE status = "TraceFound"
    BY <2>1 DEF lemma_verdict
  <2>2. CASE status = "Complete"
    BY <2>2 DEF lemma_verdict
  <2>3. CASE status \notin {"TraceFound", "Complete"}
    <3>1. lemma_verdict(status, existsTrace) \in {"Analyzed", status} /\ status \notin {"Verified", "Falsified"}
      BY <1>5, <2>3 DEF lemma_verdict, Summaries
    <3> QED
      BY <3>1
  <2> QED
    BY <2>1, <2>2, <2>3
<1> QED
  BY <1>4, <1>6, <1>7, <1>8 DEF LemmaHolds

\* However stale the stored proof is, and whoever replays it: the summary never
\* calls a lemma verified that does not hold, nor falsified one that does.
THEOREM VerdictHolds == Spec => []VerdictIsTrue
BY TreeIsRight, VerdictFromTree, PTL

-----------------------------------------------------------------------------
(* Loading drops nothing.                                                  *)

\* The load invariant for some nodes.
AllLoad(D) == \A p \in D : LoadOK(p)

\* The load invariant of a node, said of what the node is.
LEMMA LoadOKIs ==
  ASSUME NEW q, NEW f, NEW d, node'[q].from = f, node'[q].todo = d, node'[q].at \in {"replay", "cases", "done"},
         f # None /\ node'[q].at # "replay" => node'[q].method = text'[f].method,
         f # None /\ node'[q].at = "done" => AllStand(q, f)',
         node'[q].at = "cases" => LastStand(q, f, d)'
  PROVE  LoadOK(q)'
BY DEF LoadOK, stored, AllStand, LastStand, Blocks, Shadowed, LastOf, HasBlock, Stands, Kids

\* A stored step that is somewhere stays there.
LEMMA StandsKept ==
  ASSUME TreeInv, LoadInv, mode = "load", UNCHANGED <<calc, text, mode>>,
         NEW n \in DOMAIN node, node[n].at # "done", NEW K, NEW D, Grown(n, K, D),
         NEW t, t = node[n].from, Stands(n, t)', NEW r \in K, NEW v, Stands(r, v)
  PROVE  Stands(r, v)'
<1>1. TypeOK /\ r \in DOMAIN node /\ LoadOK(r) /\ LoadOK(n) /\ Unnamed \in CaseNames /\ r \in Seq(CaseNames)
  <2>1. Unnamed \in CaseNames
    BY ReplayAssumption, EmptySeq, ElementOfSeq DEF Unnamed
  <2> QED
    BY <2>1 DEF TreeInv, TypeOK, LoadInv, Grown, Keepable
<1>2. \A p \in DOMAIN node : node[p].at \in {"replay", "cases"} => node[p].from # None
  BY <1>1 DEF TypeOK
<1>3. CASE r = n
  <2>1. node[n].from # None
    BY <1>1, <1>2 DEF LoadOK
  <2>2. v = t
    BY <1>3, <2>1 DEF Stands
  <2> QED
    BY <1>3, <2>2
<1>4. CASE r # n
  <2>1. Like(node'[r], node[r])
    BY <1>4 DEF Grown
  <2>2. CASE node[r].from = v
    BY <2>1, <2>2 DEF Stands, Like
  <2>3. CASE node[r].from # v
    <3>1. PICK c : c = Append(r, Unnamed)
      OBVIOUS
    <3>2. node[r].from = None /\ node[r].method = "sorry" /\ c \in DOMAIN node /\ node[c].from = v
      BY <2>3, <3>1 DEF Stands
    <3>3. node[r].at = "done"
      BY <1>1, <1>2, <3>2 DEF LoadOK
    <3>4. c # <<>> /\ Front(c) = r
      BY <1>1, <3>1, AppendEnds
    <3>5. node[c].at = "done"
      BY <1>1, <3>2, <3>3, <3>4 DEF TreeInv, DoneOK, KidsDone, Kids
    <3>6. c \in K /\ c # n /\ c \in DOMAIN node'
      BY <1>1, <1>4, <3>1, <3>2, <3>5 DEF Grown, Keepable
    <3>7. Like(node'[c], node[c])
      BY <3>6 DEF Grown
    <3> QED
      BY <2>1, <3>1, <3>2, <3>6, <3>7 DEF Stands, Like
  <2> QED
    BY <2>2, <2>3
<1> QED
  BY <1>3, <1>4

\* The frame of the load invariant.
LEMMA LoadFrame ==
  ASSUME TreeInv, LoadInv, mode = "load", UNCHANGED <<calc, text, mode>>,
         NEW n \in DOMAIN node, node[n].at # "done", NEW K, NEW D, Grown(n, K, D),
         NEW t, t = node[n].from, Stands(n, t)', LoadOK(n)', AllLoad(D)'
  PROVE  LoadInv'
<1>1. TypeOK /\ n \in Seq(CaseNames) /\ K \subseteq DOMAIN node
      /\ \A p \in DOMAIN node : p \in Seq(CaseNames) /\ LoadOK(p)
  BY DEF TreeInv, TypeOK, LoadInv, Grown, Keepable
<1>2. Stands(<<>>, <<>>)'
  <2>1. PICK e \in Seq(CaseNames) : e = <<>>
    BY EmptySeq
  <2>2. e \in DOMAIN node
    BY <2>1, Typed DEF TreeInv
  <2>3. e \in K
    <3>1. CASE Below(n, e)
      <4>1. Len(e) = 0 /\ Len(n) <= Len(e) /\ Len(n) \in Nat /\ n # e
        BY <1>1, <2>1, <3>1, PrefixOrder, EmptySeq DEF Below
      <4>2. Len(n) = Len(e)
        BY <4>1
      <4> QED
        BY <1>1, <2>1, <3>1, <4>2, PrefixOrder DEF Below
    <3>2. CASE ~Below(n, e)
      BY <2>2, <3>2 DEF Grown, Keepable
    <3> QED
      BY <3>1, <3>2
  <2>4. Stands(e, e)
    BY <2>1 DEF LoadInv
  <2>5. Stands(e, e)'
    BY <2>3, <2>4, StandsKept
  <2> QED
    BY <2>1, <2>5
<1>3. ASSUME NEW q \in K, q # n PROVE LoadOK(q)'
  <2>1. Like(node'[q], node[q]) /\ node'[q].todo = node[q].todo /\ LoadOK(q) /\ q \in DOMAIN node
    BY <1>1, <1>3 DEF Grown
  <2>2. ASSUME NEW v, HasBlock(q, v) PROVE HasBlock(q, v)'
    <3>1. PICK r \in Kids(q) : text[v].name \in {Last(r), Unnamed} /\ Stands(r, v)
      BY <2>2 DEF HasBlock
    <3>2. r \in DOMAIN node /\ r # <<>> /\ Front(r) = q
      BY <3>1 DEF Kids
    <3>3. r = Append(q, Last(r)) /\ Last(r) \in CaseNames
      BY <1>1, <3>2, PathEnds
    <3>4. r \in K /\ r \in DOMAIN node'
      BY <1>3, <3>2, <3>3 DEF Grown, Keepable
    <3>5. Stands(r, v)'
      BY <3>1, <3>4, StandsKept
    <3> QED
      BY <3>1, <3>2, <3>4, <3>5 DEF HasBlock, Kids
  <2>3. PICK f, d : f = node[q].from /\ d = node[q].todo
    OBVIOUS
  <2>4. node'[q].from = f /\ node'[q].todo = d /\ node'[q].at = node[q].at /\ node'[q].method = node[q].method
    BY <2>1, <2>3 DEF Like
  <2>5. f # None /\ node'[q].at = "done" => AllStand(q, f)'
    <3>1. SUFFICES ASSUME f # None, node[q].at = "done", NEW v \in Blocks(f)', ~Shadowed(v)' PROVE HasBlock(q, v)'
      BY <2>4 DEF AllStand
    <3>2. v \in Blocks(f) /\ ~Shadowed(v)
      BY <3>1 DEF Blocks, Shadowed
    <3>3. HasBlock(q, v)
      BY <2>1, <2>3, <3>1, <3>2 DEF LoadOK, AllStand
    <3> QED
      BY <2>2, <3>3
  <2>6. node'[q].at = "cases" => LastStand(q, f, d)'
    <3>1. SUFFICES ASSUME node[q].at = "cases", NEW v \in Blocks(f)', Last(v) < d, LastOf(v, d)' PROVE HasBlock(q, v)'
      BY <2>4 DEF LastStand
    <3>2. v \in Blocks(f) /\ LastOf(v, d)
      BY <3>1 DEF Blocks, LastOf
    <3>3. HasBlock(q, v)
      BY <2>1, <2>3, <3>1, <3>2 DEF LoadOK, LastStand
    <3> QED
      BY <2>2, <3>3
  <2>7. /\ node'[q].at \in {"replay", "cases", "done"}
        /\ f # None /\ node'[q].at # "replay" => node'[q].method = text'[f].method
    BY <2>1, <2>3, <2>4 DEF LoadOK, stored
  <2> QED
    BY <2>4, <2>5, <2>6, <2>7, LoadOKIs
<1>4. ASSUME NEW q \in DOMAIN node' PROVE LoadOK(q)'
  <2>1. CASE q \in D
    BY <2>1 DEF AllLoad
  <2>2. CASE q = n
    BY <2>2
  <2>3. CASE q \in K /\ q # n
    BY <2>3, <1>3
  <2> QED
    BY <2>1, <2>2, <2>3 DEF Grown
<1> QED
  BY <1>2, <1>4 DEF LoadInv

\* The call at n alone changes.
LEMMA LoadBecomes ==
  ASSUME TreeInv, LoadInv, mode = "load", UNCHANGED <<calc, text, mode>>,
         NEW n \in DOMAIN node, node[n].at # "done", NEW at \in {"cases", "done"}, Becomes(n, at),
         NEW t, t = node[n].from, t # None,
         at = "done" => AllStand(n, t), at = "cases" => LastStand(n, t, node'[n].todo)
  PROVE  LoadInv'
<1>1. PICK K : K = DOMAIN node
  OBVIOUS
<1>2. PICK D : D = {}
  OBVIOUS
<1>3. Grown(n, K, D)
  <2>1. Keepable(n, K)
    BY <1>1, CutIs DEF TreeInv
  <2> QED
    BY <1>1, <1>2, <2>1 DEF Grown, Becomes
<1>4. Stands(n, t)'
  BY DEF Stands, Becomes
<1>5. ASSUME NEW v, HasBlock(n, v) PROVE HasBlock(n, v)'
  <2>1. PICK r \in Kids(n) : text[v].name \in {Last(r), Unnamed} /\ Stands(r, v)
    BY <1>5 DEF HasBlock
  <2>2. r \in K /\ r # <<>> /\ Front(r) = n /\ r \in DOMAIN node'
    BY <1>1, <2>1 DEF Kids, Becomes
  <2>3. Stands(r, v)'
    BY <1>3, <1>4, <2>1, <2>2, StandsKept
  <2> QED
    BY <2>1, <2>2, <2>3 DEF HasBlock, Kids
<1>6. PICK d : d = node'[n].todo
  OBVIOUS
<1>7. AllLoad(D)'
  BY <1>2 DEF AllLoad
<1>8. LoadOK(n)'
  <2>1. node'[n].from = t /\ node'[n].at = at /\ node'[n].method = text'[t].method
    BY DEF Becomes, stored
  <2>2. at = "done" => AllStand(n, t)'
    <3>1. SUFFICES ASSUME at = "done", NEW v \in Blocks(t)', ~Shadowed(v)' PROVE HasBlock(n, v)'
      BY DEF AllStand
    <3>2. v \in Blocks(t) /\ ~Shadowed(v)
      BY <3>1 DEF Blocks, Shadowed
    <3> QED
      BY <1>5, <3>1, <3>2 DEF AllStand
  <2>3. at = "cases" => LastStand(n, t, d)'
    <3>1. SUFFICES ASSUME at = "cases", NEW v \in Blocks(t)', Last(v) < d, LastOf(v, d)' PROVE HasBlock(n, v)'
      BY DEF LastStand
    <3>2. v \in Blocks(t) /\ LastOf(v, d)
      BY <3>1 DEF Blocks, LastOf
    <3> QED
      BY <1>5, <1>6, <3>1, <3>2 DEF LastStand
  <2>4. node'[n].at \in {"replay", "cases", "done"} /\ node'[n].todo = d
    BY <1>6, <2>1
  <2>5. node'[n].at = "done" => AllStand(n, t)'
    BY <2>1, <2>2
  <2>6. node'[n].at = "cases" => LastStand(n, t, d)'
    BY <2>1, <2>3
  <2> QED
    BY <2>1, <2>4, <2>5, <2>6, LoadOKIs
<1> QED
  BY <1>3, <1>4, <1>7, <1>8, LoadFrame

\* A block is its parent and a number, and so are the blocks before it.
LEMMA BlockIs ==
  ASSUME IsText(text), NEW t \in DOMAIN text, NEW v \in Blocks(t)
  PROVE  /\ v \in DOMAIN text /\ v # <<>> /\ Front(v) = t /\ v = Append(t, Last(v)) /\ Last(v) \in Nat \ {0}
         /\ v \in Position /\ t \in Position
         /\ \A i \in 1..Last(v) : Append(t, i) \in DOMAIN text
         /\ text[v].name = Unnamed => \A w \in Blocks(t) : w = v
<1>1. v \in DOMAIN text /\ v # <<>> /\ Front(v) = t
  BY DEF Blocks
<1>2. v \in Position /\ t \in Position
  BY <1>1, TextIs
<1>3. v = Append(t, Last(v)) /\ Last(v) \in Nat \ {0}
  BY <1>1, <1>2, PathEnds DEF Position
<1>4. /\ \A i \in 1..Last(v) : Append(Front(v), i) \in DOMAIN text
      /\ text[v].name = Unnamed => \A w \in DOMAIN text : w # <<>> /\ Front(w) = Front(v) => w = v
  BY <1>1 DEF IsText
<1> QED
  BY <1>1, <1>2, <1>3, <1>4 DEF Blocks

\* A leaf has no blocks.
LEMMA LeafIs ==
  ASSUME IsText(text), NEW t \in DOMAIN text, IsLeaf(t)
  PROVE  Blocks(t) = {}
<1>1. SUFFICES ASSUME NEW v \in Blocks(t) PROVE FALSE
  OBVIOUS
<1>2. Last(v) \in Nat \ {0} /\ \A i \in 1..Last(v) : Append(t, i) \in DOMAIN text
  BY BlockIs
<1>3. 1 \in 1..Last(v)
  BY <1>2
<1> QED
  BY <1>2, <1>3 DEF IsLeaf

\* A block of a shown step that is not shadowed is shown.
LEMMA ShownKid ==
  ASSUME IsText(text), NEW t \in DOMAIN text, NEW u \in Shown(t), NEW v \in Blocks(u), ~Shadowed(v)
  PROVE  v \in Shown(t) /\ v # t
<1>1. u \in DOMAIN text /\ IsPrefix(t, u) /\ \A k \in (Len(t) + 1)..Len(u) : ~Shadowed(SubSeq(u, 1, k))
  BY DEF Shown
<1>2. v \in DOMAIN text /\ v # <<>> /\ Front(v) = u /\ v = Append(u, Last(v)) /\ Last(v) \in Nat \ {0}
      /\ v \in Position /\ u \in Position /\ t \in Position
  BY <1>1, BlockIs, TextIs
<1>3. Len(u) = Len(v) - 1 /\ Len(v) \in Nat /\ Len(t) \in Nat /\ Len(t) <= Len(u)
  BY <1>1, <1>2, PathEnds, PrefixOrder, LenProperties DEF Position
<1>4. IsPrefix(t, v)
  BY <1>1, <1>2, <1>3, PrefixOrder DEF Position
<1>5. ASSUME NEW k \in (Len(t) + 1)..Len(v) PROVE ~Shadowed(SubSeq(v, 1, k))
  <2>1. CASE k = Len(v)
    <3>1. SubSeq(v, 1, Len(v)) = v
      BY <1>2, SubSeqFull DEF Position
    <3> QED
      BY <2>1, <3>1
  <2>2. CASE k # Len(v)
    <3>1. k \in 0..Len(v) - 1 /\ k \in (Len(t) + 1)..Len(u)
      BY <1>3, <2>2
    <3>2. SubSeq(Front(v), 1, k) = SubSeq(v, 1, k)
      BY <1>2, <3>1, FirstOfFront DEF Position
    <3> QED
      BY <1>1, <1>2, <3>1, <3>2
  <2> QED
    BY <2>1, <2>2
<1> QED
  BY <1>2, <1>3, <1>4, <1>5 DEF Shown

\* What is kept of a stored step has all its blocks that count.
LEMMA CopyLoads ==
  ASSUME IsText(text), text' = text, NEW root \in Seq(CaseNames), NEW t \in DOMAIN text,
         NEW copy, CopyOf(copy, root, t), DOMAIN copy \subseteq DOMAIN node',
         \A q \in DOMAIN copy : q # root => node'[q] = copy[q],
         NEW p \in DOMAIN copy, NEW u, u = copy[p].from,
         node'[p].at = "done", node'[p].from = u, node'[p].method = text[u].method
  PROVE  LoadOK(p)'
<1>1. p \in Seq(CaseNames) /\ IsPrefix(root, p) /\ u \in Shown(t) /\ p = Place(root, t, u)
  BY DEF CopyOf
<1>2. u \in DOMAIN text /\ Len(root) \in Nat /\ Len(p) \in Nat /\ Len(root) <= Len(p)
  BY <1>1, PrefixOrder DEF Shown
<1>3. AllStand(p, u)'
  <2>1. SUFFICES ASSUME NEW v \in Blocks(u)', ~Shadowed(v)' PROVE HasBlock(p, v)'
    BY DEF AllStand
  <2>2. v \in Blocks(u) /\ ~Shadowed(v)
    BY <2>1 DEF Blocks, Shadowed
  <2>3. v \in Shown(t) /\ v # t /\ v \in DOMAIN text /\ Front(v) = u /\ text[v].name \in CaseNames
    BY <1>1, <2>2, ShownKid, BlockIs, TextIs DEF Blocks
  <2>4. PICK q : q = Place(root, t, v)
    OBVIOUS
  <2>5. q \in DOMAIN copy /\ copy[q].from = v
    BY <2>3, <2>4 DEF CopyOf
  <2>6. q = Append(p, text[v].name)
    <3>1. IsPrefix(t, v)
      BY <2>3 DEF Shown
    <3>2. v # t => /\ Place(root, t, v) = Append(Place(root, t, Front(v)), text[v].name)
                   /\ Front(v) \in DOMAIN text /\ IsPrefix(t, Front(v)) /\ v # <<>>
      BY <2>3, <3>1, PlaceIs
    <3> QED
      BY <1>1, <2>3, <2>4, <3>2
  <2>7. q # <<>> /\ Front(q) = p /\ Last(q) = text[v].name /\ Len(q) = Len(p) + 1
    BY <1>1, <2>3, <2>6, AppendEnds
  <2>8. q # root
    BY <1>2, <2>7
  <2>9. node'[q].from = v /\ q \in DOMAIN node'
    BY <2>5, <2>8
  <2> QED
    BY <2>7, <2>9 DEF HasBlock, Kids, Stands
<1>4. PICK d : d = node'[p].todo
  OBVIOUS
<1>5. /\ node'[p].at \in {"replay", "cases", "done"} /\ node'[p].todo = d
      /\ node'[p].method = text'[u].method /\ node'[p].at # "cases"
  BY <1>4
<1>6. /\ u # None /\ node'[p].at # "replay" => node'[p].method = text'[u].method
      /\ u # None /\ node'[p].at = "done" => AllStand(p, u)'
      /\ node'[p].at = "cases" => LastStand(p, u, d)'
  BY <1>3, <1>5
<1> QED
  BY <1>5, <1>6, LoadOKIs

\* A sorry with the stored step at it, or below it.
LEMMA LoadSorry ==
  ASSUME TreeInv, LoadInv, mode = "load", UNCHANGED <<calc, text, mode>>, NEW n \in DOMAIN node, Called(n),
         NEW root \in {n, Append(n, Unnamed)}, NEW f \in DOMAIN text \cup {None},
         root = n => f = node[n].from /\ stored(n) = "sorry",
         root # n => f = None,
         Return(n, With(parsed_to_unannotated(root, node[n].from, node[n].sys),
                        Only(n, annotated_sorry(node[n].sys, f))))
  PROVE  LoadInv'
<1>1. PICK t : t = node[n].from
  OBVIOUS
<1>2. node[n].at = "replay" /\ node[n].at # "done" /\ TypeOK /\ n \in Seq(CaseNames) /\ t # None
  <2>1. TypeOK /\ node[n].at = "replay"
    BY DEF Called, TreeInv
  <2> QED
    BY <1>1, <2>1 DEF TypeOK
<1>3. t \in DOMAIN text /\ IsText(text)
  BY <1>1, <1>2, StoredIs
<1>4. root \in Seq(CaseNames)
  <2>1. Unnamed \in CaseNames
    BY ReplayAssumption, EmptySeq, ElementOfSeq DEF Unnamed
  <2> QED
    BY <1>2, <2>1, AppendEnds
<1>5. /\ \E copy :
           /\ CopyOf(copy, root, node[n].from)
           /\ Grown(n, DOMAIN node, DOMAIN copy \ {n})
           /\ \A p \in DOMAIN copy : p # n => node'[p] = copy[p]
      /\ node'[n].at = "done" /\ node'[n].from = f /\ node'[n].method = "sorry"
  BY SorryKeeps
<1>6. PICK copy : /\ CopyOf(copy, root, t)
                  /\ Grown(n, DOMAIN node, DOMAIN copy \ {n})
                  /\ \A p \in DOMAIN copy : p # n => node'[p] = copy[p]
  BY <1>1, <1>5
<1>7. PICK D : D = DOMAIN copy \ {n}
  OBVIOUS
<1>8. PICK K : K = DOMAIN node
  OBVIOUS
<1>9. Grown(n, K, D) /\ DOMAIN node' = K \cup D /\ n \in K
  BY <1>6, <1>7, <1>8 DEF Grown
<1>10. DOMAIN copy \subseteq DOMAIN node'
  BY <1>7, <1>9
<1>11. \A q \in DOMAIN copy : q # root => node'[q] = copy[q]
  <2>1. CASE root = n
    BY <1>6, <2>1
  <2>2. CASE root # n
    <3>1. n \notin DOMAIN copy
      <4>1. SUFFICES ASSUME n \in DOMAIN copy PROVE FALSE
        OBVIOUS
      <4>2. IsPrefix(root, n)
        BY <1>6, <4>1 DEF CopyOf
      <4>3. Len(root) <= Len(n) /\ Len(root) \in Nat /\ Len(n) \in Nat
        BY <1>2, <1>4, <4>2, PrefixOrder
      <4>4. Len(root) = Len(n) + 1
        <5>1. Unnamed \in CaseNames
          BY ReplayAssumption, EmptySeq, ElementOfSeq DEF Unnamed
        <5> QED
          BY <1>2, <2>2, <5>1, AppendEnds
      <4> QED
        BY <4>3, <4>4
    <3> QED
      BY <1>6, <3>1
  <2> QED
    BY <2>1, <2>2
<1>12. ASSUME NEW p \in DOMAIN copy, p # n PROVE LoadOK(p)'
  <2>1. PICK u : u = copy[p].from
    OBVIOUS
  <2>2. /\ copy[p].at = "done" /\ copy[p].from \in Shown(t) /\ copy[p].method = text[copy[p].from].method
    BY <1>6 DEF CopyOf
  <2>3. node'[p].at = "done" /\ node'[p].from = u /\ node'[p].method = text[u].method
    BY <1>6, <1>12, <2>1, <2>2
  <2> QED
    BY <1>3, <1>4, <1>6, <1>10, <1>11, <2>1, <2>3, CopyLoads
<1>13. AllLoad(D)'
  <2>1. \A p \in D : p \in DOMAIN copy /\ p # n
    BY <1>7
  <2>2. ASSUME NEW p \in D PROVE LoadOK(p)'
    BY <1>12, <2>1, <2>2
  <2> QED
    BY <2>2 DEF AllLoad
<1>14. root \in DOMAIN copy /\ copy[root].from = t
  <2>1. t \in Shown(t) /\ IsPrefix(t, t)
    BY <1>3, ShownIs
  <2>2. Place(root, t, t) \in DOMAIN copy /\ copy[Place(root, t, t)].from = t
    BY <1>6, <2>1 DEF CopyOf
  <2>3. Place(root, t, t) = root
    BY <1>3, <1>4, <2>1, PlaceIs
  <2> QED
    BY <2>2, <2>3
<1>15. Stands(n, t)' /\ LoadOK(n)'
  <2>1. CASE root = n
    <3>1. node'[n].from = t /\ text[t].method = "sorry"
      BY <1>1, <1>5, <2>1 DEF stored
    <3>2. LoadOK(n)'
      BY <1>3, <1>4, <1>5, <1>6, <1>10, <1>11, <1>14, <2>1, <3>1, CopyLoads
    <3> QED
      BY <3>1, <3>2 DEF Stands
  <2>2. CASE root # n
    <3>1. root = Append(n, Unnamed) /\ node'[root].from = t /\ root \in DOMAIN node'
      BY <1>6, <1>10, <1>14, <2>2
    <3>2. f = None
      BY <2>2
    <3>3. Stands(n, t)'
      BY <1>5, <3>1, <3>2 DEF Stands
    <3>4. PICK d : d = node'[n].todo
      OBVIOUS
    <3>5. LoadOK(n)'
      BY <1>5, <3>2, <3>4, LoadOKIs
    <3> QED
      BY <3>3, <3>5
  <2> QED
    BY <2>1, <2>2
<1> QED
  BY <1>1, <1>2, <1>9, <1>13, <1>15, LoadFrame

\* One more block has its kid.
LEMMA LoadBlock ==
  ASSUME TreeInv, LoadInv, mode = "load", UNCHANGED <<calc, text, mode>>,
         NEW n \in DOMAIN node, node[n].at = "cases",
         NEW b, b = NextBlock(n), b \in DOMAIN text,
         NEW k \in CaseNames, text[b].name \in {k, Unnamed},
         NEW r, r = Append(n, k), NEW D, r \in D, Grown(n, Cut(r), D), node'[r].from = b,
         Like(node'[n], node[n]), node'[n].todo = node[n].todo + 1, AllLoad(D)'
  PROVE  LoadInv'
<1>1. PICK t, d : t = node[n].from /\ d = node[n].todo
  OBVIOUS
<1>2. /\ TypeOK /\ n \in Seq(CaseNames) /\ node[n].at # "done" /\ t \in DOMAIN text /\ t # None /\ IsText(text)
      /\ d \in Nat \ {0} /\ node[n].method = stored(n) /\ b = Append(t, d)
  <2>1. TypeOK /\ node[n].at # "done" /\ node[n].from # None
    BY DEF TreeInv, TypeOK
  <2> QED
    BY <1>1, <2>1, Typed, StoredIs, ProducedIs DEF NextBlock
<1>3. LoadOK(n) /\ \A p \in DOMAIN node : p \in Seq(CaseNames)
  BY <1>2 DEF LoadInv, TypeOK
<1>4. node'[n].from = t /\ node'[n].at = "cases" /\ node'[n].method = text'[t].method /\ node'[n].todo = d + 1
  BY <1>1, <1>2 DEF Like, stored
<1>5. Stands(n, t)'
  BY <1>4 DEF Stands
<1>6. b \in Blocks(t) /\ Last(b) = d
  <2>1. PICK E : E = Nat \ {0}
    OBVIOUS
  <2>2. t \in Seq(E) /\ d \in E
    BY <1>2, <2>1, TextIs DEF Position
  <2>3. b # <<>> /\ Front(b) = t /\ Last(b) = d
    BY <1>2, <2>2, AppendEnds
  <2> QED
    BY <2>3 DEF Blocks
<1>7. r # <<>> /\ Front(r) = n /\ Last(r) = k /\ r \in DOMAIN node' /\ r \in Seq(CaseNames)
  BY <1>2, AppendEnds DEF Grown
<1>8. HasBlock(n, b)'
  BY <1>7 DEF HasBlock, Kids, Stands
<1>9. ASSUME NEW v \in Blocks(t), v # b, Last(v) < d + 1, LastOf(v, d + 1)
      PROVE  HasBlock(n, v)'
  <2>1. v = Append(t, Last(v)) /\ Last(v) \in Nat \ {0} /\ Front(v) = t
    BY <1>2, BlockIs
  <2>2. Last(v) < d
    BY <1>2, <1>9, <2>1
  <2>3. LastOf(v, d)
    <3>1. \A w \in Blocks(Front(v)) : Last(w) \in Nat
      BY <1>2, <2>1, BlockIs
    <3> QED
      BY <1>2, <1>9, <3>1 DEF LastOf
  <2>4. HasBlock(n, v)
    BY <1>1, <1>3, <2>2, <2>3 DEF LoadOK, LastStand
  <2>5. PICK q \in Kids(n) : text[v].name \in {Last(q), Unnamed} /\ Stands(q, v)
    BY <2>4 DEF HasBlock
  <2>6. text[v].name # Unnamed /\ text[b].name # Unnamed
    <3>1. \A x \in Blocks(t) : text[x].name = Unnamed => \A w \in Blocks(t) : w = x
      BY <1>2, BlockIs
    <3> QED
      BY <1>6, <1>9, <3>1
  <2>7. text[v].name # text[b].name
    <3>1. Last(b) > Last(v) /\ Last(b) < d + 1
      BY <1>2, <1>6, <2>1, <2>2
    <3> QED
      BY <1>6, <1>9, <2>1, <3>1 DEF LastOf
  <2>8. q # r
    BY <1>7, <2>5, <2>6, <2>7
  <2>9. q \in DOMAIN node /\ q # <<>> /\ Front(q) = n /\ q \in Seq(CaseNames)
    BY <1>3, <2>5 DEF Kids
  <2>10. ~IsPrefix(r, q)
    <3>1. Len(r) = Len(n) + 1 /\ Len(n) \in Nat
      BY <1>2, AppendEnds
    <3>2. Len(Front(q)) = Len(q) - 1 /\ Len(q) \in Nat
      BY <2>9, PathEnds
    <3>3. Len(r) = Len(q)
      BY <2>9, <3>1, <3>2
    <3> QED
      BY <1>7, <2>8, <2>9, <3>3, PrefixOrder
  <2>11. q \in Cut(r)
    BY <2>9, <2>10 DEF Cut
  <2>12. Stands(q, v)' /\ q \in DOMAIN node'
    <3>1. PICK K : K = Cut(r)
      OBVIOUS
    <3>2. Grown(n, K, D) /\ q \in K
      BY <2>11, <3>1
    <3>3. Stands(q, v)'
      BY <1>1, <1>2, <1>5, <2>5, <3>2, StandsKept
    <3> QED
      BY <3>2, <3>3 DEF Grown
  <2> QED
    BY <2>5, <2>9, <2>12 DEF HasBlock, Kids
<1>10. PICK e : e = d + 1
  OBVIOUS
<1>11. LastStand(n, t, e)'
  <2>1. SUFFICES ASSUME NEW v \in Blocks(t)', Last(v) < e, LastOf(v, e)' PROVE HasBlock(n, v)'
    BY DEF LastStand
  <2>2. v \in Blocks(t) /\ LastOf(v, e)
    BY <2>1 DEF Blocks, LastOf
  <2>3. CASE v = b
    BY <1>8, <2>3
  <2>4. CASE v # b
    BY <1>9, <1>10, <2>1, <2>2, <2>4
  <2> QED
    BY <2>3, <2>4
<1>12. LoadOK(n)'
  <2>1. /\ node'[n].from = t /\ node'[n].todo = e /\ node'[n].at \in {"replay", "cases", "done"}
        /\ t # None /\ node'[n].at # "replay" => node'[n].method = text'[t].method
        /\ t # None /\ node'[n].at = "done" => AllStand(n, t)'
        /\ node'[n].at = "cases" => LastStand(n, t, e)'
    BY <1>4, <1>10, <1>11
  <2> QED
    BY <2>1, LoadOKIs
<1>13. PICK K : K = Cut(r)
  OBVIOUS
<1>14. Grown(n, K, D)
  BY <1>13
<1> QED
  BY <1>1, <1>2, <1>5, <1>12, <1>14, LoadFrame

\* A stored case that is replayed has its place.
LEMMA LoadMatched ==
  ASSUME TreeInv, LoadInv, mode = "load", NEW n \in DOMAIN node, MatchedCase(n)
  PROVE  LoadInv'
<1>1. UNCHANGED <<calc, text, mode>> /\ node[n].at = "cases" /\ NextBlock(n) \in DOMAIN text
  BY DEF MatchedCase, InLoop
<1>2. /\ \E k \in CaseNames :
           /\ text[NextBlock(n)].name \in {k, Unnamed}
           /\ Grown(n, Cut(Append(n, k)), {Append(n, k)})
           /\ node'[Append(n, k)].at = "replay" /\ node'[Append(n, k)].from = NextBlock(n)
      /\ Like(node'[n], node[n]) /\ node'[n].todo = node[n].todo + 1
  BY MatchedCaseKeeps
<1>3. PICK k \in CaseNames :
           /\ text[NextBlock(n)].name \in {k, Unnamed}
           /\ Grown(n, Cut(Append(n, k)), {Append(n, k)})
           /\ node'[Append(n, k)].at = "replay" /\ node'[Append(n, k)].from = NextBlock(n)
  BY <1>2
<1>4. PICK r, D, b : r = Append(n, k) /\ D = {r} /\ b = NextBlock(n)
  OBVIOUS
<1>5. r \in D /\ Grown(n, Cut(r), D) /\ node'[r].from = b /\ node'[r].at = "replay"
  BY <1>3, <1>4
<1>6. LoadOK(r)'
  <2>1. PICK d : d = node'[r].todo
    OBVIOUS
  <2> QED
    BY <1>5, <2>1, LoadOKIs
<1>7. AllLoad(D)'
  <2>1. ASSUME NEW p \in D PROVE LoadOK(p)'
    <3>1. p = r
      BY <1>4
    <3> QED
      BY <1>6, <3>1
  <2> QED
    BY <2>1 DEF AllLoad
<1> QED
  BY <1>1, <1>2, <1>3, <1>4, <1>5, <1>7, LoadBlock

\* A stored case that no produced one answers has its place.
LEMMA LoadUnmatched ==
  ASSUME TreeInv, LoadInv, mode = "load", NEW n \in DOMAIN node, UnmatchedCase(n)
  PROVE  LoadInv'
<1>1. UNCHANGED <<calc, text, mode>> /\ node[n].at = "cases" /\ NextBlock(n) \in DOMAIN text
  BY DEF UnmatchedCase, InLoop
<1>2. /\ \E copy :
           /\ CopyOf(copy, Append(n, text[NextBlock(n)].name), NextBlock(n))
           /\ Grown(n, Cut(Append(n, text[NextBlock(n)].name)), DOMAIN copy)
           /\ \A p \in DOMAIN copy : node'[p] = copy[p]
      /\ Like(node'[n], node[n]) /\ node'[n].todo = node[n].todo + 1
  BY UnmatchedCaseKeeps
<1>3. IsText(text) /\ n \in Seq(CaseNames)
  <2>1. TypeOK /\ node[n].from # None
    BY <1>1 DEF TreeInv, TypeOK
  <2> QED
    BY <2>1, StoredIs, Typed
<1>4. PICK b, k : b = NextBlock(n) /\ k = text[b].name
  OBVIOUS
<1>5. b \in DOMAIN text /\ k \in CaseNames
  BY <1>1, <1>3, <1>4, TextIs
<1>6. PICK r : r = Append(n, k)
  OBVIOUS
<1>7. PICK copy : CopyOf(copy, r, b) /\ Grown(n, Cut(r), DOMAIN copy) /\ \A p \in DOMAIN copy : node'[p] = copy[p]
  BY <1>2, <1>4, <1>6
<1>8. PICK D : D = DOMAIN copy
  OBVIOUS
<1>9. r \in Seq(CaseNames) /\ DOMAIN copy \subseteq DOMAIN node'
  BY <1>3, <1>5, <1>6, <1>7, AppendEnds DEF Grown
<1>10. ASSUME NEW p \in D PROVE LoadOK(p)'
  <2>1. PICK u : u = copy[p].from
    OBVIOUS
  <2>2. p \in DOMAIN copy /\ copy[p].at = "done" /\ copy[p].method = text[copy[p].from].method
    BY <1>7, <1>8 DEF CopyOf
  <2>3. node'[p].at = "done" /\ node'[p].from = u /\ node'[p].method = text[u].method
    BY <1>7, <2>1, <2>2
  <2> QED
    BY <1>1, <1>3, <1>5, <1>7, <1>9, <2>1, <2>2, <2>3, CopyLoads
<1>11. AllLoad(D)'
  BY <1>10 DEF AllLoad
<1>12. r \in D /\ node'[r].from = b
  <2>1. b \in Shown(b) /\ IsPrefix(b, b)
    BY <1>3, <1>5, ShownIs
  <2>2. Place(r, b, b) \in DOMAIN copy /\ copy[Place(r, b, b)].from = b
    BY <1>7, <2>1 DEF CopyOf
  <2>3. Place(r, b, b) = r
    BY <1>3, <1>5, <1>9, <2>1, PlaceIs
  <2> QED
    BY <1>7, <1>8, <2>2, <2>3
<1>13. Grown(n, Cut(r), D) /\ text[b].name \in {k, Unnamed}
  BY <1>4, <1>7, <1>8
<1> QED
  BY <1>1, <1>2, <1>4, <1>5, <1>6, <1>11, <1>12, <1>13, LoadBlock

\* A produced case without a stored one.
LEMMA LoadProduced ==
  ASSUME TreeInv, LoadInv, mode = "load", NEW n \in DOMAIN node, ProducedCase(n)
  PROVE  LoadInv'
<1>1. UNCHANGED <<calc, text, mode>> /\ node[n].at = "cases"
  BY DEF ProducedCase, InLoop
<1>2. PICK t, d : t = node[n].from /\ d = node[n].todo
  OBVIOUS
<1>3. TypeOK /\ t # None /\ LoadOK(n) /\ n \in Seq(CaseNames) /\ node[n].at # "done"
  BY <1>1, <1>2, Typed DEF TreeInv, TypeOK, LoadInv
<1>4. /\ mode = "load" => \E k \in CaseNames :
           /\ Grown(n, DOMAIN node, {Append(n, k)})
           /\ node'[Append(n, k)].at = "done" /\ node'[Append(n, k)].from = None
      /\ Like(node'[n], node[n]) /\ node'[n].todo = node[n].todo
  BY ProducedCaseKeeps
<1>5. PICK k \in CaseNames :
           /\ Grown(n, DOMAIN node, {Append(n, k)})
           /\ node'[Append(n, k)].at = "done" /\ node'[Append(n, k)].from = None
  BY <1>4
<1>6. PICK r, D, K : r = Append(n, k) /\ D = {r} /\ K = DOMAIN node
  OBVIOUS
<1>7. Grown(n, K, D) /\ node'[r].at = "done" /\ node'[r].from = None
  BY <1>5, <1>6
<1>8. LoadOK(r)'
  <2>1. PICK f, e : f = node'[r].from /\ e = node'[r].todo
    OBVIOUS
  <2> QED
    BY <1>7, <2>1, LoadOKIs
<1>9. AllLoad(D)'
  <2>1. ASSUME NEW p \in D PROVE LoadOK(p)'
    <3>1. p = r
      BY <1>6
    <3> QED
      BY <1>8, <3>1
  <2> QED
    BY <2>1 DEF AllLoad
<1>10. node'[n].from = t /\ node'[n].at = "cases" /\ node'[n].method = text'[t].method /\ node'[n].todo = d
  BY <1>1, <1>2, <1>3, <1>4 DEF Like, LoadOK, stored
<1>11. Stands(n, t)'
  BY <1>10 DEF Stands
<1>12. LastStand(n, t, d)'
  <2>1. SUFFICES ASSUME NEW v \in Blocks(t)', Last(v) < d, LastOf(v, d)' PROVE HasBlock(n, v)'
    BY DEF LastStand
  <2>2. v \in Blocks(t) /\ LastOf(v, d)
    BY <1>1, <2>1 DEF Blocks, LastOf
  <2>3. HasBlock(n, v)
    BY <1>1, <1>2, <1>3, <2>1, <2>2 DEF LoadOK, LastStand
  <2>4. PICK q \in Kids(n) : text[v].name \in {Last(q), Unnamed} /\ Stands(q, v)
    BY <2>3 DEF HasBlock
  <2>5. q \in K /\ q # <<>> /\ Front(q) = n /\ q \in DOMAIN node'
    BY <1>6, <1>7, <2>4 DEF Kids, Grown
  <2>6. Stands(q, v)'
    BY <1>1, <1>2, <1>3, <1>7, <1>11, <2>4, <2>5, StandsKept
  <2>7. text'[v].name \in {Last(q), Unnamed}
    BY <1>1, <2>4
  <2> QED
    BY <2>5, <2>6, <2>7 DEF HasBlock, Kids
<1>13. LoadOK(n)'
  <2>1. /\ node'[n].from = t /\ node'[n].todo = d /\ node'[n].at \in {"replay", "cases", "done"}
        /\ t # None /\ node'[n].at # "replay" => node'[n].method = text'[t].method
        /\ t # None /\ node'[n].at = "done" => AllStand(n, t)'
        /\ node'[n].at = "cases" => LastStand(n, t, d)'
    BY <1>10, <1>12
  <2> QED
    BY <2>1, LoadOKIs
<1> QED
  BY <1>1, <1>2, <1>3, <1>7, <1>9, <1>11, <1>13, LoadFrame

\* All blocks have had their turn.
LEMMA LoadFinish ==
  ASSUME TreeInv, LoadInv, mode = "load", NEW n \in DOMAIN node, Finish(n)
  PROVE  LoadInv'
<1>1. UNCHANGED <<calc, text, mode>> /\ node[n].at = "cases" /\ NextBlock(n) \notin DOMAIN text
  BY DEF Finish, InLoop
<1>2. PICK t, d : t = node[n].from /\ d = node[n].todo
  OBVIOUS
<1>3. /\ TypeOK /\ node[n].at # "done" /\ t \in DOMAIN text /\ t # None /\ IsText(text)
      /\ d \in Nat \ {0} /\ LoadOK(n) /\ Append(t, d) \notin DOMAIN text
  <2>1. TypeOK /\ node[n].from # None
    BY <1>1 DEF TreeInv, TypeOK
  <2> QED
    BY <1>1, <1>2, <2>1, StoredIs, ProducedIs DEF LoadInv, NextBlock
<1>4. AllStand(n, t)
  <2>1. SUFFICES ASSUME NEW v \in Blocks(t), ~Shadowed(v) PROVE HasBlock(n, v)
    BY DEF AllStand
  <2>2. /\ v \in DOMAIN text /\ v # <<>> /\ Last(v) \in Nat \ {0} /\ Front(v) = t
        /\ \A i \in 1..Last(v) : Append(t, i) \in DOMAIN text
    BY <1>3, BlockIs
  <2>3. Last(v) < d
    <3>1. ~(d <= Last(v))
      BY <1>3, <2>2
    <3> QED
      BY <1>3, <2>2, <3>1
  <2>4. LastOf(v, d)
    BY <2>1, <2>2 DEF LastOf, Shadowed, Blocks
  <2> QED
    BY <1>1, <1>2, <1>3, <2>3, <2>4 DEF LoadOK, LastStand
<1>5. Becomes(n, "done")
  BY FinishKeeps
<1>6. PICK at \in {"cases", "done"} : at = "done"
  OBVIOUS
<1> QED
  BY <1>1, <1>2, <1>3, <1>4, <1>5, <1>6, LoadBecomes

\* The stored method applies: its cases begin.
LEMMA LoadApplies ==
  ASSUME TreeInv, LoadInv, mode = "load", NEW n \in DOMAIN node, StepApplies(n)
  PROVE  LoadInv'
<1>1. UNCHANGED <<calc, text, mode>> /\ node[n].at = "replay" /\ node[n].at # "done" /\ TypeOK
  BY DEF StepApplies, IsStep, Called, TreeInv
<1>2. PICK t : t = node[n].from
  OBVIOUS
<1>3. t \in DOMAIN text /\ t # None /\ IsText(text)
  <2>1. node[n].from # None
    BY <1>1 DEF TypeOK
  <2> QED
    BY <1>1, <1>2, <2>1, StoredIs
<1>4. Becomes(n, "cases") /\ node'[n].todo = 1
  BY StepAppliesKeeps
<1>5. LastStand(n, t, node'[n].todo)
  <2>1. \A v \in Blocks(t) : Last(v) \in Nat \ {0}
    BY <1>3, BlockIs
  <2> QED
    BY <1>4, <2>1 DEF LastStand
<1>6. PICK at \in {"cases", "done"} : at = "cases"
  OBVIOUS
<1> QED
  BY <1>1, <1>2, <1>3, <1>4, <1>5, <1>6, LoadBecomes

\* A stored leaf returns.
LEMMA LoadLeaf ==
  ASSUME TreeInv, LoadInv, mode = "load", UNCHANGED <<calc, text, mode>>, NEW n \in DOMAIN node, Called(n),
         IsLeaf(node[n].from), Becomes(n, "done")
  PROVE  LoadInv'
<1>1. node[n].at = "replay" /\ node[n].at # "done" /\ TypeOK
  BY DEF Called, TreeInv
<1>2. PICK t : t = node[n].from
  OBVIOUS
<1>3. t \in DOMAIN text /\ t # None /\ IsText(text)
  <2>1. node[n].from # None
    BY <1>1 DEF TypeOK
  <2> QED
    BY <1>1, <1>2, <2>1, StoredIs
<1>4. AllStand(n, t)
  BY <1>2, <1>3, LeafIs DEF AllStand
<1>5. PICK at \in {"cases", "done"} : at = "done"
  OBVIOUS
<1> QED
  BY <1>1, <1>2, <1>3, <1>4, <1>5, LoadBecomes

\* What cannot be checked is kept below a sorry.
LEMMA LoadFallThrough ==
  ASSUME TreeInv, LoadInv, mode = "load", UNCHANGED <<calc, text, mode>>, NEW n \in DOMAIN node, Called(n),
         FallThrough(n)
  PROVE  LoadInv'
<1>1. PICK f \in DOMAIN text \cup {None} : f = None
  OBVIOUS
<1>2. PICK root \in {n, Append(n, Unnamed)} : root = Append(n, Unnamed)
  OBVIOUS
<1>3. Return(n, invalid_step_node(n, node[n].from, node[n].sys))
  BY DEF FallThrough
<1>4. Return(n, With(parsed_to_unannotated(root, node[n].from, node[n].sys),
                     Only(n, annotated_sorry(node[n].sys, f))))
  BY <1>1, <1>2, <1>3 DEF invalid_step_node
<1>5. root # n
  <2>1. n \in Seq(CaseNames) /\ Unnamed \in CaseNames
    BY Typed, ReplayAssumption, EmptySeq, ElementOfSeq DEF TreeInv, Unnamed
  <2> QED
    BY <1>2, <2>1, AppendEnds
<1> QED
  BY <1>1, <1>4, <1>5, LoadSorry

\* A stored sorry stays one.
LEMMA LoadStoredSorry ==
  ASSUME TreeInv, LoadInv, mode = "load", NEW n \in DOMAIN node, StoredSorry(n)
  PROVE  LoadInv'
<1>1. Called(n) /\ UNCHANGED <<calc, text, mode>> /\ stored(n) = "sorry"
  BY DEF StoredSorry
<1>2. PICK f \in DOMAIN text \cup {None} : f = node[n].from
  BY Typed DEF TreeInv
<1>3. PICK root \in {n, Append(n, Unnamed)} : root = n
  OBVIOUS
<1>4. Return(n, annotated_sorry_with_children(n, node[n].from, node[n].sys))
  BY DEF StoredSorry
<1>5. Return(n, With(parsed_to_unannotated(root, node[n].from, node[n].sys),
                     Only(n, annotated_sorry(node[n].sys, f))))
  BY <1>2, <1>3, <1>4 DEF annotated_sorry_with_children
<1> QED
  BY <1>1, <1>2, <1>3, <1>5, LoadSorry

\* The steps of a load.
LEMMA LoadStep == TreeInv /\ LoadInv /\ [Next]_vars => LoadInv'
<1> SUFFICES ASSUME TreeInv, LoadInv, [Next]_vars, mode' = "load" PROVE LoadInv'
  BY DEF LoadInv
<1>1. CASE Load
  <2>1. PICK e : e = <<>>
    OBVIOUS
  <2>2. PICK m \in {"load", "prove"} : m = "load"
    OBVIOUS
  <2>3. TypeOK /\ Start(m)
    BY <1>1, <2>2 DEF Load, TreeInv
  <2>4. DOMAIN node' = {e} /\ node'[e].at = "replay" /\ node'[e].from = e
    BY <2>1, <2>3, StartIs
  <2>5. Stands(e, e)'
    BY <2>4 DEF Stands
  <2>6. ASSUME NEW n \in DOMAIN node' PROVE LoadOK(n)'
    <3>1. PICK d : d = node'[e].todo
      OBVIOUS
    <3>2. LoadOK(e)'
      BY <2>4, <3>1, LoadOKIs
    <3> QED
      BY <2>4, <2>6, <3>2
  <2> QED
    BY <2>1, <2>5, <2>6 DEF LoadInv
<1>2. CASE Prove
  BY <1>2 DEF Prove, Start
<1>3. CASE Step
  <2>1. PICK n \in DOMAIN node :
          \/ StoredSorry(n) \/ finished_leaf(n) \/ StepFails(n) \/ StepCloses(n) \/ StepApplies(n)
          \/ UnmatchedCase(n) \/ MatchedCase(n) \/ ProducedCase(n) \/ Finish(n)
          \/ LeaveOpen(n) \/ Close(n) \/ Split(n) \/ SolvedCase(n) \/ AllCasesTried(n)
    BY <1>3 DEF Step
  <2>2. mode = "load"
    BY <2>1 DEF StoredSorry, finished_leaf, StepFails, StepCloses, StepApplies, UnmatchedCase, MatchedCase,
                ProducedCase, Finish, LeaveOpen, Close, Split, SolvedCase, AllCasesTried
  <2>3. node[n].at \notin {"search", "split"}
    BY <2>2 DEF LoadInv, LoadOK
  <2>4. CASE StoredSorry(n)
    BY <2>2, <2>4, LoadStoredSorry
  <2>5. CASE finished_leaf(n)
    <3>1. Called(n) /\ UNCHANGED <<calc, text, mode>> /\ IsLeaf(node[n].from)
      BY <2>5 DEF finished_leaf
    <3>2. CASE same_kind(n)
      BY <2>2, <2>5, <3>1, <3>2, FinishedLeafKeeps, LoadLeaf
    <3>3. CASE ~same_kind(n)
      BY <2>2, <2>5, <3>1, <3>3, LoadFallThrough DEF finished_leaf
    <3> QED
      BY <3>2, <3>3
  <2>6. CASE StepFails(n)
    BY <2>2, <2>6, LoadFallThrough DEF StepFails, IsStep
  <2>7. CASE StepCloses(n)
    <3>1. Called(n) /\ UNCHANGED <<calc, text, mode>> /\ IsLeaf(node[n].from)
      BY <2>7 DEF StepCloses, IsStep, Closes
    <3> QED
      BY <2>2, <2>7, <3>1, StepClosesKeeps, LoadLeaf
  <2>8. CASE StepApplies(n)
    BY <2>2, <2>8, LoadApplies
  <2>9. CASE UnmatchedCase(n)
    BY <2>2, <2>9, LoadUnmatched
  <2>10. CASE MatchedCase(n)
    BY <2>2, <2>10, LoadMatched
  <2>11. CASE ProducedCase(n)
    BY <2>2, <2>11, LoadProduced
  <2>12. CASE Finish(n)
    BY <2>2, <2>12, LoadFinish
  <2>13. CASE LeaveOpen(n) \/ Close(n) \/ Split(n) \/ SolvedCase(n) \/ AllCasesTried(n)
    BY <2>3, <2>13 DEF LeaveOpen, Close, Split, SolvedCase, AllCasesTried
  <2> QED
    BY <2>1, <2>4, <2>5, <2>6, <2>7, <2>8, <2>9, <2>10, <2>11, <2>12, <2>13
<1>4. CASE Fail \/ Again
  BY <1>4 DEF Fail, Again
<1>5. CASE UNCHANGED vars
  <2>1. calc' = calc /\ text' = text /\ mode' = mode /\ node' = node
    BY <1>5 DEF vars
  <2> QED
    BY <2>1 DEF LoadInv, LoadOK, AllStand, LastStand, Blocks, Shadowed, LastOf, HasBlock, Stands, Kids, stored
<1> QED
  BY <1>1, <1>2, <1>3, <1>4, <1>5 DEF Next

\* While a file is loaded, every block of a stored step that has had its turn has
\* its node below the step's.
THEOREM LoadIsRight == Spec => []LoadInv
<1>1. Init => LoadInv
  BY DEF Init, LoadInv
<1>2. TreeInv /\ LoadInv /\ [Next]_vars => LoadInv'
  BY LoadStep
<1> QED
  BY <1>1, <1>2, TreeIsRight, PTL DEF Spec

\* After it, the whole stored proof is there.
LEMMA DroppedFromLoad == TreeInv /\ LoadInv => NothingIsDropped
<1> SUFFICES ASSUME TreeInv, LoadInv, Judged, mode = "load", NEW u \in Shown(<<>>)
             PROVE  \E p \in DOMAIN node :
                      /\ node[p].from = u /\ node[p].method = text[u].method
                      /\ u # <<>> => \E r \in {p, Front(p)} :
                           /\ r # <<>> /\ node[Front(r)].from = Front(u)
                           /\ text[u].name \in {Last(r), Unnamed}
                           /\ r # p => node[r].method = "sorry" /\ Last(p) = Unnamed
  BY DEF NothingIsDropped
<1>1. TypeOK /\ <<>> \in DOMAIN node /\ \A p \in DOMAIN node : node[p].at = "done" /\ LoadOK(p) /\ p \in Seq(CaseNames)
  BY AllDone, Typed DEF TreeInv, LoadInv, Judged
<1>2. IsText(text) /\ None \notin DOMAIN text /\ <<>> \in DOMAIN text /\ Unnamed \in CaseNames
  <2>1. IsText(text)
    BY <1>1, ReplayAssumption DEF TypeOK
  <2> QED
    BY <2>1, TextIs, ReplayAssumption, EmptySeq, ElementOfSeq DEF Unnamed
<1>3. \A v \in Shown(<<>>) : /\ v \in DOMAIN text /\ v \in Position /\ v # None
                             /\ v # <<>> => Front(v) \in Shown(<<>>) /\ ~Shadowed(v)
  <2>1. PICK e : e = <<>>
    OBVIOUS
  <2>2. e \in DOMAIN text
    BY <1>2, <2>1
  <2>3. /\ Shown(e) \subseteq DOMAIN text
        /\ \A v \in Shown(e) : v # e => v # <<>> /\ Front(v) \in Shown(e) /\ ~Shadowed(v)
    BY <1>2, <2>2, ShownIs
  <2> QED
    BY <1>2, <2>1, <2>3, TextIs
<1>4. ASSUME NEW p \in DOMAIN node, NEW v \in Shown(<<>>), node[p].from = v PROVE node[p].method = text[v].method
  BY <1>1, <1>3, <1>4 DEF LoadOK, stored
<1>5. \E p \in DOMAIN node : node[p].from = <<>>
  <2>1. Stands(<<>>, <<>>)
    BY DEF LoadInv
  <2> QED
    BY <1>1, <2>1 DEF Stands
<1>6. ASSUME NEW v \in Shown(<<>>), v # <<>>, NEW q \in DOMAIN node, node[q].from = Front(v)
      PROVE  \E p \in DOMAIN node :
               /\ node[p].from = v
               /\ \E r \in {p, Front(p)} :
                    /\ r # <<>> /\ node[Front(r)].from = Front(v)
                    /\ text[v].name \in {Last(r), Unnamed}
                    /\ r # p => node[r].method = "sorry" /\ Last(p) = Unnamed
  <2>1. v \in Blocks(Front(v)) /\ ~Shadowed(v) /\ Front(v) # None
    BY <1>3, <1>6 DEF Blocks
  <2>2. HasBlock(q, v)
    BY <1>1, <1>6, <2>1 DEF LoadOK, AllStand
  <2>3. PICK r \in Kids(q) : text[v].name \in {Last(r), Unnamed} /\ Stands(r, v)
    BY <2>2 DEF HasBlock
  <2>4. r \in DOMAIN node /\ r # <<>> /\ Front(r) = q /\ r \in Seq(CaseNames)
    BY <1>1, <2>3 DEF Kids
  <2>5. CASE node[r].from = v
    BY <1>6, <2>3, <2>4, <2>5
  <2>6. CASE node[r].from # v
    <3>1. PICK p : p = Append(r, Unnamed)
      OBVIOUS
    <3>2. p \in DOMAIN node /\ node[p].from = v /\ node[r].method = "sorry"
      BY <2>3, <2>6, <3>1 DEF Stands
    <3>3. Front(p) = r /\ Last(p) = Unnamed
      BY <1>2, <2>4, <3>1, AppendEnds
    <3> QED
      BY <1>6, <2>3, <2>4, <3>2, <3>3
  <2> QED
    BY <2>5, <2>6
<1>7. \A v \in Shown(<<>>) : \E p \in DOMAIN node : node[p].from = v
  <2>1. PICK S : S = {v \in Shown(<<>>) : \A p \in DOMAIN node : node[p].from # v}
    OBVIOUS
  <2>2. SUFFICES ASSUME S # {} PROVE FALSE
    BY <2>1
  <2>3. PICK v \in S : \A w \in S : Len(v) <= Len(w)
    <3>1. PICK E : E = Nat \ {0}
      OBVIOUS
    <3>2. S \subseteq Seq(E)
      BY <1>3, <2>1, <3>1 DEF Position
    <3> QED
      BY <2>2, <3>2, ByLength
  <2>4. v \in Shown(<<>>) /\ v # <<>> /\ Front(v) \in Shown(<<>>) /\ v \in Position
    BY <1>3, <1>5, <2>1, <2>3
  <2>5. Front(v) \in S
    <3>1. \A q \in DOMAIN node : node[q].from # Front(v)
      BY <1>6, <2>1, <2>3, <2>4
    <3> QED
      BY <2>1, <2>4, <3>1
  <2>6. Len(Front(v)) = Len(v) - 1 /\ Len(v) \in Nat
    <3>1. PICK E : E = Nat \ {0}
      OBVIOUS
    <3>2. v \in Seq(E)
      BY <2>4, <3>1 DEF Position
    <3> QED
      BY <2>4, <3>2, PathEnds
  <2> QED
    BY <2>3, <2>5, <2>6
<1>8. CASE u = <<>>
  BY <1>4, <1>5, <1>8
<1>9. CASE u # <<>>
  <2>1. PICK q \in DOMAIN node : node[q].from = Front(u)
    BY <1>3, <1>7, <1>9
  <2>2. PICK p \in DOMAIN node :
               /\ node[p].from = u
               /\ \E r \in {p, Front(p)} :
                    /\ r # <<>> /\ node[Front(r)].from = Front(u)
                    /\ text[u].name \in {Last(r), Unnamed}
                    /\ r # p => node[r].method = "sorry" /\ Last(p) = Unnamed
    BY <1>6, <1>9, <2>1
  <2>3. node[p].method = text[u].method
    BY <1>4, <2>2
  <2> QED
    BY <2>2, <2>3
<1> QED
  BY <1>8, <1>9

\* Loading a file loses no step of the proof the user wrote, however stale: each
\* is there with its method, below the step it was below or below the sorry that
\* stands for that step.
THEOREM NothingLost == Spec => []NothingIsDropped
BY TreeIsRight, LoadIsRight, DroppedFromLoad, PTL
=============================================================================
