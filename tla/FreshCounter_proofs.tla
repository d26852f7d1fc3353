------------------------- MODULE FreshCounter_proofs -------------------------
(***************************************************************************)
(* For every start system and every bound: no branch draws an index twice, *)
(* and what a branch draws depends on that branch alone.  The invariant    *)
(* says of each branch that any reduction has in hand that its counter is  *)
(* above its system and has moved by its own draws only; a handle that has *)
(* been drawn on by an arm holds no branch until it is rewound or a branch *)
(* is adopted, and the invariant says nothing of its counter there.        *)
(***************************************************************************)
EXTENDS FreshCounter, TLAPS

BranchOK(b) ==
  /\ b \in Branch
  /\ \A v \in b.sys : v < b.cnt
  /\ b.cnt = Start + Len(b.hist)
  /\ \A i \in 1..Len(b.hist) : b.hist[i] = Start + i - 1

BranchesOK(s) ==
  /\ s \in Seq(Branch)
  /\ \A i \in 1..Len(s) : BranchOK(s[i])

ReductionOK(r) ==
  /\ r \in Reduction
  /\ r.mode \in {"run", "arm"} => BranchOK(r.now)
  /\ r.mode \in {"fork", "arm"} => BranchOK(r.base)
  /\ BranchesOK(r.queue)
  /\ BranchesOK(r.out)

StackOK(s) ==
  /\ s \in Seq(Reduction)
  /\ \A i \in 1..Len(s) : ReductionOK(s[i])
  /\ \A i \in 1..(Len(s) - 1) : s[i].mode \in {"arm", "each"}

FreshInv ==
  /\ StackOK(stack)
  /\ BranchesOK(cases)
  /\ forks \in Nat

-----------------------------------------------------------------------------
(* Branches.                                                               *)

\* A draw leaves the counter above the system and moves it by one.
LEMMA DrawnOK ==
  ASSUME NEW b, BranchOK(b), NEW keep \in BOOLEAN
  PROVE  BranchOK(Drawn(b, keep))
<1>1. b.sys \in SUBSET Nat /\ b.hist \in Seq(Nat) /\ b.cnt \in Nat
  BY DEF BranchOK, Branch
<1>2. ensure_above(b.cnt, b.sys) = b.cnt
  BY DEF ensure_above, BranchOK
<1> DEFINE d == [sys |-> IF keep THEN b.sys \cup {b.cnt} ELSE b.sys,
                 hist |-> Append(b.hist, b.cnt), cnt |-> b.cnt + 1]
<1>3. Drawn(b, keep) = d
  BY <1>2 DEF Drawn
<1>4. d \in Branch
  <2>1. d.hist \in Seq(Nat)
    BY <1>1
  <2>2. d.sys \in SUBSET Nat /\ d.cnt \in Nat
    BY <1>1
  <2> QED
    BY <2>1, <2>2 DEF Branch
<1>5. \A v \in d.sys : v < d.cnt
  BY <1>1 DEF BranchOK
<1>6. Len(d.hist) = Len(b.hist) + 1 /\ d.cnt = Start + Len(d.hist)
  BY <1>1, StartAssumption DEF BranchOK
<1>7. ASSUME NEW i \in 1..Len(d.hist) PROVE d.hist[i] = Start + i - 1
  <2>1. CASE i = Len(b.hist) + 1
    BY <2>1, <1>1, StartAssumption DEF BranchOK
  <2>2. CASE i \in 1..Len(b.hist)
    BY <2>2, <1>1, StartAssumption DEF BranchOK
  <2> QED
    BY <2>1, <2>2, <1>1, <1>6
<1> QED
  BY <1>3, <1>4, <1>5, <1>6, <1>7 DEF BranchOK

\* A reduction that inherits a branch goes on with exactly that branch.
LEMMA InheritingOK ==
  ASSUME NEW b, BranchOK(b)
  PROVE  BranchOK(new_inheriting(b))
<1>1. ensure_above(b.cnt, b.sys) = b.cnt
  BY DEF ensure_above, BranchOK
<1>2. new_inheriting(b) = b
  BY <1>1 DEF new_inheriting, BranchOK, Branch
<1> QED
  BY <1>2

\* The branches of an arm are added to those of the arms before it.
LEMMA ConcatOK ==
  ASSUME NEW s, NEW t, BranchesOK(s), BranchesOK(t)
  PROVE  BranchesOK(s \o t)
<1>1. s \in Seq(Branch) /\ t \in Seq(Branch)
  BY DEF BranchesOK
<1>2. s \o t \in Seq(Branch) /\ Len(s \o t) = Len(s) + Len(t)
  BY <1>1
<1>3. ASSUME NEW i \in 1..Len(s \o t) PROVE BranchOK((s \o t)[i])
  <2>1. CASE i \in 1..Len(s)
    BY <2>1, <1>1 DEF BranchesOK
  <2>2. CASE i - Len(s) \in 1..Len(t)
    BY <2>2, <1>1 DEF BranchesOK
  <2> QED
    BY <2>1, <2>2, <1>1, <1>2
<1> QED
  BY <1>2, <1>3 DEF BranchesOK

LEMMA EmptyOK == BranchesOK(<<>>)
BY DEF BranchesOK

LEMMA SingleOK ==
  ASSUME NEW b, BranchOK(b)
  PROVE  BranchesOK(<<b>>)
<1>1. b \in Branch
  BY DEF BranchOK
<1> QED
  BY <1>1 DEF BranchesOK

-----------------------------------------------------------------------------
(* Reductions.                                                             *)

\* A new reduction, or one that has adopted a branch.
LEMMA RunningOK ==
  ASSUME NEW b, BranchOK(b)
  PROVE  ReductionOK(Running(b))
<1>1. b \in Branch
  BY DEF BranchOK
<1>2. Running(b) \in Reduction
  BY <1>1 DEF Running, Reduction, Modes, Kinds
<1> QED
  BY <1>2, EmptyOK DEF Running, ReductionOK

\* A fork begins with its base and with the branches it is given.
LEMMA OpenedOK ==
  ASSUME NEW kind \in Kinds, NEW b, BranchOK(b), NEW n \in Nat, NEW s, BranchesOK(s)
  PROVE  ReductionOK(Opened(kind, b, n, s))
<1>1. b \in Branch /\ s \in Seq(Branch)
  BY DEF BranchOK, BranchesOK
<1>2. Opened(kind, b, n, s) \in Reduction
  BY <1>1 DEF Opened, Reduction, Modes
<1> QED
  BY <1>2, EmptyOK DEF Opened, ReductionOK

\* The branches of a sub-reduction are added to those of its caller.
LEMMA ReceivedOK ==
  ASSUME NEW r, ReductionOK(r), NEW s, BranchesOK(s), r.mode \in {"arm", "each"}
  PROVE  ReductionOK(Received(r, s))
<1>1. r \in Reduction /\ BranchesOK(r.out)
  BY DEF ReductionOK
<1>2. PICK x : x = r.out \o s
  OBVIOUS
<1>3. BranchesOK(x) /\ x \in Seq(Branch)
  BY <1>1, <1>2, ConcatOK DEF BranchesOK
<1>4. PICK m : m = IF r.mode = "arm" THEN "fork" ELSE r.mode
  OBVIOUS
<1>5. m \in Modes /\ m \in {"fork", "each"} /\ (m = "fork" => BranchOK(r.base))
  BY <1>4 DEF Modes, ReductionOK
<1>6. PICK w : w = [r EXCEPT !.out = x, !.mode = m]
  OBVIOUS
<1>7. Received(r, s) = w
  BY <1>2, <1>4, <1>6, Zenon DEF Received
<1>8. w \in Reduction /\ w.mode = m /\ w.out = x /\ w.queue = r.queue /\ w.base = r.base
  BY <1>1, <1>3, <1>5, <1>6 DEF Reduction
<1>9. ReductionOK(w)
  BY <1>3, <1>5, <1>8 DEF ReductionOK
<1> QED
  BY <1>7, <1>9

-----------------------------------------------------------------------------
(* The stack.                                                              *)

\* The innermost reduction is replaced by another.
LEMMA ReplaceOK ==
  ASSUME StackOK(stack), stack # <<>>, NEW r, ReductionOK(r)
  PROVE  StackOK(Replace(r)) /\ Len(Replace(r)) = Len(stack)
<1>1. stack \in Seq(Reduction) /\ Len(stack) \in 1..Len(stack) /\ r \in Reduction
  BY DEF StackOK, ReductionOK
<1>2. Replace(r) \in Seq(Reduction) /\ Len(Replace(r)) = Len(stack)
  BY <1>1 DEF Replace
<1>3. \A i \in 1..Len(stack) : Replace(r)[i] = IF i = Len(stack) THEN r ELSE stack[i]
  BY <1>1 DEF Replace
<1>4. \A i \in 1..Len(Replace(r)) : ReductionOK(Replace(r)[i])
  BY <1>2, <1>3 DEF StackOK
<1>5. \A i \in 1..(Len(Replace(r)) - 1) : Replace(r)[i].mode \in {"arm", "each"}
  <2> TAKE i \in 1..(Len(Replace(r)) - 1)
  <2>1. i \in 1..Len(stack) /\ i # Len(stack) /\ i \in 1..(Len(stack) - 1)
    BY <1>1, <1>2
  <2> QED
    BY <2>1, <1>3 DEF StackOK
<1> QED
  BY <1>2, <1>4, <1>5 DEF StackOK

\* A sub-reduction begins on top of an arm or of a loop over branches.
LEMMA PushOK ==
  ASSUME NEW s, StackOK(s), s # <<>>, s[Len(s)].mode \in {"arm", "each"},
         NEW r, ReductionOK(r)
  PROVE  StackOK(Append(s, r))
<1>1. s \in Seq(Reduction) /\ r \in Reduction
  BY DEF StackOK, ReductionOK
<1> DEFINE t == Append(s, r)
<1>2. t \in Seq(Reduction) /\ Len(t) = Len(s) + 1
  BY <1>1
<1>3. \A i \in 1..Len(s) : t[i] = s[i]
  BY <1>1
<1>4. t[Len(s) + 1] = r
  BY <1>1
<1>5. ASSUME NEW i \in 1..Len(t) PROVE ReductionOK(t[i])
  <2>1. CASE i \in 1..Len(s)
    BY <2>1, <1>3 DEF StackOK
  <2>2. CASE i = Len(s) + 1
    BY <2>2, <1>4
  <2> QED
    BY <2>1, <2>2, <1>1, <1>2
<1>6. ASSUME NEW i \in 1..(Len(t) - 1) PROVE t[i].mode \in {"arm", "each"}
  <2>1. i \in 1..Len(s)
    BY <1>1, <1>2
  <2>2. CASE i = Len(s)
    BY <2>1, <2>2, <1>3
  <2>3. CASE i \in 1..(Len(s) - 1)
    BY <2>1, <2>3, <1>3 DEF StackOK
  <2> QED
    BY <2>1, <2>2, <2>3, <1>1
<1> QED
  BY <1>2, <1>5, <1>6 DEF StackOK

\* A reduction returns its branches to the one below, or ends the step.
LEMMA ReturnOK ==
  ASSUME StackOK(stack), stack # <<>>, BranchesOK(cases),
         NEW s, BranchesOK(s), Return(s)
  PROVE  StackOK(stack') /\ BranchesOK(cases')
<1>1. stack \in Seq(Reduction) /\ Len(stack) \in Nat \ {0}
  BY DEF StackOK
<1>2. CASE Len(stack) = 1
  <2>1. stack' = <<>> /\ cases' = s
    BY <1>2 DEF Return
  <2> QED
    BY <2>1 DEF StackOK
<1>3. CASE Len(stack) # 1
  <2>n. PICK n : n = Len(stack) - 1
    OBVIOUS
  <2>1. n \in Nat \ {0} /\ n \in 1..Len(stack) /\ n < Len(stack)
    BY <1>1, <1>3, <2>n
  <2>q. PICK q : q = Received(stack[n], s)
    OBVIOUS
  <2>2. stack' = [i \in 1..n |-> IF i = n THEN q ELSE stack[i]] /\ cases' = cases
    BY <1>3, <2>n, <2>q, Zenon DEF Return
  <2>3. ReductionOK(q)
    <3>1. ReductionOK(stack[n]) /\ stack[n].mode \in {"arm", "each"}
      BY <2>n, <2>1, <1>1 DEF StackOK
    <3> QED
      BY <3>1, <2>q, ReceivedOK
  <2>4. \A i \in 1..n : stack[i] \in Reduction
    BY <1>1, <2>1
  <2>5. q \in Reduction
    BY <2>3 DEF ReductionOK
  <2>6. stack' \in Seq(Reduction) /\ Len(stack') = n
    BY <2>1, <2>2, <2>4, <2>5
  <2>7. ASSUME NEW i \in 1..Len(stack') PROVE ReductionOK(stack'[i])
    <3>1. i \in 1..n /\ i \in 1..Len(stack)
      BY <2>1, <2>6
    <3> QED
      BY <3>1, <2>2, <2>3 DEF StackOK
  <2>8. ASSUME NEW i \in 1..(Len(stack') - 1) PROVE stack'[i].mode \in {"arm", "each"}
    <3>1. i \in 1..n /\ i # n /\ i \in 1..(Len(stack) - 1)
      BY <2>n, <2>1, <2>6
    <3> QED
      BY <3>1, <2>2 DEF StackOK
  <2> QED
    BY <2>2, <2>6, <2>7, <2>8 DEF StackOK
<1> QED
  BY <1>2, <1>3

-----------------------------------------------------------------------------
(* The actions.                                                            *)

\* What is in the innermost reduction.
LEMMA TopOK ==
  ASSUME FreshInv, stack # <<>>
  PROVE  /\ ReductionOK(Top) /\ Top \in Reduction
         /\ StackOK(stack) /\ BranchesOK(cases) /\ forks \in Nat
<1>1. Len(stack) \in 1..Len(stack)
  BY DEF FreshInv, StackOK
<1>2. ReductionOK(Top)
  BY <1>1 DEF FreshInv, StackOK, Top
<1> QED
  BY <1>2 DEF FreshInv, ReductionOK

\* A step that only replaces the innermost reduction.
LEMMA ReplacedInv ==
  ASSUME FreshInv, stack # <<>>, NEW r, ReductionOK(r), stack' = Replace(r),
         cases' = cases, forks' \in Nat
  PROVE  FreshInv'
<1>1. StackOK(stack) /\ BranchesOK(cases)
  BY TopOK
<1>2. StackOK(stack')
  BY <1>1, ReplaceOK
<1> QED
  BY <1>1, <1>2 DEF FreshInv

\* A step that returns branches.
LEMMA ReturnedInv ==
  ASSUME FreshInv, stack # <<>>, NEW s, BranchesOK(s), Return(s), forks' = forks
  PROVE  FreshInv'
<1>1. StackOK(stack) /\ BranchesOK(cases) /\ forks \in Nat
  BY TopOK
<1>2. StackOK(stack') /\ BranchesOK(cases')
  BY <1>1, ReturnOK
<1> QED
  BY <1>1, <1>2 DEF FreshInv

\* The innermost reduction opens a fork at a branch of its own.
LEMMA OpenedInv ==
  ASSUME FreshInv, CanFork, NEW kind \in Kinds, NEW b, BranchOK(b), Open(kind, b)
  PROVE  FreshInv'
<1>1. stack # <<>>
  BY DEF CanFork, In
<1>2. PICK n \in 1..MaxArms : /\ stack' = Replace(Opened(kind, b, n, <<>>))
                              /\ forks' = forks + 1
                              /\ UNCHANGED cases
  BY DEF Open
<1>3. n \in Nat /\ forks + 1 \in Nat
  BY <1>1, TopOK, StartAssumption
<1>4. ReductionOK(Opened(kind, b, n, <<>>))
  BY <1>3, OpenedOK, EmptyOK
<1> QED
  BY <1>1, <1>2, <1>3, <1>4, ReplacedInv

\* The branch that a reduction or a fork goes on with.
LEMMA CurrentOK ==
  ASSUME FreshInv
  PROVE  /\ In("run") \/ In("arm") => BranchOK(Top.now)
         /\ In("fork") \/ In("arm") => BranchOK(Top.base)
BY TopOK DEF In, ReductionOK

\* A draw in a reduction, or in an arm on its handle.
LEMMA DrawInv ==
  ASSUME FreshInv, Draw
  PROVE  FreshInv'
<1>1. stack # <<>> /\ BranchOK(Top.now)
  BY CurrentOK DEF Draw, In
<1>2. PICK keep \in BOOLEAN : stack' = Replace([Top EXCEPT !.now = Drawn(@, keep)])
  BY DEF Draw
<1>3. PICK d : d = Drawn(Top.now, keep)
  OBVIOUS
<1>4. BranchOK(d) /\ d \in Branch
  BY <1>1, <1>3, DrawnOK DEF BranchOK
<1>5. PICK w : w = [Top EXCEPT !.now = d]
  OBVIOUS
<1>6. stack' = Replace(w)
  BY <1>2, <1>3, <1>5, Zenon
<1>7. /\ w \in Reduction /\ w.now = d
      /\ w.mode = Top.mode /\ w.base = Top.base /\ w.queue = Top.queue /\ w.out = Top.out
  BY <1>1, <1>4, <1>5, TopOK DEF Reduction
<1>8. ReductionOK(w)
  BY <1>1, <1>4, <1>7, TopOK DEF ReductionOK
<1> QED
  BY <1>1, <1>6, <1>8, TopOK, ReplacedInv DEF Draw

\* A reduction that ends returns its branch or none.
LEMMA FinishInv ==
  ASSUME FreshInv, Finish
  PROVE  FreshInv'
<1>1. stack # <<>> /\ BranchOK(Top.now) /\ forks' = forks
  BY CurrentOK DEF Finish, In
<1>2. CASE Return(<<Top.now>>)
  BY <1>1, <1>2, SingleOK, ReturnedInv
<1>3. CASE Return(<<>>)
  BY <1>1, <1>3, EmptyOK, ReturnedInv
<1> QED
  BY <1>2, <1>3 DEF Finish

\* The goals that open a fork at the branch of the reduction, or at the node
\* that is drawn for it first.
LEMMA SolveInv ==
  ASSUME FreshInv,
         \/ solve_action_goal \/ solve_premise_goal \/ solve_split_goal \/ solve_disj_goal
         \/ solve_subterm_goal \/ solve_term_eqs \/ apply_prepared_source_cases
  PROVE  FreshInv'
<1>1. CanFork
  BY DEF solve_action_goal, solve_premise_goal, solve_split_goal, solve_disj_goal,
         solve_subterm_goal, solve_term_eqs, apply_prepared_source_cases
<1>2. BranchOK(Top.now) /\ BranchOK(Drawn(Top.now, TRUE))
  BY <1>1, CurrentOK, DrawnOK DEF CanFork
<1>3. PICK kind \in Kinds, b \in {Top.now, Drawn(Top.now, TRUE)} : Open(kind, b)
  BY DEF solve_action_goal, solve_premise_goal, solve_split_goal, solve_disj_goal,
         solve_subterm_goal, solve_term_eqs, apply_prepared_source_cases, Kinds, Rewinding
<1> QED
  BY <1>1, <1>2, <1>3, OpenedInv

\* A chain is first closed without a new node.
LEMMA ChainInv ==
  ASSUME FreshInv, solve_chain_goal
  PROVE  FreshInv'
<1>1. stack # <<>> /\ BranchOK(Top.now) /\ forks + 1 \in Nat
  BY CurrentOK, TopOK DEF solve_chain_goal, CanFork, In
<1>2. ReductionOK(Opened("direct", Top.now, 1, <<>>))
  BY <1>1, OpenedOK, EmptyOK DEF Kinds
<1> QED
  BY <1>1, <1>2, ReplacedInv DEF solve_chain_goal

\* Then with one, on top of the branches that the edge has given.
LEMMA ChainExtendInv ==
  ASSUME FreshInv, ChainExtend
  PROVE  FreshInv'
<1>1. /\ stack # <<>> /\ BranchOK(Drawn(Top.base, TRUE)) /\ BranchesOK(Top.out)
      /\ forks' \in Nat
  BY CurrentOK, TopOK, DrawnOK DEF ChainExtend, In, ReductionOK
<1>2. PICK n \in 0..MaxArms :
        stack' = Replace(Opened("chain", Drawn(Top.base, TRUE), n, Top.out))
  BY DEF ChainExtend
<1>3. n \in Nat
  BY StartAssumption
<1>4. ReductionOK(Opened("chain", Drawn(Top.base, TRUE), n, Top.out))
  BY <1>1, <1>3, OpenedOK DEF Kinds, Rewinding
<1> QED
  BY <1>1, <1>2, <1>4, ReplacedInv DEF ChainExtend

\* An arm begins at the base, whatever the arm before it drew.
LEMMA BeginArmInv ==
  ASSUME FreshInv, BeginArm
  PROVE  FreshInv'
<1>1. /\ stack # <<>> /\ BranchOK(Top.base) /\ Top.left > 0
      /\ Top \in Reduction /\ ReductionOK(Top)
  BY CurrentOK, TopOK DEF BeginArm, In
<1>2. PICK left : left = Top.left - 1
  OBVIOUS
<1>3. left \in Nat
  BY <1>1, <1>2 DEF Reduction
<1>4. PICK base \in Branch : base = Top.base
  BY <1>1 DEF BranchOK
<1>5. PICK w : w = [Top EXCEPT !.mode = "arm", !.left = left, !.now = base]
  OBVIOUS
<1>6. stack' = Replace(w)
  BY <1>2, <1>4, <1>5, Zenon DEF BeginArm, Rewound
<1>7. /\ w \in Reduction /\ w.mode = "arm" /\ w.now = base
      /\ w.base = Top.base /\ w.queue = Top.queue /\ w.out = Top.out
  BY <1>1, <1>3, <1>5 DEF Reduction, Modes
<1>8. ReductionOK(w)
  BY <1>1, <1>4, <1>7 DEF ReductionOK
<1> QED
  BY <1>1, <1>6, <1>8, TopOK, ReplacedInv DEF BeginArm

\* The rest of an arm is a reduction that inherits its branch.
LEMMA SubReductionInv ==
  ASSUME FreshInv, SubReduction
  PROVE  FreshInv'
<1>1. /\ stack # <<>> /\ BranchOK(Top.now) /\ StackOK(stack) /\ Top.mode = "arm"
      /\ BranchesOK(cases) /\ forks \in Nat
  BY CurrentOK, TopOK DEF SubReduction, In
<1>2. ReductionOK(Running(new_inheriting(Top.now)))
  BY <1>1, InheritingOK, RunningOK
<1>3. StackOK(stack')
  BY <1>1, <1>2, PushOK DEF SubReduction, Top
<1> QED
  BY <1>1, <1>3 DEF FreshInv, SubReduction

\* An arm that dies, or whose branch stays on the handle.
LEMMA EndArmInv ==
  ASSUME FreshInv, EndArm
  PROVE  FreshInv'
<1>1. /\ stack # <<>> /\ BranchOK(Top.now) /\ BranchOK(Top.base)
      /\ Top \in Reduction /\ ReductionOK(Top) /\ Top.mode = "arm"
      /\ cases' = cases /\ forks' \in Nat
  BY CurrentOK, TopOK DEF EndArm, In
<1>2. CASE stack' = Replace([Top EXCEPT !.mode = "fork"])
  <2>1. PICK w : w = [Top EXCEPT !.mode = "fork"]
    OBVIOUS
  <2>2. /\ w \in Reduction /\ w.mode = "fork"
        /\ w.base = Top.base /\ w.queue = Top.queue /\ w.out = Top.out
    BY <1>1, <2>1 DEF Reduction, Modes
  <2>3. ReductionOK(w)
    BY <1>1, <2>2 DEF ReductionOK
  <2> QED
    BY <1>1, <1>2, <2>1, <2>3, ReplacedInv
<1>3. CASE stack' = Replace(Received(Top, <<Top.now>>))
  <2>1. ReductionOK(Received(Top, <<Top.now>>))
    BY <1>1, SingleOK, ReceivedOK
  <2> QED
    BY <1>1, <1>3, <2>1, ReplacedInv
<1> QED
  BY <1>2, <1>3 DEF EndArm

\* No branch, one, or several: returned, adopted, or taken one by one.
LEMMA FinishCasesInv ==
  ASSUME FreshInv, stack # <<>>, Top.mode \in {"fork", "each"},
         finish_cases(Top.out), forks' = forks
  PROVE  FreshInv'
<1>1. ReductionOK(Top) /\ Top \in Reduction /\ BranchesOK(Top.out) /\ forks' \in Nat
  BY TopOK DEF ReductionOK
<1>2. CASE Return(<<>>)
  BY <1>2, EmptyOK, ReturnedInv
<1>3. CASE Return(Top.out)
  BY <1>1, <1>3, ReturnedInv
<1>4. CASE Len(Top.out) = 1 /\ stack' = Replace(Adopted(Top, Top.out[1])) /\ UNCHANGED cases
  <2>1. ReductionOK(Adopted(Top, Top.out[1]))
    BY <1>1, <1>4, RunningOK DEF BranchesOK, Adopted
  <2> QED
    BY <1>1, <1>4, <2>1, ReplacedInv
<1>5. CASE stack' = Replace([Top EXCEPT !.mode = "each", !.queue = Top.out, !.out = <<>>])
           /\ UNCHANGED cases
  <2>1. PICK out \in Seq(Branch) : out = Top.out
    BY <1>1 DEF BranchesOK
  <2>n. PICK none : none = <<>> /\ none \in Seq(Branch)
    BY EmptyOK, Zenon DEF BranchesOK
  <2>2. PICK w : w = [Top EXCEPT !.mode = "each", !.queue = out, !.out = none]
    OBVIOUS
  <2>3. w \in Reduction /\ w.mode = "each" /\ w.queue = out /\ w.out = none
    BY <1>1, <2>1, <2>n, <2>2 DEF Reduction, Modes
  <2>4. ReductionOK(w)
    BY <1>1, <2>1, <2>n, <2>3, EmptyOK DEF ReductionOK
  <2>5. stack' = Replace(w)
    BY <1>5, <2>1, <2>n, <2>2, Zenon
  <2> QED
    BY <1>1, <1>5, <2>4, <2>5, ReplacedInv
<1> QED
  BY <1>2, <1>3, <1>4, <1>5 DEF finish_cases

\* The next branch is taken out of the queue into a reduction of its own.
LEMMA ContinueBranchInv ==
  ASSUME FreshInv, ContinueBranch
  PROVE  FreshInv'
<1>1. /\ stack # <<>> /\ Top.mode = "each" /\ Top.queue # <<>>
      /\ ReductionOK(Top) /\ Top \in Reduction /\ BranchesOK(Top.queue)
      /\ StackOK(stack) /\ BranchesOK(cases) /\ forks \in Nat
  BY TopOK DEF ContinueBranch, In, ReductionOK
<1>2. PICK rest : rest = Tail(Top.queue)
  OBVIOUS
<1>3. BranchesOK(rest) /\ rest \in Seq(Branch) /\ BranchOK(Head(Top.queue))
  <2>1. Top.queue \in Seq(Branch) /\ Len(Top.queue) \in Nat \ {0}
    BY <1>1 DEF BranchesOK
  <2>2. rest \in Seq(Branch) /\ Len(rest) = Len(Top.queue) - 1
    BY <1>1, <1>2, <2>1
  <2>3. ASSUME NEW i \in 1..Len(rest) PROVE BranchOK(rest[i])
    <3>1. rest[i] = Top.queue[i + 1] /\ i + 1 \in 1..Len(Top.queue)
      BY <1>1, <1>2, <2>1, <2>2
    <3> QED
      BY <3>1, <1>1 DEF BranchesOK
  <2>4. Head(Top.queue) = Top.queue[1] /\ 1 \in 1..Len(Top.queue)
    BY <2>1
  <2> QED
    BY <1>1, <2>2, <2>3, <2>4 DEF BranchesOK
<1>4. PICK w : w = [Top EXCEPT !.queue = rest]
  OBVIOUS
<1>5. /\ w \in Reduction /\ w.mode = "each" /\ w.queue = rest /\ w.out = Top.out
  BY <1>1, <1>3, <1>4 DEF Reduction
<1>6. ReductionOK(w)
  BY <1>1, <1>3, <1>5 DEF ReductionOK
<1>7. PICK s : s = Replace(w)
  OBVIOUS
<1>8. StackOK(s) /\ s # <<>> /\ s[Len(s)].mode = "each"
  <2>1. StackOK(s) /\ Len(s) = Len(stack)
    BY <1>1, <1>6, <1>7, ReplaceOK
  <2>2. stack \in Seq(Reduction) /\ Len(stack) \in 1..Len(stack) /\ s \in Seq(Reduction)
    BY <1>1, <2>1 DEF StackOK
  <2>3. s[Len(stack)] = w
    BY <1>7, <2>2 DEF Replace
  <2> QED
    BY <1>5, <2>1, <2>2, <2>3
<1>9. PICK r : r = Running(new_inheriting(Head(Top.queue)))
  OBVIOUS
<1>10. ReductionOK(r)
  BY <1>3, <1>9, InheritingOK, RunningOK
<1>11. stack' = Append(s, r)
  BY <1>2, <1>4, <1>7, <1>9, Zenon DEF ContinueBranch
<1>12. StackOK(stack')
  BY <1>8, <1>10, <1>11, PushOK
<1> QED
  BY <1>1, <1>12 DEF FreshInv, ContinueBranch

-----------------------------------------------------------------------------
(* Theorems.                                                               *)

\* avoid of the first system is the constant that is assumed to be next to it.
LEMMA StartIsNew == new(StartSys) = Start
<1> DEFINE S == {0} \cup {v + 1 : v \in StartSys}
<1>1. Start \in S /\ \A v \in StartSys : v < Start
  <2>1. (Start - 1) + 1 = Start /\ Start - 1 \in StartSys
    BY StartAssumption
  <2> QED
    BY <2>1, StartAssumption
<1>2. ASSUME NEW n \in S, \A v \in StartSys : v < n PROVE n = Start
  BY <1>2, StartAssumption
<1> QED
  BY <1>1, <1>2, Zenon DEF new, avoid

\* The step begins with the counter above its system.
LEMMA InitInv ==
  ASSUME Init
  PROVE  FreshInv
<1> DEFINE b == [sys |-> StartSys, hist |-> <<>>, cnt |-> Start]
<1>1. BranchOK(b)
  <2>1. b \in Branch /\ Start \in Nat /\ StartSys \subseteq 0..(Start - 1)
    <3>1. <<>> \in Seq(Nat) /\ StartSys \in SUBSET Nat
      BY StartAssumption
    <3> QED
      BY <3>1, StartAssumption DEF Branch
  <2> QED
    BY <2>1 DEF BranchOK
<1>2. ReductionOK(Running(b))
  BY <1>1, RunningOK
<1> HIDE DEF b
<1>3. stack = <<Running(b)>> /\ cases = <<>> /\ forks = 0
  BY StartIsNew, Zenon DEF Init, b
<1>4. StackOK(stack)
  BY <1>2, <1>3 DEF StackOK, ReductionOK
<1> QED
  BY <1>3, <1>4, EmptyOK DEF FreshInv

\* Every step keeps it.
LEMMA StepInv ==
  ASSUME FreshInv, [Next]_vars
  PROVE  FreshInv'
<1>1. CASE Draw
  BY <1>1, DrawInv
<1>2. CASE Finish
  BY <1>2, FinishInv
<1>3. CASE \/ solve_action_goal \/ solve_premise_goal \/ solve_split_goal \/ solve_disj_goal
           \/ solve_subterm_goal \/ solve_term_eqs \/ apply_prepared_source_cases
  BY <1>3, SolveInv
<1>4. CASE solve_chain_goal
  BY <1>4, ChainInv
<1>5. CASE ChainExtend
  BY <1>5, ChainExtendInv
<1>6. CASE BeginArm
  BY <1>6, BeginArmInv
<1>7. CASE SubReduction
  BY <1>7, SubReductionInv
<1>8. CASE EndArm
  BY <1>8, EndArmInv
<1>9. CASE EndFork \/ EndEach
  BY <1>9, FinishCasesInv DEF EndFork, EndEach, In
<1>10. CASE ContinueBranch
  BY <1>10, ContinueBranchInv
<1>11. CASE UNCHANGED vars
  BY <1>11 DEF FreshInv, vars
<1> QED
  BY <1>1, <1>2, <1>3, <1>4, <1>5, <1>6, <1>7, <1>8, <1>9, <1>10, <1>11 DEF Next

\* In every reachable state every branch in hand has a counter above its system
\* that has moved by its own draws only (reduction.rs, maude_proc.rs).
THEOREM FreshInvariant == Spec => []FreshInv
BY InitInv, StepInv, PTL DEF Spec

\* Every branch that any reduction has in hand is as the invariant says.
LEMMA BranchesAreOK ==
  ASSUME FreshInv
  PROVE  \A b \in Branches : BranchOK(b)
<1>1. ASSUME NEW i \in 1..Len(stack), NEW b \in BranchesOf(stack[i]) PROVE BranchOK(b)
  <2>1. ReductionOK(stack[i])
    BY DEF FreshInv, StackOK
  <2> QED
    BY <2>1, <1>1 DEF BranchesOf, Listed, ReductionOK, BranchesOK
<1>2. \A b \in Listed(cases) : BranchOK(b)
  BY DEF FreshInv, Listed, BranchesOK
<1>3. ASSUME NEW b \in Branches PROVE BranchOK(b)
  <2>1. b \in Listed(cases) \/ \E i \in 1..Len(stack) : b \in BranchesOf(stack[i])
    <3>1. b \in (UNION {BranchesOf(stack[i]) : i \in 1..Len(stack)}) \/ b \in Listed(cases)
      BY <1>3, Zenon DEF Branches
    <3> QED
      BY <3>1, Zenon
  <2> QED
    BY <2>1, <1>1, <1>2
<1> QED
  BY <1>3

\* What a branch draws depends on that branch alone: reset_counter_to hides the
\* arms before it, and a branch that is handed on keeps its counter.
THEOREM OwnDrawsOnlyHolds == Spec => []OwnDrawsOnly
<1>1. FreshInv => OwnDrawsOnly
  BY BranchesAreOK DEF OwnDrawsOnly, BranchOK
<1> QED
  BY <1>1, FreshInvariant, PTL

\* No branch gets an index twice, or one that was in its system at the start.
THEOREM DrawnOnceHolds == Spec => []DrawnOnce
<1>1. ASSUME FreshInv, NEW b \in Branches
      PROVE  /\ \A i, j \in 1..Len(b.hist) : b.hist[i] = b.hist[j] => i = j
             /\ \A i \in 1..Len(b.hist) : b.hist[i] \notin StartSys
  <2>1. \A i \in 1..Len(b.hist) : b.hist[i] = Start + i - 1
    BY <1>1, BranchesAreOK DEF BranchOK
  <2>2. Len(b.hist) \in Nat
    BY <1>1, BranchesAreOK DEF BranchOK, Branch
  <2> QED
    BY <2>1, <2>2, StartAssumption
<1>2. FreshInv => DrawnOnce
  BY <1>1 DEF DrawnOnce
<1> QED
  BY <1>2, FreshInvariant, PTL
=============================================================================
