---------------------------- MODULE FreshCounter ----------------------------
(***************************************************************************)
(* The fresh-variable counter through one proof step.  The calculus is a   *)
(* reduction over FreshT below DisjT: every branch of a disjunction has    *)
(* its own copy of the counter, taken where the branch begins.  The code   *)
(* has handles with a mutable counter instead (tamarin-term/src/           *)
(* maude_proc.rs): a Reduction has one handle, the arms of a fork draw on  *)
(* it one after the other and rewind it in between, sub-reductions get a   *)
(* handle of their own that continues from the arm, and a branch that      *)
(* survives alone is adopted together with its counter                     *)
(* (tamarin-theory/src/constraint/solver/reduction.rs, sources.rs).        *)
(*                                                                         *)
(* A constraint system is the set of the variable indices in it.  What is  *)
(* drawn may stay in the system or be gone at once (a transient witness).  *)
(* How many arms a fork has and which die is left open.                    *)
(*                                                                         *)
(* This is the counter of a proof step, where REFINE_FLOOR is 0: the floor *)
(* that source refinement puts under its reductions is left out.  A system *)
(* without variables, for which solve_subterm_goal lifts the counter from  *)
(* 0 to 1, is excluded by StartAssumption.                                 *)
(***************************************************************************)
EXTENDS Naturals, Sequences

CONSTANTS
  StartSys,   \* the system of the node to be expanded
  Start,      \* avoid of it: one more than its greatest index
  MaxArms,    \* arms of a fork
  MaxDraws,   \* indices drawn in one branch
  MaxForks,   \* forks in the step
  MaxDepth    \* nested reductions

ASSUME StartAssumption ==
  /\ Start \in Nat \ {0}
  /\ StartSys \subseteq 0..(Start - 1)
  /\ Start - 1 \in StartSys
  /\ {MaxArms, MaxDraws, MaxForks, MaxDepth} \subseteq Nat

VARIABLES
  stack,   \* the reductions under way, the innermost last
  cases,   \* the branches that the step has produced
  forks    \* forks so far

vars == <<stack, cases, forks>>

\* A branch: its system, all it has drawn, its next index.
Branch == [sys : SUBSET Nat, hist : Seq(Nat), cnt : Nat]

\* One more than the greatest index, 0 if there is none.
avoid(sys) == CHOOSE n \in {0} \cup {v + 1 : v \in sys} : \A v \in sys : v < n

ensure_above(cnt, sys) == IF \A v \in sys : v < cnt THEN cnt ELSE avoid(sys)

\* What the first index of a reduction is.
new(sys) == avoid(sys)

\* A variant: the sub-reduction knows only the variables that are left.
Detached(b) == [b EXCEPT !.cnt = new(b.sys)]

new_inheriting(b) == [b EXCEPT !.cnt = ensure_above(b.cnt, b.sys)]

\* One index, above everything in the system.
Drawn(b, keep) ==
  LET next == ensure_above(b.cnt, b.sys)
  IN [sys |-> IF keep THEN b.sys \cup {next} ELSE b.sys,
      hist |-> Append(b.hist, next), cnt |-> next + 1]

-----------------------------------------------------------------------------
(* Reductions on the stack.                                                *)

Modes == {"run", "fork", "arm", "each"}

\* Forks by what opens them: the arms of the rewinding ones draw on the handle
\* of the reduction, the others have a handle of their own from the beginning.
Rewinding == {"candidates", "premise", "chain", "split", "termEqs", "source"}
Kinds == Rewinding \cup {"acts", "direct", "disj", "subterm"}

\* Those whose arms may end on the shared handle.
InPlace == {"termEqs", "source"}

Reduction == [mode : Modes, kind : Kinds, now : Branch, base : Branch,
              left : Nat, queue : Seq(Branch), out : Seq(Branch)]

Running(b) == [mode |-> "run", kind |-> "disj", now |-> b, base |-> b,
               left |-> 0, queue |-> <<>>, out |-> <<>>]

Top == stack[Len(stack)]
Replace(r) == [stack EXCEPT ![Len(stack)] = r]
In(mode) == stack # <<>> /\ Top.mode = mode

Init ==
  /\ stack = <<Running([sys |-> StartSys, hist |-> <<>>, cnt |-> new(StartSys)])>>
  /\ cases = <<>>
  /\ forks = 0

\* The caller gets the branches: an arm is over, a loop over cases goes on.
Received(r, branches) ==
  [r EXCEPT !.out = r.out \o branches, !.mode = IF r.mode = "arm" THEN "fork" ELSE r.mode]

Return(branches) ==
  IF Len(stack) = 1
  THEN stack' = <<>> /\ cases' = branches
  ELSE /\ stack' = [i \in 1..(Len(stack) - 1) |->
                      IF i = Len(stack) - 1 THEN Received(stack[i], branches) ELSE stack[i]]
       /\ UNCHANGED cases

-----------------------------------------------------------------------------
(* Draws and ends of a reduction that runs, or of an arm on its handle.    *)

CanDraw(b) == Len(b.hist) < MaxDraws

\* reserve_idxs, fresh_idx: rule variables, witnesses, nodes, binders.
Draw ==
  /\ In("run") \/ (In("arm") /\ Top.kind \in Rewinding)
  /\ CanDraw(Top.now)
  /\ \E keep \in BOOLEAN : stack' = Replace([Top EXCEPT !.now = Drawn(@, keep)])
  /\ UNCHANGED <<cases, forks>>

\* A reduction ends linearly, or in a contradiction.
Finish ==
  /\ In("run")
  /\ Return(<<Top.now>>) \/ Return(<<>>)
  /\ UNCHANGED forks

-----------------------------------------------------------------------------
(* Forks.                                                                  *)

CanFork == In("run") /\ forks < MaxForks

Opened(kind, b, n, out) == [mode |-> "fork", kind |-> kind, now |-> b, base |-> b,
                            left |-> n, queue |-> <<>>, out |-> out]

Open(kind, b) ==
  \E n \in 1..MaxArms :
    /\ stack' = Replace(Opened(kind, b, n, <<>>))
    /\ forks' = forks + 1
    /\ UNCHANGED cases

\* The actions of the node that is there already, or a new node with each of
\* the rules, whose variables are renamed first.
solve_action_goal ==
  /\ CanFork
  /\ \E kind \in {"acts", "candidates"} : Open(kind, Top.now)

\* All rules get the node that is drawn before the fork.
solve_premise_goal ==
  /\ CanFork /\ CanDraw(Top.now)
  /\ Open("premise", Drawn(Top.now, TRUE))

\* The direct edge first, without a new node.
solve_chain_goal ==
  /\ CanFork
  /\ stack' = Replace(Opened("direct", Top.now, 1, <<>>))
  /\ forks' = forks + 1
  /\ UNCHANGED cases

\* Then the node is drawn, and the destructors are tried with it.
ChainExtend ==
  /\ In("fork") /\ Top.kind = "direct" /\ Top.left = 0
  /\ CanDraw(Top.base)
  /\ \E n \in 0..MaxArms :
       stack' = Replace(Opened("chain", Drawn(Top.base, TRUE), n, Top.out))
  /\ UNCHANGED <<cases, forks>>

solve_split_goal == CanFork /\ Open("split", Top.now)

solve_disj_goal == CanFork /\ Open("disj", Top.now)

\* New variables for the splits may have been drawn.
solve_subterm_goal == CanFork /\ Open("subterm", Top.now)

\* The unifiers, each simplified on the handle.
solve_term_eqs == CanFork /\ Open("termEqs", Top.now)

\* The cases of a precomputed source, each instantiated and conjoined.
apply_prepared_source_cases == CanFork /\ Open("source", Top.now)

\* A variant: an arm goes on where the one before it stopped.
Threaded(r) == [r.base EXCEPT !.cnt = r.now.cnt]

\* reset_counter_to the base; the system of the fork is cloned.
Rewound(r) == r.base

BeginArm ==
  /\ In("fork") /\ Top.left > 0
  /\ stack' = Replace([Top EXCEPT !.mode = "arm", !.left = @ - 1, !.now = Rewound(Top)])
  /\ UNCHANGED <<cases, forks>>

\* The rest of the arm in a reduction of its own.
SubReduction ==
  /\ In("arm") /\ Top.kind # "termEqs"
  /\ Len(stack) < MaxDepth
  /\ stack' = Append(stack, Running(new_inheriting(Top.now)))
  /\ UNCHANGED <<cases, forks>>

\* The arm dies, or its branch is kept with the counter it has reached.
EndArm ==
  /\ In("arm")
  /\ \/ stack' = Replace([Top EXCEPT !.mode = "fork"])
     \/ /\ Top.kind \in InPlace
        /\ stack' = Replace(Received(Top, <<Top.now>>))
  /\ UNCHANGED <<cases, forks>>

\* The only branch is adopted with its counter.
Adopted(r, b) == Running(b)

\* None: contradictory.  One: adopted, the reduction goes on.  More: the caller
\* gets them, or each goes on in a reduction of its own.  (The loops also lift
\* the handle to the greatest counter of their arms; whatever comes next sets it
\* again, so that this is not seen.)
finish_cases(out) ==
  \/ /\ Len(out) = 0
     /\ Return(<<>>)
  \/ /\ Len(out) = 1
     /\ stack' = Replace(Adopted(Top, out[1]))
     /\ UNCHANGED cases
  \/ /\ Len(out) > 1
     /\ Return(out)
  \/ /\ Len(out) > 1 /\ Len(stack) < MaxDepth
     /\ stack' = Replace([Top EXCEPT !.mode = "each", !.queue = out, !.out = <<>>])
     /\ UNCHANGED cases

EndFork ==
  /\ In("fork") /\ Top.left = 0 /\ Top.kind # "direct"
  /\ finish_cases(Top.out)
  /\ UNCHANGED forks

\* The rest of the work, branch by branch.
ContinueBranch ==
  /\ In("each") /\ Top.queue # <<>>
  /\ stack' = Append(Replace([Top EXCEPT !.queue = Tail(@)]),
                     Running(new_inheriting(Head(Top.queue))))
  /\ UNCHANGED <<cases, forks>>

EndEach ==
  /\ In("each") /\ Top.queue = <<>>
  /\ finish_cases(Top.out)
  /\ UNCHANGED forks

Next ==
  \/ Draw \/ Finish
  \/ solve_action_goal \/ solve_premise_goal \/ solve_chain_goal \/ ChainExtend
  \/ solve_split_goal \/ solve_disj_goal \/ solve_subterm_goal \/ solve_term_eqs
  \/ apply_prepared_source_cases
  \/ BeginArm \/ SubReduction \/ EndArm \/ EndFork \/ ContinueBranch \/ EndEach

Spec == Init /\ [][Next]_vars

-----------------------------------------------------------------------------
(* Properties                                                              *)

Listed(branches) == {branches[i] : i \in 1..Len(branches)}

\* The branches that a reduction has in hand.
BranchesOf(r) ==
  (IF r.mode \in {"run", "arm"} THEN {r.now} ELSE {})
  \cup (IF r.mode \in {"fork", "arm"} THEN {r.base} ELSE {})
  \cup Listed(r.queue) \cup Listed(r.out)

Branches == (UNION {BranchesOf(stack[i]) : i \in 1..Len(stack)}) \cup Listed(cases)

\* However often the counter is rewound, no branch gets an index twice, not even
\* one that has left the system again, nor one of the system it began with.
DrawnOnce ==
  \A b \in Branches :
    /\ \A i, j \in 1..Len(b.hist) : b.hist[i] = b.hist[j] => i = j
    /\ \A i \in 1..Len(b.hist) : b.hist[i] \notin StartSys

\* The numbers that a branch draws depend on that branch alone: they follow
\* avoid of the first system without a gap, whatever the arms before it drew and
\* however it was handed from reduction to reduction.
OwnDrawsOnly ==
  \A b \in Branches :
    /\ b.cnt = Start + Len(b.hist)
    /\ \A i \in 1..Len(b.hist) : b.hist[i] = Start + i - 1
=============================================================================
