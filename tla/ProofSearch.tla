---------------------------- MODULE ProofSearch ----------------------------
(***************************************************************************)
(* The automatic proof search of one lemma                                 *)
(* (tamarin-theory/src/constraint/solver/search.rs).                       *)
(*                                                                         *)
(* A constraint system either is finished (solved, contradictory or        *)
(* unfinishable) or a proof method splits it into named cases.  The search *)
(* builds the tree of ProofNodes under a cut strategy: iterative-deepening *)
(* DFS (the default), one serial DFS, BFS, stop after the first sorry, or  *)
(* no cut.  It keeps the tree between deepening rounds and re-expands only *)
(* the stubs it parked at the depth limit.  Under the default strategy the *)
(* cases of a shallow node are expanded in parallel by rayon workers, each *)
(* with thread-local copies of the limits and of DEPTH_LIMIT_HIT.          *)
(*                                                                         *)
(* The solver itself is abstract: a world says what is_finished and the    *)
(* method ranking find at every path of cases.  Case names are numbers, in *)
(* the order of the names.  One action is one call's work on one node;     *)
(* expansions that run in parallel interleave.                             *)
(***************************************************************************)
EXTENDS Naturals, SequencesExt

CONSTANTS CaseNames,     \* the names a case can have, in the order of the numbers
          Worlds,        \* the search spaces: path of cases -> kind of system
          Setups,        \* the ProofContexts: strategy, quantifier, --bound, ...
          InitialDepth,  \* the first depth limit (4)
          FanOutDepth,   \* the deepest node whose cases run in parallel (16)
          DepthCap,      \* the last depth limit (usize::MAX / 4)
          Unlimited      \* usize::MAX: no depth limit, no bound

Finished == {"Solved", "Contradictory", "Unfinishable"}
\* "error": the ranking fails; "stuck": no method applies; "quit": the oracle
\* ranks nothing and says so.
Kinds == Finished \cup {"open", "stuck", "quit", "error"}
Strategies == {"Dfs", "SeqDfs", "Bfs", "AfterSorry", "Nothing"}

IsWorld(w) ==
  /\ <<>> \in DOMAIN w
  /\ \A n \in DOMAIN w :
       /\ n \in Seq(CaseNames) /\ Len(n) < DepthCap /\ w[n] \in Kinds
       /\ n # <<>> => Front(n) \in DOMAIN w /\ w[Front(n)] = "open"

ASSUME SearchAssumption ==
  /\ CaseNames \subseteq Nat
  /\ \A w \in Worlds : IsWorld(w)
  /\ Setups \subseteq [cut : Strategies, exists : BOOLEAN, fallible : BOOLEAN, bound : Nat,
                       timed : BOOLEAN, keep : {"DropAll", "KeepSolved", "KeepAll"}]
  /\ InitialDepth \in Nat \ {0} /\ FanOutDepth \in Nat
  /\ DepthCap \in Nat /\ Unlimited \in Nat /\ InitialDepth < DepthCap /\ DepthCap <= Unlimited

VARIABLES
  world,      \* the search space, fixed
  setup,      \* the ProofContext, fixed
  node,       \* path -> ProofNode, for the nodes that exist
  live,       \* the nodes that still hold their System
  max_depth,  \* MAX_DEPTH
  hit,        \* the jobs whose DEPTH_LIMIT_HIT is set; a job is named by its root
  late,       \* the deadline has passed
  phase       \* "search", "done" or "error"

vars == <<world, setup, node, live, max_depth, hit, late, phase>>

\* Where a call on a node is: created but not visited; expanding its cases;
\* walked again by re_expand, or waiting for that; returned.
Places == {"new", "expanding", "again", "walking", "returned"}
Sorries == {"bound hit", "depth limit", "deadline reached", "no method", "Oracle ranked no proof methods",
            "sorry", "bound reached", "ignored"}
Methods == Finished \cup Sorries \cup {"unset", "step"}
Statuses == Finished \cup {"Open", "Sorry"}

New == [at |-> "new", method |-> "unset", status |-> "Open"]
Returned(m, s) == [at |-> "returned", method |-> m, status |-> s]

-----------------------------------------------------------------------------
(* The tree.                                                               *)

Cases(n) == {m \in {Append(n, c) : c \in CaseNames} : m \in DOMAIN world}
Children(n) == {m \in {Append(n, c) : c \in CaseNames} : m \in DOMAIN node}
Earlier(m, n) ==     \* m lies in an earlier case than n
  \E i \in 1..Len(m) : /\ i <= Len(n) /\ m[i] < n[i]
                       /\ SubSeq(m, 1, i - 1) = SubSeq(n, 1, i - 1)

\* Variants for the mutation runs: a stub taken for any sorry, and a roll-up
\* that lets an unfinishable case hide a sorry.
AnySorry(n) == node[n].status = "Sorry"
UnfinishableFirst(S) ==
  IF "Solved" \in S THEN "Solved"
  ELSE IF "Unfinishable" \in S THEN "Unfinishable"
  ELSE IF "Sorry" \in S \/ S = {} THEN "Sorry" ELSE "Contradictory"

is_depth_limited(n) == node[n].method = "depth limit" /\ node[n].status = "Sorry"

rollup_status(S) ==
  IF "Solved" \in S THEN "Solved"
  ELSE IF "Sorry" \in S THEN "Sorry"
  ELSE IF "Unfinishable" \in S THEN "Unfinishable"
  ELSE IF "Contradictory" \in S THEN "Contradictory" ELSE "Sorry"

should_parallel_expand(n) ==
  /\ setup.cut = "Dfs" /\ ~setup.exists /\ ~setup.fallible
  /\ Cardinality(Cases(n)) >= 2 /\ Len(n) <= FanOutDepth

\* Variant: a sorry never ends the loop.
AbortOnSolved == IF setup.cut \in {"Bfs", "Nothing"} THEN {} ELSE {"Solved"}

\* The sibling loop's abort policy, per strategy.
AbortOn == CASE setup.cut \in {"Dfs", "SeqDfs"} -> {"Solved"}
             [] setup.cut = "AfterSorry" -> {"Solved", "Sorry"}
             [] OTHER -> {}
Aborts(n) == \E m \in Children(n) : node[m].at = "returned" /\ node[m].status \in AbortOn

\* Variant: the walk stops at an attack under every strategy.
SkipsAlways(n) == late \/ \E m \in Children(n) : node[m].status = "Solved"

\* The walk's: it looks at the clock too, and BFS walks every level.
Skips(n) == late \/ (setup.cut # "Bfs" /\ \E m \in Children(n) : node[m].status = "Solved")

\* The walk or the sibling loop has come to n.
Reached(n) ==
  n = <<>> \/ LET p == Front(n)
                  before == \A m \in Children(p) : Last(m) < Last(n) => node[m].at = "returned"
              IN  \/ /\ node[p].at = "expanding"
                     /\ should_parallel_expand(p) \/ (before /\ ~Aborts(p))
                  \/ node[p].at = "walking" /\ before /\ ~Skips(p)

\* expand is called on n: for the first time, or on a stub.
Expands(n) == /\ phase = "search"
              /\ node[n].at = "new" \/ (node[n].at = "again" /\ is_depth_limited(n))
              /\ Reached(n)

\* The rayon job that works on n: the nearest case of a fan-out above it.
Job(n) ==
  LET roots == {i \in 0..Len(n) :
                  i = 0 \/ LET p == SubSeq(n, 1, i - 1)
                           IN  node[p].at = "expanding" /\ should_parallel_expand(p)}
  IN  SubSeq(n, 1, Max(roots))

\* Variant: the stub loses its system.
DropsStubs(m) == setup.keep = "DropAll" \/ (setup.keep = "KeepSolved" /\ m # "Solved")

drop_sys_after_expand(m) ==
  m # "depth limit" /\ (setup.keep = "DropAll" \/ (setup.keep = "KeepSolved" /\ m # "Solved"))

\* expand returns on n, with no cases.
Return(n, m, s) ==
  /\ node' = [node EXCEPT ![n] = Returned(m, s)]
  /\ live' = IF drop_sys_after_expand(m) THEN live \ {n} ELSE live

-----------------------------------------------------------------------------
Init ==
  /\ world \in Worlds
  /\ setup \in Setups
  /\ ~setup.fallible => \A n \in DOMAIN world : world[n] # "error"
  /\ node = [n \in {<<>>} |-> New]
  /\ live = {<<>>}
  /\ max_depth = CASE setup.cut = "Dfs" -> InitialDepth
                   [] setup.cut = "Bfs" -> 2
                   [] OTHER -> Unlimited
  /\ hit = {}
  /\ late = FALSE
  /\ phase = "search"

\* Variant: the node is parked, and opened again in every round.
BoundParks(n) ==
  /\ Expands(n) /\ Len(n) >= setup.bound
  /\ Return(n, "depth limit", "Sorry")
  /\ hit' = hit \cup {Job(n)}
  /\ UNCHANGED <<world, setup, max_depth, late, phase>>

\* --bound: the node is cut before anything is asked of it, for good.
Bound(n) ==
  /\ Expands(n) /\ Len(n) >= setup.bound
  /\ Return(n, "bound hit", "Sorry")
  /\ UNCHANGED <<world, setup, max_depth, hit, late, phase>>

Evaluates(n) == Expands(n) /\ Len(n) < setup.bound

\* Variant: a solved node is seen before the depth limit.
SolvedBeforeLimit(n) ==
  /\ Evaluates(n) /\ Len(n) >= max_depth
  /\ IF world[n] = "Solved"
       THEN Return(n, "Solved", "Solved") /\ UNCHANGED hit
       ELSE Return(n, "depth limit", "Sorry") /\ hit' = hit \cup {Job(n)}
  /\ UNCHANGED <<world, setup, max_depth, late, phase>>

\* The depth limit of this round: park the node as a stub, even a solved one.
Park(n) ==
  /\ Evaluates(n) /\ Len(n) >= max_depth
  /\ Return(n, "depth limit", "Sorry")
  /\ hit' = hit \cup {Job(n)}
  /\ UNCHANGED <<world, setup, max_depth, late, phase>>

\* is_finished
Close(n) ==
  /\ Evaluates(n) /\ Len(n) < max_depth
  /\ world[n] \in Finished
  /\ Return(n, world[n], world[n])
  /\ UNCHANGED <<world, setup, max_depth, hit, late, phase>>

Opens(n) == Evaluates(n) /\ Len(n) < max_depth /\ world[n] \notin Finished

\* Variant: running out of time closes the case.
CloseWhenLate(n) ==
  /\ Opens(n) /\ late
  /\ Return(n, "step", "Contradictory")
  /\ UNCHANGED <<world, setup, max_depth, hit, late, phase>>

\* The deadline has passed.
GiveUp(n) ==
  /\ Opens(n) /\ late
  /\ Return(n, "deadline reached", "Sorry")
  /\ UNCHANGED <<world, setup, max_depth, hit, late, phase>>

\* select_open_method finds nothing: no method applies, or the deadline passes
\* meanwhile, which makes exec_proof_method refuse them all.
NoMethod(n) ==
  /\ Opens(n) /\ ~late
  /\ \/ world[n] = "stuck" /\ UNCHANGED late
     \/ world[n] # "error" /\ setup.timed /\ late' = TRUE
  /\ Return(n, "no method", "Sorry")
  /\ UNCHANGED <<world, setup, max_depth, hit, phase>>

\* A method without cases closes the node, unless it is the oracle's sorry.
NoCases(n) ==
  /\ Opens(n) /\ ~late
  /\ \/ world[n] = "quit" /\ Return(n, "Oracle ranked no proof methods", "Sorry")
     \/ world[n] = "open" /\ Cases(n) = {} /\ Return(n, "step", "Contradictory")
  /\ UNCHANGED <<world, setup, max_depth, hit, late, phase>>

\* The ranking fails: `?` unwinds the search and drops the tree.
Fail(n) ==
  /\ Opens(n) /\ ~late /\ world[n] = "error"
  /\ phase' = "error"
  /\ UNCHANGED <<world, setup, node, live, max_depth, hit, late>>

\* The method splits the system: each case gets a node, with no status yet.
Branch(n) ==
  /\ Opens(n) /\ ~late /\ world[n] = "open" /\ Cases(n) # {}
  /\ node' = [m \in DOMAIN node \cup Cases(n) |->
                IF m = n THEN [at |-> "expanding", method |-> "step", status |-> "Open"]
                ELSE IF m \in Cases(n) THEN New ELSE node[m]]
  /\ live' = live \cup Cases(n)
  /\ UNCHANGED <<world, setup, max_depth, hit, late, phase>>

\* Variant: the flag of the thread is overwritten with what the workers found.
JoinOverwrites(n) ==
  hit' = IF Cases(n) \cap hit # {} THEN (hit \ Cases(n)) \cup {Job(n)}
         ELSE IF should_parallel_expand(n) THEN hit \ {Job(n)} ELSE hit

\* A fan-out ORs the flags of its workers into the flag of its own thread.
JoinHits(n) ==
  hit' = IF Cases(n) \cap hit = {} THEN hit ELSE (hit \ Cases(n)) \cup {Job(n)}

\* The case loop of expand_inner ends: cases it did not get to are dropped, or
\* kept as sorry leaves by AfterSorry, and the status is rolled up.
Leave(n) ==
  /\ phase = "search" /\ node[n].at = "expanding"
  /\ LET rest == {m \in Cases(n) : node[m].at = "new"}
         kept == IF setup.cut = "AfterSorry" THEN rest ELSE {}
         leaf(m) == IF world[m] \in Finished THEN Returned(world[m], world[m])
                    ELSE Returned("sorry", "Sorry")
         final == [m \in (DOMAIN node \ rest) \cup kept |-> IF m \in kept THEN leaf(m) ELSE node[m]]
     IN  /\ \A m \in Cases(n) : node[m].at \in {"new", "returned"}
         /\ rest # {} => Aborts(n) /\ ~should_parallel_expand(n)
         /\ node' = [final EXCEPT ![n] =
              Returned("step", rollup_status({final[m].status : m \in Cases(n) \cap DOMAIN final}))]
         /\ live' = (live \ (rest \ kept)) \ (IF drop_sys_after_expand("step") THEN {n} ELSE {})
  /\ JoinHits(n)
  /\ UNCHANGED <<world, setup, max_depth, late, phase>>

-----------------------------------------------------------------------------
(* re_expand_depth_limited on a node that is no stub.                      *)

\* What has an answer, or is a final sorry, is left alone; otherwise the walk
\* goes on to the cases.
Walk(n) ==
  /\ phase = "search"
  /\ node[n].at = "again" /\ ~is_depth_limited(n) /\ Reached(n)
  /\ IF node[n].status \in Finished \/ Children(n) = {}
       THEN node' = [node EXCEPT ![n].at = "returned"]
       ELSE node' = [m \in DOMAIN node |->
                       IF m = n THEN [node[m] EXCEPT !.at = "walking"]
                       ELSE IF m \in Children(n) THEN [node[m] EXCEPT !.at = "again"] ELSE node[m]]
  /\ UNCHANGED <<world, setup, live, max_depth, hit, late, phase>>

LeaveWalk(n) ==
  /\ phase = "search" /\ node[n].at = "walking"
  /\ \A m \in Children(n) : node[m].at \in {"again", "returned"}
  /\ (\E m \in Children(n) : node[m].at = "again") => Skips(n)
  /\ node' = [m \in DOMAIN node |->
                IF m = n THEN Returned(node[n].method, rollup_status({node[c].status : c \in Children(n)}))
                ELSE IF m \in Children(n) THEN [node[m] EXCEPT !.at = "returned"] ELSE node[m]]
  /\ UNCHANGED <<world, setup, live, max_depth, hit, late, phase>>

-----------------------------------------------------------------------------
(* The rounds of run_proof_search_at_depth.                                *)

RoundOver == phase = "search" /\ node[<<>>].at = "returned"

Deepen(d) ==
  /\ max_depth' = d
  /\ hit' = {}
  /\ node' = [node EXCEPT ![<<>>].at = "again"]
  /\ UNCHANGED <<world, setup, live, late, phase>>

Stop(final) ==
  /\ phase' = "done"
  /\ node' = final
  /\ live' = live \cap DOMAIN final
  /\ UNCHANGED <<world, setup, max_depth, hit, late>>

SolvedLeaves == {n \in DOMAIN node : node[n].status = "Solved" /\ Children(n) = {}}

\* extract_solved_path: keep the path to the first solved leaf only.
Extracted ==
  LET first == CHOOSE n \in SolvedLeaves : \A m \in SolvedLeaves : ~Earlier(m, n)
  IN  [n \in {m \in DOMAIN node : IsPrefix(m, first)} |-> node[n]]

DfsStops == \/ node[<<>>].status \in {"Solved", "Contradictory"}
            \/ late
            \/ <<>> \notin hit
            \/ max_depth >= DepthCap

\* SeqDfs, Nothing and AfterSorry have a single round.
EndDfs ==
  /\ RoundOver /\ setup.cut \notin {"Bfs"}
  /\ setup.cut = "Dfs" => DfsStops
  /\ Stop(IF setup.cut \in {"Dfs", "SeqDfs"} /\ node[<<>>].status = "Solved" THEN Extracted ELSE node)

\* Variant: the limit does not grow.
SameRoundDfs == RoundOver /\ setup.cut = "Dfs" /\ ~DfsStops /\ Deepen(max_depth)

NextRoundDfs ==
  RoundOver /\ setup.cut = "Dfs" /\ ~DfsStops /\ Deepen(Min({2 * max_depth, DepthCap}))

\* bfs_check_level at the current level.
Level == max_depth - 1
BfsFound == \E n \in DOMAIN node : Len(n) = Level /\ node[n].method = "Solved"
Pending(n) == Len(n) = Level /\ (Children(n) # {} \/ is_depth_limited(n))
BfsIncomplete == \E n \in DOMAIN node : Pending(n)

\* Its building pass: pending nodes become sorries, and statuses follow.
BfsCut ==
  LET dom == {n \in DOMAIN node : Len(n) <= Level}
      seen(n) == \E m \in dom : Len(m) = Level /\ node[m].method = "Solved" /\ Earlier(m, n)
      leaf(n) == IF ~Pending(n) THEN node[n]
                 ELSE Returned(IF seen(n) THEN "ignored" ELSE "bound reached", "Sorry")
      leaves == {n \in dom : Len(n) = Level \/ Children(n) = {}}
  IN  [n \in dom |-> IF n \in leaves THEN leaf(n)
                     ELSE [node[n] EXCEPT !.status =
                             rollup_status({leaf(m).status : m \in {l \in leaves : IsPrefix(n, l)}})]]

EndBfs ==
  /\ RoundOver /\ setup.cut = "Bfs"
  /\ \/ BfsFound /\ Stop(BfsCut)
     \/ ~BfsFound /\ (~BfsIncomplete \/ late \/ Level >= DepthCap) /\ Stop(node)

NextRoundBfs ==
  /\ RoundOver /\ setup.cut = "Bfs"
  /\ ~BfsFound /\ BfsIncomplete /\ ~late /\ Level < DepthCap
  /\ Deepen(max_depth + 1)

-----------------------------------------------------------------------------
Expire ==
  /\ phase = "search" /\ setup.timed /\ ~late
  /\ late' = TRUE
  /\ UNCHANGED <<world, setup, node, live, max_depth, hit, phase>>

Step ==
  \/ \E n \in DOMAIN node :
       \/ Bound(n) \/ Park(n) \/ Close(n) \/ GiveUp(n) \/ NoMethod(n) \/ NoCases(n)
       \/ Fail(n) \/ Branch(n) \/ Leave(n) \/ Walk(n) \/ LeaveWalk(n)
  \/ EndDfs \/ NextRoundDfs \/ EndBfs \/ NextRoundBfs

Over == phase # "search" /\ UNCHANGED vars

Next == Step \/ Expire \/ Over

Spec == Init /\ [][Next]_vars

\* The search runs on a thread of its own, and rayon runs every job.
FairSpec == Spec /\ WF_vars(Step)

-----------------------------------------------------------------------------
(* Correctness.                                                            *)

Node == [at : Places, method : Methods, status : Statuses]

TypeOK ==
  /\ DOMAIN node \subseteq DOMAIN world /\ <<>> \in DOMAIN node
  /\ node = [n \in DOMAIN node |-> node[n]]
  /\ \A n \in DOMAIN node : node[n] \in Node
  /\ live \subseteq DOMAIN node
  /\ max_depth \in Nat \ {0}
  /\ hit \subseteq DOMAIN node
  /\ late \in BOOLEAN
  /\ phase \in {"search", "done", "error"}

Root == node[<<>>]
Attacks == {n \in DOMAIN world : world[n] = "Solved" /\ Len(n) < setup.bound}

\* proof_status of the finished tree: what the verdict of the lemma is made of.
proof_status ==
  LET methods == {node[n].method : n \in DOMAIN node}
  IN  IF "Solved" \in methods THEN "TraceFound"
      ELSE IF methods \cap Sorries # {} THEN "Incomplete"
      ELSE IF "Unfinishable" \in methods THEN "Unfinishable" ELSE "Complete"

\* A search that ends with a complete proof has closed every case there is:
\* whatever the strategy, the bound, the deadline or the order of the workers,
\* no attack and no open case is left out (the lemma would be "verified").
NoFalseProof ==
  phase = "done" /\ proof_status = "Complete" =>
    \A n \in DOMAIN world : world[n] \in {"open", "Contradictory"}

\* A search that is given the time finds an attack if there is one above the
\* bound; only AfterSorry may stop short of it.
AttackIsFound ==
  phase = "done" /\ ~late /\ setup.cut # "AfterSorry" /\ Attacks # {} =>
    proof_status = "TraceFound"

\* "For a fully-fresh proof the fold yields the same verdict as root.status did"
\* (run.rs:1979), after every way of cutting the tree down.
VerdictMatchesRoot ==
  phase = "done" =>
    proof_status = CASE Root.status = "Solved" -> "TraceFound"
                     [] Root.status = "Sorry" -> "Incomplete"
                     [] Root.status = "Unfinishable" -> "Unfinishable"
                     [] OTHER -> "Complete"

\* The depth-first strategies print one path, to the first attack in case order
\* of the first round that sees any: it does not depend on how the workers were
\* scheduled, nor on which siblings they expanded for nothing (search.rs:1082).
FirstAttack ==
  phase = "done" /\ ~late /\ setup.cut \in {"Dfs", "SeqDfs"} /\ Root.status = "Solved" =>
    \E a \in Attacks :
      /\ DOMAIN node = {n \in DOMAIN world : IsPrefix(n, a)}
      /\ Len(a) < max_depth
      /\ \A b \in Attacks : Len(b) < max_depth => ~Earlier(b, a)
      /\ setup.cut = "Dfs" /\ max_depth > InitialDepth => \A b \in Attacks : 2 * Len(b) >= max_depth

\* BFS finds the shallowest attacks, keeps all of them, and nothing deeper.
ShallowestAttacks ==
  phase = "done" /\ ~late /\ setup.cut = "Bfs" /\ Root.status = "Solved" =>
    /\ \A a \in Attacks : \A n \in DOMAIN node : Len(n) <= Len(a)
    /\ \A a \in Attacks : (\A b \in Attacks : Len(a) <= Len(b)) =>
         a \in DOMAIN node /\ node[a].method = "Solved"

\* After the first sorry or attack, in case order, AfterSorry tries no method:
\* what follows is a sorry or was finished anyway.
NothingAfterSorry ==
  phase = "done" /\ setup.cut = "AfterSorry" =>
    \A m, n \in DOMAIN node :
      node[m].status \in {"Sorry", "Solved"} /\ Children(m) = {} /\ Earlier(m, n) =>
        node[n].method \in Finished \cup {"sorry"}

\* With time to finish, no stub of the depth limit survives in the result.
NoStubIsLeft ==
  phase = "done" /\ ~late => \A n \in DOMAIN node : ~is_depth_limited(n)

\* expand never meets a node whose System was dropped to save memory, and the
\* solved systems are there when the traces are written out.
SystemsAreThere ==
  /\ phase = "search" =>
       \A n \in DOMAIN node : node[n].at = "new" \/ is_depth_limited(n) => n \in live
  /\ phase = "done" /\ setup.keep # "DropAll" =>
       \A n \in DOMAIN node : node[n].method = "Solved" => n \in live

\* Deepening keeps what it has: a node that was given a method is not evaluated
\* again in a later round, unless it was only parked at the limit.
EvaluatedOnce ==
  [][\A n \in DOMAIN node :
       node[n].method \notin {"unset", "depth limit"} /\ phase' = "search" =>
         n \in DOMAIN node' /\ node'[n].method = node[n].method]_vars

\* The search ends, on every search space that is finite.
SearchEnds == <>(phase # "search")

\* "All branches reached Solved" (search.rs:72)
SolvedMeansAll ==
  phase = "done" => \A n \in DOMAIN node : node[n].status = "Solved" =>
                      \A m \in Children(n) : node[m].status = "Solved"

\* "This makes shorter Solved paths win over longer Solved paths even when the
\* longer path is alphabetically earlier" (search.rs:485)
ShorterPathWins ==
  phase = "done" /\ ~late /\ setup.cut = "Dfs" /\ Root.status = "Solved" =>
    \A n \in DOMAIN node, a \in Attacks : Len(n) <= Len(a)
=============================================================================
