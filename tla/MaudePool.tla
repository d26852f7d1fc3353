----------------------------- MODULE MaudePool -----------------------------
(***************************************************************************)
(* The pool of Maude subprocesses (tamarin-term/src/maude_proc.rs) and the *)
(* rayon tasks that borrow from it.                                        *)
(*                                                                         *)
(* A file is closed first: one rule task per protocol rule, and each takes *)
(* a subprocess with acquire, which waits (rule_variants.rs).  Then the    *)
(* lemmas are proved in parallel.  A lemma task uses the file's own Maude; *)
(* the cases its search fans out to take a subprocess with try_acquire,    *)
(* which never waits, and use the lemma's when they get none (search.rs).  *)
(* A case's context has no pool, so its own cases share its Maude.         *)
(*                                                                         *)
(* A rayon thread whose task waits for its cases to end runs other tasks   *)
(* meanwhile, of any lemma: a thread is a stack of tasks.  The pool's      *)
(* state is under one mutex; a subprocess is started with the mutex free.  *)
(* Rayon is external: how it hands out tasks is modelled from its use.     *)
(***************************************************************************)
EXTENDS Naturals, FiniteSets, SequencesExt

CONSTANTS Threads,  \* the threads of rayon's pool
          Tasks,    \* what they have to run
          Kind,     \* "rule", "lemma" or "case"
          Parent,   \* of a case, the task that fans out to it
          Size,     \* MaudePool::size
          None

ASSUME PoolAssumption ==
  /\ IsFiniteSet(Tasks) /\ None \notin Tasks
  /\ Kind \in [Tasks -> {"rule", "lemma", "case"}]
  /\ Parent \in [Tasks -> Tasks \cup {None}]
  /\ \A t \in Tasks : /\ Parent[t] = None <=> Kind[t] # "case"
                      /\ Kind[t] = "case" => Kind[Parent[t]] # "rule"
  /\ Size \in Nat \ {0}

VARIABLES
  free,       \* the idle members, the last one released on top
  spawned,    \* members that exist, or whose slot is reserved
  live,       \* the subprocesses started so far are 1..live
  at,         \* task -> where it is
  guard,      \* task -> the member its PooledMaude holds, or FileMaude
  maude,      \* task -> the Maude its context uses
  try_spawn,  \* the rule tasks whose acquire may still start a member
  stack,      \* thread -> the tasks on its call stack
  failed      \* the tasks that returned an error

vars == <<free, spawned, live, at, guard, maude, try_spawn, stack, failed>>

FileMaude == 0
Places == {"unborn", "pending", "asking", "starting", "waiting", "woken",
           "running", "joining", "done"}

Cases(t) == {c \in Tasks : Parent[c] = t}
Rules == {t \in Tasks : Kind[t] = "rule"}
In(places) == {t \in Tasks : at[t] \in places}
Waiters == In({"waiting"})

\* with_swapped_maude drops the pool: only a lemma's own cases ask for a member.
MayBorrow(t) == Kind[t] = "rule" \/ (Kind[t] = "case" /\ Kind[Parent[t]] = "lemma")

OnTop(w, t) == stack[w] # <<>> /\ Last(stack[w]) = t

-----------------------------------------------------------------------------
Init ==
  /\ free = <<1>> /\ spawned = 1 /\ live = 1      \* MaudePool::new starts one
  /\ at = [t \in Tasks |-> IF Kind[t] = "case" THEN "unborn" ELSE "pending"]
  /\ guard = [t \in Tasks |-> FileMaude]
  /\ maude = [t \in Tasks |-> FileMaude]
  /\ try_spawn = Rules
  /\ stack = [w \in Threads |-> <<>>]
  /\ failed = {}

\* The lemmas are proved when the rules are closed; an error there ends it all.
MayStart(t) == Kind[t] = "lemma" => \A r \in Rules : at[r] = "done" /\ r \notin failed

\* An idle thread, or one whose task joins its cases, takes or steals a task.
\* Without a pool in its context, a case uses its parent's Maude.
Take(w, t) ==
  /\ at[t] = "pending" /\ MayStart(t)
  /\ stack[w] # <<>> => at[Last(stack[w])] = "joining"
  /\ stack' = [stack EXCEPT ![w] = Append(@, t)]
  /\ at' = [at EXCEPT ![t] = IF MayBorrow(t) THEN "asking" ELSE "running"]
  /\ maude' = IF Kind[t] = "case" THEN [maude EXCEPT ![t] = maude[Parent[t]]] ELSE maude
  /\ UNCHANGED <<free, spawned, live, guard, try_spawn, failed>>

\* Once an error is in, collect leaves out the items that nobody has begun.
Skip(t) ==
  /\ at[t] = "pending"
  /\ \E s \in failed : Kind[s] = Kind[t] /\ Parent[s] = Parent[t]
  /\ at' = [at EXCEPT ![t] = "done"]
  /\ UNCHANGED <<free, spawned, live, guard, maude, try_spawn, stack, failed>>

Hold(t, h) ==
  /\ guard' = [guard EXCEPT ![t] = h]
  /\ maude' = [maude EXCEPT ![t] = h]
  /\ at' = [at EXCEPT ![t] = "running"]

\* state.free.pop()
Pop(t) ==
  /\ at[t] \in {"asking", "woken"} /\ free # <<>>
  /\ Hold(t, Last(free))
  /\ free' = Front(free)
  /\ UNCHANGED <<spawned, live, try_spawn, stack, failed>>

\* Reserve a slot, and leave the mutex to start the subprocess.
Reserve(t) ==
  /\ at[t] \in {"asking", "woken"} /\ free = <<>>
  /\ spawned < Size /\ (Kind[t] = "rule" => t \in try_spawn)
  /\ spawned' = spawned + 1
  /\ at' = [at EXCEPT ![t] = "starting"]
  /\ UNCHANGED <<free, live, guard, maude, try_spawn, stack, failed>>

\* acquire waits on the condvar.
Wait(t) ==
  /\ Kind[t] = "rule"
  /\ at[t] \in {"asking", "woken"} /\ free = <<>>
  /\ spawned >= Size \/ t \notin try_spawn
  /\ at' = [at EXCEPT ![t] = "waiting"]
  /\ UNCHANGED <<free, spawned, live, guard, maude, try_spawn, stack, failed>>

\* Variant: the fan-out waits for a member, too.
CasesWait(t) ==
  /\ Kind[t] = "case"
  /\ at[t] \in {"asking", "woken"} /\ free = <<>> /\ spawned >= Size
  /\ at' = [at EXCEPT ![t] = "waiting"]
  /\ UNCHANGED <<free, spawned, live, guard, maude, try_spawn, stack, failed>>

\* try_acquire returns None: the case runs on the Maude of its lemma.
Decline(t) ==
  /\ Kind[t] = "case"
  /\ at[t] = "asking" /\ free = <<>> /\ spawned >= Size
  /\ at' = [at EXCEPT ![t] = "running"]
  /\ UNCHANGED <<free, spawned, live, guard, maude, try_spawn, stack, failed>>

\* Variant: the new member is pushed on the idle ones, too.
StartedIdle(t) ==
  /\ at[t] = "starting"
  /\ live' = live + 1 /\ free' = Append(free, live + 1)
  /\ Hold(t, live + 1)
  /\ UNCHANGED <<spawned, try_spawn, stack, failed>>

\* The new member goes to the task that started it, never through free.
Started(t) ==
  /\ at[t] = "starting"
  /\ live' = live + 1
  /\ Hold(t, live + 1)
  /\ UNCHANGED <<free, spawned, try_spawn, stack, failed>>

\* Variants: the slot is not given back; acquire goes to wait without another
\* look at free.
KeepsSlot(t) ==
  /\ at[t] = "starting"
  /\ at' = [at EXCEPT ![t] = IF Kind[t] = "rule" THEN "waiting" ELSE "running"]
  /\ try_spawn' = try_spawn \ {t}
  /\ UNCHANGED <<free, spawned, live, guard, maude, stack, failed>>
WaitsAtOnce(t) ==
  /\ at[t] = "starting"
  /\ spawned' = spawned - 1
  /\ IF Kind[t] = "rule"
       THEN try_spawn' = try_spawn \ {t} /\ at' = [at EXCEPT ![t] = "waiting"]
       ELSE at' = [at EXCEPT ![t] = "running"] /\ UNCHANGED try_spawn
  /\ UNCHANGED <<free, live, guard, maude, stack, failed>>

\* The subprocess does not start: the slot is given back.  try_acquire returns
\* None; acquire looks at free again before it waits, under the same lock.
SpawnFailed(t) ==
  /\ at[t] = "starting"
  /\ spawned' = spawned - 1
  /\ IF Kind[t] = "rule"
       THEN /\ try_spawn' = try_spawn \ {t}
            /\ IF free # <<>>
                 THEN Hold(t, Last(free)) /\ free' = Front(free)
                 ELSE at' = [at EXCEPT ![t] = "waiting"] /\ UNCHANGED <<free, guard, maude>>
       ELSE at' = [at EXCEPT ![t] = "running"] /\ UNCHANGED <<free, guard, maude, try_spawn>>
  /\ UNCHANGED <<live, stack, failed>>

\* A condvar may wake a thread for no reason.
Spurious(t) ==
  /\ at[t] = "waiting"
  /\ at' = [at EXCEPT ![t] = "woken"]
  /\ UNCHANGED <<free, spawned, live, guard, maude, try_spawn, stack, failed>>

\* Variant: the cases are spawned and not joined.
Detach(t) ==
  /\ at[t] = "running" /\ Cases(t) # {} /\ \A c \in Cases(t) : at[c] = "unborn"
  /\ at' = [u \in Tasks |-> IF u \in Cases(t) THEN "pending" ELSE at[u]]
  /\ UNCHANGED <<free, spawned, live, guard, maude, try_spawn, stack, failed>>

\* A search fans out: the cases become tasks, and their parent waits for them.
Fork(t) ==
  /\ at[t] = "running" /\ Cases(t) # {} /\ \A c \in Cases(t) : at[c] = "unborn"
  /\ at' = [u \in Tasks |-> IF u = t THEN "joining"
                            ELSE IF u \in Cases(t) THEN "pending" ELSE at[u]]
  /\ UNCHANGED <<free, spawned, live, guard, maude, try_spawn, stack, failed>>

\* All cases have ended; the error of one is the parent's.
Join(t) ==
  /\ at[t] = "joining" /\ \A c \in Cases(t) : at[c] = "done"
  /\ at' = [at EXCEPT ![t] = "running"]
  /\ failed' = IF Cases(t) \cap failed # {} THEN failed \cup {t} ELSE failed
  /\ UNCHANGED <<free, spawned, live, guard, maude, try_spawn, stack>>

\* PooledMaude::drop: push the member, wake one of those who wait.
Release(t) ==
  /\ free' = Append(free, guard[t])
  /\ guard' = [guard EXCEPT ![t] = FileMaude]
  /\ IF Waiters = {} THEN at' = [at EXCEPT ![t] = "done"]
     ELSE \E u \in Waiters : at' = [at EXCEPT ![t] = "done", ![u] = "woken"]

\* The task returns, with or without an error; its guard and context are dropped.
End(w, t) ==
  /\ at[t] = "running"
  /\ IF guard[t] # FileMaude THEN Release(t)
     ELSE at' = [at EXCEPT ![t] = "done"] /\ UNCHANGED <<free, guard>>
  /\ stack' = [stack EXCEPT ![w] = Front(@)]
  /\ failed' \in {failed, failed \cup {t}}
  /\ maude' = [maude EXCEPT ![t] = FileMaude]
  /\ try_spawn' = try_spawn \ {t}
  /\ UNCHANGED <<spawned, live>>

-----------------------------------------------------------------------------
Work(w, t) ==
  /\ OnTop(w, t)
  /\ \/ Pop(t) \/ Reserve(t) \/ Wait(t) \/ Decline(t) \/ Started(t) \/ SpawnFailed(t)
     \/ Fork(t) \/ Join(t) \/ End(w, t)

Run(w) == \E t \in Tasks : Take(w, t) \/ Work(w, t)

\* Nothing is left to run.
Finished ==
  /\ \A t \in Tasks : at[t] \in {"unborn", "pending", "done"}
  /\ \A t \in Tasks : at[t] = "pending" => ~MayStart(t)

Over == Finished /\ UNCHANGED vars

Next ==
  \/ \E w \in Threads : Run(w)
  \/ \E t \in Tasks : Skip(t) \/ Spurious(t)
  \/ Over

Spec == Init /\ [][Next]_vars

\* Every thread of the pool is scheduled.
FairSpec == Spec /\ \A w \in Threads : WF_vars(Run(w))

-----------------------------------------------------------------------------
(* Correctness.                                                            *)

TypeOK ==
  /\ spawned \in 1..Size /\ live \in 1..Size
  /\ free \in Seq(1..live)
  /\ at \in [Tasks -> Places]
  /\ guard \in [Tasks -> 0..live] /\ maude \in [Tasks -> 0..live]
  /\ try_spawn \subseteq Tasks /\ failed \subseteq Tasks
  /\ stack \in [Threads -> Seq(Tasks)]

\* A member is idle or belongs to one guard, never to two: "interleaved writes
\* on one subprocess and a guard that the pool assigns twice"
\* (maude_proc_tests.rs) cannot happen, and none is lost either.
OneOwner ==
  /\ IsInjective(free)
  /\ \A h \in 1..live :
       \/ h \in ToSet(free) /\ \A t \in Tasks : guard[t] # h
       \/ h \notin ToSet(free) /\ \E t \in Tasks : \A u \in Tasks : guard[u] = h <=> u = t

\* The slots reserved are those of the members and of the starts under way, so
\* that the pool never outgrows its size, whatever starts fail.
SlotsAddUp ==
  spawned = live + Cardinality(In({"starting"})) /\ spawned <= Size

\* An acquire that waits is on a thread that holds no member further down its
\* stack: waiting cannot deadlock (search.rs:1196).
NoHoldAndWait ==
  \A w \in Threads : \A i, j \in 1..Len(stack[w]) :
    at[stack[w][i]] \in {"waiting", "woken"} => guard[stack[w][j]] = FileMaude

\* Nobody sleeps while a member is idle, but for those already being woken.
NoLostWakeup == Waiters # {} => Len(free) <= Cardinality(In({"woken"}))

\* The Maude a task works with is held by a guard that lives, the task's own
\* or that of the case it belongs to: the handles are clones, and a clone that
\* outlived its guard would be shared with the next borrower.
MaudeIsHeld ==
  \A t \in In({"running", "joining"}) :
    maude[t] # FileMaude => \E u \in Tasks : guard[u] = maude[t]

-----------------------------------------------------------------------------
(* The inductive invariant behind them.                                    *)

Active == Places \ {"unborn", "pending", "done"}

PlacesInv ==
  \A t \in Tasks :
    /\ guard[t] # FileMaude => at[t] \in {"running", "joining"}
    /\ at[t] \in {"waiting", "woken"} => Kind[t] = "rule"
    /\ at[t] = "joining" => Kind[t] # "rule"
    /\ t \in failed => at[t] \in {"running", "joining", "done"}

\* No lemma has begun while a rule is open.
RulesFirst ==
  \A r \in Rules : at[r] # "done" =>
    \A t \in Tasks : /\ Kind[t] = "lemma" => at[t] = "pending"
                     /\ Kind[t] = "case" => at[t] = "unborn"

\* A task is on one stack, once, while it is active; all but the top one join.
StackInv ==
  \A w \in Threads : \A i \in 1..Len(stack[w]) :
    /\ at[stack[w][i]] \in Active
    /\ i < Len(stack[w]) => at[stack[w][i]] = "joining"
    /\ \A v \in Threads : \A j \in 1..Len(stack[v]) :
         stack[w][i] = stack[v][j] => w = v /\ i = j

\* What the proofs show of every reachable state, but for the handles.
PoolInv ==
  /\ TypeOK /\ OneOwner /\ SlotsAddUp /\ NoLostWakeup
  /\ PlacesInv /\ RulesFirst /\ StackInv

\* A task and those it is a case of: what lies in every set that holds it and is
\* closed under Parent.
Above == [t \in Tasks |->
  {u \in Tasks : \A S \in SUBSET Tasks :
     t \in S /\ (\A c \in S : Kind[c] = "case" => Parent[c] \in S) => u \in S}]

\* A Maude that is not the file's is held by the task itself or by one above it,
\* and all above a task that has not ended wait for it.
HeldInv ==
  /\ \A c \in Tasks : Kind[c] = "case" /\ at[c] \in Active \cup {"pending"} =>
       at[Parent[c]] = "joining"
  /\ \A t \in Tasks : Kind[t] # "case" /\ at[t] = "pending" => maude[t] = FileMaude
  /\ \A t \in In(Active) : maude[t] # FileMaude => \E u \in Above[t] : guard[u] = maude[t]

\* All that the proofs show of every reachable state.
FullInv == PoolInv /\ HeldInv

\* All tasks end: "that wait terminates" (maude_proc.rs:1754), and so does the
\* proof, however small the pool and whatever starts fail.
AllEnd == <>Finished
=============================================================================
