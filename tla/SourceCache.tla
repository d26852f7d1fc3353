---------------------------- MODULE SourceCache ----------------------------
(***************************************************************************)
(* The source cases of a theory, computed when a proof first asks for them *)
(* and shared by its lemmas (tamarin-theory/src/prove.rs, SourceCache and  *)
(* SessionSourceProvider; constraint/solver/context.rs, SaturateGate).     *)
(*                                                                         *)
(* A ProofContext starts with lazy cells and a gate.  The first user that  *)
(* passes the gate fills the cells from the session's raw or refined slot; *)
(* the others sleep on the gate's condvar.  A slot is a OnceLock: one user *)
(* computes it and the others block.  The work is done in a pool of its    *)
(* own, whose threads run other tasks of that pool while one of theirs     *)
(* waits for its parts.  The user that asked for it waits for a plain      *)
(* coordinator thread, so its thread takes nothing else meanwhile.         *)
(*                                                                         *)
(* What the cases are is abstract: cells are lazy, raw or refined.  Rayon  *)
(* and std's OnceLock are external, modelled from how they are used.       *)
(***************************************************************************)
EXTENDS Naturals, FiniteSets, SequencesExt

CONSTANTS Provers,     \* threads that prove lemmas or serve requests
          Workers,     \* threads of the source pool, at most four
          Sessions,    \* one per loaded theory
          Users,       \* the calls that need the sources of a context
          Session, Kind, Parent, Ctx,  \* of a user; see SourceAssumption
          Parts,       \* the sources refined in parallel
          MaxPanics,   \* bound: how often saturation panics
          None

Kinds == {"raw", "refined"}
Slots == Sessions \X Kinds
Part(s) == {<<s[1], s[2], i>> : i \in Parts}
Frames == Users \cup Slots \cup UNION {Part(s) : s \in Slots}

\* Parent: of a case of a parallel search, the user that fans out to it.
\* Ctx: the context a user works with, named by one of its users; a case has
\* its own.
ASSUME SourceAssumption ==
  /\ Provers \cap (Workers \cup {"Pending", "ok", "err"}) = {}
  /\ IsFiniteSet(Users) /\ None \notin Users
  /\ Users \cap (Slots \cup UNION {Part(s) : s \in Slots}) = {}
  /\ Session \in [Users -> Sessions] /\ Kind \in [Users -> Kinds]
  /\ Parent \in [Users -> Users \cup {None}] /\ Ctx \in [Users -> Users]
  /\ \A u \in Users :
       /\ Session[Ctx[u]] = Session[u] /\ Kind[Ctx[u]] = Kind[u]
       /\ Parent[u] # None => /\ \A v \in Users : Ctx[v] = u <=> v = u
                              /\ Parent[Parent[u]] = None
                              /\ Session[Parent[u]] = Session[u] /\ Kind[Parent[u]] = Kind[u]
  /\ MaxPanics \in Nat

VARIABLES
  malformed,  \* the sessions with a [sources] lemma that cannot be guarded
  once,       \* slot -> "empty", "running", "ok" or "err"
  job,        \* slot -> where its computation in the source pool is
  queue,      \* what waits in the source pool
  gate,       \* context -> "Pending", the thread of InProgress, or a Done result
  cells,      \* context -> what its source cells hold
  at,         \* user -> where it is
  answer,     \* user -> what ensure_saturated returned
  stack,      \* thread -> what runs on it, the innermost call last
  panics

vars == <<malformed, once, job, queue, gate, cells, at, answer, stack, panics>>

Results == {"ok", "err"}
Outcomes == Results \cup {"panic"}
Places == {"unborn", "pending", "swapping", "swap asleep", "begun", "asleep", "woken", "resolving",
           "raw", "raw run", "refined run", "restoring", "finishing", "back", "joining", "done"}

SlotOf(u) == <<Session[u], Kind[u]>>
RawOf(u) == <<Session[u], "raw">>
Cases(u) == {v \in Users : Parent[v] = u}
OnTop(w, f) == stack[w] # <<>> /\ Last(stack[w]) = f
Running == UNION {ToSet(stack[w]) : w \in Provers \cup Workers}

-----------------------------------------------------------------------------
Init ==
  /\ malformed \in SUBSET Sessions
  /\ once = [s \in Slots |-> "empty"] /\ job = [s \in Slots |-> "none"]
  /\ queue = {}
  /\ gate = [c \in Users |-> "Pending"] /\ cells = [c \in Users |-> "lazy"]
  /\ at = [u \in Users |-> IF Parent[u] = None THEN "pending" ELSE "unborn"]
  /\ answer = [u \in Users |-> "none"]
  /\ stack = [w \in Provers \cup Workers |-> <<>>]
  /\ panics = 0

\* A thread that is idle, or that joins parallel work, takes what its pool has.
Joins(w) ==
  stack[w] # <<>> => LET f == Last(stack[w])
                     IN  IF f \in Users THEN at[f] = "joining" ELSE f \in Slots /\ job[f] = "joining"

Start(w, u) ==
  /\ w \in Provers /\ Joins(w) /\ at[u] = "pending"
  /\ at' = [at EXCEPT ![u] = IF Parent[u] = None THEN "begun" ELSE "swapping"]
  /\ stack' = [stack EXCEPT ![w] = Append(@, u)]
  /\ UNCHANGED <<malformed, once, job, queue, gate, cells, answer, panics>>

Take(w, f) ==
  /\ w \in Workers /\ Joins(w) /\ f \in queue
  /\ queue' = queue \ {f}
  /\ job' = IF f \in Slots THEN [job EXCEPT ![f] = "running"] ELSE job
  /\ stack' = [stack EXCEPT ![w] = Append(@, f)]
  /\ UNCHANGED <<malformed, once, gate, cells, at, answer, panics>>

-----------------------------------------------------------------------------
(* ProofContext: the gate.                                                 *)

InProgress(c) == gate[c] \notin {"Pending"} \cup Results

\* notify_all on the gate of c, on top of the caller's own move to p.
Notify(u, p, c) ==
  at' = [v \in Users |->
           IF v = u THEN p
           ELSE IF at[v] = "asleep" /\ Ctx[v] = c THEN "woken"
           ELSE IF at[v] = "swap asleep" /\ Ctx[Parent[v]] = c THEN "swapping" ELSE at[v]]

\* with_swapped_maude, by the case's own thread: a copy of the parent's context
\* with the parent's cells and gate, once no saturation is under way there.
Swap(u) ==
  LET c == Ctx[Parent[u]]
  IN  /\ at[u] = "swapping"
      /\ IF InProgress(c)
           THEN at' = [at EXCEPT ![u] = "swap asleep"] /\ UNCHANGED <<gate, cells>>
           ELSE /\ gate' = [gate EXCEPT ![u] = gate[c]]
                /\ cells' = [cells EXCEPT ![u] = cells[c]]
                /\ at' = [at EXCEPT ![u] = "begun"]
      /\ UNCHANGED <<malformed, once, job, queue, answer, stack, panics>>

\* ensure_saturated, up to the provider.  The owner's thread, should it ask
\* again, is told Ok at once.
Enter(w, u) ==
  LET c == Ctx[u]
  IN  /\ at[u] \in {"begun", "woken"}
      /\ CASE gate[c] \in Results ->
                at' = [at EXCEPT ![u] = "back"] /\ answer' = [answer EXCEPT ![u] = gate[c]]
                /\ UNCHANGED gate
           [] gate[c] = w ->
                at' = [at EXCEPT ![u] = "back"] /\ answer' = [answer EXCEPT ![u] = "ok"]
                /\ UNCHANGED gate
           [] gate[c] = "Pending" ->
                at' = [at EXCEPT ![u] = "resolving"] /\ gate' = [gate EXCEPT ![c] = w]
                /\ UNCHANGED answer
           [] OTHER -> at' = [at EXCEPT ![u] = "asleep"] /\ UNCHANGED <<gate, answer>>
      /\ UNCHANGED <<malformed, once, job, queue, cells, stack, panics>>

\* restore_sources
Restore(u) ==
  /\ at[u] = "restoring"
  /\ cells' = [cells EXCEPT ![Ctx[u]] = Kind[u]]
  /\ at' = [at EXCEPT ![u] = "finishing"]
  /\ UNCHANGED <<malformed, once, job, queue, gate, answer, stack, panics>>

\* SaturationRun::finish
Finish(u) ==
  /\ at[u] = "finishing"
  /\ gate' = [gate EXCEPT ![Ctx[u]] = answer[u]]
  /\ Notify(u, "back", Ctx[u])
  /\ UNCHANGED <<malformed, once, job, queue, cells, answer, stack, panics>>

\* Variant: the waiters are not told.
UnwindInSilence(u) ==
  gate' = [gate EXCEPT ![Ctx[u]] = "Pending"] /\ at' = [at EXCEPT ![u] = "back"]

\* SaturationRun::drop, when materialize unwinds: the context can be retried.
Unwind(u) == gate' = [gate EXCEPT ![Ctx[u]] = "Pending"] /\ Notify(u, "back", Ctx[u])

\* A condvar may wake a sleeper for no reason; both loops look again.
Spurious(u) ==
  /\ at[u] \in {"asleep", "swap asleep"}
  /\ at' = [at EXCEPT ![u] = IF @ = "asleep" THEN "woken" ELSE "swapping"]
  /\ UNCHANGED <<malformed, once, job, queue, gate, cells, answer, stack, panics>>

-----------------------------------------------------------------------------
(* session_sources and raw_sources: the slots.                             *)

\* Variant: no pool, no coordinator: saturation runs on the caller's stack.
OnTheCallersStack(w, s) ==
  /\ job' = [job EXCEPT ![s] = "running"]
  /\ stack' = [stack EXCEPT ![w] = Append(@, s)]
  /\ UNCHANGED queue

\* The job is installed in the source pool; the caller joins the coordinator.
in_source_pool(w, s) ==
  /\ job' = [job EXCEPT ![s] = "queued"]
  /\ queue' = queue \cup {s}
  /\ UNCHANGED stack

\* The user has the slot's value, to restore or to report.
Resolved(u, r) ==
  /\ answer' = [answer EXCEPT ![u] = r]
  /\ at' = [at EXCEPT ![u] = IF r = "ok" THEN "restoring" ELSE "finishing"]

\* Variant: the raw slot is not resolved first; the job in the pool waits for it.
RefinedFirst(w, u) ==
  /\ at[u] = "resolving" /\ Kind[u] = "refined" /\ once[SlotOf(u)] = "empty"
  /\ once' = [once EXCEPT ![SlotOf(u)] = "running"]
  /\ in_source_pool(w, SlotOf(u))
  /\ at' = [at EXCEPT ![u] = "refined run"]
  /\ UNCHANGED <<malformed, gate, cells, answer, panics>>

\* The first user of the refined slot computes it: the assumptions are checked,
\* and then the raw slot is resolved, before the source pool is entered.
Refine(w, u) ==
  /\ at[u] = "resolving" /\ Kind[u] = "refined" /\ once[SlotOf(u)] = "empty"
  /\ IF Session[u] \in malformed
       THEN once' = [once EXCEPT ![SlotOf(u)] = "err"] /\ Resolved(u, "err")
       ELSE /\ once' = [once EXCEPT ![SlotOf(u)] = "running"]
            /\ at' = [at EXCEPT ![u] = "raw"] /\ UNCHANGED answer
  /\ UNCHANGED <<malformed, job, queue, gate, cells, stack, panics>>

\* Later users block until the slot is settled, and take what it holds.
Settled(u) ==
  /\ at[u] = "resolving" /\ once[SlotOf(u)] \in Results
  /\ Resolved(u, once[SlotOf(u)])
  /\ UNCHANGED <<malformed, once, job, queue, gate, cells, stack, panics>>

\* Variant: the slot is tested, and taken later.
SaturateAnyway(w, u) ==
  /\ at[u] = "raw" \/ (at[u] = "resolving" /\ Kind[u] = "raw")
  /\ once[RawOf(u)] \in {"empty", "running"}
  /\ once' = [once EXCEPT ![RawOf(u)] = "running"]
  /\ at' = [at EXCEPT ![u] = "raw run"]
  /\ in_source_pool(w, RawOf(u))
  /\ UNCHANGED <<malformed, gate, cells, answer, panics>>

\* raw_sources, for a raw user or for the one that computes the refined slot.
Saturate(w, u) ==
  /\ at[u] = "raw" \/ (at[u] = "resolving" /\ Kind[u] = "raw")
  /\ once[RawOf(u)] = "empty"
  /\ once' = [once EXCEPT ![RawOf(u)] = "running"]
  /\ at' = [at EXCEPT ![u] = "raw run"]
  /\ in_source_pool(w, RawOf(u))
  /\ UNCHANGED <<malformed, gate, cells, answer, panics>>

RawThere(w, u) ==
  /\ at[u] = "raw" /\ once[RawOf(u)] \in Results
  /\ IF once[RawOf(u)] = "ok"
       THEN /\ at' = [at EXCEPT ![u] = "refined run"] /\ in_source_pool(w, SlotOf(u))
            /\ UNCHANGED <<once, answer>>
       ELSE /\ once' = [once EXCEPT ![SlotOf(u)] = "err"] /\ Resolved(u, "err")
            /\ UNCHANGED <<job, queue, stack>>
  /\ UNCHANGED <<malformed, gate, cells, panics>>

\* Variant: a failure is not remembered either.
ForgetsErrors(r) == IF r = "ok" THEN "ok" ELSE "empty"

\* A OnceLock whose closure unwinds stays empty; a failure is a value like others.
Kept(r) == IF r = "panic" THEN "empty" ELSE r

\* The coordinator returns: the slot is settled, or empty again after a panic,
\* which goes on unwinding.
Returned(u) ==
  /\ at[u] \in {"raw run", "refined run"}
  /\ LET s == IF at[u] = "raw run" THEN RawOf(u) ELSE SlotOf(u)
     IN  /\ job[s] \in Outcomes
         /\ job' = [job EXCEPT ![s] = "none"]
         /\ IF job[s] = "panic"
              THEN /\ once' = [once EXCEPT ![s] = Kept(job[s]), ![SlotOf(u)] = Kept(job[s])]
                   /\ answer' = [answer EXCEPT ![u] = "panic"]
                   /\ Unwind(u)
              ELSE /\ once' = [once EXCEPT ![s] = Kept(job[s])]
                   /\ IF s = SlotOf(u) THEN Resolved(u, job[s])
                      ELSE at' = [at EXCEPT ![u] = "raw"] /\ UNCHANGED answer
                   /\ UNCHANGED gate
  /\ UNCHANGED <<malformed, queue, cells, stack, panics>>

-----------------------------------------------------------------------------
(* The source pool.                                                        *)

\* A job refines its sources in parallel; refinement starts from the raw cases.
FanOut(s) ==
  /\ s \in Slots /\ job[s] = "running"
  /\ s[2] = "refined" => once[<<s[1], "raw">>] = "ok"
  /\ job' = [job EXCEPT ![s] = "joining"]
  /\ queue' = queue \cup Part(s)
  /\ UNCHANGED <<malformed, once, gate, cells, at, answer, stack, panics>>

\* refine_one_source works on a snapshot with an open gate: it waits for nothing.
EndPart(w, f) ==
  /\ \E s \in Slots : f \in Part(s)
  /\ stack' = [stack EXCEPT ![w] = Front(@)]
  /\ UNCHANGED <<malformed, once, job, queue, gate, cells, at, answer, panics>>

\* All parts have ended, one of them in an error or a panic perhaps.
Complete(w, s) ==
  /\ s \in Slots /\ job[s] = "joining"
  /\ Part(s) \cap (queue \cup Running) = {}
  /\ \E r \in Outcomes :
       /\ r = "panic" => panics < MaxPanics
       /\ job' = [job EXCEPT ![s] = r]
       /\ panics' = IF r = "panic" THEN panics + 1 ELSE panics
  /\ stack' = [stack EXCEPT ![w] = Front(@)]
  /\ UNCHANGED <<malformed, once, queue, gate, cells, at, answer>>

-----------------------------------------------------------------------------
(* What a user does with its context.                                      *)

\* A search whose sources may fail does not fan out.
may_fail(u) == Kind[u] = "refined" /\ Session[u] \in malformed

\* The search fans out, before it has asked for sources or with them.
Fork(u) ==
  /\ at[u] = "begun" \/ (at[u] = "back" /\ answer[u] = "ok")
  /\ ~may_fail(u) /\ Cases(u) # {} /\ \A v \in Cases(u) : at[v] = "unborn"
  /\ at' = [v \in Users |-> IF v = u THEN "joining" ELSE IF v \in Cases(u) THEN "pending" ELSE at[v]]
  /\ UNCHANGED <<malformed, once, job, queue, gate, cells, answer, stack, panics>>

\* A case's error or panic is its parent's too.
Join(u) ==
  /\ at[u] = "joining" /\ \A v \in Cases(u) : at[v] = "done"
  /\ LET bad == {answer[v] : v \in Cases(u)} \ {"ok", "none"}
     IN  IF bad # {} THEN at' = [at EXCEPT ![u] = "back"]
                          /\ \E r \in bad : answer' = [answer EXCEPT ![u] = r]
         ELSE /\ at' = [at EXCEPT ![u] = IF answer[u] = "none" THEN "begun" ELSE "back"]
              /\ UNCHANGED answer
  /\ UNCHANGED <<malformed, once, job, queue, gate, cells, stack, panics>>

End(w, u) ==
  /\ at[u] \in {"begun", "back"}    \* some proofs never ask
  /\ at' = [at EXCEPT ![u] = "done"]
  /\ stack' = [stack EXCEPT ![w] = Front(@)]
  /\ UNCHANGED <<malformed, once, job, queue, gate, cells, answer, panics>>

Work(w) ==
  /\ stack[w] # <<>>
  /\ LET f == Last(stack[w])
     IN  IF f \in Users
         THEN \/ Swap(f) \/ Enter(w, f) \/ Restore(f) \/ Finish(f)
              \/ Refine(w, f) \/ Settled(f) \/ Saturate(w, f) \/ RawThere(w, f) \/ Returned(f)
              \/ Fork(f) \/ Join(f) \/ End(w, f)
         ELSE FanOut(f) \/ EndPart(w, f) \/ Complete(w, f)

Run(w) == Work(w) \/ (\E u \in Users : Start(w, u)) \/ (\E f \in queue : Take(w, f))

Finished == \A u \in Users : at[u] \in {"unborn", "done"}

Over == Finished /\ UNCHANGED vars

Next ==
  \/ \E w \in Provers \cup Workers : Run(w)
  \/ \E u \in Users : Spurious(u)
  \/ Over

Spec == Init /\ [][Next]_vars

\* Every thread is scheduled.
FairSpec == Spec /\ \A w \in Provers \cup Workers : WF_vars(Run(w))

-----------------------------------------------------------------------------
(* Correctness.                                                            *)

TypeOK ==
  /\ malformed \subseteq Sessions
  /\ once \in [Slots -> {"empty", "running"} \cup Results]
  /\ job \in [Slots -> {"none", "queued", "running", "joining"} \cup Outcomes]
  /\ queue \subseteq Frames \ Users
  /\ gate \in [Users -> {"Pending"} \cup Results \cup Provers]
  /\ cells \in [Users -> {"lazy"} \cup Kinds]
  /\ at \in [Users -> Places]
  /\ answer \in [Users -> {"none"} \cup Outcomes]
  /\ stack \in [Provers \cup Workers -> Seq(Frames)]
  /\ panics \in 0..MaxPanics

\* The user that computes a slot.
Computes(u, s) ==
  \/ s = RawOf(u) /\ at[u] = "raw run"
  \/ s = SlotOf(u) /\ at[u] \in {"raw", "raw run", "refined run"}

\* "Each slot is populated lazily and at most once" (prove.rs:630): a slot that
\* is being computed has one user computing it, and no job runs for any other.
SingleFlight ==
  \A s \in Slots :
    /\ once[s] = "running" => \E u \in Users : \A v \in Users : Computes(v, s) <=> v = u
    /\ once[s] # "running" => job[s] = "none" /\ \A u \in Users : ~Computes(u, s)

\* Whoever is told that its sources are there finds all of them in its cells,
\* raw ones for a sources lemma and refined ones for the others.
NoPartialRead ==
  \A u \in Users : answer[u] = "ok" /\ at[u] \in {"back", "joining", "done"} => cells[Ctx[u]] = Kind[u]

\* All users of one kind get the same answer, whatever they waited for and
\* however often a computation had to be repeated.
SameAnswer ==
  \A u, v \in Users : SlotOf(u) = SlotOf(v) => {answer[u], answer[v]} # {"ok", "err"}

\* Whoever sleeps on a gate is going to be woken: a thread is in the saturation,
\* on top of its stack, and owns no other one.
NoLostWakeup ==
  /\ \A u \in Users : /\ at[u] = "asleep" => InProgress(Ctx[u])
                      /\ at[u] = "swap asleep" => InProgress(Ctx[Parent[u]])
  /\ \A c \in Users : InProgress(c) =>
       /\ stack[gate[c]] # <<>>
       /\ \E u \in Users : /\ Last(stack[gate[c]]) = u /\ Ctx[u] = c
                           /\ at[u] \in {"resolving", "raw", "raw run", "refined run",
                                         "restoring", "finishing"}

\* Every proof ends: no thread of either pool waits for work that is suspended
\* further down a stack, nor for one another (prove.rs:1287, run.rs:2026).
AllEnd == <>Finished
=============================================================================
