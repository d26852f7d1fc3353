------------------------- MODULE SourceCache_proofs -------------------------
(***************************************************************************)
(* The safety properties of SourceCache hold for every number of threads,  *)
(* sessions, users and contexts.  SourceInv is inductive.  GateInv ties a  *)
(* gate that is in progress to the one user that saturates, on top of the  *)
(* stack of the thread in the gate; SlotInv ties a slot that is running to *)
(* the one user that computes it and to its job in the source pool;        *)
(* AnswerInv says that every answer is what the slot holds, and that a     *)
(* slot that is settled stays so.                                          *)
(***************************************************************************)
EXTENDS SourceCache, TLAPS

Threads == Provers \cup Workers

\* Users run on the provers' stacks, jobs and their parts on the workers'.
Types ==
  /\ malformed \subseteq Sessions
  /\ once \in [Slots -> {"empty", "running"} \cup Results]
  /\ job \in [Slots -> {"none", "queued", "running", "joining"} \cup Outcomes]
  /\ queue \subseteq Frames \ Users
  /\ gate \in [Users -> {"Pending"} \cup Results \cup Provers]
  /\ cells \in [Users -> {"lazy"} \cup Kinds]
  /\ at \in [Users -> Places]
  /\ answer \in [Users -> {"none"} \cup Outcomes]
  /\ stack \in [Threads -> Seq(Frames)]
  /\ \A w \in Provers : stack[w] \in Seq(Users)
  /\ \A w \in Workers : stack[w] \in Seq(Frames \ Users)
  /\ panics \in 0..MaxPanics

\* The places of a user that has the gate of its context.
Owning == {"resolving", "raw", "raw run", "refined run", "restoring", "finishing"}

Top(w) == Last(stack[w])

GateInv ==
  /\ \A c \in Users : InProgress(c) =>
       /\ gate[c] \in Provers /\ stack[gate[c]] # <<>> /\ Top(gate[c]) \in Users
       /\ Ctx[Top(gate[c])] = c /\ at[Top(gate[c])] \in Owning
  /\ \A u \in Users : at[u] \in Owning => InProgress(Ctx[u]) /\ Top(gate[Ctx[u]]) = u
  /\ \A u \in Users : at[u] = "asleep" => InProgress(Ctx[u])
  /\ \A u \in Users : at[u] = "swap asleep" => InProgress(Ctx[Parent[u]])
  /\ \A u \in Users : at[u] \in {"swapping", "swap asleep"} => Parent[u] # None

\* The user that waits for the job of a slot.
Awaits(u, s) ==
  \/ s = RawOf(u) /\ at[u] = "raw run"
  \/ s = SlotOf(u) /\ at[u] = "refined run"

SlotInv ==
  /\ \A u, v \in Users, s \in Slots : Computes(u, s) /\ Computes(v, s) => u = v
  /\ \A s \in Slots : once[s] = "running" <=> \E u \in Users : Computes(u, s)
  /\ \A s \in Slots : job[s] # "none" => \E u \in Users : Awaits(u, s)
  /\ \A u \in Users : at[u] \in {"raw", "refined run"} => Kind[u] = "refined"
  /\ \A s \in Slots : s \in queue => job[s] = "queued"

\* The places of a user that has not been told anything.
Unanswered == {"unborn", "pending", "swapping", "swap asleep", "begun", "asleep", "woken",
               "resolving", "raw", "raw run", "refined run"}

AnswerInv ==
  /\ \A u \in Users : answer[u] \in Results => once[SlotOf(u)] = answer[u]
  /\ \A c \in Users : gate[c] \in Results => once[SlotOf(c)] = gate[c]
  /\ \A c \in Users : gate[c] = "ok" => cells[c] = Kind[c]
  /\ \A u \in Users : at[u] \in Unanswered => answer[u] = "none"
  /\ \A u \in Users : at[u] = "restoring" => answer[u] = "ok"
  /\ \A u \in Users : at[u] = "finishing" => answer[u] \in Results
  /\ \A u \in Users : answer[u] = "ok" /\ at[u] \in {"finishing", "back", "joining", "done"}
                      => cells[Ctx[u]] = Kind[u]

SourceInv == Types /\ GateInv /\ SlotInv /\ AnswerInv

-----------------------------------------------------------------------------
(* Facts.                                                                  *)

\* A user's context and parent are of its session and kind.
LEMMA UserFacts ==
  ASSUME NEW u \in Users
  PROVE  /\ SlotOf(u) \in Slots /\ RawOf(u) \in Slots /\ Ctx[u] \in Users
         /\ SlotOf(Ctx[u]) = SlotOf(u) /\ Kind[Ctx[u]] = Kind[u] /\ Kind[u] \in Kinds
         /\ Kind[u] = "raw" <=> SlotOf(u) = RawOf(u)
         /\ Parent[u] # None => /\ Parent[u] \in Users /\ SlotOf(Parent[u]) = SlotOf(u)
                                /\ Ctx[u] = u
BY SourceAssumption DEF SlotOf, RawOf, Slots, Kinds

\* A slot is no user, a part is neither.
LEMMA FrameFacts ==
  ASSUME NEW s \in Slots
  PROVE  /\ s \notin Users /\ s \in Frames
         /\ Part(s) \subseteq Frames \ Users /\ Part(s) \cap Slots = {}
<1>1. s \in Frames /\ Part(s) \subseteq Frames
  BY DEF Frames
<1>2. s \notin Users /\ Part(s) \cap Users = {}
  BY SourceAssumption
<1>3. ASSUME NEW f \in Part(s), f \in Slots PROVE FALSE
  <2>1. PICK i \in Parts : f = <<s[1], s[2], i>>
    BY DEF Part
  <2>2. PICK a \in Sessions, k \in Kinds : f = <<a, k>>
    BY <1>3 DEF Slots
  <2>3. DOMAIN f = 1..3 /\ DOMAIN f = 1..2
    BY <2>1, <2>2
  <2> QED
    BY <2>3
<1> QED
  BY <1>1, <1>2, <1>3

\* Pushing and popping.
LEMMA StackFacts ==
  ASSUME NEW S, NEW s \in Seq(S)
  PROVE  /\ \A f \in S : Append(s, f) \in Seq(S) /\ Append(s, f) # <<>> /\ Last(Append(s, f)) = f
         /\ s # <<>> => Front(s) \in Seq(S) /\ Last(s) \in S
<1>1. ASSUME NEW f \in S
      PROVE  Append(s, f) \in Seq(S) /\ Append(s, f) # <<>> /\ Last(Append(s, f)) = f
  BY DEF Last
<1>2. ASSUME s # <<>> PROVE Front(s) \in Seq(S) /\ Last(s) \in S
  <2>1. Len(s) \in Nat \ {0} /\ \A i \in 1..Len(s) - 1 : s[i] \in S
    BY <1>2
  <2>2. Front(s) = [i \in 1..Len(s) - 1 |-> s[i]]
    BY <2>1 DEF Front
  <2> QED
    BY <2>1, <2>2 DEF Last
<1> QED
  BY <1>1, <1>2

\* A user that has the turn is on a prover's stack.
LEMMA OnProver ==
  ASSUME Types, NEW w \in Threads, stack[w] # <<>>
  PROVE  Top(w) \in Users => w \in Provers
<1>1. ASSUME w \in Workers PROVE Top(w) \in Frames \ Users
  BY <1>1, StackFacts DEF Types, Top
<1> QED
  BY <1>1 DEF Threads

\* What holds of every user.
LEMMA AllUsers ==
  \A u \in Users :
     /\ SlotOf(u) \in Slots /\ RawOf(u) \in Slots /\ Ctx[u] \in Users
     /\ SlotOf(Ctx[u]) = SlotOf(u) /\ Kind[Ctx[u]] = Kind[u] /\ Kind[u] \in Kinds
     /\ Kind[u] = "raw" <=> SlotOf(u) = RawOf(u)
     /\ Parent[u] # None => /\ Parent[u] \in Users /\ SlotOf(Parent[u]) = SlotOf(u)
                            /\ Ctx[u] = u
BY UserFacts

-----------------------------------------------------------------------------
(* What an action that touches little keeps.                               *)

\* A step that opens and closes no gate, pushes and pops no owner, and lets
\* users into and out of their sleep properly, keeps GateInv.
LEMMA GateKept ==
  ASSUME Types, GateInv, UNCHANGED gate,
         \A c \in Users : InProgress(c) => stack'[gate[c]] = stack[gate[c]],
         \A v \in Users : at'[v] \in Owning <=> at[v] \in Owning,
         \A v \in Users : at'[v] = "asleep" => InProgress(Ctx[v]),
         \A v \in Users : at'[v] = "swap asleep" => InProgress(Ctx[Parent[v]]),
         \A v \in Users : at'[v] \in {"swapping", "swap asleep"} => Parent[v] # None
  PROVE  GateInv'
<1>1. \A c \in Users : InProgress(c)' <=> InProgress(c)
  BY DEF InProgress
<1>2. \A c \in Users : InProgress(c) => Top(gate[c])' = Top(gate[c])
  BY DEF Top
<1>3. \A c \in Users : InProgress(c)' =>
        /\ gate'[c] \in Provers /\ stack'[gate'[c]] # <<>> /\ Top(gate[c])' \in Users
        /\ Ctx[Top(gate[c])'] = c /\ at'[Top(gate[c])'] \in Owning
  BY <1>1, <1>2 DEF GateInv
<1>4. \A u \in Users : at'[u] \in Owning => InProgress(Ctx[u])' /\ Top(gate[Ctx[u]])' = u
  BY <1>1, <1>2, AllUsers DEF GateInv
<1>5. /\ \A u \in Users : at'[u] = "asleep" => InProgress(Ctx[u])'
      /\ \A u \in Users : at'[u] = "swap asleep" => InProgress(Ctx[Parent[u]])'
  BY DEF InProgress
<1> QED
  BY <1>3, <1>4, <1>5 DEF GateInv

\* A step that settles no slot, starts no job and moves nobody into or out of a
\* computation keeps SlotInv.
LEMMA SlotKept ==
  ASSUME SlotInv, UNCHANGED once,
         \A s \in Slots : s \in queue' => s \in queue /\ job'[s] = job[s],
         \A s \in Slots : job'[s] # "none" => job[s] # "none",
         \A v \in Users : \A p \in {"raw", "raw run", "refined run"} : at'[v] = p <=> at[v] = p
  PROVE  SlotInv'
<1>1. \A v \in Users, s \in Slots : Computes(v, s)' <=> Computes(v, s)
  BY DEF Computes
<1>2. \A v \in Users, s \in Slots : Awaits(v, s)' <=> Awaits(v, s)
  BY DEF Awaits
<1> QED
  BY <1>1, <1>2 DEF SlotInv

\* The part of AnswerInv that is about a user.
Answered(u) ==
  /\ answer[u] \in Results => once[SlotOf(u)] = answer[u]
  /\ at[u] \in Unanswered => answer[u] = "none"
  /\ at[u] = "restoring" => answer[u] = "ok"
  /\ at[u] = "finishing" => answer[u] \in Results
  /\ answer[u] = "ok" /\ at[u] \in {"finishing", "back", "joining", "done"} => cells[Ctx[u]] = Kind[u]

\* A step that empties no settled slot keeps AnswerInv when it does for the
\* gates, the cells and the users it changes.
LEMMA AnswerKept ==
  ASSUME Types, AnswerInv,
         \A s \in Slots : once[s] \in Results => once'[s] = once[s],
         \A c \in Users : \/ gate'[c] = gate[c] /\ (cells'[c] = cells[c] \/ cells'[c] = Kind[c])
                          \/ gate'[c] \notin Results
                          \/ /\ gate'[c] = once'[SlotOf(c)]
                             /\ gate'[c] = "ok" => cells'[c] = Kind[c],
         \A v \in Users : \/ /\ at'[v] = at[v] /\ answer'[v] = answer[v]
                             /\ cells'[Ctx[v]] = cells[Ctx[v]] \/ cells'[Ctx[v]] = Kind[v]
                          \/ Answered(v)'
  PROVE  AnswerInv'
<1>1. \A v \in Users : Answered(v)
  BY DEF AnswerInv, Answered
<1>2. ASSUME NEW v \in Users, at'[v] = at[v] /\ answer'[v] = answer[v],
             cells'[Ctx[v]] = cells[Ctx[v]] \/ cells'[Ctx[v]] = Kind[v]
      PROVE Answered(v)'
  <2>1. answer[v] \in Results => once'[SlotOf(v)] = once[SlotOf(v)]
    BY <1>1, AllUsers DEF Answered
  <2> QED
    BY <1>1, <1>2, <2>1 DEF Answered
<1>3. ASSUME NEW v \in Users PROVE Answered(v)'
  <2>1. CASE /\ at'[v] = at[v] /\ answer'[v] = answer[v]
             /\ cells'[Ctx[v]] = cells[Ctx[v]] \/ cells'[Ctx[v]] = Kind[v]
    BY <1>2, <2>1
  <2>2. CASE Answered(v)'
    BY <2>2
  <2> QED
    BY <2>1, <2>2
<1>4. \A c \in Users : gate'[c] \in Results => once'[SlotOf(c)] = gate'[c]
  BY AllUsers DEF AnswerInv
<1>5. \A c \in Users : gate'[c] = "ok" => cells'[c] = Kind[c]
  BY DEF AnswerInv, Results
<1> QED
  BY <1>3, <1>4, <1>5 DEF AnswerInv, Answered

-----------------------------------------------------------------------------
(* The steps of a thread that looks for work.                              *)

\* A new task is pushed on no thread that owns a gate.
LEMMA StartKeeps ==
  ASSUME SourceInv, NEW w \in Threads, NEW u \in Users, Start(w, u)
  PROVE  SourceInv'
<1>1. Types'
  <2>1. stack[w] \in Seq(Users) /\ stack[w] \in Seq(Frames) /\ u \in Frames
    BY DEF SourceInv, Types, Start, Frames, Threads
  <2>2. Append(stack[w], u) \in Seq(Users) /\ Append(stack[w], u) \in Seq(Frames)
    BY <2>1
  <2>3. w \notin Workers
    BY SourceAssumption DEF Start
  <2> QED
    BY <2>2, <2>3 DEF SourceInv, Types, Start, Places, Threads
<1>2. GateInv'
  <2>1. \A c \in Users : InProgress(c) => gate[c] # w
    BY AllUsers, FrameFacts DEF SourceInv, GateInv, Start, Joins, Top, Owning
  <2>2. \A x \in Threads : x # w => stack'[x] = stack[x]
    BY DEF SourceInv, Types, Start
  <2>3. \A v \in Users : v # u => at'[v] = at[v]
    BY DEF SourceInv, Types, Start
  <2>4. at[u] = "pending" /\ at'[u] = (IF Parent[u] = None THEN "begun" ELSE "swapping")
    BY DEF SourceInv, Types, Start
  <2>5. \A c \in Users : InProgress(c) => stack'[gate[c]] = stack[gate[c]]
    BY <2>1, <2>2 DEF SourceInv, GateInv, Threads
  <2>6. \A v \in Users : at'[v] \in Owning <=> at[v] \in Owning
    BY <2>3, <2>4 DEF Owning
  <2>7. /\ \A v \in Users : at'[v] = "asleep" => InProgress(Ctx[v])
        /\ \A v \in Users : at'[v] = "swap asleep" => InProgress(Ctx[Parent[v]])
        /\ \A v \in Users : at'[v] \in {"swapping", "swap asleep"} => Parent[v] # None
    BY <2>3, <2>4 DEF SourceInv, GateInv
  <2>8. UNCHANGED gate
    BY DEF Start
  <2> QED
    BY <2>5, <2>6, <2>7, <2>8, GateKept DEF SourceInv
<1>3. SlotInv'
  BY SlotKept DEF SourceInv, Types, Start
<1>4. AnswerInv'
  <2>1. \A v \in Users : (at'[v] = at[v] /\ answer'[v] = answer[v]) \/ Answered(v)'
    BY DEF SourceInv, Types, AnswerInv, Start, Answered, Unanswered, Results
  <2> QED
    BY <2>1, AnswerKept DEF SourceInv, Start
<1> QED
  BY <1>1, <1>2, <1>3, <1>4 DEF SourceInv

\* A worker pushes what it takes on a stack that no user is on.
LEMMA TakeKeeps ==
  ASSUME SourceInv, NEW w \in Threads, NEW f \in queue, Take(w, f)
  PROVE  SourceInv'
<1>1. w \in Workers /\ w \notin Provers /\ f \in Frames \ Users
  BY SourceAssumption DEF Take, SourceInv, Types
<1>2. Types'
  <2>1. Append(stack[w], f) \in Seq(Frames \ Users) /\ Append(stack[w], f) \in Seq(Frames)
    BY <1>1 DEF SourceInv, Types
  <2> QED
    BY <1>1, <2>1 DEF SourceInv, Types, Take, Threads
<1>3. GateInv'
  <2>1. \A c \in Users : InProgress(c) => gate[c] \in Threads /\ gate[c] # w
    BY <1>1 DEF SourceInv, GateInv, Threads
  <2>2. \A c \in Users : InProgress(c) => stack'[gate[c]] = stack[gate[c]]
    BY <2>1 DEF SourceInv, Types, Take
  <2>3. UNCHANGED <<gate, at>>
    BY DEF Take
  <2> QED
    BY <2>2, <2>3, GateKept DEF SourceInv, GateInv
<1>4. SlotInv'
  <2>1. /\ \A s \in Slots : s \in queue' => s \in queue /\ job'[s] = job[s]
        /\ \A s \in Slots : job'[s] # "none" => job[s] # "none"
    BY DEF SourceInv, Types, SlotInv, Take
  <2>2. UNCHANGED <<once, at>>
    BY DEF Take
  <2> QED
    BY <2>1, <2>2, SlotKept DEF SourceInv
<1>5. AnswerInv'
  BY AnswerKept DEF SourceInv, Take
<1> QED
  BY <1>2, <1>3, <1>4, <1>5 DEF SourceInv

-----------------------------------------------------------------------------
(* The steps of the source pool.                                           *)

\* A task that is no user is on no owner's stack.
LEMMA OnWorker ==
  ASSUME SourceInv, NEW w \in Threads, stack[w] # <<>>, Top(w) \notin Users
  PROVE  /\ w \in Workers /\ w \notin Provers
         /\ Front(stack[w]) \in Seq(Frames \ Users) /\ Front(stack[w]) \in Seq(Frames)
         /\ \A c \in Users : InProgress(c) => gate[c] \in Threads /\ gate[c] # w
<1>1. w \in Workers
  <2>1. w \in Provers => Top(w) \in Users
    BY StackFacts DEF SourceInv, Types, Top
  <2> QED
    BY <2>1 DEF Threads
<1>2. w \notin Provers
  BY <1>1, SourceAssumption
<1>3. Front(stack[w]) \in Seq(Frames \ Users) /\ Front(stack[w]) \in Seq(Frames)
  BY <1>1, StackFacts DEF SourceInv, Types
<1> QED
  BY <1>1, <1>2, <1>3 DEF SourceInv, GateInv, Threads

\* The parts of a job are no jobs.
LEMMA FanOutKeeps ==
  ASSUME SourceInv, NEW s \in Slots, FanOut(s)
  PROVE  SourceInv'
<1>1. Types'
  BY FrameFacts DEF SourceInv, Types, FanOut
<1>2. GateInv'
  BY GateKept DEF SourceInv, GateInv, FanOut
<1>3. SlotInv'
  <2>1. /\ \A t \in Slots : t \in queue' => t \in queue /\ job'[t] = job[t]
        /\ \A t \in Slots : job'[t] # "none" => job[t] # "none"
    BY FrameFacts DEF SourceInv, Types, SlotInv, FanOut
  <2> QED
    BY <2>1, SlotKept DEF SourceInv, FanOut
<1>4. AnswerInv'
  BY AnswerKept DEF SourceInv, FanOut
<1> QED
  BY <1>1, <1>2, <1>3, <1>4 DEF SourceInv

\* The end of a part.
LEMMA EndPartKeeps ==
  ASSUME SourceInv, NEW w \in Threads, stack[w] # <<>>, NEW f, f = Top(w), f \notin Users, EndPart(w, f)
  PROVE  SourceInv'
<1>1. Types'
  BY OnWorker DEF SourceInv, Types, EndPart
<1>2. GateInv'
  <2>1. \A c \in Users : InProgress(c) => stack'[gate[c]] = stack[gate[c]]
    BY OnWorker DEF SourceInv, Types, EndPart
  <2> QED
    BY <2>1, GateKept DEF SourceInv, GateInv, EndPart
<1>3. SlotInv'
  BY SlotKept DEF SourceInv, EndPart
<1>4. AnswerInv'
  BY AnswerKept DEF SourceInv, EndPart
<1> QED
  BY <1>1, <1>2, <1>3, <1>4 DEF SourceInv

\* The end of a job: the user that computes the slot still waits for it.
LEMMA CompleteKeeps ==
  ASSUME SourceInv, NEW w \in Threads, stack[w] # <<>>, NEW s \in Slots, s = Top(w), Complete(w, s)
  PROVE  SourceInv'
<1>1. s \notin Users
  BY FrameFacts
<1>2. PICK r \in Outcomes : /\ job' = [job EXCEPT ![s] = r]
                            /\ r = "panic" => panics < MaxPanics
                            /\ panics' = IF r = "panic" THEN panics + 1 ELSE panics
  BY DEF Complete
<1>3. Types'
  BY <1>1, <1>2, OnWorker, SourceAssumption DEF SourceInv, Types, Complete
<1>4. GateInv'
  <2>1. \A c \in Users : InProgress(c) => stack'[gate[c]] = stack[gate[c]]
    BY <1>1, OnWorker DEF SourceInv, Types, Complete
  <2> QED
    BY <2>1, GateKept DEF SourceInv, GateInv, Complete
<1>5. SlotInv'
  <2>1. /\ \A t \in Slots : t \in queue' => t \in queue /\ job'[t] = job[t]
        /\ \A t \in Slots : job'[t] # "none" => job[t] # "none"
    BY <1>2 DEF SourceInv, Types, SlotInv, Complete
  <2> QED
    BY <2>1, SlotKept DEF SourceInv, Complete
<1>6. AnswerInv'
  BY AnswerKept DEF SourceInv, Complete
<1> QED
  BY <1>3, <1>4, <1>5, <1>6 DEF SourceInv

-----------------------------------------------------------------------------
(* The steps of a user at its gate.                                        *)

\* The user that has the turn is not on an owner's stack, unless it owns a gate.
LEMMA OnGate ==
  ASSUME SourceInv, NEW w \in Threads, stack[w] # <<>>, Top(w) \in Users
  PROVE  /\ w \in Provers /\ w \notin Workers
         /\ Front(stack[w]) \in Seq(Users) /\ Front(stack[w]) \in Seq(Frames)
         /\ \A c \in Users : InProgress(c) => gate[c] \in Threads
         /\ at[Top(w)] \notin Owning => \A c \in Users : InProgress(c) => gate[c] # w
<1>1. w \in Provers
  BY OnProver DEF SourceInv
<1>2. w \notin Workers
  BY <1>1, SourceAssumption
<1>3. Front(stack[w]) \in Seq(Users) /\ Front(stack[w]) \in Seq(Frames)
  BY <1>1, StackFacts DEF SourceInv, Types
<1> QED
  BY <1>1, <1>2, <1>3 DEF SourceInv, GateInv, Threads

\* A case has no cases, and no other user works with its context.
LEMMA CaseFacts ==
  ASSUME NEW u \in Users, Parent[u] # None
  PROVE  /\ \A v \in Users : Ctx[v] = u <=> v = u
         /\ \A v \in Users : Parent[v] # None => Parent[v] # u /\ Ctx[Parent[v]] # u
<1>1. \A v \in Users : Ctx[v] = u <=> v = u
  BY SourceAssumption
<1>2. \A v \in Users : Parent[v] # None => Parent[v] \in Users /\ Parent[Parent[v]] = None
  BY SourceAssumption
<1> QED
  BY <1>1, <1>2

\* A case's context starts as its parent's is, and nobody else has seen it.
LEMMA SwapKeeps ==
  ASSUME SourceInv, NEW u \in Users, Swap(u)
  PROVE  SourceInv'
<1> DEFINE c == Ctx[Parent[u]]
<1>1. /\ at[u] = "swapping" /\ Parent[u] # None /\ Parent[u] \in Users /\ c \in Users /\ Ctx[u] = u
      /\ SlotOf(c) = SlotOf(u) /\ Kind[c] = Kind[u]
  <2>1. at[u] = "swapping" /\ Parent[u] # None
    BY DEF SourceInv, GateInv, Swap
  <2> QED
    BY <2>1, AllUsers, SourceAssumption
<1>2. \A v \in Users : v # u => at'[v] = at[v]
  BY DEF SourceInv, Types, Swap
<1>3. UNCHANGED <<malformed, once, job, queue, answer, stack, panics>>
  BY DEF Swap
<1>4. CASE InProgress(c)
  <2>1. at'[u] = "swap asleep" /\ UNCHANGED <<gate, cells>>
    BY <1>4 DEF SourceInv, Types, Swap
  <2>2. Types'
    BY <1>3, <2>1, <1>4 DEF SourceInv, Types, Swap, Places
  <2>3. GateInv'
    <3>1. /\ \A v \in Users : at'[v] \in Owning <=> at[v] \in Owning
          /\ \A v \in Users : at'[v] = "asleep" => InProgress(Ctx[v])
      BY <1>1, <1>2, <2>1 DEF SourceInv, GateInv, Owning
    <3>2. /\ \A v \in Users : at'[v] = "swap asleep" => InProgress(Ctx[Parent[v]])
          /\ \A v \in Users : at'[v] \in {"swapping", "swap asleep"} => Parent[v] # None
      BY <1>1, <1>2, <1>4, <2>1 DEF SourceInv, GateInv
    <3> QED
      BY <1>3, <2>1, <3>1, <3>2, GateKept DEF SourceInv
  <2>4. SlotInv'
    BY <1>1, <1>2, <1>3, <2>1, SlotKept DEF SourceInv
  <2>5. AnswerInv'
    <3>1. Answered(u)'
      BY <1>1, <1>3, <2>1 DEF SourceInv, AnswerInv, Answered, Unanswered, Results
    <3> QED
      BY <1>2, <1>3, <2>1, <3>1, AnswerKept DEF SourceInv
  <2> QED
    BY <2>2, <2>3, <2>4, <2>5 DEF SourceInv
<1>5. CASE ~InProgress(c)
  <2>1. at'[u] = "begun" /\ gate'[u] = gate[c] /\ cells'[u] = cells[c]
    BY <1>5 DEF SourceInv, Types, Swap
  <2>2. \A d \in Users : d # u => gate'[d] = gate[d] /\ cells'[d] = cells[d]
    BY <1>5 DEF SourceInv, Types, Swap
  <2>3. gate[c] \in {"Pending"} \cup Results
    BY <1>5 DEF InProgress
  <2>4. Types'
    BY <1>1, <1>3, <2>3, <1>5 DEF SourceInv, Types, Swap, Places
  <2>5. GateInv'
    <3>1. ~InProgress(u)' /\ \A d \in Users : d # u => (InProgress(d)' <=> InProgress(d))
      BY <2>1, <2>2, <2>3 DEF InProgress
    <3>2. \A v \in Users : v # u => Ctx[v] # u /\ (Parent[v] # None => Ctx[Parent[v]] # u)
      BY <1>1, CaseFacts
    <3>3. \A v \in Users : at'[v] \in Owning <=> at[v] \in Owning
      BY <1>1, <1>2, <2>1 DEF Owning
    <3>4. \A d \in Users : InProgress(d)' =>
            /\ gate'[d] \in Provers /\ stack'[gate'[d]] # <<>> /\ Top(gate[d])' \in Users
            /\ Ctx[Top(gate[d])'] = d /\ at'[Top(gate[d])'] \in Owning
      BY <1>3, <2>2, <3>1, <3>3 DEF SourceInv, GateInv, Top
    <3>5. ASSUME NEW v \in Users, at'[v] \in Owning
          PROVE  InProgress(Ctx[v])' /\ Top(gate[Ctx[v]])' = v
      <4>1. at[v] \in Owning /\ v # u /\ Ctx[v] # u /\ Ctx[v] \in Users
        BY <1>1, <3>2, <3>3, <3>5, AllUsers DEF Owning
      <4>2. InProgress(Ctx[v]) /\ Top(gate[Ctx[v]]) = v
        BY <4>1 DEF SourceInv, GateInv
      <4> QED
        BY <1>3, <2>2, <3>1, <4>1, <4>2 DEF Top
    <3>6. \A v \in Users : at'[v] = "asleep" => InProgress(Ctx[v])'
      BY <1>2, <2>1, <3>1, <3>2, AllUsers DEF SourceInv, GateInv
    <3>7. \A v \in Users : at'[v] = "swap asleep" => InProgress(Ctx[Parent[v]])'
      BY <1>2, <2>1, <3>1, <3>2, AllUsers DEF SourceInv, GateInv
    <3>8. \A v \in Users : at'[v] \in {"swapping", "swap asleep"} => Parent[v] # None
      BY <1>2, <2>1 DEF SourceInv, GateInv
    <3> QED
      BY <3>4, <3>5, <3>6, <3>7, <3>8 DEF GateInv
  <2>6. SlotInv'
    BY <1>1, <1>2, <1>3, <2>1, SlotKept DEF SourceInv
  <2>7. AnswerInv'
    <3>1. Answered(u)'
      BY <1>1, <1>3, <2>1 DEF SourceInv, AnswerInv, Answered, Unanswered, Results
    <3>2. gate'[u] \in Results => gate'[u] = once'[SlotOf(u)] /\ (gate'[u] = "ok" => cells'[u] = Kind[u])
      BY <1>1, <1>3, <2>1 DEF SourceInv, AnswerInv
    <3>3. \A v \in Users : v # u => Ctx[v] # u /\ Ctx[v] \in Users
      BY <1>1, CaseFacts, AllUsers
    <3> QED
      BY <1>2, <1>3, <2>2, <3>1, <3>2, <3>3, AnswerKept DEF SourceInv
  <2> QED
    BY <2>4, <2>5, <2>6, <2>7 DEF SourceInv
<1> QED
  BY <1>4, <1>5

\* A user opens its gate, takes its result or sleeps; its own thread is never
\* in the gate it finds.
LEMMA EnterKeeps ==
  ASSUME SourceInv, NEW w \in Threads, stack[w] # <<>>, NEW u \in Users, Top(w) = u, Enter(w, u)
  PROVE  SourceInv'
<1> DEFINE c == Ctx[u]
<1>1. /\ at[u] \in {"begun", "woken"} /\ c \in Users /\ SlotOf(c) = SlotOf(u) /\ Kind[c] = Kind[u]
      /\ at[u] \notin Owning /\ answer[u] = "none"
  BY AllUsers DEF SourceInv, AnswerInv, Unanswered, Enter, Owning
<1>2. w \in Provers /\ \A d \in Users : InProgress(d) => gate[d] # w
  BY <1>1, OnGate
<1>3. w \notin {"Pending"} \cup Results
  BY <1>2, SourceAssumption DEF Results
<1>4. \A v \in Users : v # u => at'[v] = at[v] /\ answer'[v] = answer[v]
  BY DEF SourceInv, Types, Enter
<1>5. UNCHANGED <<malformed, once, job, queue, cells, stack, panics>>
  BY DEF Enter
<1>6. CASE gate[c] \in Results
  <2>1. /\ at' = [at EXCEPT ![u] = "back"] /\ answer' = [answer EXCEPT ![u] = gate[c]]
        /\ at'[u] = "back" /\ answer'[u] = gate[c] /\ UNCHANGED gate
    <3>1. gate[c] # w /\ gate[c] # "Pending"
      BY <1>3, <1>6, SourceAssumption DEF Results
    <3> QED
      BY <1>6, <3>1 DEF SourceInv, Types, Enter
  <2>2. Types'
    BY <1>1, <1>5, <1>6, <2>1 DEF SourceInv, Types, Places, Outcomes
  <2>3. GateInv'
    <3>1. \A v \in Users : v # u => at'[v] = at[v]
      BY <1>4
    <3>2. \A v \in Users : at'[v] \in Owning <=> at[v] \in Owning
      BY <1>1, <2>1, <3>1 DEF Owning
    <3>3. /\ \A v \in Users : at'[v] = "asleep" => InProgress(Ctx[v])
          /\ \A v \in Users : at'[v] = "swap asleep" => InProgress(Ctx[Parent[v]])
          /\ \A v \in Users : at'[v] \in {"swapping", "swap asleep"} => Parent[v] # None
      BY <2>1, <3>1 DEF SourceInv, GateInv
    <3> QED
      BY <1>5, <2>1, <3>2, <3>3, GateKept DEF SourceInv
  <2>4. SlotInv'
    BY <1>1, <1>4, <1>5, <2>1, SlotKept DEF SourceInv
  <2>5. AnswerInv'
    <3>1. Answered(u)'
      BY <1>1, <1>5, <2>1 DEF SourceInv, AnswerInv, Answered, Unanswered, Results
    <3> QED
      BY <1>4, <1>5, <2>1, <3>1, AnswerKept DEF SourceInv
  <2> QED
    BY <2>2, <2>3, <2>4, <2>5 DEF SourceInv
<1>7. CASE gate[c] = "Pending"
  <2>1. at'[u] = "resolving" /\ gate' = [gate EXCEPT ![c] = w] /\ UNCHANGED answer
    BY <1>1, <1>3, <1>7 DEF SourceInv, Types, Enter, Results
  <2>2. gate'[c] = w /\ \A d \in Users : d # c => gate'[d] = gate[d]
    BY <1>1, <2>1 DEF SourceInv, Types
  <2>3. Types'
    BY <1>1, <1>2, <1>3, <1>5, <1>7, <2>1 DEF SourceInv, Types, Enter, Places
  <2>4. GateInv'
    <3>1. InProgress(c)' /\ ~InProgress(c) /\ \A d \in Users : d # c => (InProgress(d)' <=> InProgress(d))
      BY <1>3, <1>7, <2>2 DEF InProgress
    <3>2. \A v \in Users : v # u => (at'[v] \in Owning <=> at[v] \in Owning)
      BY <1>4
    <3>3. ASSUME NEW d \in Users, InProgress(d)'
          PROVE  /\ gate'[d] \in Provers /\ stack'[gate'[d]] # <<>> /\ Top(gate[d])' \in Users
                 /\ Ctx[Top(gate[d])'] = d /\ at'[Top(gate[d])'] \in Owning
      <4>1. CASE d = c
        BY <1>2, <1>5, <2>1, <2>2, <4>1 DEF Top, Owning
      <4>2. CASE d # c
        <5>1. InProgress(d) /\ gate'[d] = gate[d]
          BY <2>2, <3>1, <3>3, <4>2
        <5>2. Top(gate[d]) # u
          BY <1>1, <5>1 DEF SourceInv, GateInv
        <5> QED
          BY <1>5, <3>2, <5>1, <5>2 DEF SourceInv, GateInv, Top
      <4> QED
        BY <4>1, <4>2
    <3>4. ASSUME NEW v \in Users, at'[v] \in Owning
          PROVE  InProgress(Ctx[v])' /\ Top(gate[Ctx[v]])' = v
      <4>1. CASE v = u
        BY <1>5, <2>2, <3>1, <4>1 DEF Top
      <4>2. CASE v # u
        <5>1. InProgress(Ctx[v]) /\ Top(gate[Ctx[v]]) = v
          BY <3>2, <3>4, <4>2 DEF SourceInv, GateInv
        <5>2. Ctx[v] # c /\ Ctx[v] \in Users
          BY <3>1, <5>1, AllUsers
        <5> QED
          BY <1>5, <2>2, <3>1, <5>1, <5>2 DEF Top
      <4> QED
        BY <4>1, <4>2
    <3>5. \A v \in Users : at'[v] = "asleep" => InProgress(Ctx[v])'
      BY <1>4, <2>1, <3>1, AllUsers DEF SourceInv, GateInv
    <3>6. \A v \in Users : at'[v] = "swap asleep" => InProgress(Ctx[Parent[v]])'
      BY <1>4, <2>1, <3>1, AllUsers DEF SourceInv, GateInv
    <3>7. \A v \in Users : at'[v] \in {"swapping", "swap asleep"} => Parent[v] # None
      BY <1>4, <2>1 DEF SourceInv, GateInv
    <3> QED
      BY <3>3, <3>4, <3>5, <3>6, <3>7 DEF GateInv
  <2>5. SlotInv'
    BY <1>1, <1>4, <1>5, <2>1, SlotKept DEF SourceInv
  <2>6. AnswerInv'
    <3>1. Answered(u)'
      BY <1>1, <1>5, <2>1 DEF SourceInv, AnswerInv, Answered, Unanswered, Results
    <3> QED
      BY <1>3, <1>4, <1>5, <2>2, <3>1, AnswerKept DEF SourceInv
  <2> QED
    BY <2>3, <2>4, <2>5, <2>6 DEF SourceInv
<1>8. CASE gate[c] \notin {"Pending"} \cup Results
  <2>1. InProgress(c) /\ gate[c] # w
    BY <1>1, <1>2, <1>8 DEF InProgress
  <2>2. at'[u] = "asleep" /\ UNCHANGED <<gate, answer>>
    BY <1>1, <1>8, <2>1 DEF SourceInv, Types, Enter
  <2>3. Types'
    BY <1>1, <1>5, <1>8, <2>1, <2>2 DEF SourceInv, Types, Enter, Places
  <2>4. GateInv'
    BY <1>1, <1>4, <1>5, <2>1, <2>2, GateKept DEF SourceInv, GateInv, Owning
  <2>5. SlotInv'
    BY <1>1, <1>4, <1>5, <2>2, SlotKept DEF SourceInv
  <2>6. AnswerInv'
    <3>1. Answered(u)'
      BY <1>1, <1>5, <2>2 DEF SourceInv, AnswerInv, Answered, Unanswered, Results
    <3> QED
      BY <1>4, <1>5, <2>2, <3>1, AnswerKept DEF SourceInv
  <2> QED
    BY <2>3, <2>4, <2>5, <2>6 DEF SourceInv
<1> QED
  BY <1>6, <1>7, <1>8

\* Who fills the cells fills them as its context's users want them.
LEMMA RestoreKeeps ==
  ASSUME SourceInv, NEW u \in Users, Restore(u)
  PROVE  SourceInv'
<1>1. at[u] = "restoring" /\ answer[u] = "ok" /\ Kind[Ctx[u]] = Kind[u] /\ Ctx[u] \in Users /\ Kind[u] \in Kinds
  BY AllUsers DEF SourceInv, AnswerInv, Restore
<1>2. at'[u] = "finishing" /\ \A v \in Users : v # u => at'[v] = at[v]
  BY DEF SourceInv, Types, Restore
<1>3. cells'[Ctx[u]] = Kind[Ctx[u]] /\ \A c \in Users : c # Ctx[u] => cells'[c] = cells[c]
  BY <1>1 DEF SourceInv, Types, Restore
<1>4. UNCHANGED <<malformed, once, job, queue, gate, answer, stack, panics>>
  BY DEF Restore
<1>5. Types'
  BY <1>1 DEF SourceInv, Types, Restore, Places
<1>6. GateInv'
  BY <1>1, <1>2, <1>4, GateKept DEF SourceInv, GateInv, Owning
<1>7. SlotInv'
  BY <1>1, <1>2, <1>4, SlotKept DEF SourceInv
<1>8. AnswerInv'
  <2>1. Answered(u)'
    BY <1>1, <1>2, <1>3, <1>4 DEF SourceInv, AnswerInv, Answered, Unanswered, Results
  <2>2. \A v \in Users : cells'[Ctx[v]] = cells[Ctx[v]] \/ cells'[Ctx[v]] = Kind[v]
    BY <1>3, AllUsers
  <2>3. \A c \in Users : cells'[c] = cells[c] \/ cells'[c] = Kind[c]
    BY <1>3
  <2> QED
    BY <1>2, <1>4, <2>1, <2>2, <2>3, AnswerKept DEF SourceInv
<1> QED
  BY <1>5, <1>6, <1>7, <1>8 DEF SourceInv

\* The owner of a gate closes it and wakes all its sleepers.
LEMMA GateClosed ==
  ASSUME SourceInv, NEW u \in Users, at[u] \in Owning, NEW r \in {"Pending"} \cup Results,
         gate' = [gate EXCEPT ![Ctx[u]] = r], Notify(u, "back", Ctx[u]), UNCHANGED stack
  PROVE  /\ GateInv' /\ at' \in [Users -> Places]
         /\ gate' \in [Users -> {"Pending"} \cup Results \cup Provers]
         /\ \A v \in Users : \/ at'[v] = at[v]
                             \/ at[v] = "asleep" /\ at'[v] = "woken"
                             \/ at[v] = "swap asleep" /\ at'[v] = "swapping"
                             \/ v = u
         /\ at'[u] = "back"
<1> DEFINE c == Ctx[u]
<1>1. c \in Users
  BY AllUsers
<1>2. gate'[c] = r /\ \A d \in Users : d # c => gate'[d] = gate[d]
  BY <1>1 DEF SourceInv, Types
<1>3. ~InProgress(c)' /\ \A d \in Users : d # c => (InProgress(d)' <=> InProgress(d))
  BY <1>2 DEF InProgress
<1>4. \A v \in Users : at'[v] = IF v = u THEN "back"
                                ELSE IF at[v] = "asleep" /\ Ctx[v] = c THEN "woken"
                                ELSE IF at[v] = "swap asleep" /\ Ctx[Parent[v]] = c THEN "swapping" ELSE at[v]
  BY DEF Notify
<1>5. at' \in [Users -> Places]
  <2>1. \A v \in Users : at'[v] \in Places
    BY <1>4 DEF SourceInv, Types, Places
  <2> QED
    BY <2>1 DEF Notify
<1>6. gate' \in [Users -> {"Pending"} \cup Results \cup Provers]
  BY DEF SourceInv, Types
<1>7. GateInv'
  <2>1. \A v \in Users : v # u => (at'[v] \in Owning <=> at[v] \in Owning)
    BY <1>4 DEF Owning
  <2>2. InProgress(c) /\ Top(gate[c]) = u
    BY DEF SourceInv, GateInv
  <2>3. \A d \in Users : d # c => Top(gate[d])' = Top(gate[d])
    BY <1>2 DEF Top
  <2>4. ASSUME NEW d \in Users, InProgress(d)'
        PROVE  /\ gate'[d] \in Provers /\ stack'[gate'[d]] # <<>> /\ Top(gate[d])' \in Users
               /\ Ctx[Top(gate[d])'] = d /\ at'[Top(gate[d])'] \in Owning
    <3>1. d # c /\ InProgress(d) /\ gate'[d] = gate[d]
      BY <1>2, <1>3, <2>4
    <3>2. Top(gate[d]) # u
      BY <3>1 DEF SourceInv, GateInv
    <3> QED
      BY <2>1, <2>3, <3>1, <3>2 DEF SourceInv, GateInv
  <2>5. ASSUME NEW v \in Users, at'[v] \in Owning
        PROVE  InProgress(Ctx[v])' /\ Top(gate[Ctx[v]])' = v
    <3>1. v # u
      BY <1>4, <2>5 DEF Owning
    <3>2. InProgress(Ctx[v]) /\ Top(gate[Ctx[v]]) = v
      BY <2>1, <2>5, <3>1 DEF SourceInv, GateInv
    <3>3. Ctx[v] # c /\ Ctx[v] \in Users
      BY <2>2, <3>1, <3>2, AllUsers
    <3> QED
      BY <1>3, <2>3, <3>2, <3>3
  <2>6. \A v \in Users : at'[v] = "asleep" => InProgress(Ctx[v])'
    BY <1>3, <1>4, AllUsers DEF SourceInv, GateInv
  <2>7. \A v \in Users : at'[v] = "swap asleep" => InProgress(Ctx[Parent[v]])'
    BY <1>3, <1>4, AllUsers DEF SourceInv, GateInv
  <2>8. \A v \in Users : at'[v] \in {"swapping", "swap asleep"} => Parent[v] # None
    BY <1>4 DEF SourceInv, GateInv
  <2> QED
    BY <2>4, <2>5, <2>6, <2>7, <2>8 DEF GateInv
<1> QED
  BY <1>4, <1>5, <1>6, <1>7

\* The gate's result is what the slot holds.
LEMMA FinishKeeps ==
  ASSUME SourceInv, NEW u \in Users, Finish(u)
  PROVE  SourceInv'
<1>1. /\ at[u] = "finishing" /\ at[u] \in Owning /\ Ctx[u] \in Users
      /\ SlotOf(Ctx[u]) = SlotOf(u) /\ Kind[Ctx[u]] = Kind[u]
      /\ answer[u] \in Results /\ answer[u] = once[SlotOf(u)] /\ (answer[u] = "ok" => cells[Ctx[u]] = Kind[u])
  BY AllUsers DEF SourceInv, AnswerInv, Finish, Owning
<1>2. UNCHANGED <<malformed, once, job, queue, cells, answer, stack, panics>>
  BY DEF Finish
<1>3. /\ GateInv' /\ at' \in [Users -> Places]
      /\ gate' \in [Users -> {"Pending"} \cup Results \cup Provers]
      /\ \A v \in Users : \/ at'[v] = at[v]
                          \/ at[v] = "asleep" /\ at'[v] = "woken"
                          \/ at[v] = "swap asleep" /\ at'[v] = "swapping"
                          \/ v = u
      /\ at'[u] = "back"
  BY <1>1, GateClosed DEF Finish
<1>4. Types'
  BY <1>2, <1>3 DEF SourceInv, Types
<1>5. SlotInv'
  BY <1>1, <1>2, <1>3, SlotKept DEF SourceInv
<1>6. AnswerInv'
  <2>1. \A v \in Users : (at'[v] = at[v] /\ answer'[v] = answer[v]) \/ Answered(v)'
    BY <1>1, <1>2, <1>3 DEF SourceInv, AnswerInv, Answered, Unanswered, Results
  <2>2. gate'[Ctx[u]] = answer[u] /\ \A c \in Users : c # Ctx[u] => gate'[c] = gate[c]
    BY <1>1 DEF SourceInv, Types, Finish
  <2> QED
    BY <1>1, <1>2, <2>1, <2>2, AnswerKept DEF SourceInv
<1> QED
  BY <1>3, <1>4, <1>5, <1>6 DEF SourceInv

\* Who wakes for no reason looks again.
LEMMA SpuriousKeeps ==
  ASSUME SourceInv, NEW u \in Users, Spurious(u)
  PROVE  SourceInv'
<1>1. /\ \/ at[u] = "asleep" /\ at'[u] = "woken"
         \/ at[u] = "swap asleep" /\ at'[u] = "swapping"
      /\ \A v \in Users : v # u => at'[v] = at[v]
  BY DEF SourceInv, Types, Spurious
<1>2. UNCHANGED <<malformed, once, job, queue, gate, cells, answer, stack, panics>>
  BY DEF Spurious
<1>3. Types'
  BY DEF SourceInv, Types, Spurious, Places
<1>4. GateInv'
  BY <1>1, <1>2, GateKept DEF SourceInv, GateInv, Owning
<1>5. SlotInv'
  BY <1>1, <1>2, SlotKept DEF SourceInv
<1>6. AnswerInv'
  <2>1. Answered(u)'
    BY <1>1, <1>2 DEF SourceInv, AnswerInv, Answered, Unanswered, Results
  <2> QED
    BY <1>1, <1>2, <2>1, AnswerKept DEF SourceInv
<1> QED
  BY <1>3, <1>4, <1>5, <1>6 DEF SourceInv

-----------------------------------------------------------------------------
(* The steps of a user that resolves a slot.                               *)

\* SlotInv needs to be looked at for the user that moves only.
LEMMA SlotMoved ==
  ASSUME SlotInv, NEW u \in Users,
         \A v \in Users : v # u => \A p \in {"raw", "raw run", "refined run"} : at'[v] = p <=> at[v] = p,
         \A s \in Slots : Computes(u, s)' => Computes(u, s) \/ once[s] # "running",
         \A s \in Slots : once'[s] = "running" <=>
                            Computes(u, s)' \/ (once[s] = "running" /\ ~Computes(u, s)),
         \A s \in Slots : job'[s] # "none" => Awaits(u, s)' \/ (job[s] # "none" /\ ~Awaits(u, s)),
         \A s \in Slots : s \in queue' => job'[s] = "queued",
         at'[u] \in {"raw", "refined run"} => Kind[u] = "refined"
  PROVE  SlotInv'
<1>1. \A v \in Users : v # u => \A s \in Slots : (Computes(v, s)' <=> Computes(v, s)) /\ (Awaits(v, s)' <=> Awaits(v, s))
  BY DEF Computes, Awaits
<1>2. ASSUME NEW v \in Users, NEW x \in Users, NEW s \in Slots, Computes(v, s)', Computes(x, s)'
      PROVE  v = x
  <2>1. CASE v = u /\ x # u
    BY <1>1, <1>2, <2>1 DEF SlotInv
  <2>2. CASE v # u /\ x = u
    BY <1>1, <1>2, <2>2 DEF SlotInv
  <2>3. CASE v # u /\ x # u
    BY <1>1, <1>2, <2>3 DEF SlotInv
  <2> QED
    BY <2>1, <2>2, <2>3
<1>3. ASSUME NEW s \in Slots PROVE once'[s] = "running" <=> \E v \in Users : Computes(v, s)'
  <2>1. ASSUME once'[s] = "running" PROVE \E v \in Users : Computes(v, s)'
    <3>1. CASE Computes(u, s)'
      BY <3>1
    <3>2. CASE once[s] = "running" /\ ~Computes(u, s)
      <4>1. PICK v \in Users : Computes(v, s)
        BY <3>2 DEF SlotInv
      <4>2. v # u
        BY <3>2, <4>1
      <4> QED
        BY <1>1, <4>1, <4>2
    <3> QED
      BY <2>1, <3>1, <3>2
  <2>2. ASSUME NEW v \in Users, Computes(v, s)' PROVE once'[s] = "running"
    BY <1>1, <2>2 DEF SlotInv
  <2> QED
    BY <2>1, <2>2
<1>4. ASSUME NEW s \in Slots, job'[s] # "none" PROVE \E v \in Users : Awaits(v, s)'
  <2>1. CASE Awaits(u, s)'
    BY <2>1
  <2>2. CASE job[s] # "none" /\ ~Awaits(u, s)
    <3>1. PICK v \in Users : Awaits(v, s)
      BY <2>2 DEF SlotInv
    <3>2. v # u
      BY <2>2, <3>1
    <3> QED
      BY <1>1, <3>1, <3>2
  <2> QED
    BY <1>4, <2>1, <2>2
<1>5. \A v \in Users : at'[v] \in {"raw", "refined run"} => Kind[v] = "refined"
  BY DEF SlotInv
<1> QED
  BY <1>2, <1>3, <1>4, <1>5 DEF SlotInv

\* Who owns a gate and keeps it changes nothing of GateInv.
LEMMA OwnerKept ==
  ASSUME SourceInv, NEW u \in Users, at[u] \in Owning, at'[u] \in Owning,
         \A v \in Users : v # u => at'[v] = at[v], UNCHANGED <<gate, stack>>
  PROVE  GateInv'
<1>1. \A v \in Users : at'[v] \in Owning <=> at[v] \in Owning
  OBVIOUS
<1>2. at'[u] \notin {"asleep", "swap asleep", "swapping"}
  BY DEF Owning
<1>3. /\ \A v \in Users : at'[v] = "asleep" => InProgress(Ctx[v])
      /\ \A v \in Users : at'[v] = "swap asleep" => InProgress(Ctx[Parent[v]])
      /\ \A v \in Users : at'[v] \in {"swapping", "swap asleep"} => Parent[v] # None
  BY <1>2 DEF SourceInv, GateInv
<1> QED
  BY <1>1, <1>3, GateKept DEF SourceInv

\* Who has the slot's value takes it as its answer.
LEMMA ResolvedFacts ==
  ASSUME SourceInv, NEW u \in Users, at[u] \in Owning, NEW r \in Results, Resolved(u, r)
  PROVE  /\ at' \in [Users -> Places] /\ answer' \in [Users -> {"none"} \cup Outcomes]
         /\ at'[u] = (IF r = "ok" THEN "restoring" ELSE "finishing") /\ answer'[u] = r
         /\ at'[u] \in Owning
         /\ \A v \in Users : v # u => at'[v] = at[v] /\ answer'[v] = answer[v]
BY DEF SourceInv, Types, Resolved, Owning, Results, Outcomes, Places

\* The refined slot is empty, so nobody computes it.
LEMMA RefineKeeps ==
  ASSUME SourceInv, NEW w \in Threads, NEW u \in Users, Refine(w, u)
  PROVE  SourceInv'
<1> DEFINE s0 == SlotOf(u)
<1>1. /\ at[u] = "resolving" /\ at[u] \in Owning /\ Kind[u] = "refined" /\ once[s0] = "empty"
      /\ s0 \in Slots /\ RawOf(u) # s0 /\ answer[u] = "none"
  BY AllUsers DEF SourceInv, AnswerInv, Unanswered, Refine, Owning
<1>2. UNCHANGED <<malformed, job, queue, gate, cells, stack, panics>>
  BY DEF Refine
<1>3. \A s \in Slots : s \in queue => job[s] = "queued"
  BY DEF SourceInv, SlotInv
<1>4. CASE Session[u] \in malformed
  <2>1. once' = [once EXCEPT ![s0] = "err"] /\ Resolved(u, "err")
    BY <1>4 DEF Refine
  <2>2. /\ at' \in [Users -> Places] /\ answer' \in [Users -> {"none"} \cup Outcomes]
        /\ at'[u] = "finishing" /\ answer'[u] = "err" /\ at'[u] \in Owning
        /\ \A v \in Users : v # u => at'[v] = at[v] /\ answer'[v] = answer[v]
    BY <1>1, <2>1, ResolvedFacts DEF Results
  <2>3. once'[s0] = "err" /\ \A s \in Slots : s # s0 => once'[s] = once[s]
    BY <1>1, <2>1 DEF SourceInv, Types
  <2>4. Types'
    BY <1>1, <1>2, <2>1, <2>2 DEF SourceInv, Types, Results
  <2>5. GateInv'
    BY <1>1, <1>2, <2>2, OwnerKept
  <2>6. SlotInv'
    <3>1. \A s \in Slots : ~Computes(u, s)' /\ ~Computes(u, s) /\ ~Awaits(u, s)
      BY <1>1, <2>2 DEF Computes, Awaits
    <3>2. \A s \in Slots : once'[s] = "running" <=> once[s] = "running"
      BY <1>1, <2>3
    <3> QED
      BY <1>1, <1>2, <1>3, <2>2, <3>1, <3>2, SlotMoved DEF SourceInv
  <2>7. AnswerInv'
    <3>1. Answered(u)'
      BY <2>2, <2>3 DEF Answered, Unanswered, Results
    <3>2. \A s \in Slots : once[s] \in Results => once'[s] = once[s]
      BY <1>1, <2>3 DEF Results
    <3> QED
      BY <1>2, <2>2, <3>1, <3>2, AnswerKept DEF SourceInv
  <2> QED
    BY <2>4, <2>5, <2>6, <2>7 DEF SourceInv
<1>5. CASE Session[u] \notin malformed
  <2>1. /\ once' = [once EXCEPT ![s0] = "running"] /\ at' = [at EXCEPT ![u] = "raw"] /\ UNCHANGED answer
        /\ at'[u] = "raw" /\ at'[u] \in Owning /\ \A v \in Users : v # u => at'[v] = at[v]
    BY <1>5 DEF SourceInv, Types, Refine, Owning
  <2>2. once'[s0] = "running" /\ \A s \in Slots : s # s0 => once'[s] = once[s]
    BY <1>1, <2>1 DEF SourceInv, Types
  <2>3. Types'
    BY <1>1, <1>2, <2>1 DEF SourceInv, Types, Places
  <2>4. GateInv'
    BY <1>1, <1>2, <2>1, OwnerKept
  <2>5. SlotInv'
    <3>1. \A s \in Slots : (Computes(u, s)' <=> s = s0) /\ ~Computes(u, s) /\ ~Awaits(u, s)
      BY <1>1, <2>1 DEF Computes, Awaits
    <3>2. \A s \in Slots : once'[s] = "running" <=> s = s0 \/ once[s] = "running"
      BY <1>1, <2>2
    <3> QED
      BY <1>1, <1>2, <1>3, <2>1, <3>1, <3>2, SlotMoved DEF SourceInv
  <2>6. AnswerInv'
    <3>1. Answered(u)'
      BY <1>1, <2>1 DEF Answered, Unanswered, Results
    <3>2. \A s \in Slots : once[s] \in Results => once'[s] = once[s]
      BY <1>1, <2>2 DEF Results
    <3> QED
      BY <1>2, <2>1, <3>1, <3>2, AnswerKept DEF SourceInv
  <2> QED
    BY <2>3, <2>4, <2>5, <2>6 DEF SourceInv
<1> QED
  BY <1>4, <1>5

\* A settled slot is taken as it is.
LEMMA SettledKeeps ==
  ASSUME SourceInv, NEW u \in Users, Settled(u)
  PROVE  SourceInv'
<1>1. at[u] = "resolving" /\ at[u] \in Owning /\ once[SlotOf(u)] \in Results
  BY DEF Settled, Owning
<1>2. UNCHANGED <<malformed, once, job, queue, gate, cells, stack, panics>>
  BY DEF Settled
<1>3. /\ at' \in [Users -> Places] /\ answer' \in [Users -> {"none"} \cup Outcomes]
      /\ at'[u] = (IF once[SlotOf(u)] = "ok" THEN "restoring" ELSE "finishing") /\ answer'[u] = once[SlotOf(u)]
      /\ at'[u] \in Owning
      /\ \A v \in Users : v # u => at'[v] = at[v] /\ answer'[v] = answer[v]
  BY <1>1, ResolvedFacts DEF Settled
<1>4. Types'
  BY <1>2, <1>3 DEF SourceInv, Types
<1>5. GateInv'
  BY <1>1, <1>2, <1>3, OwnerKept
<1>6. SlotInv'
  <2>1. \A p \in {"raw", "raw run", "refined run"} : at'[u] # p /\ at[u] # p
    BY <1>1, <1>3
  <2> QED
    BY <1>2, <1>3, <2>1, SlotKept DEF SourceInv
<1>7. AnswerInv'
  <2>1. Answered(u)'
    BY <1>1, <1>2, <1>3 DEF Answered, Unanswered, Results
  <2> QED
    BY <1>2, <1>3, <2>1, AnswerKept DEF SourceInv
<1> QED
  BY <1>4, <1>5, <1>6, <1>7 DEF SourceInv

\* The raw slot is empty: its job is put in the pool, for the user to wait for.
LEMMA SaturateKeeps ==
  ASSUME SourceInv, NEW w \in Threads, NEW u \in Users, Saturate(w, u)
  PROVE  SourceInv'
<1> DEFINE s0 == SlotOf(u)
           r0 == RawOf(u)
<1>1. /\ at[u] \in Owning /\ once[r0] = "empty" /\ s0 \in Slots /\ r0 \in Slots /\ answer[u] = "none"
      /\ \/ at[u] = "raw" /\ Kind[u] = "refined" /\ s0 # r0
         \/ at[u] = "resolving" /\ s0 = r0
      /\ r0 \in Frames \ Users
  BY AllUsers, FrameFacts DEF SourceInv, SlotInv, AnswerInv, Unanswered, Saturate, Owning
<1>2. UNCHANGED <<malformed, gate, cells, answer, stack, panics>>
  BY DEF Saturate, in_source_pool
<1>3. /\ once' = [once EXCEPT ![r0] = "running"] /\ job' = [job EXCEPT ![r0] = "queued"]
      /\ queue' = queue \cup {r0} /\ at' = [at EXCEPT ![u] = "raw run"]
  BY DEF Saturate, in_source_pool
<1>4. /\ at'[u] = "raw run" /\ at'[u] \in Owning /\ \A v \in Users : v # u => at'[v] = at[v]
      /\ once'[r0] = "running" /\ \A s \in Slots : s # r0 => once'[s] = once[s]
      /\ job'[r0] = "queued" /\ \A s \in Slots : s # r0 => job'[s] = job[s]
  BY <1>1, <1>3 DEF SourceInv, Types, Owning
<1>5. Types'
  BY <1>1, <1>2, <1>3 DEF SourceInv, Types, Places
<1>6. GateInv'
  BY <1>1, <1>2, <1>4, OwnerKept
<1>7. SlotInv'
  <2>1. \A s \in Slots : /\ Computes(u, s)' <=> s \in {r0, s0}
                         /\ Computes(u, s) <=> s = s0 /\ at[u] = "raw"
                         /\ ~Awaits(u, s) /\ (Awaits(u, s)' <=> s = r0)
    BY <1>1, <1>4 DEF Computes, Awaits
  <2>2. at[u] = "raw" => once[s0] = "running"
    BY <1>1, <2>1 DEF SourceInv, SlotInv
  <2>3. \A s \in Slots : Computes(u, s)' => Computes(u, s) \/ once[s] # "running"
    BY <1>1, <2>1
  <2>4. \A s \in Slots : once'[s] = "running" <=> Computes(u, s)' \/ (once[s] = "running" /\ ~Computes(u, s))
    BY <1>1, <1>4, <2>1, <2>2
  <2>5. \A s \in Slots : job'[s] # "none" => Awaits(u, s)' \/ (job[s] # "none" /\ ~Awaits(u, s))
    BY <1>4, <2>1
  <2>6. \A s \in Slots : s \in queue' => job'[s] = "queued"
    BY <1>3, <1>4 DEF SourceInv, SlotInv
  <2> QED
    BY <1>4, <2>3, <2>4, <2>5, <2>6, SlotMoved DEF SourceInv
<1>8. AnswerInv'
  <2>1. Answered(u)'
    BY <1>1, <1>2, <1>4 DEF Answered, Unanswered, Results
  <2>2. \A s \in Slots : once[s] \in Results => once'[s] = once[s]
    BY <1>1, <1>4 DEF Results
  <2> QED
    BY <1>2, <1>4, <2>1, <2>2, AnswerKept DEF SourceInv
<1> QED
  BY <1>5, <1>6, <1>7, <1>8 DEF SourceInv

\* The raw cases are there: the refined slot's job is put in the pool, or fails
\* with them.
LEMMA RawThereKeeps ==
  ASSUME SourceInv, NEW w \in Threads, NEW u \in Users, RawThere(w, u)
  PROVE  SourceInv'
<1> DEFINE s0 == SlotOf(u)
           r0 == RawOf(u)
<1>1. /\ at[u] = "raw" /\ at[u] \in Owning /\ Kind[u] = "refined" /\ s0 # r0
      /\ s0 \in Slots /\ r0 \in Slots /\ s0 \in Frames \ Users /\ answer[u] = "none"
  BY AllUsers, FrameFacts DEF SourceInv, SlotInv, AnswerInv, Unanswered, RawThere, Owning
<1>2. \A s \in Slots : (Computes(u, s) <=> s = s0) /\ ~Awaits(u, s)
  BY <1>1 DEF Computes, Awaits
<1>3. once[s0] = "running"
  BY <1>1, <1>2 DEF SourceInv, SlotInv
<1>4. UNCHANGED <<malformed, gate, cells, panics>>
  BY DEF RawThere
<1>5. CASE once[r0] = "ok"
  <2>1. /\ job' = [job EXCEPT ![s0] = "queued"] /\ queue' = queue \cup {s0}
        /\ at' = [at EXCEPT ![u] = "refined run"] /\ UNCHANGED <<once, answer, stack>>
    BY <1>5 DEF RawThere, in_source_pool
  <2>2. /\ at'[u] = "refined run" /\ at'[u] \in Owning /\ \A v \in Users : v # u => at'[v] = at[v]
        /\ job'[s0] = "queued" /\ \A s \in Slots : s # s0 => job'[s] = job[s]
    BY <1>1, <2>1 DEF SourceInv, Types, Owning
  <2>3. Types'
    BY <1>1, <1>4, <2>1 DEF SourceInv, Types, Places
  <2>4. GateInv'
    BY <1>1, <1>4, <2>1, <2>2, OwnerKept
  <2>5. SlotInv'
    <3>1. \A s \in Slots : (Computes(u, s)' <=> s = s0) /\ (Awaits(u, s)' <=> s = s0)
      BY <1>1, <2>2 DEF Computes, Awaits
    <3>2. \A s \in Slots : s \in queue' => job'[s] = "queued"
      BY <2>1, <2>2 DEF SourceInv, SlotInv
    <3> QED
      BY <1>1, <1>2, <1>3, <2>1, <2>2, <3>1, <3>2, SlotMoved DEF SourceInv
  <2>6. AnswerInv'
    <3>1. Answered(u)'
      BY <1>1, <2>1, <2>2 DEF Answered, Unanswered, Results
    <3> QED
      BY <1>4, <2>1, <2>2, <3>1, AnswerKept DEF SourceInv
  <2> QED
    BY <2>3, <2>4, <2>5, <2>6 DEF SourceInv
<1>6. CASE once[r0] # "ok"
  <2>1. once' = [once EXCEPT ![s0] = "err"] /\ Resolved(u, "err") /\ UNCHANGED <<job, queue, stack>>
    BY <1>6 DEF RawThere
  <2>2. /\ at' \in [Users -> Places] /\ answer' \in [Users -> {"none"} \cup Outcomes]
        /\ at'[u] = "finishing" /\ answer'[u] = "err" /\ at'[u] \in Owning
        /\ \A v \in Users : v # u => at'[v] = at[v] /\ answer'[v] = answer[v]
    BY <1>1, <2>1, ResolvedFacts DEF Results
  <2>3. once'[s0] = "err" /\ \A s \in Slots : s # s0 => once'[s] = once[s]
    BY <1>1, <2>1 DEF SourceInv, Types
  <2>4. Types'
    BY <1>1, <1>4, <2>1, <2>2 DEF SourceInv, Types, Results
  <2>5. GateInv'
    BY <1>1, <1>4, <2>1, <2>2, OwnerKept
  <2>6. SlotInv'
    <3>1. \A s \in Slots : ~Computes(u, s)'
      BY <2>2 DEF Computes
    <3>2. \A s \in Slots : once'[s] = "running" <=> once[s] = "running" /\ s # s0
      BY <2>3
    <3>3. \A s \in Slots : s \in queue => job[s] = "queued"
      BY DEF SourceInv, SlotInv
    <3> QED
      BY <1>2, <2>1, <2>2, <3>1, <3>2, <3>3, SlotMoved DEF SourceInv
  <2>7. AnswerInv'
    <3>1. Answered(u)'
      BY <2>2, <2>3 DEF Answered, Unanswered, Results
    <3>2. \A s \in Slots : once[s] \in Results => once'[s] = once[s]
      BY <1>3, <2>3 DEF Results
    <3> QED
      BY <1>4, <2>2, <3>1, <3>2, AnswerKept DEF SourceInv
  <2> QED
    BY <2>4, <2>5, <2>6, <2>7 DEF SourceInv
<1> QED
  BY <1>5, <1>6

\* The job is over: its slot is settled, or empty again with the refined slot
\* that needed it, and the gate open again.
LEMMA ReturnedKeeps ==
  ASSUME SourceInv, NEW u \in Users, Returned(u)
  PROVE  SourceInv'
<1>1. PICK s0 \in Slots, s1 \in Slots :
        /\ s0 = SlotOf(u) /\ s1 = IF at[u] = "raw run" THEN RawOf(u) ELSE SlotOf(u)
  BY AllUsers
<1>2. /\ at[u] \in {"raw run", "refined run"} /\ at[u] \in Owning /\ answer[u] = "none"
      /\ s1 # s0 => at[u] = "raw run" /\ Kind[u] = "refined"
  BY <1>1, AllUsers DEF SourceInv, AnswerInv, Unanswered, Returned, Owning, Kinds
<1>3. /\ job[s1] \in Outcomes /\ job' = [job EXCEPT ![s1] = "none"]
      /\ UNCHANGED <<malformed, queue, cells, stack, panics>>
  BY <1>1 DEF Returned
<1>4. \A s \in Slots : (Computes(u, s) <=> s \in {s0, s1}) /\ (Awaits(u, s) <=> s = s1)
  BY <1>1, <1>2 DEF Computes, Awaits
<1>5. once[s0] = "running" /\ once[s1] = "running"
  BY <1>4 DEF SourceInv, SlotInv
<1>6. job'[s1] = "none" /\ \A s \in Slots : s # s1 => job'[s] = job[s]
  BY <1>3 DEF SourceInv, Types
<1>7. /\ \A s \in Slots : job'[s] # "none" => job[s] # "none" /\ ~Awaits(u, s)
      /\ \A s \in Slots : s \in queue' => job'[s] = "queued"
  <2>1. \A s \in Slots : job'[s] # "none" => job[s] # "none" /\ ~Awaits(u, s)
    BY <1>4, <1>6
  <2>2. \A s \in Slots : s \in queue' => job[s] = "queued"
    BY <1>3 DEF SourceInv, SlotInv
  <2>3. job[s1] # "queued"
    BY <1>3 DEF Outcomes, Results
  <2> QED
    BY <1>6, <2>1, <2>2, <2>3
<1>8. CASE job[s1] = "panic"
  <2>1. /\ once' = [once EXCEPT ![s1] = "empty", ![s0] = "empty"]
        /\ answer' = [answer EXCEPT ![u] = "panic"] /\ Unwind(u)
    BY <1>1, <1>8 DEF Returned, Kept
  <2>2. \A s \in Slots : once'[s] = IF s \in {s0, s1} THEN "empty" ELSE once[s]
    BY <2>1 DEF SourceInv, Types
  <2>3. /\ GateInv' /\ at' \in [Users -> Places]
        /\ gate' \in [Users -> {"Pending"} \cup Results \cup Provers]
        /\ \A v \in Users : \/ at'[v] = at[v]
                            \/ at[v] = "asleep" /\ at'[v] = "woken"
                            \/ at[v] = "swap asleep" /\ at'[v] = "swapping"
                            \/ v = u
        /\ at'[u] = "back"
    BY <1>2, <1>3, <2>1, GateClosed DEF Unwind
  <2>4. Types'
    BY <1>3, <2>1, <2>3 DEF SourceInv, Types, Outcomes
  <2>5. SlotInv'
    <3>1. \A s \in Slots : ~Computes(u, s)'
      BY <2>3 DEF Computes
    <3>2. \A s \in Slots : once'[s] = "running" <=> once[s] = "running" /\ ~Computes(u, s)
      BY <1>4, <2>2
    <3>3. \A v \in Users : v # u => \A p \in {"raw", "raw run", "refined run"} : at'[v] = p <=> at[v] = p
      BY <2>3
    <3> QED
      BY <1>7, <2>3, <3>1, <3>2, <3>3, SlotMoved DEF SourceInv
  <2>6. AnswerInv'
    <3>1. answer'[u] = "panic" /\ \A v \in Users : v # u => answer'[v] = answer[v]
      BY <2>1 DEF SourceInv, Types
    <3>2. \A s \in Slots : once[s] \in Results => once'[s] = once[s]
      BY <1>5, <2>2 DEF Results
    <3>3. ASSUME NEW v \in Users PROVE (at'[v] = at[v] /\ answer'[v] = answer[v]) \/ Answered(v)'
      <4>1. CASE v = u
        BY <2>3, <3>1, <4>1 DEF Answered, Unanswered, Results
      <4>2. CASE v # u
        BY <2>3, <3>1, <4>2 DEF SourceInv, AnswerInv, Answered, Unanswered, Results
      <4> QED
        BY <4>1, <4>2
    <3>4. \A c \in Users : gate'[c] = gate[c] \/ gate'[c] \notin Results
      BY <2>1 DEF SourceInv, Types, Unwind, Results
    <3> QED
      BY <1>3, <3>2, <3>3, <3>4, AnswerKept DEF SourceInv
  <2> QED
    BY <2>3, <2>4, <2>5, <2>6 DEF SourceInv
<1>9. CASE job[s1] # "panic"
  <2>1. job[s1] \in Results /\ job[s1] # "running"
    BY <1>3, <1>9 DEF Outcomes, Results
  <2>2. once' = [once EXCEPT ![s1] = job[s1]] /\ UNCHANGED gate
    BY <1>1, <1>9 DEF Returned, Kept
  <2>3. once'[s1] = job[s1] /\ \A s \in Slots : s # s1 => once'[s] = once[s]
    BY <2>2 DEF SourceInv, Types
  <2>4. \A s \in Slots : once[s] \in Results => once'[s] = once[s]
    BY <1>5, <2>3 DEF Results
  <2>5. CASE s1 = s0
    <3>1. Resolved(u, job[s1])
      BY <1>1, <1>9, <2>5 DEF Returned, Resolved
    <3>2. /\ at' \in [Users -> Places] /\ answer' \in [Users -> {"none"} \cup Outcomes]
          /\ at'[u] = (IF job[s1] = "ok" THEN "restoring" ELSE "finishing") /\ answer'[u] = job[s1]
          /\ at'[u] \in Owning
          /\ \A v \in Users : v # u => at'[v] = at[v] /\ answer'[v] = answer[v]
      BY <1>2, <2>1, <3>1, ResolvedFacts
    <3>3. Types'
      BY <1>3, <2>1, <2>2, <3>2 DEF SourceInv, Types
    <3>4. GateInv'
      BY <1>2, <1>3, <2>2, <3>2, OwnerKept
    <3>5. SlotInv'
      <4>1. \A s \in Slots : ~Computes(u, s)'
        BY <3>2 DEF Computes
      <4>2. \A s \in Slots : once'[s] = "running" <=> once[s] = "running" /\ ~Computes(u, s)
        BY <1>4, <2>1, <2>3, <2>5
      <4> QED
        BY <1>7, <3>2, <4>1, <4>2, SlotMoved DEF SourceInv
    <3>6. AnswerInv'
      <4>1. Answered(u)'
        BY <1>1, <2>1, <2>3, <2>5, <3>2 DEF Answered, Unanswered, Results
      <4> QED
        BY <1>3, <2>2, <2>4, <3>2, <4>1, AnswerKept DEF SourceInv
    <3> QED
      BY <3>3, <3>4, <3>5, <3>6 DEF SourceInv
  <2>6. CASE s1 # s0
    <3>1. at' = [at EXCEPT ![u] = "raw"] /\ UNCHANGED answer
      BY <1>1, <1>9, <2>6 DEF Returned
    <3>2. at'[u] = "raw" /\ at'[u] \in Owning /\ \A v \in Users : v # u => at'[v] = at[v]
      BY <3>1 DEF SourceInv, Types, Owning
    <3>3. Types'
      BY <1>3, <2>1, <2>2, <3>1 DEF SourceInv, Types, Places
    <3>4. GateInv'
      BY <1>2, <1>3, <2>2, <3>2, OwnerKept
    <3>5. SlotInv'
      <4>1. \A s \in Slots : Computes(u, s)' <=> s = s0
        BY <1>1, <3>2 DEF Computes
      <4>2. \A s \in Slots : once'[s] = "running" <=> Computes(u, s)' \/ (once[s] = "running" /\ ~Computes(u, s))
        BY <1>4, <1>5, <2>1, <2>3, <2>6, <4>1
      <4> QED
        BY <1>2, <1>4, <1>7, <2>6, <3>2, <4>1, <4>2, SlotMoved DEF SourceInv
    <3>6. AnswerInv'
      <4>1. Answered(u)'
        BY <1>2, <3>1, <3>2 DEF Answered, Unanswered, Results
      <4> QED
        BY <1>3, <2>2, <2>4, <3>1, <3>2, <4>1, AnswerKept DEF SourceInv
    <3> QED
      BY <3>3, <3>4, <3>5, <3>6 DEF SourceInv
  <2> QED
    BY <2>5, <2>6
<1> QED
  BY <1>8, <1>9

-----------------------------------------------------------------------------
(* The steps of a user outside its gate.                                   *)

\* A search hands its cases to the pool before they know anything.
LEMMA ForkKeeps ==
  ASSUME SourceInv, NEW u \in Users, Fork(u)
  PROVE  SourceInv'
<1>1. /\ at[u] = "begun" \/ (at[u] = "back" /\ answer[u] = "ok")
      /\ \A v \in Cases(u) : at[v] = "unborn"
      /\ UNCHANGED <<malformed, once, job, queue, gate, cells, answer, stack, panics>>
  BY DEF Fork
<1>2. \A v \in Users : \/ v = u /\ at'[v] = "joining"
                       \/ v # u /\ v \in Cases(u) /\ at[v] = "unborn" /\ at'[v] = "pending"
                       \/ v # u /\ at'[v] = at[v]
  BY DEF Fork
<1>3. Types'
  <2>1. \A v \in Users : at'[v] \in Places
    BY <1>2 DEF SourceInv, Types, Places
  <2>2. at' \in [Users -> Places]
    BY <2>1 DEF Fork
  <2> QED
    BY <1>1, <2>2 DEF SourceInv, Types
<1>4. GateInv'
  BY <1>1, <1>2, GateKept DEF SourceInv, GateInv, Owning
<1>5. SlotInv'
  BY <1>1, <1>2, SlotKept DEF SourceInv
<1>6. AnswerInv'
  <2>1. \A v \in Users : (at'[v] = at[v] /\ answer'[v] = answer[v]) \/ Answered(v)'
    <3>1. Answered(u)'
      BY <1>1, <1>2 DEF SourceInv, AnswerInv, Answered, Unanswered, Results
    <3>2. ASSUME NEW v \in Users, v # u, at[v] = "unborn", at'[v] = "pending" PROVE Answered(v)'
      BY <1>1, <3>2 DEF SourceInv, AnswerInv, Answered, Unanswered, Results
    <3> QED
      BY <1>1, <1>2, <3>1, <3>2
  <2> QED
    BY <1>1, <2>1, AnswerKept DEF SourceInv
<1> QED
  BY <1>3, <1>4, <1>5, <1>6 DEF SourceInv

\* A case's answer is that of its parent's slot.
LEMMA JoinKeeps ==
  ASSUME SourceInv, NEW u \in Users, Join(u)
  PROVE  SourceInv'
<1> DEFINE bad == {answer[v] : v \in Cases(u)} \ {"ok", "none"}
<1>1. /\ at[u] = "joining"
      /\ UNCHANGED <<malformed, once, job, queue, gate, cells, stack, panics>>
  BY DEF Join
<1>2. \/ /\ at' = [at EXCEPT ![u] = "back"]
         /\ \E r \in bad : answer' = [answer EXCEPT ![u] = r]
      \/ at' = [at EXCEPT ![u] = IF answer[u] = "none" THEN "begun" ELSE "back"] /\ UNCHANGED answer
  BY DEF Join
<1>3. \A r \in bad : r \in Outcomes /\ r # "ok" /\ (r \in Results => once[SlotOf(u)] = r)
  <2>1. ASSUME NEW v \in Cases(u), answer[v] \notin {"ok", "none"}
        PROVE  answer[v] \in Outcomes /\ (answer[v] \in Results => once[SlotOf(u)] = answer[v])
    <3>1. v \in Users /\ Parent[v] = u /\ Parent[v] # None /\ SlotOf(v) = SlotOf(u)
      BY AllUsers, SourceAssumption DEF Cases
    <3> QED
      BY <2>1, <3>1 DEF SourceInv, Types, AnswerInv
  <2> QED
    BY <2>1
<1>4. \A v \in Users : v # u => at'[v] = at[v] /\ answer'[v] = answer[v]
  BY <1>2 DEF SourceInv, Types
<1>5. /\ at' \in [Users -> Places] /\ answer' \in [Users -> {"none"} \cup Outcomes]
      /\ \/ at'[u] = "back" /\ answer'[u] \in bad
         \/ at'[u] = "begun" /\ answer[u] = "none" /\ answer'[u] = answer[u]
         \/ at'[u] = "back" /\ answer'[u] = answer[u]
  BY <1>2, <1>3 DEF SourceInv, Types, Places
<1>6. Types'
  BY <1>1, <1>5 DEF SourceInv, Types
<1>7. at'[u] \in {"begun", "back"}
  BY <1>5
<1>8. GateInv'
  BY <1>1, <1>4, <1>7, GateKept DEF SourceInv, GateInv, Owning
<1>9. SlotInv'
  BY <1>1, <1>4, <1>7, SlotKept DEF SourceInv
<1>10. AnswerInv'
  <2>1. CASE at'[u] = "back" /\ answer'[u] \in bad
    <3>1. Answered(u)'
      BY <1>1, <1>3, <2>1 DEF Answered, Unanswered
    <3> QED
      BY <1>1, <1>4, <3>1, AnswerKept DEF SourceInv
  <2>2. CASE \/ at'[u] = "begun" /\ answer[u] = "none" /\ answer'[u] = answer[u]
             \/ at'[u] = "back" /\ answer'[u] = answer[u]
    <3>1. Answered(u)'
      BY <1>1, <2>2 DEF SourceInv, AnswerInv, Answered, Unanswered, Results
    <3> QED
      BY <1>1, <1>4, <3>1, AnswerKept DEF SourceInv
  <2> QED
    BY <1>5, <2>1, <2>2
<1> QED
  BY <1>6, <1>8, <1>9, <1>10 DEF SourceInv

\* A user that ends owns no gate.
LEMMA EndKeeps ==
  ASSUME SourceInv, NEW w \in Threads, stack[w] # <<>>, NEW u \in Users, Top(w) = u, End(w, u)
  PROVE  SourceInv'
<1>1. at[u] \in {"begun", "back"} /\ at[u] \notin Owning
  BY DEF End, Owning
<1>2. /\ w \in Provers /\ w \notin Workers
      /\ Front(stack[w]) \in Seq(Users) /\ Front(stack[w]) \in Seq(Frames)
      /\ \A c \in Users : InProgress(c) => gate[c] \in Threads /\ gate[c] # w
  BY <1>1, OnGate
<1>3. at'[u] = "done" /\ \A v \in Users : v # u => at'[v] = at[v]
  BY DEF SourceInv, Types, End
<1>4. UNCHANGED <<malformed, once, job, queue, gate, cells, answer, panics>>
  BY DEF End
<1>5. Types'
  <2>1. at' \in [Users -> Places]
    BY DEF SourceInv, Types, End, Places
  <2>2. /\ stack' \in [Threads -> Seq(Frames)]
        /\ \A x \in Provers : stack'[x] \in Seq(Users)
        /\ \A x \in Workers : stack'[x] \in Seq(Frames \ Users)
    BY <1>2 DEF SourceInv, Types, End, Threads
  <2> QED
    BY <1>4, <2>1, <2>2 DEF SourceInv, Types
<1>6. GateInv'
  <2>1. \A c \in Users : InProgress(c) => stack'[gate[c]] = stack[gate[c]]
    BY <1>2 DEF SourceInv, Types, End
  <2> QED
    BY <1>1, <1>3, <1>4, <2>1, GateKept DEF SourceInv, GateInv, Owning
<1>7. SlotInv'
  BY <1>1, <1>3, <1>4, SlotKept DEF SourceInv
<1>8. AnswerInv'
  <2>1. Answered(u)'
    BY <1>1, <1>3, <1>4 DEF SourceInv, AnswerInv, Answered, Unanswered, Results
  <2> QED
    BY <1>3, <1>4, <2>1, AnswerKept DEF SourceInv
<1> QED
  BY <1>5, <1>6, <1>7, <1>8 DEF SourceInv

-----------------------------------------------------------------------------
(* The invariant.                                                          *)

\* No slot and no gate is touched yet.
LEMMA InitInv == Init => SourceInv
<1> SUFFICES ASSUME Init PROVE SourceInv
  OBVIOUS
<1>1. \A u \in Users : at[u] \in {"pending", "unborn"}
  BY DEF Init
<1>2. \A S : <<>> \in Seq(S)
  OBVIOUS
<1>3. Types
  <2>1. at \in [Users -> Places]
    BY <1>1 DEF Init, Places
  <2>2. stack \in [Threads -> Seq(Frames)]
    BY <1>2 DEF Init, Threads
  <2>3. /\ \A w \in Provers : stack[w] \in Seq(Users)
        /\ \A w \in Workers : stack[w] \in Seq(Frames \ Users)
    BY <1>2 DEF Init
  <2>4. panics \in 0..MaxPanics
    BY SourceAssumption DEF Init
  <2> QED
    BY <2>1, <2>2, <2>3, <2>4 DEF Init, Types
<1>4. GateInv
  BY <1>1 DEF Init, GateInv, InProgress, Owning
<1>5. SlotInv
  BY <1>1 DEF Init, SlotInv, Computes, Awaits
<1>6. AnswerInv
  BY <1>1 DEF Init, AnswerInv, Unanswered, Results
<1> QED
  BY <1>3, <1>4, <1>5, <1>6 DEF SourceInv

\* Every step keeps the invariant.
LEMMA NextKeeps == SourceInv /\ [Next]_vars => SourceInv'
<1> SUFFICES ASSUME SourceInv, [Next]_vars PROVE SourceInv'
  OBVIOUS
<1>1. CASE UNCHANGED vars
  <2>1. Types'
    BY <1>1 DEF vars, SourceInv, Types
  <2>2. GateInv'
    BY <1>1 DEF vars, SourceInv, GateInv, InProgress, Top
  <2>3. SlotInv'
    BY <1>1, SlotKept DEF vars, SourceInv
  <2>4. AnswerInv'
    BY <1>1 DEF vars, SourceInv, AnswerInv
  <2> QED
    BY <2>1, <2>2, <2>3, <2>4 DEF SourceInv
<1>2. ASSUME NEW w \in Threads, stack[w] # <<>>, Top(w) \in Users, Work(w) PROVE SourceInv'
  <2> DEFINE u == Top(w)
  <2>1. \/ Swap(u) \/ Enter(w, u) \/ Restore(u) \/ Finish(u)
        \/ Refine(w, u) \/ Settled(u) \/ Saturate(w, u) \/ RawThere(w, u) \/ Returned(u)
        \/ Fork(u) \/ Join(u) \/ End(w, u)
    BY <1>2 DEF Work, Top
  <2>2. CASE Swap(u) \/ Enter(w, u) \/ Restore(u) \/ Finish(u)
    BY <1>2, <2>2, SwapKeeps, EnterKeeps, RestoreKeeps, FinishKeeps
  <2>3. CASE Refine(w, u) \/ Settled(u) \/ Saturate(w, u) \/ RawThere(w, u) \/ Returned(u)
    BY <1>2, <2>3, RefineKeeps, SettledKeeps, SaturateKeeps, RawThereKeeps, ReturnedKeeps
  <2>4. CASE Fork(u) \/ Join(u) \/ End(w, u)
    BY <1>2, <2>4, ForkKeeps, JoinKeeps, EndKeeps
  <2> QED
    BY <2>1, <2>2, <2>3, <2>4
<1>3. ASSUME NEW w \in Threads, stack[w] # <<>>, Top(w) \notin Users, Work(w) PROVE SourceInv'
  <2> DEFINE f == Top(w)
  <2>1. FanOut(f) \/ EndPart(w, f) \/ Complete(w, f)
    BY <1>3 DEF Work, Top
  <2>2. CASE FanOut(f)
    BY <2>2, FanOutKeeps DEF FanOut
  <2>3. CASE EndPart(w, f)
    BY <1>3, <2>3, EndPartKeeps
  <2>4. CASE Complete(w, f)
    BY <1>3, <2>4, CompleteKeeps DEF Complete
  <2> QED
    BY <2>1, <2>2, <2>3, <2>4
<1>4. ASSUME NEW w \in Threads, Run(w) PROVE SourceInv'
  <2>1. CASE Work(w)
    BY <1>2, <1>3, <2>1 DEF Work
  <2>2. CASE \E u \in Users : Start(w, u)
    BY <2>2, StartKeeps
  <2>3. CASE \E f \in queue : Take(w, f)
    BY <2>3, TakeKeeps
  <2> QED
    BY <1>4, <2>1, <2>2, <2>3 DEF Run
<1>5. CASE \E u \in Users : Spurious(u)
  BY <1>5, SpuriousKeeps
<1> QED
  BY <1>1, <1>4, <1>5 DEF Next, Over, Threads

\* SourceInv is an invariant: gates, slots, jobs and answers agree.
THEOREM SourceInvariant == Spec => []SourceInv
<1>1. Init => SourceInv
  BY InitInv
<1>2. SourceInv /\ [Next]_vars => SourceInv'
  BY NextKeeps
<1> QED
  BY <1>1, <1>2, PTL DEF Spec

\* Every variable keeps its type.
THEOREM TypeCorrect == Spec => []TypeOK
<1>1. SourceInv => TypeOK
  BY DEF SourceInv, Types, TypeOK, Threads
<1> QED
  BY <1>1, SourceInvariant, PTL

\* Each slot is computed by at most one user at a time, and by nobody once it is
\* settled.
THEOREM SingleFlightHolds == Spec => []SingleFlight
<1>1. ASSUME SourceInv PROVE SingleFlight
  <2>1. ASSUME NEW s \in Slots, once[s] = "running"
        PROVE  \E u \in Users : \A v \in Users : Computes(v, s) <=> v = u
    <3>1. PICK u \in Users : Computes(u, s)
      BY <1>1, <2>1 DEF SourceInv, SlotInv
    <3>2. \A v \in Users : Computes(v, s) <=> v = u
      BY <1>1, <3>1 DEF SourceInv, SlotInv
    <3> QED
      BY <3>2
  <2>2. ASSUME NEW s \in Slots, once[s] # "running" PROVE \A u \in Users : ~Computes(u, s)
    BY <1>1, <2>2 DEF SourceInv, SlotInv
  <2>3. ASSUME NEW s \in Slots, once[s] # "running" PROVE job[s] = "none"
    <3>1. \A u \in Users : Awaits(u, s) => Computes(u, s)
      BY DEF Awaits, Computes
    <3> QED
      BY <1>1, <2>2, <2>3, <3>1 DEF SourceInv, SlotInv
  <2> QED
    BY <2>1, <2>2, <2>3 DEF SingleFlight
<1> QED
  BY <1>1, SourceInvariant, PTL

\* Whoever is told that its sources are there finds them all in its cells.
THEOREM NoPartialReadHolds == Spec => []NoPartialRead
<1>1. SourceInv => NoPartialRead
  BY DEF SourceInv, AnswerInv, NoPartialRead
<1> QED
  BY <1>1, SourceInvariant, PTL

\* All users of a slot get the same answer.
THEOREM SameAnswerHolds == Spec => []SameAnswer
<1>1. ASSUME SourceInv PROVE SameAnswer
  <2>1. ASSUME NEW u \in Users, NEW v \in Users, SlotOf(u) = SlotOf(v), {answer[u], answer[v]} = {"ok", "err"}
        PROVE  FALSE
    <3>1. answer[u] \in Results /\ answer[v] \in Results /\ answer[u] # answer[v]
      BY <2>1 DEF Results
    <3>2. once[SlotOf(u)] = answer[u] /\ once[SlotOf(v)] = answer[v]
      BY <1>1, <3>1 DEF SourceInv, AnswerInv
    <3> QED
      BY <2>1, <3>1, <3>2
  <2> QED
    BY <2>1 DEF SameAnswer
<1> QED
  BY <1>1, SourceInvariant, PTL

\* Whoever sleeps on a gate is going to be woken by the user that owns it.
THEOREM NoLostWakeupHolds == Spec => []NoLostWakeup
<1>1. ASSUME SourceInv PROVE NoLostWakeup
  <2>1. /\ \A u \in Users : at[u] = "asleep" => InProgress(Ctx[u])
        /\ \A u \in Users : at[u] = "swap asleep" => InProgress(Ctx[Parent[u]])
    BY <1>1 DEF SourceInv, GateInv
  <2>2. ASSUME NEW c \in Users, InProgress(c)
        PROVE  /\ stack[gate[c]] # <<>>
               /\ \E u \in Users : /\ Last(stack[gate[c]]) = u /\ Ctx[u] = c
                                   /\ at[u] \in {"resolving", "raw", "raw run", "refined run",
                                                 "restoring", "finishing"}
    BY <1>1, <2>2 DEF SourceInv, GateInv, Top, Owning
  <2> QED
    BY <2>1, <2>2 DEF NoLostWakeup
<1> QED
  BY <1>1, SourceInvariant, PTL
=============================================================================
