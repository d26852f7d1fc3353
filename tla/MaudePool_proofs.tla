-------------------------- MODULE MaudePool_proofs --------------------------
(***************************************************************************)
(* The safety properties of MaudePool hold for every number of threads and *)
(* tasks, every shape of the fan-outs and every size of the pool.  PoolInv *)
(* is inductive; each of its parts is carried over a step by a lemma.      *)
(***************************************************************************)
EXTENDS MaudePool, FiniteSetTheorems, SequenceTheorems, TLAPS

-----------------------------------------------------------------------------
(* Facts about the operators the actions are made of.                      *)

\* Popping the top of a sequence.
LEMMA FrontLast ==
  ASSUME NEW S, NEW s \in Seq(S), s # <<>>
  PROVE  /\ Len(s) \in Nat \ {0} /\ Last(s) = s[Len(s)] /\ Last(s) \in S
         /\ Front(s) \in Seq(S) /\ Len(Front(s)) = Len(s) - 1
         /\ \A i \in 1..Len(s) - 1 : Front(s)[i] = s[i]
<1>1. Len(s) \in Nat \ {0} /\ Last(s) = s[Len(s)] /\ Last(s) \in S
  BY DEF Last
<1>2. \A i \in 1..Len(s) - 1 : i + 1 - 1 = i /\ s[i] \in S
  BY <1>1
<1>3. Front(s) = [i \in 1..Len(s) - 1 |-> s[i]]
  BY <1>1, <1>2 DEF Front
<1>4. Front(s) \in Seq(S) /\ Len(Front(s)) = Len(s) - 1
  BY <1>1, <1>2, <1>3
<1> QED BY <1>1, <1>3, <1>4

\* The idle members without the top one.
LEMMA PopFacts ==
  ASSUME NEW S, NEW s \in Seq(S), s # <<>>, IsInjective(s)
  PROVE  /\ IsInjective(Front(s)) /\ Last(s) \in ToSet(s)
         /\ ToSet(Front(s)) = ToSet(s) \ {Last(s)}
<1>1. /\ Len(s) \in Nat \ {0} /\ Last(s) = s[Len(s)] /\ Front(s) \in Seq(S)
      /\ Len(Front(s)) = Len(s) - 1 /\ \A i \in 1..Len(s) - 1 : Front(s)[i] = s[i]
  BY FrontLast
<1>2. DOMAIN s = 1..Len(s) /\ DOMAIN Front(s) = 1..Len(s) - 1
  BY <1>1
<1> QED BY <1>1, <1>2 DEF IsInjective, ToSet

\* The idle members with one more.
LEMMA PushFacts ==
  ASSUME NEW S, NEW s \in Seq(S), IsInjective(s), NEW h \in S, h \notin ToSet(s)
  PROVE  IsInjective(Append(s, h)) /\ ToSet(Append(s, h)) = ToSet(s) \cup {h}
<1>1. /\ Len(s) \in Nat /\ Len(Append(s, h)) = Len(s) + 1
      /\ \A i \in 1..Len(s) : Append(s, h)[i] = s[i]
      /\ Append(s, h)[Len(s) + 1] = h
  OBVIOUS
<1>2. DOMAIN s = 1..Len(s) /\ DOMAIN Append(s, h) = 1..Len(s) + 1
  BY <1>1
<1> QED BY <1>1, <1>2 DEF IsInjective, ToSet

\* The tasks at some place can be counted.
LEMMA Counted ==
  ASSUME NEW P
  PROVE  IsFiniteSet(In(P)) /\ Cardinality(In(P)) \in Nat
<1>1. In(P) \subseteq Tasks /\ IsFiniteSet(Tasks)
  BY PoolAssumption DEF In
<1> QED BY <1>1, FS_Subset, FS_CardinalityType

\* How a task that moves changes the count of a set of places.
LEMMA Moved ==
  ASSUME at \in [Tasks -> Places], NEW t \in Tasks, NEW p, NEW P,
         at' = [at EXCEPT ![t] = p]
  PROVE  /\ (at[t] \in P <=> p \in P) => In(P)' = In(P)
         /\ at[t] \in P /\ p \notin P => Cardinality(In(P)') = Cardinality(In(P)) - 1
         /\ at[t] \notin P /\ p \in P => Cardinality(In(P)') = Cardinality(In(P)) + 1
<1>1. In(P)' = IF p \in P THEN In(P) \cup {t} ELSE In(P) \ {t}
  BY DEF In
<1>2. t \in In(P) <=> at[t] \in P
  BY DEF In
<1>3. IsFiniteSet(In(P))
  BY Counted
<1>4. /\ Cardinality(In(P) \cup {t}) = IF t \in In(P) THEN Cardinality(In(P)) ELSE Cardinality(In(P)) + 1
      /\ Cardinality(In(P) \ {t}) = IF t \in In(P) THEN Cardinality(In(P)) - 1 ELSE Cardinality(In(P))
  BY <1>3, FS_AddElement, FS_RemoveElement
<1>5. ASSUME at[t] \in P <=> p \in P PROVE In(P)' = In(P)
  BY <1>1, <1>2, <1>5
<1>6. ASSUME at[t] \in P, p \notin P PROVE Cardinality(In(P)') = Cardinality(In(P)) - 1
  BY <1>1, <1>2, <1>4, <1>6
<1>7. ASSUME at[t] \notin P, p \in P PROVE Cardinality(In(P)') = Cardinality(In(P)) + 1
  BY <1>1, <1>2, <1>4, <1>7
<1> QED BY <1>5, <1>6, <1>7

-----------------------------------------------------------------------------
(* Ownership: what taking, returning and starting a member do to it.       *)

LEMMA TakeOwner ==
  ASSUME TypeOK, OneOwner, NEW t \in Tasks, guard[t] = FileMaude, free # <<>>,
         free' = Front(free), guard' = [guard EXCEPT ![t] = Last(free)], live' = live
  PROVE  OneOwner'
<1>1. /\ free \in Seq(1..live) /\ live \in Nat /\ guard \in [Tasks -> 0..live]
      /\ IsInjective(free)
  BY DEF TypeOK, OneOwner
<1>2. /\ Last(free) \in 1..live /\ Last(free) \in ToSet(free)
      /\ IsInjective(free') /\ ToSet(free') = ToSet(free) \ {Last(free)}
  BY <1>1, FrontLast, PopFacts
<1>3. ASSUME NEW h \in 1..live
      PROVE  \/ h \in ToSet(free') /\ \A u \in Tasks : guard'[u] # h
             \/ h \notin ToSet(free') /\ \E v \in Tasks : \A u \in Tasks : guard'[u] = h <=> u = v
  <2>1. CASE h = Last(free)
    BY <1>1, <1>2, <2>1 DEF OneOwner
  <2>2. CASE h # Last(free)
    <3>1. \A u \in Tasks : guard'[u] = h <=> guard[u] = h
      BY <1>1, <2>2 DEF FileMaude
    <3>2. h \in ToSet(free') <=> h \in ToSet(free)
      BY <1>2, <2>2
    <3> QED BY <3>1, <3>2 DEF OneOwner
  <2> QED BY <2>1, <2>2
<1> QED BY <1>2, <1>3 DEF OneOwner

LEMMA ReturnOwner ==
  ASSUME TypeOK, OneOwner, NEW t \in Tasks, guard[t] # FileMaude,
         free' = Append(free, guard[t]), guard' = [guard EXCEPT ![t] = FileMaude], live' = live
  PROVE  OneOwner'
<1>1. /\ free \in Seq(1..live) /\ live \in Nat /\ guard \in [Tasks -> 0..live]
      /\ IsInjective(free) /\ guard[t] \in 1..live
  BY DEF TypeOK, OneOwner, FileMaude
<1>2. guard[t] \notin ToSet(free) /\ \A u \in Tasks : guard[u] = guard[t] => u = t
  BY <1>1 DEF OneOwner
<1>3. IsInjective(free') /\ ToSet(free') = ToSet(free) \cup {guard[t]}
  BY <1>1, <1>2, PushFacts
<1>4. ASSUME NEW h \in 1..live
      PROVE  \/ h \in ToSet(free') /\ \A u \in Tasks : guard'[u] # h
             \/ h \notin ToSet(free') /\ \E v \in Tasks : \A u \in Tasks : guard'[u] = h <=> u = v
  <2>1. CASE h = guard[t]
    BY <1>1, <1>2, <1>3, <2>1 DEF FileMaude
  <2>2. CASE h # guard[t]
    <3>1. \A u \in Tasks : guard'[u] = h <=> guard[u] = h
      BY <1>1, <2>2 DEF FileMaude
    <3>2. h \in ToSet(free') <=> h \in ToSet(free)
      BY <1>3, <2>2
    <3> QED BY <3>1, <3>2 DEF OneOwner
  <2> QED BY <2>1, <2>2
<1> QED BY <1>3, <1>4 DEF OneOwner

LEMMA StartOwner ==
  ASSUME TypeOK, OneOwner, NEW t \in Tasks, guard[t] = FileMaude,
         free' = free, guard' = [guard EXCEPT ![t] = live + 1], live' = live + 1
  PROVE  OneOwner'
<1>1. /\ free \in Seq(1..live) /\ live \in Nat /\ guard \in [Tasks -> 0..live]
      /\ IsInjective(free)
  BY DEF TypeOK, OneOwner
<1>2. ToSet(free) \subseteq 1..live
  BY <1>1 DEF ToSet
<1>3. ASSUME NEW h \in 1..live + 1
      PROVE  \/ h \in ToSet(free') /\ \A u \in Tasks : guard'[u] # h
             \/ h \notin ToSet(free') /\ \E v \in Tasks : \A u \in Tasks : guard'[u] = h <=> u = v
  <2>1. CASE h = live + 1
    <3>1. \A u \in Tasks : guard'[u] = h <=> u = t
      BY <1>1, <2>1
    <3>2. h \notin ToSet(free')
      BY <1>1, <1>2, <2>1
    <3> QED BY <3>1, <3>2
  <2>2. CASE h # live + 1
    <3>1. \A u \in Tasks : guard'[u] = h <=> guard[u] = h
      BY <1>1, <2>2 DEF FileMaude
    <3>2. h \in 1..live
      BY <1>1, <2>2
    <3> QED BY <3>1, <3>2 DEF OneOwner
  <2> QED BY <2>1, <2>2
<1> QED BY <1>1, <1>3 DEF OneOwner

-----------------------------------------------------------------------------
(* The parts of PoolInv, one step at a time.                               *)

\* A step is a move of one task, on some thread.
Move(w, t) == Take(w, t) \/ Skip(t) \/ Spurious(t) \/ Work(w, t)

LEMMA NextIsMove ==
  ASSUME Next
  PROVE  UNCHANGED vars \/ \E t \in Tasks : Skip(t) \/ Spurious(t) \/ \E w \in Threads : Move(w, t)
BY DEF Next, Run, Over, Move

\* Members change hands only when a task holds, starts or returns one.
LEMMA OneOwnerStep ==
  ASSUME PoolInv, NEW w, NEW t \in Tasks, Move(w, t)
  PROVE  OneOwner'
<1>1. /\ TypeOK /\ OneOwner
      /\ guard[t] # FileMaude => at[t] \in {"running", "joining"}
  BY DEF PoolInv, PlacesInv
<1>2. CASE Pop(t)
  BY <1>1, <1>2, TakeOwner DEF Pop, Hold
<1>3. CASE Started(t)
  BY <1>1, <1>3, StartOwner DEF Started, Hold
<1>4. CASE SpawnFailed(t) /\ Kind[t] = "rule" /\ free # <<>>
  BY <1>1, <1>4, TakeOwner DEF SpawnFailed, Hold
<1>5. CASE End(w, t) /\ guard[t] # FileMaude
  BY <1>1, <1>5, ReturnOwner DEF End, Release
<1>6. CASE UNCHANGED <<free, live, guard>>
  BY <1>1, <1>6 DEF OneOwner
<1> QED
  BY <1>2, <1>3, <1>4, <1>5, <1>6
  DEF Move, Work, Take, Skip, Spurious, Reserve, Wait, Decline, SpawnFailed, Fork, Join, End

\* A slot is taken when a start begins; it becomes a member's or is given back.
LEMMA SlotsStep ==
  ASSUME PoolInv, NEW w, NEW t \in Tasks, Move(w, t)
  PROVE  SlotsAddUp'
<1> DEFINE P == {"starting"}
<1>1. /\ at \in [Tasks -> Places] /\ spawned \in Nat /\ live \in Nat /\ Size \in Nat
      /\ spawned = live + Cardinality(In(P)) /\ spawned <= Size
      /\ Cardinality(In(P)) \in Nat
  BY Counted, PoolAssumption DEF PoolInv, TypeOK, SlotsAddUp
<1>2. ASSUME NEW p, at' = [at EXCEPT ![t] = p]
      PROVE  /\ (at[t] \in P <=> p \in P) => In(P)' = In(P)
             /\ at[t] \in P /\ p \notin P => Cardinality(In(P)') = Cardinality(In(P)) - 1
             /\ at[t] \notin P /\ p \in P => Cardinality(In(P)') = Cardinality(In(P)) + 1
  BY <1>1, <1>2, Moved
<1> HIDE DEF P
<1>3. SUFFICES spawned' = live' + Cardinality(In(P)') /\ spawned' <= Size
  BY DEF SlotsAddUp, P
<1>4. CASE Reserve(t)
  <2>1. at[t] # "starting" /\ at' = [at EXCEPT ![t] = "starting"]
    BY <1>4 DEF Reserve
  <2>2. Cardinality(In(P)') = Cardinality(In(P)) + 1
    BY <1>2, <2>1 DEF P
  <2> QED BY <1>1, <1>4, <2>2 DEF Reserve
<1>5. CASE Started(t) \/ SpawnFailed(t)
  <2>1. PICK p \in {"running", "waiting"} : at[t] = "starting" /\ at' = [at EXCEPT ![t] = p]
    BY <1>5 DEF Started, SpawnFailed, Hold
  <2>2. Cardinality(In(P)') = Cardinality(In(P)) - 1
    BY <1>2, <2>1 DEF P
  <2> QED BY <1>1, <1>5, <2>2 DEF Started, SpawnFailed
<1>6. CASE UNCHANGED <<spawned, live>> /\ In(P)' = In(P)
  BY <1>1, <1>6
<1>7. CASE Take(w, t) \/ Skip(t) \/ Spurious(t) \/ Pop(t) \/ Wait(t) \/ Decline(t) \/ Join(t)
  <2>1. /\ at[t] # "starting" /\ UNCHANGED <<spawned, live>>
        /\ \E p \in Places : p # "starting" /\ at' = [at EXCEPT ![t] = p]
    BY <1>7 DEF Take, Skip, Spurious, Pop, Hold, Wait, Decline, Join, Places
  <2> QED BY <1>2, <1>6, <2>1 DEF P
<1>8. CASE Fork(t)
  <2>1. \A u \in Tasks : at'[u] = "starting" <=> at[u] = "starting"
    BY <1>1, <1>8 DEF Fork
  <2> QED BY <1>6, <1>8, <2>1 DEF Fork, In, P
<1>9. CASE End(w, t)
  <2>1. \A u \in Tasks : at'[u] = "starting" <=> at[u] = "starting"
    BY <1>1, <1>9 DEF End, Release, Waiters, In
  <2> QED BY <1>6, <1>9, <2>1 DEF End, In, P
<1> QED BY <1>4, <1>5, <1>7, <1>8, <1>9 DEF Move, Work

\* A release that finds somebody waiting wakes one; who is woken takes a member
\* or finds none idle.
LEMMA WakeupStep ==
  ASSUME PoolInv, NEW w, NEW t \in Tasks, Move(w, t)
  PROVE  NoLostWakeup'
<1> DEFINE P == {"woken"}
           W == {"waiting"}
<1>1. /\ at \in [Tasks -> Places] /\ live \in Nat /\ free \in Seq(1..live)
      /\ Len(free) \in Nat /\ Cardinality(In(P)) \in Nat
      /\ In(W) # {} => Len(free) <= Cardinality(In(P))
      /\ guard \in [Tasks -> 0..live]
  BY Counted DEF PoolInv, TypeOK, NoLostWakeup, Waiters
<1>2. ASSUME NEW p, at' = [at EXCEPT ![t] = p]
      PROVE  /\ (at[t] \in P <=> p \in P) => In(P)' = In(P)
             /\ at[t] \in P /\ p \notin P => Cardinality(In(P)') = Cardinality(In(P)) - 1
             /\ at[t] \notin P /\ p \in P => Cardinality(In(P)') = Cardinality(In(P)) + 1
  BY <1>1, <1>2, Moved
<1>3. ASSUME NEW p, at' = [at EXCEPT ![t] = p], p # "waiting"
      PROVE  In(W)' \subseteq In(W)
  BY <1>1, <1>3 DEF In
<1>4. free # <<>> => Len(free) \in Nat \ {0} /\ Len(Front(free)) = Len(free) - 1
  BY <1>1, FrontLast
<1> HIDE DEF P
<1>5. SUFFICES In(W)' # {} => Len(free') <= Cardinality(In(P)')
  BY DEF NoLostWakeup, Waiters, P
<1> HIDE DEF W
<1>6. CASE /\ In(P)' = In(P) /\ In(W)' \subseteq In(W) /\ free' = free
  BY <1>1, <1>6
<1>7. CASE Pop(t)
  <2>1. /\ at[t] \in {"asking", "woken"} /\ at' = [at EXCEPT ![t] = "running"]
        /\ free # <<>> /\ free' = Front(free)
    BY <1>7 DEF Pop, Hold
  <2>2. Cardinality(In(P)') \in {Cardinality(In(P)), Cardinality(In(P)) - 1}
    <3>1. "running" \notin P /\ "asking" \notin P /\ "woken" \in P
      BY DEF P
    <3>2. CASE at[t] = "asking"
      BY <1>2, <2>1, <3>1, <3>2
    <3>3. CASE at[t] = "woken"
      BY <1>2, <2>1, <3>1, <3>3
    <3> QED BY <2>1, <3>2, <3>3
  <2>3. In(W)' \subseteq In(W) /\ Len(free') = Len(free) - 1
    BY <1>3, <1>4, <2>1
  <2> QED BY <1>1, <2>2, <2>3
<1>8. CASE (Reserve(t) \/ Wait(t)) \/ (SpawnFailed(t) /\ Kind[t] = "rule" /\ free = <<>>)
  <2>1. Len(free') = 0
    BY <1>8 DEF Reserve, Wait, SpawnFailed
  <2>2. Cardinality(In(P)') >= 0
    <3>1. In(P)' \subseteq Tasks /\ IsFiniteSet(Tasks)
      BY PoolAssumption DEF In
    <3> QED BY <3>1, FS_Subset, FS_CardinalityType
  <2> QED BY <2>1, <2>2
<1>9. CASE SpawnFailed(t) /\ Kind[t] = "rule" /\ free # <<>>
  <2>1. /\ at[t] = "starting" /\ at' = [at EXCEPT ![t] = "running"] /\ free' = Front(free)
    BY <1>9 DEF SpawnFailed, Hold
  <2>2. "running" \notin P /\ "starting" \notin P
    BY DEF P
  <2>3. In(P)' = In(P)
    BY <1>2, <2>1, <2>2
  <2>4. In(W)' \subseteq In(W) /\ Len(free') = Len(free) - 1
    BY <1>3, <1>4, <1>9, <2>1
  <2> QED BY <1>1, <1>9, <2>3, <2>4
<1>10. CASE Spurious(t)
  <2>1. at[t] = "waiting" /\ at' = [at EXCEPT ![t] = "woken"] /\ free' = free
    BY <1>10 DEF Spurious
  <2>2. Cardinality(In(P)') = Cardinality(In(P)) + 1 /\ In(W)' \subseteq In(W)
    BY <1>2, <1>3, <2>1 DEF P
  <2> QED BY <1>1, <2>1, <2>2
<1>11. CASE \/ Take(w, t) \/ Skip(t) \/ Decline(t) \/ Started(t) \/ Join(t)
            \/ (SpawnFailed(t) /\ Kind[t] # "rule")
            \/ (End(w, t) /\ (guard[t] = FileMaude))
  <2>1. PICK p \in Places : /\ at' = [at EXCEPT ![t] = p] /\ p # "waiting" /\ p # "woken"
                            /\ at[t] # "woken" /\ free' = free
    BY <1>11 DEF Take, Skip, Decline, Started, Hold, Join, SpawnFailed, End, Places
  <2> QED BY <1>2, <1>3, <1>6, <2>1 DEF P
<1>12. CASE Fork(t)
  <2>1. \A u \in Tasks : at'[u] = "woken" <=> at[u] = "woken"
    BY <1>1, <1>12 DEF Fork
  <2>2. \A u \in Tasks : at'[u] = "waiting" => at[u] = "waiting"
    BY <1>1, <1>12 DEF Fork
  <2> QED BY <1>6, <1>12, <2>1, <2>2 DEF Fork, In, P, W
<1>13. CASE End(w, t) /\ guard[t] # FileMaude
  <2>1. /\ at[t] = "running" /\ free' = Append(free, guard[t])
        /\ guard[t] \in 1..live
    BY <1>1, <1>13 DEF End, Release, FileMaude
  <2>2. Len(free') = Len(free) + 1
    BY <1>1, <2>1
  <2>3. CASE Waiters = {}
    <3>1. at' = [at EXCEPT ![t] = "done"]
      BY <1>13, <2>3 DEF End, Release
    <3>2. In(W)' = {}
      BY <1>3, <2>3, <3>1 DEF Waiters, W
    <3> QED BY <3>2
  <2>4. CASE Waiters # {}
    <3>1. PICK u \in Waiters : at' = [at EXCEPT ![t] = "done", ![u] = "woken"]
      BY <1>13, <2>4 DEF End, Release
    <3>2. u \in Tasks /\ at[u] = "waiting"
      BY DEF Waiters, In
    <3>3. In(P)' = In(P) \cup {u}
      BY <1>1, <2>1, <3>1, <3>2 DEF In, P
    <3>4. u \notin In(P)
      BY <3>2 DEF In, P
    <3>5. Cardinality(In(P)') = Cardinality(In(P)) + 1
      BY <3>3, <3>4, Counted, FS_AddElement
    <3>6. In(W) # {}
      BY <2>4 DEF Waiters, W
    <3> QED BY <1>1, <2>2, <3>5, <3>6
  <2> QED BY <2>3, <2>4
<1> QED
  BY <1>7, <1>8, <1>9, <1>10, <1>11, <1>12, <1>13 DEF Move, Work

\* Where the tasks are: a member is held while its task works, only a rule task
\* waits, and only a task with cases joins.
LEMMA PlacesStep ==
  ASSUME PoolInv, NEW w, NEW t \in Tasks, Move(w, t)
  PROVE  PlacesInv'
<1>1. /\ at \in [Tasks -> Places] /\ live \in Nat /\ guard \in [Tasks -> 0..live]
      /\ failed \subseteq Tasks /\ PlacesInv
      /\ \A c \in Cases(t) : c \in Tasks
  BY DEF PoolInv, TypeOK, Cases
<1>2. Cases(t) # {} => Kind[t] # "rule"
  BY PoolAssumption DEF Cases
<1>3. CASE Take(w, t)
  BY <1>1, <1>3 DEF PlacesInv, Take
<1>4. CASE Skip(t) \/ Spurious(t)
  BY <1>1, <1>4 DEF PlacesInv, Skip, Spurious
<1>5. CASE Pop(t) \/ Reserve(t) \/ Wait(t) \/ Decline(t)
  BY <1>1, <1>5 DEF PlacesInv, Pop, Hold, Reserve, Wait, Decline
<1>6. CASE Started(t) \/ SpawnFailed(t)
  BY <1>1, <1>6 DEF PlacesInv, Started, SpawnFailed, Hold
<1>7. CASE Fork(t) \/ Join(t)
  BY <1>1, <1>2, <1>7 DEF PlacesInv, Fork, Join
<1>8. CASE End(w, t)
  <2>1. /\ at[t] = "running" /\ guard' = [guard EXCEPT ![t] = FileMaude]
        /\ at'[t] = "done" /\ failed' \subseteq failed \cup {t}
    BY <1>1, <1>8 DEF End, Release, Waiters, In, FileMaude
  <2>2. \A u \in Tasks : u # t => at'[u] = at[u] \/ (at[u] = "waiting" /\ at'[u] = "woken")
    BY <1>1, <1>8 DEF End, Release, Waiters, In
  <2> QED BY <1>1, <2>1, <2>2 DEF PlacesInv
<1> QED BY <1>3, <1>4, <1>5, <1>6, <1>7, <1>8 DEF Move, Work

\* While a rule is open nothing but rules can move.
LEMMA RulesFirstStep ==
  ASSUME PoolInv, NEW w, NEW t \in Tasks, Move(w, t)
  PROVE  RulesFirst'
<1>1. /\ at \in [Tasks -> Places] /\ Kind \in [Tasks -> {"rule", "lemma", "case"}]
      /\ failed \subseteq Tasks /\ PlacesInv /\ RulesFirst
  BY PoolAssumption DEF PoolInv, TypeOK
<1>2. at[t] # "done" /\ at[t] # "unborn"
  BY DEF Move, Work, Take, Skip, Spurious, Pop, Reserve, Wait, Decline, Started, SpawnFailed, Fork, Join, End
<1>3. ASSUME NEW r \in Rules, at[r] # "done" PROVE Kind[t] = "rule"
  <2>1. CASE at[t] # "pending"
    BY <1>1, <1>2, <1>3, <2>1 DEF RulesFirst
  <2>2. CASE Take(w, t)
    BY <1>1, <1>3, <2>2 DEF RulesFirst, Take, MayStart
  <2>3. CASE Skip(t)
    <3>1. PICK s \in failed : Kind[s] = Kind[t]
      BY <2>3 DEF Skip
    <3>2. at[s] \notin {"pending", "unborn"}
      BY <1>1, <3>1 DEF PlacesInv
    <3> QED BY <1>1, <1>3, <3>1, <3>2 DEF RulesFirst
  <2> QED
    BY <2>1, <2>2, <2>3
    DEF Move, Work, Spurious, Pop, Reserve, Wait, Decline, Started, SpawnFailed, Fork, Join, End
<1>4. ASSUME NEW u \in Tasks, u # t, Kind[t] = "rule"
      PROVE  at'[u] = at[u] \/ (at[u] = "waiting" /\ at'[u] = "woken")
  <2>1. Cases(t) = {}
    BY PoolAssumption, <1>4 DEF Cases
  <2> QED
    BY <1>1, <1>4, <2>1
    DEF Move, Work, Take, Skip, Spurious, Pop, Hold, Reserve, Wait, Decline, Started, SpawnFailed,
        Fork, Join, End, Release, Waiters, In
<1>5. \A r \in Rules : at[r] = "done" => at'[r] = "done"
  <2>1. SUFFICES ASSUME NEW r \in Rules, at[r] = "done" PROVE at'[r] = "done"
    OBVIOUS
  <2>2. r \in Tasks /\ r # t /\ Kind[r] = "rule"
    BY <1>2, <2>1 DEF Rules
  <2>3. r \notin Cases(t)
    BY PoolAssumption, <2>2 DEF Cases
  <2> QED
    BY <1>1, <2>1, <2>2, <2>3
    DEF Move, Work, Take, Skip, Spurious, Pop, Hold, Reserve, Wait, Decline, Started, SpawnFailed,
        Fork, Join, End, Release, Waiters, In
<1>6. SUFFICES ASSUME NEW r \in Rules, at'[r] # "done", NEW u \in Tasks
               PROVE  /\ Kind[u] = "lemma" => at'[u] = "pending"
                      /\ Kind[u] = "case" => at'[u] = "unborn"
  BY DEF RulesFirst, Rules
<1>7. at[r] # "done" /\ Kind[t] = "rule"
  BY <1>3, <1>5, <1>6
<1> QED BY <1>1, <1>4, <1>6, <1>7 DEF RulesFirst

\* A task is pushed when nobody has begun it and popped when it ends; only the
\* one on top moves.
LEMMA StackStep ==
  ASSUME PoolInv, NEW w \in Threads, NEW t \in Tasks, Move(w, t)
  PROVE  StackInv'
<1>1. /\ at \in [Tasks -> Places] /\ stack \in [Threads -> Seq(Tasks)] /\ StackInv
      /\ \A c \in Cases(t) : c \in Tasks
  BY DEF PoolInv, TypeOK, Cases
<1>2. \A v \in Threads : Len(stack[v]) \in Nat /\ \A i \in 1..Len(stack[v]) : stack[v][i] \in Tasks
  BY <1>1
<1>3. \A v \in Threads : \A i \in 1..Len(stack[v]) :
        at[stack[v][i]] \notin {"unborn", "pending", "done"}
  BY <1>1 DEF StackInv, Active
<1>4. OnTop(w, t) => /\ Len(stack[w]) \in Nat \ {0} /\ stack[w][Len(stack[w])] = t
                     /\ Len(Front(stack[w])) = Len(stack[w]) - 1
                     /\ \A i \in 1..Len(stack[w]) - 1 : Front(stack[w])[i] = stack[w][i]
  BY <1>1, FrontLast DEF OnTop
<1>5. CASE Take(w, t)
  <2>1. /\ at[t] = "pending" /\ stack' = [stack EXCEPT ![w] = Append(@, t)]
        /\ at'[t] \in Active /\ \A u \in Tasks : u # t => at'[u] = at[u]
        /\ stack[w] # <<>> => at[stack[w][Len(stack[w])]] = "joining"
    BY <1>1, <1>5, FrontLast DEF Take, Active, Places
  <2>2. \A v \in Threads : \A i \in 1..Len(stack[v]) : stack[v][i] # t
    BY <1>3, <2>1
  <2>3. \A v \in Threads : v # w => stack'[v] = stack[v]
    BY <1>1, <2>1
  <2>4. /\ Len(stack'[w]) = Len(stack[w]) + 1 /\ stack'[w][Len(stack[w]) + 1] = t
        /\ \A i \in 1..Len(stack[w]) : stack'[w][i] = stack[w][i]
    BY <1>1, <2>1
  <2>5. \A i \in 1..Len(stack[w]) : at[stack[w][i]] = "joining"
    <3> SUFFICES ASSUME NEW i \in 1..Len(stack[w]) PROVE at[stack[w][i]] = "joining"
      OBVIOUS
    <3>1. CASE i = Len(stack[w])
      BY <1>1, <2>1, <3>1
    <3>2. CASE i < Len(stack[w])
      BY <1>1, <3>2 DEF StackInv
    <3> QED BY <1>2, <3>1, <3>2
  <2>6. SUFFICES ASSUME NEW x \in Threads, NEW i \in 1..Len(stack'[x])
                 PROVE  /\ at'[stack'[x][i]] \in Active
                        /\ i < Len(stack'[x]) => at'[stack'[x][i]] = "joining"
                        /\ \A v \in Threads : \A j \in 1..Len(stack'[v]) :
                             stack'[x][i] = stack'[v][j] => x = v /\ i = j
    BY DEF StackInv, Active
  <2>7. CASE x = w /\ i = Len(stack[w]) + 1
    BY <1>2, <2>1, <2>2, <2>3, <2>4, <2>7
  <2>8. CASE x = w /\ i # Len(stack[w]) + 1
    <3>1. i \in 1..Len(stack[w]) /\ stack'[x][i] = stack[w][i] /\ stack[w][i] # t
      BY <1>2, <2>2, <2>4, <2>8
    <3>2. at'[stack'[x][i]] = "joining"
      BY <1>2, <2>1, <2>5, <3>1
    <3>3. ASSUME NEW v \in Threads, NEW j \in 1..Len(stack'[v]), stack[w][i] = stack'[v][j]
          PROVE  w = v /\ i = j
      <4>1. j \in 1..Len(stack[v]) /\ stack'[v][j] = stack[v][j]
        BY <1>2, <2>3, <2>4, <3>1, <3>3, <2>8
      <4> QED BY <1>1, <3>1, <3>3, <4>1 DEF StackInv
    <3> QED BY <2>8, <3>1, <3>2, <3>3 DEF Active, Places
  <2>9. CASE x # w
    <3>1. stack'[x] = stack[x] /\ i \in 1..Len(stack[x]) /\ stack[x][i] # t /\ stack[x][i] \in Tasks
      BY <1>2, <2>2, <2>3, <2>9
    <3> QED BY <1>1, <1>2, <2>1, <2>3, <2>4, <2>9, <3>1 DEF StackInv
  <2> QED BY <2>7, <2>8, <2>9
<1>6. CASE End(w, t) /\ OnTop(w, t)
  <2>1. /\ stack' = [stack EXCEPT ![w] = Front(@)]
        /\ \A u \in Tasks : u # t => at'[u] = at[u] \/ (at[u] = "waiting" /\ at'[u] = "woken")
    BY <1>1, <1>6 DEF End, Release, Waiters, In
  <2>2. ASSUME NEW v \in Threads
        PROVE  /\ Len(stack'[v]) = IF v = w THEN Len(stack[v]) - 1 ELSE Len(stack[v])
               /\ \A i \in 1..Len(stack'[v]) : stack'[v][i] = stack[v][i] /\ i \in 1..Len(stack[v])
    BY <1>1, <1>2, <1>4, <1>6, <2>1
  <2>3. ASSUME NEW v \in Threads, NEW i \in 1..Len(stack'[v]) PROVE stack[v][i] # t
    BY <1>1, <1>2, <1>4, <1>6, <2>2 DEF StackInv
  <2>4. SUFFICES ASSUME NEW x \in Threads, NEW i \in 1..Len(stack'[x])
                 PROVE  /\ at'[stack'[x][i]] \in Active
                        /\ i < Len(stack'[x]) => at'[stack'[x][i]] = "joining"
                        /\ \A v \in Threads : \A j \in 1..Len(stack'[v]) :
                             stack'[x][i] = stack'[v][j] => x = v /\ i = j
    BY DEF StackInv, Active
  <2>5. /\ stack'[x][i] = stack[x][i] /\ i \in 1..Len(stack[x]) /\ stack[x][i] # t
        /\ stack[x][i] \in Tasks /\ Len(stack'[x]) <= Len(stack[x])
    BY <1>2, <2>2, <2>3
  <2>6. at[stack[x][i]] \in Active /\ (i < Len(stack[x]) => at[stack[x][i]] = "joining")
    BY <1>1, <2>5 DEF StackInv
  <2>7. \A v \in Threads : \A j \in 1..Len(stack'[v]) : stack'[x][i] = stack'[v][j] => x = v /\ i = j
    BY <1>1, <2>2, <2>5 DEF StackInv
  <2>8. at'[stack[x][i]] \in Active /\ (at[stack[x][i]] = "joining" => at'[stack[x][i]] = "joining")
    BY <2>1, <2>5, <2>6 DEF Active, Places
  <2>9. i < Len(stack'[x]) => i < Len(stack[x])
    BY <1>2, <2>2
  <2> QED BY <2>5, <2>6, <2>7, <2>8, <2>9
<1>7. ASSUME stack' = stack,
             \A v \in Threads : \A i \in 1..Len(stack[v]) :
               LET u == stack[v][i] IN
               at'[u] \in Active /\ (i < Len(stack[v]) => at'[u] = at[u])
      PROVE  StackInv'
  BY <1>1, <1>7 DEF StackInv, Active
<1>8. CASE Skip(t)
  BY <1>1, <1>2, <1>3, <1>7, <1>8 DEF StackInv, Skip
<1>9. CASE Spurious(t)
  <2>1. /\ at[t] = "waiting" /\ at' = [at EXCEPT ![t] = "woken"] /\ stack' = stack
    BY <1>9 DEF Spurious
  <2>2. ASSUME NEW v \in Threads, NEW i \in 1..Len(stack[v])
        PROVE  at'[stack[v][i]] \in Active /\ (i < Len(stack[v]) => at'[stack[v][i]] = at[stack[v][i]])
    BY <1>1, <1>2, <2>1, <2>2 DEF StackInv, Active, Places
  <2> QED BY <1>7, <2>1, <2>2
<1>10. CASE Work(w, t) /\ ~End(w, t)
  <2>1. /\ OnTop(w, t) /\ stack' = stack
        /\ \A u \in Tasks : u # t => at'[u] = at[u] \/ at[u] = "unborn"
    BY <1>1, <1>10
    DEF Work, Pop, Reserve, Wait, Decline, Started, SpawnFailed, Hold, Fork, Join
  <2>2. at'[t] \in Active
    <3>1. at'[t] \in {"running", "starting", "waiting", "joining"}
      BY <1>1, <1>10 DEF Work, Pop, Reserve, Wait, Decline, Started, SpawnFailed, Hold, Fork, Join
    <3> QED BY <3>1 DEF Active, Places
  <2>3. ASSUME NEW v \in Threads, NEW i \in 1..Len(stack[v])
        PROVE  at'[stack[v][i]] \in Active /\ (i < Len(stack[v]) => at'[stack[v][i]] = at[stack[v][i]])
    <3>1. stack[v][i] \in Tasks /\ at[stack[v][i]] # "unborn" /\ at[stack[v][i]] \in Active
      BY <1>1, <1>2, <1>3 DEF StackInv
    <3>2. CASE stack[v][i] # t
      BY <2>1, <3>1, <3>2
    <3>3. CASE stack[v][i] = t
      <4>1. Len(stack[w]) \in 1..Len(stack[w]) /\ stack[w][Len(stack[w])] = t
        BY <1>4, <2>1
      <4>2. i = Len(stack[v])
        BY <1>1, <3>3, <4>1 DEF StackInv
      <4> QED BY <1>2, <2>2, <3>3, <4>2
    <3> QED BY <3>2, <3>3
  <2> QED BY <1>7, <2>1, <2>3
<1> QED BY <1>5, <1>6, <1>8, <1>9, <1>10 DEF Move, Work

\* The variables keep their types.
LEMMA TypeStep ==
  ASSUME PoolInv, NEW w \in Threads, NEW t \in Tasks, Move(w, t)
  PROVE  TypeOK'
<1>1. TypeOK /\ PlacesInv
  BY DEF PoolInv
<1>2. /\ spawned \in 1..Size /\ live \in 1..Size /\ Size \in Nat
      /\ free \in Seq(1..live)
      /\ at \in [Tasks -> Places]
      /\ guard \in [Tasks -> 0..live] /\ maude \in [Tasks -> 0..live]
      /\ try_spawn \subseteq Tasks /\ failed \subseteq Tasks
      /\ stack \in [Threads -> Seq(Tasks)]
      /\ live \in Nat /\ spawned \in Nat
  BY <1>1, PoolAssumption DEF TypeOK
<1>3. spawned' \in 1..Size /\ live' \in 1..Size
  <2>1. SlotsAddUp' /\ SlotsAddUp
    BY SlotsStep DEF PoolInv
  <2>2. live' \in {live, live + 1} /\ spawned' \in {spawned, spawned + 1, spawned - 1}
    BY DEF Move, Work, Take, Skip, Spurious, Pop, Reserve, Wait, Decline, Started, SpawnFailed,
           Fork, Join, End
  <2>3. IsFiniteSet(In({"starting"})')
    <3>1. In({"starting"})' \subseteq Tasks /\ IsFiniteSet(Tasks)
      BY PoolAssumption DEF In
    <3> QED BY <3>1, FS_Subset
  <2>4. Cardinality(In({"starting"})') \in Nat
    BY <2>3, FS_CardinalityType
  <2>5. spawned' = live' + Cardinality(In({"starting"})') /\ spawned' <= Size
    BY <2>1 DEF SlotsAddUp
  <2> QED BY <1>2, <2>2, <2>4, <2>5
<1>4. at' \in [Tasks -> Places]
  <2>1. CASE End(w, t)
    BY <1>2, <2>1 DEF End, Release, Waiters, In, Places
  <2>2. CASE ~End(w, t)
    BY <1>2, <2>2
    DEF Move, Work, Take, Skip, Spurious, Pop, Hold, Reserve, Wait, Decline, Started, SpawnFailed,
        Fork, Join, Places
  <2> QED BY <2>1, <2>2
<1>5. free # <<>> => Last(free) \in 1..live /\ Front(free) \in Seq(1..live)
  BY <1>2, FrontLast
<1>6. free' \in Seq(1..live') /\ guard' \in [Tasks -> 0..live'] /\ maude' \in [Tasks -> 0..live']
  <2>1. CASE Started(t)
    <3>1. live' = live + 1 /\ free' = free
      BY <2>1 DEF Started
    <3>2. free \in Seq(1..live + 1)
      <4>1. 1..live \subseteq 1..live + 1
        BY <1>2
      <4> QED BY <1>2, <4>1, SeqMonotonic
    <3> QED BY <1>2, <2>1, <3>1, <3>2 DEF Started, Hold
  <2>2. CASE Pop(t) \/ SpawnFailed(t)
    <3>1. /\ live' = live
          /\ \/ /\ free # <<>> /\ free' = Front(free)
                /\ guard' = [guard EXCEPT ![t] = Last(free)]
                /\ maude' = [maude EXCEPT ![t] = Last(free)]
             \/ UNCHANGED <<free, guard, maude>>
      BY <2>2 DEF Pop, SpawnFailed, Hold
    <3>2. CASE UNCHANGED <<free, guard, maude>>
      BY <1>2, <3>1, <3>2
    <3>3. CASE /\ free # <<>> /\ free' = Front(free)
               /\ guard' = [guard EXCEPT ![t] = Last(free)]
               /\ maude' = [maude EXCEPT ![t] = Last(free)]
      <4>1. Last(free) \in 0..live /\ Front(free) \in Seq(1..live)
        BY <1>2, <1>5, <3>3
      <4>2. ASSUME NEW f \in [Tasks -> 0..live] PROVE [f EXCEPT ![t] = Last(free)] \in [Tasks -> 0..live]
        BY <4>1
      <4> QED BY <1>2, <3>1, <3>3, <4>1, <4>2
    <3> QED BY <3>1, <3>2, <3>3
  <2>3. CASE End(w, t)
    <3>1. guard[t] # FileMaude => guard[t] \in 1..live /\ Append(free, guard[t]) \in Seq(1..live)
      BY <1>2 DEF FileMaude
    <3>2. /\ live' = live /\ maude' = [maude EXCEPT ![t] = 0]
          /\ \/ /\ guard[t] # FileMaude /\ free' = Append(free, guard[t])
                /\ guard' = [guard EXCEPT ![t] = 0]
             \/ UNCHANGED <<free, guard>>
      BY <2>3 DEF End, Release, FileMaude
    <3>3. ASSUME NEW f \in [Tasks -> 0..live] PROVE [f EXCEPT ![t] = 0] \in [Tasks -> 0..live]
      BY <1>2
    <3>4. maude' \in [Tasks -> 0..live']
      BY <1>2, <3>2, <3>3
    <3>5. CASE UNCHANGED <<free, guard>>
      BY <1>2, <3>2, <3>4, <3>5
    <3>6. CASE free' = Append(free, guard[t]) /\ guard[t] # FileMaude /\ guard' = [guard EXCEPT ![t] = 0]
      BY <1>2, <3>1, <3>2, <3>3, <3>4, <3>6
    <3> QED BY <3>2, <3>5, <3>6
  <2>4. CASE Take(w, t)
    <3>1. Kind[t] = "case" => Parent[t] \in Tasks
      BY PoolAssumption
    <3> QED BY <1>2, <2>4, <3>1 DEF Take
  <2>5. CASE UNCHANGED <<free, live, guard, maude>>
    BY <1>2, <2>5
  <2> QED
    BY <2>1, <2>2, <2>3, <2>4, <2>5
    DEF Move, Work, Skip, Spurious, Reserve, Wait, Decline, Fork, Join
<1>7. try_spawn' \subseteq Tasks /\ failed' \subseteq Tasks
  BY <1>2
  DEF Move, Work, Take, Skip, Spurious, Pop, Reserve, Wait, Decline, Started, SpawnFailed,
      Fork, Join, End
<1>8. stack' \in [Threads -> Seq(Tasks)]
  <2>1. CASE Take(w, t)
    BY <1>2, <2>1 DEF Take
  <2>2. CASE End(w, t) /\ OnTop(w, t)
    <3>1. Front(stack[w]) \in Seq(Tasks)
      BY <1>2, <2>2, FrontLast DEF OnTop
    <3> QED BY <1>2, <2>2, <3>1 DEF End
  <2>3. CASE stack' = stack
    BY <1>2, <2>3
  <2> QED
    BY <2>1, <2>2, <2>3
    DEF Move, Work, Skip, Spurious, Pop, Reserve, Wait, Decline, Started, SpawnFailed, Fork, Join
<1> QED BY <1>3, <1>4, <1>6, <1>7, <1>8 DEF TypeOK

-----------------------------------------------------------------------------
(* The invariant and what follows from it.                                 *)

\* The pool starts with one member, idle, and everybody at rest.
LEMMA InitInv == Init => PoolInv
<1> SUFFICES ASSUME Init PROVE PoolInv
  OBVIOUS
<1>1. In({"starting"}) = {} /\ Waiters = {}
  BY DEF Init, In, Waiters
<1>2. Cardinality(In({"starting"})) = 0
  BY <1>1, FS_EmptySet
<1>3. SlotsAddUp /\ NoLostWakeup
  BY <1>1, <1>2, PoolAssumption DEF Init, SlotsAddUp, NoLostWakeup
<1>4. TypeOK
  <2>1. <<1>> \in Seq(1..1) /\ Rules \subseteq Tasks
    BY DEF Rules
  <2>2. <<>> \in Seq(Tasks)
    OBVIOUS
  <2> QED BY <2>1, <2>2, PoolAssumption DEF Init, TypeOK, Places, FileMaude
<1>5. OneOwner
  <2>1. free = <<1>> /\ live = 1 /\ \A t \in Tasks : guard[t] = 0
    BY DEF Init, FileMaude
  <2>2. DOMAIN free = {1} /\ free[1] = 1
    BY <2>1
  <2> QED BY <2>1, <2>2 DEF OneOwner, IsInjective, ToSet
<1>6. PlacesInv /\ RulesFirst
  BY PoolAssumption DEF Init, PlacesInv, RulesFirst, Rules, FileMaude
<1>7. StackInv
  <2>1. \A w \in Threads : stack[w] = <<>> /\ Len(stack[w]) = 0
    BY DEF Init
  <2> QED BY <2>1 DEF StackInv
<1> QED BY <1>3, <1>4, <1>5, <1>6, <1>7 DEF PoolInv

\* Every step keeps it.
LEMMA NextInv == PoolInv /\ [Next]_vars => PoolInv'
<1> SUFFICES ASSUME PoolInv, [Next]_vars PROVE PoolInv'
  OBVIOUS
<1>1. CASE UNCHANGED vars
  <2>1. UNCHANGED <<free, spawned, live, at, guard, maude, try_spawn, stack, failed>>
    BY <1>1 DEF vars
  <2> QED
    BY <2>1
    DEF PoolInv, TypeOK, OneOwner, SlotsAddUp, NoLostWakeup, PlacesInv, RulesFirst, StackInv,
        Waiters, In
<1>2. ASSUME NEW w \in Threads, NEW t \in Tasks, Move(w, t) PROVE PoolInv'
  BY <1>2, TypeStep, OneOwnerStep, SlotsStep, WakeupStep, PlacesStep, RulesFirstStep, StackStep
  DEF PoolInv
<1>3. ASSUME NEW t \in Tasks, Skip(t) \/ Spurious(t) PROVE PoolInv'
  <2>1. \A w : Move(w, t)
    BY <1>3 DEF Move
  <2>2. CASE Threads # {}
    BY <1>2, <2>1, <2>2
  <2>3. CASE Threads = {}
    <3>1. StackInv' /\ stack' = stack
      BY <1>3, <2>3 DEF StackInv, Skip, Spurious
    <3>2. TypeOK'
      BY <1>3, <3>1 DEF PoolInv, TypeOK, Skip, Spurious, Places
    <3> QED
      BY <2>1, <3>1, <3>2, OneOwnerStep, SlotsStep, WakeupStep, PlacesStep, RulesFirstStep DEF PoolInv
  <2> QED BY <2>2, <2>3
<1> QED BY <1>1, <1>2, <1>3, NextIsMove

\* PoolInv holds in every reachable state.
THEOREM PoolInvariant == Spec => []PoolInv
BY InitInv, NextInv, PTL DEF Spec

\* The variables have their types.
THEOREM TypeCorrect == Spec => []TypeOK
<1>1. PoolInv => TypeOK
  BY DEF PoolInv
<1> QED BY <1>1, PoolInvariant, PTL

\* No member is held twice or lost, whatever starts fail and whoever returns
\* when (MaudePool::acquire, try_acquire, PooledMaude::drop).
THEOREM OneOwnerHolds == Spec => []OneOwner
<1>1. PoolInv => OneOwner
  BY DEF PoolInv
<1> QED BY <1>1, PoolInvariant, PTL

\* The pool never outgrows its size and leaks no slot (spawned, size).
THEOREM SlotsAddUpHolds == Spec => []SlotsAddUp
<1>1. PoolInv => SlotsAddUp
  BY DEF PoolInv
<1> QED BY <1>1, PoolInvariant, PTL

\* No acquire sleeps on while a member lies idle (Condvar::notify_one in drop).
THEOREM NoLostWakeupHolds == Spec => []NoLostWakeup
<1>1. PoolInv => NoLostWakeup
  BY DEF PoolInv
<1> QED BY <1>1, PoolInvariant, PTL

\* A thread that waits in acquire is at the first and only task of its stack, a
\* rule: all tasks below the top join cases, which no rule does.
LEMMA WaitsAlone ==
  ASSUME PoolInv, NEW w \in Threads, NEW i \in 1..Len(stack[w]),
         at[stack[w][i]] \in {"waiting", "woken"}
  PROVE  Len(stack[w]) = 1
<1>1. /\ stack[w] \in Seq(Tasks) /\ Len(stack[w]) \in Nat /\ PlacesInv /\ RulesFirst /\ StackInv
      /\ \A j \in 1..Len(stack[w]) : stack[w][j] \in Tasks
  BY DEF PoolInv, TypeOK
<1>2. stack[w][i] \in Rules /\ at[stack[w][i]] # "done"
  BY <1>1 DEF PlacesInv, Rules
<1>3. \A j \in 1..Len(stack[w]) : at[stack[w][j]] # "joining"
  <2>1. SUFFICES ASSUME NEW j \in 1..Len(stack[w]), at[stack[w][j]] = "joining" PROVE FALSE
    OBVIOUS
  <2>2. Kind[stack[w][j]] \in {"lemma", "case"}
    BY <1>1, <2>1, PoolAssumption DEF PlacesInv
  <2> QED BY <1>1, <1>2, <2>1, <2>2 DEF RulesFirst
<1>4. 1 \in 1..Len(stack[w])
  BY <1>1
<1>5. ~(1 < Len(stack[w]))
  BY <1>1, <1>3, <1>4 DEF StackInv
<1>6. \A n \in Nat : 1 \in 1..n /\ ~(1 < n) => n = 1
  OBVIOUS
<1> QED BY <1>1, <1>4, <1>5, <1>6

\* Waiting for a member never deadlocks the pool of threads: who waits holds
\* none, on no frame of its stack (search.rs:1196).
THEOREM NoHoldAndWaitHolds == Spec => []NoHoldAndWait
<1>1. PoolInv => NoHoldAndWait
  <2>1. SUFFICES ASSUME PoolInv, NEW w \in Threads, NEW i \in 1..Len(stack[w]),
                        NEW j \in 1..Len(stack[w]), at[stack[w][i]] \in {"waiting", "woken"}
                 PROVE  guard[stack[w][j]] = FileMaude
    BY DEF NoHoldAndWait
  <2>2. Len(stack[w]) = 1
    BY <2>1, WaitsAlone
  <2>3. i = j
    BY <2>2
  <2>4. stack[w][i] \in Tasks
    BY <2>1 DEF PoolInv, TypeOK
  <2> QED BY <2>1, <2>3, <2>4 DEF PoolInv, PlacesInv
<1> QED BY <1>1, PoolInvariant, PTL

-----------------------------------------------------------------------------
(* The Maude a task works with: HeldInv.                                   *)

\* What is above a task: itself, and all that is above the task it is a case of.
LEMMA AboveFacts ==
  ASSUME NEW t \in Tasks
  PROVE  /\ t \in Above[t] /\ Above[t] \subseteq Tasks
         /\ Kind[t] = "case" => Parent[t] \in Tasks /\ Above[Parent[t]] \subseteq Above[t]
<1>1. \A x \in Tasks : \A u : u \in Above[x] <=>
        u \in Tasks /\ \A S \in SUBSET Tasks :
          x \in S /\ (\A c \in S : Kind[c] = "case" => Parent[c] \in S) => u \in S
  BY DEF Above
<1>2. Kind[t] = "case" => Parent[t] \in Tasks
  BY PoolAssumption
<1> QED BY <1>1, <1>2

\* All above a task that has not ended join.
LEMMA AboveJoins ==
  ASSUME TypeOK, HeldInv, NEW t \in Tasks, at[t] \in Active \cup {"pending"},
         NEW u \in Above[t], u # t
  PROVE  at[u] = "joining"
<1> DEFINE S == {t} \cup {c \in Tasks : at[c] = "joining"}
<1>1. S \in SUBSET Tasks /\ t \in S
  OBVIOUS
<1>2. \A c \in S : c \in Tasks /\ at[c] \in Active \cup {"pending"}
  BY DEF Active, Places
<1>3. \A c \in Tasks : Kind[c] = "case" => Parent[c] \in Tasks
  BY PoolAssumption
<1>4. \A c \in S : Kind[c] = "case" => Parent[c] \in S
  BY <1>2, <1>3 DEF HeldInv
<1>5. u \in S
  BY <1>1, <1>4 DEF Above
<1> QED BY <1>5

\* A task that moves changes no other task's Maude, and takes no member from it.
LEMMA HeldStep ==
  ASSUME PoolInv, HeldInv, NEW w, NEW t \in Tasks, Move(w, t)
  PROVE  HeldInv'
<1>1. /\ at \in [Tasks -> Places] /\ live \in Nat
      /\ guard \in [Tasks -> 0..live] /\ maude \in [Tasks -> 0..live]
      /\ PlacesInv /\ TypeOK
      /\ Kind \in [Tasks -> {"rule", "lemma", "case"}]
      /\ \A c \in Tasks : Kind[c] = "case" => Parent[c] \in Tasks
  BY PoolAssumption DEF PoolInv, TypeOK
<1>2. \A u \in Tasks : guard[u] # FileMaude => at[u] \in {"running", "joining"}
  BY <1>1 DEF PlacesInv
<1>3. /\ \A c \in Tasks : Kind[c] = "case" /\ at[c] \in Active \cup {"pending"} =>
           at[Parent[c]] = "joining"
      /\ \A u \in Tasks : Kind[u] # "case" /\ at[u] = "pending" => maude[u] = FileMaude
      /\ \A u \in Tasks : at[u] \in Active /\ maude[u] # FileMaude =>
           \E v \in Above[u] : guard[v] = maude[u]
  BY DEF HeldInv, In
\* Where everybody goes.
<1>4. ASSUME NEW c \in Tasks, Kind[c] = "case", at'[c] \in Active \cup {"pending"}
      PROVE  at'[Parent[c]] = "joining"
  <2>1. at[t] # "joining" \/ Join(t)
    BY DEF Move, Work, Take, Skip, Spurious, Pop, Reserve, Wait, Decline, Started, SpawnFailed,
           Fork, Join, End
  <2>2. CASE Join(t)
    <3>1. at[c] # "done" /\ at'[c] \in Active \cup {"pending"}
      BY <1>1, <1>4, <2>2 DEF Join, Active, Places
    <3>2. Parent[c] # t
      BY <2>2, <3>1 DEF Join, Cases
    <3>3. at[c] \in Active \cup {"pending"}
      BY <1>1, <1>4, <2>2 DEF Join, Active, Places
    <3> QED BY <1>1, <1>3, <1>4, <2>2, <3>2, <3>3 DEF Join
  <2>3. CASE Fork(t)
    <3>1. CASE Parent[c] = t
      BY <1>1, <1>4, <2>3, <3>1 DEF Fork
    <3>2. CASE Parent[c] # t
      <4>1. at[c] \in Active \cup {"pending"}
        BY <1>1, <1>4, <2>3, <3>2 DEF Fork, Cases, Active, Places
      <4>2. at[Parent[c]] = "joining" /\ Parent[c] \in Tasks
        BY <1>1, <1>3, <1>4, <4>1
      <4> QED BY <1>1, <2>3, <3>2, <4>2 DEF Fork
    <3> QED BY <3>1, <3>2
  <2>4. CASE ~Join(t) /\ ~Fork(t)
    <3>1. at[t] # "joining"
      BY <2>1, <2>4
    <3>2. \A u \in Tasks : at[u] = "joining" => at'[u] = "joining"
      BY <1>1, <2>4, <3>1
      DEF Move, Work, Take, Skip, Spurious, Pop, Hold, Reserve, Wait, Decline, Started, SpawnFailed,
          End, Release, Waiters, In
    <3>3. \A u \in Tasks : at'[u] # at[u] => at[u] \in Active \cup {"pending"}
      BY <1>1, <2>4
      DEF Move, Work, Take, Skip, Spurious, Pop, Hold, Reserve, Wait, Decline, Started, SpawnFailed,
          End, Release, Waiters, In, Active, Places
    <3>4. at[c] \in Active \cup {"pending"}
      BY <1>4, <3>3
    <3> QED BY <1>1, <1>3, <1>4, <3>2, <3>4
  <2> QED BY <2>2, <2>3, <2>4
<1>5. ASSUME NEW u \in Tasks, Kind[u] # "case", at'[u] = "pending"
      PROVE  maude'[u] = FileMaude
  <2>1. at[u] = "pending"
    <3>1. u \notin Cases(t)
      BY <1>5, PoolAssumption DEF Cases
    <3> QED
      BY <1>1, <1>5, <3>1
      DEF Move, Work, Take, Skip, Spurious, Pop, Hold, Reserve, Wait, Decline, Started, SpawnFailed,
          Fork, Join, End, Release, Waiters, In
  <2>2. maude'[u] = maude[u]
    BY <1>1, <1>5, <2>1
    DEF Move, Work, Take, Skip, Spurious, Pop, Hold, Reserve, Wait, Decline, Started, SpawnFailed,
        Fork, Join, End, Release
  <2> QED BY <1>3, <1>5, <2>1, <2>2
\* The members.
<1>6. SUFFICES ASSUME NEW u \in Tasks, at'[u] \in Active, maude'[u] # FileMaude
               PROVE  \E v \in Above[u] : guard'[v] = maude'[u]
  BY <1>4, <1>5 DEF HeldInv, In, Active
<1>7. ASSUME at[u] \in Active, maude'[u] = maude[u], guard[t] = FileMaude,
             \A v \in Tasks : v # t => guard'[v] = guard[v]
      PROVE  \E v \in Above[u] : guard'[v] = maude'[u]
  <2>1. PICK v \in Above[u] : guard[v] = maude[u]
    BY <1>3, <1>6, <1>7
  <2>2. v \in Tasks /\ v # t
    BY <1>6, <1>7, <2>1, AboveFacts
  <2> QED BY <1>7, <2>1, <2>2
<1>8. CASE Take(w, t)
  <2>1. /\ at[t] = "pending" /\ guard' = guard
        /\ \A v \in Tasks : v # t => maude'[v] = maude[v] /\ at'[v] = at[v]
        /\ maude'[t] = IF Kind[t] = "case" THEN maude[Parent[t]] ELSE maude[t]
    BY <1>1, <1>8 DEF Take
  <2>2. CASE u # t
    BY <1>3, <1>6, <2>1, <2>2
  <2>3. CASE u = t
    <3>1. Kind[t] = "case"
      BY <1>3, <1>6, <2>1, <2>3
    <3>2. Parent[t] \in Tasks /\ at[Parent[t]] = "joining"
      BY <1>1, <1>3, <2>1, <3>1
    <3>3. at[Parent[t]] \in Active /\ maude[Parent[t]] # FileMaude
      BY <1>6, <2>1, <2>3, <3>1, <3>2 DEF Active, Places
    <3>4. PICK v \in Above[Parent[t]] : guard[v] = maude[Parent[t]]
      BY <1>3, <3>2, <3>3
    <3>5. v \in Above[t]
      BY <3>1, <3>4, AboveFacts
    <3> QED BY <2>1, <2>3, <3>1, <3>4, <3>5
  <2> QED BY <2>2, <2>3
<1>9. ASSUME at[u] \in Active, UNCHANGED <<guard, maude>>
      PROVE  \E v \in Above[u] : guard'[v] = maude'[u]
  BY <1>3, <1>6, <1>9
<1>10. CASE Skip(t) \/ Spurious(t) \/ Reserve(t) \/ Wait(t) \/ Decline(t) \/ Fork(t) \/ Join(t)
  <2>1. at[u] \in Active /\ UNCHANGED <<guard, maude>>
    BY <1>1, <1>6, <1>10 DEF Skip, Spurious, Reserve, Wait, Decline, Fork, Join, Active, Places
  <2> QED BY <1>9, <2>1
<1>11. CASE Pop(t) \/ Started(t) \/ SpawnFailed(t)
  <2>1. at[u] \in Active
    BY <1>1, <1>6, <1>11 DEF Pop, Started, SpawnFailed, Hold, Active, Places
  <2>2. CASE UNCHANGED <<guard, maude>>
    BY <1>9, <2>1, <2>2
  <2>3. CASE ~UNCHANGED <<guard, maude>>
    <3>1. PICK h : guard' = [guard EXCEPT ![t] = h] /\ maude' = [maude EXCEPT ![t] = h]
      BY <1>11, <2>3 DEF Pop, Started, SpawnFailed, Hold
    <3>2. guard[t] = FileMaude
      BY <1>2, <1>11 DEF Pop, Started, SpawnFailed
    <3>3. CASE u = t
      BY <1>1, <3>1, <3>3, AboveFacts
    <3>4. CASE u # t
      BY <1>1, <1>7, <2>1, <3>1, <3>2, <3>4
    <3> QED BY <3>3, <3>4
  <2> QED BY <2>2, <2>3
<1>12. CASE End(w, t)
  <2>1. /\ at[t] = "running" /\ maude' = [maude EXCEPT ![t] = FileMaude] /\ guard' = [guard EXCEPT ![t] = FileMaude]
        /\ at'[t] = "done"
    BY <1>1, <1>12 DEF End, Release, Waiters, In, FileMaude
  <2>2. u # t /\ at[u] \in Active
    BY <1>1, <1>6, <1>12, <2>1 DEF End, Release, Waiters, In, Active, Places
  <2>3. PICK v \in Above[u] : guard[v] = maude[u]
    BY <1>3, <1>6, <2>1, <2>2
  <2>4. v \in Tasks /\ v # t
    BY <1>1, <2>1, <2>2, <2>3, AboveFacts, AboveJoins
  <2> QED BY <1>1, <2>1, <2>2, <2>3, <2>4
<1> QED BY <1>8, <1>10, <1>11, <1>12 DEF Move, Work

\* A task works with the file's Maude or with one that a live guard holds, its
\* own or that of a task that waits for it (with_swapped_maude, search.rs:1229).
THEOREM MaudeIsHeldHolds == Spec => []MaudeIsHeld
<1>1. Init => HeldInv
  BY PoolAssumption DEF Init, HeldInv, In, Active, Places, FileMaude
<1>2. PoolInv /\ HeldInv /\ [Next]_vars => HeldInv'
  <2> SUFFICES ASSUME PoolInv, HeldInv, [Next]_vars PROVE HeldInv'
    OBVIOUS
  <2>1. CASE UNCHANGED vars
    BY <2>1 DEF vars, HeldInv, In
  <2>2. ASSUME NEW t \in Tasks, NEW w, Move(w, t) PROVE HeldInv'
    BY <2>2, HeldStep
  <2> QED BY <2>1, <2>2, NextIsMove DEF Move
<1>3. HeldInv => MaudeIsHeld
  <2> SUFFICES ASSUME HeldInv, NEW t \in Tasks, at[t] \in {"running", "joining"},
                      maude[t] # FileMaude
               PROVE  \E u \in Tasks : guard[u] = maude[t]
    BY DEF MaudeIsHeld, In
  <2>1. t \in In(Active)
    BY DEF In, Active, Places
  <2> QED BY <2>1, AboveFacts DEF HeldInv
<1> QED BY <1>1, <1>2, <1>3, PoolInvariant, PTL DEF Spec
=============================================================================
