------------------------- MODULE JobLifecycleProofs -------------------------
(* Safety of jobs for any jobs, kinds, limits and reloads.                 *)
EXTENDS JobLifecycle, SetInduction, FiniteSetTheorems

-----------------------------------------------------------------------------
(* Sequences.                                                              *)

Distinct(s) == \A m, n \in DOMAIN s : s[m] = s[n] => m = n

\* A sequence with one element more at its end.
LEMMA AppendAdds ==
    ASSUME NEW A, NEW s \in Seq(A), NEW a \in A
    PROVE  /\ Append(s, a) \in Seq(A)
           /\ ToSet(Append(s, a)) = ToSet(s) \union {a}
           /\ Distinct(s) /\ a \notin ToSet(s) => Distinct(Append(s, a))
<1>1. /\ Append(s, a) \in Seq(A)
      /\ DOMAIN s = 1..Len(s) /\ Len(s) \in Nat
      /\ DOMAIN Append(s, a) = 1..(Len(s) + 1)
      /\ \A i \in 1..Len(s) : Append(s, a)[i] = s[i]
      /\ Append(s, a)[Len(s) + 1] = a
  OBVIOUS
<1>2. ToSet(Append(s, a)) = ToSet(s) \union {a}
  BY <1>1 DEF ToSet
<1>3. ASSUME Distinct(s), a \notin ToSet(s)
      PROVE  Distinct(Append(s, a))
  BY <1>1, <1>3 DEF Distinct, ToSet
<1> QED
  BY <1>1, <1>2, <1>3

\* What is kept of a sequence: the elements in the set, each once if it was
\* there once.
LEMMA OnlyKeeps ==
    ASSUME NEW A, NEW s \in Seq(A), NEW S
    PROVE  /\ Only(s, S) \in Seq(A)
           /\ ToSet(Only(s, S)) = ToSet(s) \intersect S
           /\ Distinct(s) => Distinct(Only(s, S))
<1> DEFINE n == Len(s)
<1> DEFINE kept == CHOOSE f : f = [i \in 0..n |->
               IF i = 0 THEN << >>
               ELSE IF s[i] \in S THEN Append(f[i - 1], s[i]) ELSE f[i - 1]]
<1>1. n \in Nat /\ DOMAIN s = 1..n /\ \A i \in 1..n : s[i] \in A
  OBVIOUS
<1>2. Only(s, S) = kept[n]
  BY DEF Only
<1> HIDE DEF n
<1>3. kept = [i \in 0..n |->
               IF i = 0 THEN << >>
               ELSE IF s[i] \in S THEN Append(kept[i - 1], s[i]) ELSE kept[i - 1]]
  <2> DEFINE step == [i \in 1..n |-> [q \in Seq(A) |->
                          IF s[i] \in S THEN Append(q, s[i]) ELSE q]]
  <2>1. step \in [1..n -> [Seq(A) -> Seq(A)]]
    BY <1>1
  <2> DEFINE D == Seq(A)
  <2> DEFINE first == << >>
  <2>2. n \in Nat /\ first \in D /\ step \in [1..n -> [D -> D]]
    BY <1>1, <2>1
  <2> HIDE DEF step, D, first
  <2>3. PICK g \in [0..n -> D] : Iterates(g, n, first, step)
    BY <2>2, RecursionExists
  <2> USE DEF D, first, Iterates
  <2>4. \A i \in 1..n : step[i][g[i - 1]] =
            IF s[i] \in S THEN Append(g[i - 1], s[i]) ELSE g[i - 1]
    <3>1. \A i \in 1..n : i - 1 \in 0..n
      BY <1>1
    <3> QED
      BY <2>3, <3>1 DEF step
  <2>5. g = [i \in 0..n |->
               IF i = 0 THEN << >>
               ELSE IF s[i] \in S THEN Append(g[i - 1], s[i]) ELSE g[i - 1]]
    <3>1. \A i \in 0..n : i = 0 \/ i \in 1..n
      BY <1>1
    <3> QED
      BY <2>3, <2>4, <3>1
  <2> QED
    BY <2>5
<1> HIDE DEF kept
<1> DEFINE T == {i \in 0..n :
        /\ kept[i] \in Seq(A)
        /\ ToSet(kept[i]) = {s[m] : m \in 1..i} \intersect S
        /\ Distinct(s) => Distinct(kept[i])}
<1>4. 0 \in T
  <2>1. kept[0] = << >> /\ 0 \in 0..n
    BY <1>1, <1>3
  <2>2. {s[m] : m \in 1..0} = {} /\ ToSet(<< >>) = {} /\ Distinct(<< >>)
            /\ << >> \in Seq(A)
    BY DEF ToSet, Distinct
  <2> QED
    BY <2>1, <2>2
<1>5. ASSUME NEW i \in 0..n, i \in T, i < n
      PROVE  i + 1 \in T
  <2> DEFINE k == i + 1
  <2>1. k \in 1..n /\ k \in 0..n /\ k # 0 /\ k - 1 = i /\ s[k] \in A
    BY <1>1, <1>5
  <2>2. kept[k] = IF s[k] \in S THEN Append(kept[i], s[k]) ELSE kept[i]
    BY <1>3, <2>1
  <2>3. {s[m] : m \in 1..k} = {s[m] : m \in 1..i} \union {s[k]}
    BY <1>1, <2>1
  <2>4. /\ kept[i] \in Seq(A)
        /\ ToSet(kept[i]) = {s[m] : m \in 1..i} \intersect S
        /\ Distinct(s) => Distinct(kept[i])
    BY <1>5
  <2>5. CASE s[k] \notin S
    BY <2>1, <2>2, <2>3, <2>4, <2>5
  <2>6. CASE s[k] \in S
    <3>1. kept[k] = Append(kept[i], s[k]) /\ kept[k] \in Seq(A)
      BY <2>1, <2>2, <2>4, <2>6
    <3>2. ToSet(kept[k]) = ToSet(kept[i]) \union {s[k]}
      BY <2>1, <2>4, <3>1, AppendAdds
    <3>3. ASSUME Distinct(s)
          PROVE  Distinct(kept[k])
      <4>1. s[k] \notin {s[m] : m \in 1..i}
        BY <1>1, <2>1, <3>3 DEF Distinct
      <4> QED
        BY <2>1, <2>4, <3>1, <3>3, <4>1, AppendAdds
    <3> QED
      BY <2>1, <2>3, <2>4, <2>6, <3>1, <3>2, <3>3
  <2> QED
    BY <2>5, <2>6
<1> HIDE DEF T
<1>6. n \in T
  <2>1. 0..n \subseteq T
    BY <1>1, <1>4, <1>5, IntervalInduction
  <2> QED
    BY <1>1, <2>1
<1>7. {s[m] : m \in 1..n} = ToSet(s)
  BY <1>1 DEF ToSet
<1> QED
  BY <1>2, <1>6, <1>7 DEF T

\* The first elements of a sequence that has each element once.
LEMMA FirstCount ==
    ASSUME NEW A, NEW s \in Seq(A), Distinct(s), NEW n \in 0..Len(s)
    PROVE  LET first == ToSet(SubSeq(s, 1, n)) IN
           /\ first \subseteq ToSet(s)
           /\ IsFiniteSet(first) /\ Cardinality(first) = n
<1> DEFINE f == SubSeq(s, 1, n)
<1> DEFINE first == ToSet(f)
<1>1. f \in Seq(A) /\ Len(f) = n /\ DOMAIN f = 1..n /\ \A i \in 1..n : f[i] = s[i]
  OBVIOUS
<1>2. n \in Nat /\ 1..n \subseteq DOMAIN s
  OBVIOUS
<1> HIDE DEF f
<1>3. first \subseteq ToSet(s)
  BY <1>1, <1>2 DEF ToSet
<1>4. f \in [1..n -> first]
  <2>1. \A i \in 1..n : f[i] \in first
    BY <1>1 DEF ToSet
  <2>2. f = [i \in 1..n |-> f[i]]
    BY <1>1
  <2> QED
    BY <2>1, <2>2
<1>5. f \in Bijection(1..n, first)
  BY <1>1, <1>2, <1>4 DEF Bijection, Injection, Surjection, IsInjective, Distinct, ToSet
<1>6. ExistsBijection(1..n, first)
  BY <1>5 DEF ExistsBijection
<1> HIDE DEF first
<1>7. IsFiniteSet(1..n) /\ Cardinality(1..n) = n
  BY <1>2, FS_Interval
<1>8. IsFiniteSet(first) /\ Cardinality(first) = n
  BY <1>6, <1>7, FS_Bijection
<1> QED
  BY <1>3, <1>8 DEF f, first
-----------------------------------------------------------------------------
(* The inductive invariant.                                                *)

Doing == {"queued", "running"}

\* A job that is not submitted has nothing.
Unsubmitted(j) ==
    state[j] = "none" =>
        /\ task[j] = "none" /\ j \notin ToSet(listed) /\ j \notin nonce
        /\ \A m \in Messages : <<j, m>> \notin pending
        /\ replies[j] = 0 /\ j \notin approved

\* A job that waits for approval, or for the message before its launch, has
\* neither a task nor a reply.
Unlaunched(j) ==
    /\ j \in nonce => /\ Kind[j] = "code" /\ task[j] = "none" /\ replies[j] = 0
                      /\ <<j, "approved">> \notin pending
    /\ <<j, "approved">> \in pending =>
           /\ Kind[j] = "code" /\ task[j] = "none" /\ replies[j] = 0
           /\ j \in approved /\ state[j] \in {"queued", "cancelled"}
    /\ <<j, "announce">> \in pending =>
           /\ Kind[j] \in {"parse", "schedule"} /\ task[j] = "none"
           /\ replies[j] = 0 /\ state[j] \in {"queued", "cancelled"}
    /\ <<j, "progress">> \in pending =>
           Kind[j] = "direct" /\ replies[j] = 0 /\ task[j] # "none"
    /\ Kind[j] = "code" /\ task[j] # "none" => j \in approved
    /\ state[j] = "waiting_approval" => task[j] = "none"
    /\ j \in revived => task[j] # "none"

\* What the state tells about the task.
StateOfTask(j) ==
    /\ task[j] \in {"created", "waiting"} => state[j] \in {"queued", "cancelled"}
    /\ task[j] = "running" => state[j] \in {"running", "cancelled"}
    /\ state[j] = "running" => task[j] = "running"
    /\ state[j] = "done" => task[j] = "done"
    /\ task[j] \in LiveTask /\ state[j] = "cancelled" => j \in cancelling

\* A job that is active is listed, unless it was revived.
Findable(j) ==
    j \notin revived /\ (state[j] \in Doing \/ task[j] \in LiveTask)
        => j \in ToSet(listed)

Fine(j) == Unsubmitted(j) /\ Unlaunched(j) /\ StateOfTask(j) /\ Findable(j)
Phases == \A j \in Jobs : Fine(j)

\* The slots of a semaphore are free, granted, or held by tasks in the body.
Waiting(k) == {j \in Jobs : task[j] = "waiting" /\ home[j] = k}
Holding(k) == {j \in Jobs : task[j] = "running" /\ home[j] = k}
Slots(k) ==
    LET s == semaphores[k] IN
    /\ Distinct(s.waiting) /\ ToSet(s.waiting) = Waiting(k)
    /\ s.granted \subseteq Waiting(k)
    /\ s.free + Cardinality(s.granted) + Cardinality(Holding(k)) = s.limit
SlotsAddUp == \A k \in DOMAIN semaphores : Slots(k)

\* A task under a semaphore that was replaced was cancelled or revived.
HomeIsCurrent ==
    \A j \in Jobs :
        task[j] \in {"waiting", "running"} =>
            /\ home[j] \in DOMAIN semaphores
            /\ j \notin revived /\ state[j] \in Doing => home[j] = Len(semaphores)

IInv == TypeOK /\ Phases /\ SlotsAddUp /\ HomeIsCurrent
-----------------------------------------------------------------------------

(* The semaphore.                                                          *)

\* A semaphore is in order if its waiters are distinct, and the granted ones
\* among them.
Ordered(s) == Distinct(s.waiting) /\ s.granted \subseteq ToSet(s.waiting)
Spare(s) == s.free + Cardinality(s.granted)

\* Waking up grants free slots and loses none.
LEMMA WakeKeeps ==
    ASSUME NEW s \in Semaphore, Ordered(s)
    PROVE  /\ Wake(s) \in Semaphore /\ Ordered(Wake(s))
           /\ Wake(s).waiting = s.waiting /\ Wake(s).limit = s.limit
           /\ Spare(Wake(s)) = Spare(s)
<1>1. /\ s.waiting \in Seq(Jobs) /\ s.free \in Nat /\ s.granted \subseteq Jobs
      /\ s.limit \in Limits
      /\ Distinct(s.waiting) /\ s.granted \subseteq ToSet(s.waiting)
  BY DEF Semaphore, Ordered
<1> DEFINE waiters == Only(s.waiting, Jobs \ (s.granted \union cancelling))
<1> DEFINE n == IF s.free < Len(waiters) THEN s.free ELSE Len(waiters)
<1> DEFINE more == ToSet(SubSeq(waiters, 1, n))
<1>2. CASE s.free = 0 \/ s.waiting = << >>
  BY <1>2 DEF Wake
<1>3. CASE ~(s.free = 0 \/ s.waiting = << >>)
  <2>1. Wake(s) = [s EXCEPT !.free = @ - n, !.granted = @ \union more]
    BY <1>3 DEF Wake
  <2>2. /\ waiters \in Seq(Jobs) /\ Distinct(waiters)
        /\ ToSet(waiters) = ToSet(s.waiting) \intersect (Jobs \ (s.granted \union cancelling))
    BY <1>1, OnlyKeeps
  <2> HIDE DEF waiters
  <2>3. n \in 0..Len(waiters) /\ n \in Nat /\ n =< s.free
    BY <1>1, <2>2
  <2> HIDE DEF n
  <2>4. more \subseteq ToSet(waiters) /\ IsFiniteSet(more) /\ Cardinality(more) = n
    BY <2>2, <2>3, FirstCount
  <2> HIDE DEF more
  <2>5. more \subseteq ToSet(s.waiting) /\ more \subseteq Jobs /\ more \intersect s.granted = {}
    BY <2>2, <2>4
  <2>6. IsFiniteSet(s.granted) /\ Cardinality(s.granted) \in Nat
    BY <1>1, JobsFinite, FS_Subset, FS_CardinalityType
  <2>7. Cardinality(s.granted \union more) = Cardinality(s.granted) + n
    <3>1. Cardinality(s.granted \union more) =
             Cardinality(s.granted) + Cardinality(more)
                - Cardinality(s.granted \intersect more)
      BY <2>4, <2>6, FS_Union
    <3>2. Cardinality(s.granted \intersect more) = 0
      BY <2>5, FS_EmptySet
    <3> QED
      BY <2>3, <2>4, <2>6, <3>1, <3>2
  <2>8. s.free - n \in Nat
    BY <1>1, <2>3
  <2>9. /\ Wake(s) \in Semaphore /\ Wake(s).waiting = s.waiting
        /\ Wake(s).limit = s.limit
        /\ Wake(s).free = s.free - n /\ Wake(s).granted = s.granted \union more
    BY <1>1, <2>1, <2>5, <2>8 DEF Semaphore
  <2> QED
    BY <1>1, <2>3, <2>5, <2>6, <2>7, <2>9 DEF Ordered, Spare
<1> QED
  BY <1>2, <1>3

\* A slot that is released is free or granted.
LEMMA ReleaseAdds ==
    ASSUME NEW s \in Semaphore, Ordered(s)
    PROVE  /\ Release(s) \in Semaphore /\ Ordered(Release(s))
           /\ Release(s).waiting = s.waiting /\ Release(s).limit = s.limit
           /\ Spare(Release(s)) = Spare(s) + 1
<1> DEFINE t == [s EXCEPT !.free = @ + 1]
<1>1. /\ t \in Semaphore /\ t.waiting = s.waiting /\ t.limit = s.limit
      /\ t.granted = s.granted /\ t.free = s.free + 1 /\ s.free \in Nat
      /\ s.granted \subseteq Jobs
  BY DEF Semaphore
<1>2. Release(s) = Wake(t)
  BY DEF Release
<1> HIDE DEF t
<1>3. Ordered(t)
  BY <1>1 DEF Ordered
<1>4. Cardinality(s.granted) \in Nat
  BY <1>1, JobsFinite, FS_Subset, FS_CardinalityType
<1>5. Spare(t) = Spare(s) + 1
  BY <1>1, <1>4 DEF Spare
<1> QED
  BY <1>1, <1>2, <1>3, <1>5, WakeKeeps

\* A waiter that leaves takes the slot it was granted with it.
LEMMA LeaveTakes ==
    ASSUME NEW s \in Semaphore, Ordered(s), NEW j \in Jobs
    PROVE  /\ Leave(s, j) \in Semaphore /\ Ordered(Leave(s, j))
           /\ ToSet(Leave(s, j).waiting) = ToSet(s.waiting) \ {j}
           /\ Leave(s, j).limit = s.limit
           /\ Spare(Leave(s, j)) = IF j \in s.granted THEN Spare(s) - 1 ELSE Spare(s)
<1>1. /\ s.waiting \in Seq(Jobs) /\ s.free \in Nat /\ s.granted \subseteq Jobs
      /\ s.limit \in Limits
      /\ Distinct(s.waiting) /\ s.granted \subseteq ToSet(s.waiting)
  BY DEF Semaphore, Ordered
<1> DEFINE rest == Only(s.waiting, Jobs \ {j})
<1>2. /\ rest \in Seq(Jobs) /\ Distinct(rest)
      /\ ToSet(rest) = ToSet(s.waiting) \intersect (Jobs \ {j})
  BY <1>1, OnlyKeeps
<1>3. Leave(s, j) = [s EXCEPT !.waiting = rest, !.granted = @ \ {j}]
  BY DEF Leave
<1> HIDE DEF rest
<1>4. /\ Leave(s, j) \in Semaphore /\ Leave(s, j).limit = s.limit
      /\ Leave(s, j).waiting = rest /\ Leave(s, j).free = s.free
      /\ Leave(s, j).granted = s.granted \ {j}
  BY <1>1, <1>2, <1>3 DEF Semaphore
<1>5. ToSet(s.waiting) \subseteq Jobs
  BY <1>1 DEF ToSet
<1>6. IsFiniteSet(s.granted) /\ Cardinality(s.granted) \in Nat
  BY <1>1, JobsFinite, FS_Subset, FS_CardinalityType
<1>7. Cardinality(s.granted \ {j}) =
         IF j \in s.granted THEN Cardinality(s.granted) - 1 ELSE Cardinality(s.granted)
  BY <1>6, FS_RemoveElement
<1> QED
  BY <1>1, <1>2, <1>4, <1>5, <1>6, <1>7 DEF Ordered, Spare
-----------------------------------------------------------------------------
(* Frames.                                                                 *)

\* Cleaning up forgets prunable jobs only.
LEMMA CleanUpForgets ==
    ASSUME TypeOK, CleanUp
    PROVE  /\ listed' \in Seq(Jobs) /\ ToSet(listed') \subseteq ToSet(listed)
           /\ \A j \in ToSet(listed) : ~Prunable(j) => j \in ToSet(listed')
<1>1. listed \in Seq(Jobs) /\ listed' = Pruned(listed) /\ ToSet(listed) \subseteq Jobs
  BY DEF TypeOK, CleanUp, ToSet
<1> DEFINE S == {j \in Jobs : Prunable(j)}
<1> DEFINE prunable == Only(listed, S)
<1> DEFINE n == Len(prunable) - MaxFinished
<1> DEFINE dropped == ToSet(SubSeq(prunable, 1, n))
<1>2. listed' = IF Len(prunable) > MaxFinished THEN Only(listed, Jobs \ dropped) ELSE listed
  BY <1>1 DEF Pruned
<1>3. /\ prunable \in Seq(Jobs)
      /\ ToSet(prunable) = ToSet(listed) \intersect S
  <2> HIDE DEF S
  <2> QED
    BY <1>1, OnlyKeeps
<1> HIDE DEF prunable
<1>4. CASE Len(prunable) > MaxFinished
  <2>1. n \in 0..Len(prunable)
    BY <1>3, <1>4, BoundsType
  <2>2. dropped \subseteq ToSet(prunable)
    <3>1. /\ DOMAIN SubSeq(prunable, 1, n) = 1..n
          /\ \A i \in 1..n : SubSeq(prunable, 1, n)[i] = prunable[i]
          /\ 1..n \subseteq DOMAIN prunable
      BY <1>3, <2>1
    <3> QED
      BY <3>1 DEF ToSet
  <2> HIDE DEF dropped
  <2>3. /\ listed' \in Seq(Jobs)
        /\ ToSet(listed') = ToSet(listed) \intersect (Jobs \ dropped)
    BY <1>1, <1>2, <1>4, OnlyKeeps
  <2> QED
    BY <1>1, <1>3, <2>2, <2>3
<1>5. CASE ~(Len(prunable) > MaxFinished)
  BY <1>1, <1>2, <1>5
<1> QED
  BY <1>4, <1>5

Seated(j) == task[j] \in {"waiting", "running"}

\* Steps that move no task into or out of a semaphore.
LEMMA SlotsFrame ==
    ASSUME SlotsAddUp, UNCHANGED <<semaphores, home>>,
           \A j \in Jobs : Seated(j) \/ Seated(j)' => task'[j] = task[j]
    PROVE  SlotsAddUp'
<1>1. \A k : Waiting(k)' = Waiting(k) /\ Holding(k)' = Holding(k)
  BY DEF Waiting, Holding, Seated
<1> QED
  BY <1>1 DEF SlotsAddUp, Slots

LEMMA HomeFrame ==
    ASSUME HomeIsCurrent, UNCHANGED <<semaphores, home>>, revived \subseteq revived',
           \A j \in Jobs : Seated(j) \/ Seated(j)' => task'[j] = task[j],
           \A j \in Jobs : Seated(j) /\ state'[j] \in Doing => state[j] \in Doing
    PROVE  HomeIsCurrent'
BY DEF HomeIsCurrent, Seated

-----------------------------------------------------------------------------
(* Steps.                                                                  *)

\* All but the jobs in J are as they were, and forgotten only if prunable.
Others(J) ==
    /\ revived \subseteq revived'
    /\ \A i \in Jobs \ J :
          /\ state'[i] = state[i] /\ task'[i] = task[i] /\ replies'[i] = replies[i]
          /\ i \in revived' => i \in revived
          /\ i \in nonce' <=> i \in nonce
          /\ i \in approved' <=> i \in approved
          /\ i \in cancelling' <=> i \in cancelling
          /\ \A m \in Messages : <<i, m>> \in pending' <=> <<i, m>> \in pending
          /\ i \in ToSet(listed') => i \in ToSet(listed)
          /\ i \in ToSet(listed) /\ ~Prunable(i) => i \in ToSet(listed')

LEMMA PhasesStep ==
    ASSUME Phases, NEW J, Others(J), \A j \in J : Fine(j)'
    PROVE  Phases'
<1> SUFFICES ASSUME NEW i \in Jobs \ J
             PROVE  Fine(i)'
  BY DEF Phases
<1>1. Unsubmitted(i) /\ Unlaunched(i) /\ StateOfTask(i) /\ Findable(i)
  BY DEF Phases, Fine
<1>2. Unsubmitted(i)'
  BY <1>1 DEF Others, Unsubmitted
<1>3. Unlaunched(i)'
  BY <1>1 DEF Others, Unlaunched, Messages
<1>4. StateOfTask(i)'
  BY <1>1 DEF Others, StateOfTask
<1>5. Findable(i)'
  BY <1>1, <1>3 DEF Others, Findable, Unlaunched, Prunable, Finished, LiveTask, Doing
<1> QED
  BY <1>2, <1>3, <1>4, <1>5 DEF Fine

\* A step that moves no task into or out of a semaphore.
LEMMA HandlerStep ==
    ASSUME IInv, TypeOK', NEW J, Others(J), UNCHANGED <<semaphores, home>>,
           \A j \in J :
              /\ Fine(j)'
              /\ Seated(j) \/ Seated(j)' => task'[j] = task[j]
              /\ Seated(j) /\ state'[j] \in Doing => state[j] \in Doing
    PROVE  IInv'
<1>1. Phases'
  BY PhasesStep DEF IInv
<1>2. \A j \in Jobs : Seated(j) \/ Seated(j)' => task'[j] = task[j]
  BY DEF Others, Seated
<1>3. \A j \in Jobs : Seated(j) /\ state'[j] \in Doing => state[j] \in Doing
  BY DEF Others
<1>4. SlotsAddUp'
  BY <1>2, SlotsFrame DEF IInv
<1>5. HomeIsCurrent'
  BY <1>2, <1>3, HomeFrame DEF IInv, Others
<1> QED
  BY <1>1, <1>4, <1>5 DEF IInv

\* A task is created only for a job that has none.
Started(j) ==
    /\ state' \in [Jobs -> States] /\ task' \in [Jobs -> {"none", "done"} \union LiveTask]
    /\ revived' \subseteq Jobs /\ revived \subseteq revived'
    /\ \A i \in Jobs \ {j} :
          /\ state'[i] = state[i] /\ task'[i] = task[i]
          /\ i \in revived' => i \in revived
    /\ task[j] # "none" => UNCHANGED <<state, task, revived>>
    /\ task[j] = "none" =>
           /\ state'[j] = "queued" /\ task'[j] = "created"
           /\ j \in revived' <=> j \in revived \/ state[j] = "cancelled"

LEMMA StartTaskType ==
    ASSUME TypeOK, NEW j \in Jobs, StartTask(j)
    PROVE  Started(j)
<1> USE DEF Started
<1>1. CASE task[j] # "none"
  BY <1>1 DEF StartTask, TypeOK
<1>2. CASE task[j] = "none"
  <2>1. /\ state' = [state EXCEPT ![j] = "queued"]
        /\ task' = [task EXCEPT ![j] = "created"]
        /\ revived' = IF state[j] = "cancelled" THEN revived \union {j} ELSE revived
    BY <1>2 DEF StartTask
  <2>2. /\ state \in [Jobs -> States] /\ revived \subseteq Jobs
        /\ task \in [Jobs -> {"none", "done"} \union LiveTask]
    BY DEF TypeOK
  <2>3. /\ state' \in [Jobs -> States] /\ state'[j] = "queued" /\ task'[j] = "created"
        /\ task' \in [Jobs -> {"none", "done"} \union LiveTask]
        /\ \A i \in Jobs \ {j} : state'[i] = state[i] /\ task'[i] = task[i]
    BY <2>1, <2>2 DEF States, LiveTask
  <2>4. CASE state[j] = "cancelled"
    BY <1>2, <2>1, <2>2, <2>3, <2>4
  <2>5. CASE state[j] # "cancelled"
    BY <1>2, <2>1, <2>2, <2>3, <2>5
  <2> QED
    BY <2>4, <2>5
<1> QED
  BY <1>1, <1>2

LEMMA ScheduleReplyType ==
    ASSUME TypeOK, NEW j \in Jobs, ScheduleReply(j)
    PROVE  /\ reply' \in [Jobs -> {"none", "waiting", "delivering", "ended"}]
           /\ replies' \in [Jobs -> Nat] /\ replies'[j] = replies[j] + 1
           /\ \A i \in Jobs \ {j} : replies'[i] = replies[i]
BY DEF ScheduleReply, TypeOK

LEMMA SubmitStep ==
    ASSUME IInv, NEW j \in Jobs, Submit(j)
    PROVE  IInv'
<1>1. TypeOK
  BY DEF IInv
<1>2. /\ listed' \in Seq(Jobs)
      /\ ToSet(listed') = ToSet(listed) \union {j}
  BY <1>1, AppendAdds DEF Submit, TypeOK
<1>3. /\ task[j] = "none" /\ j \notin nonce /\ replies[j] = 0 /\ j \notin revived
      /\ j \notin approved /\ \A m \in Messages : <<j, m>> \notin pending
      /\ state[j] = "none"
  BY DEF IInv, Submit, Phases, Fine, Unsubmitted, Unlaunched
<1>4. UNCHANGED <<cancelling, semaphores, home, reloads, approved, orphaned>>
  BY DEF Submit
<1>5. CASE Kind[j] = "direct"
  <2>1. Started(j)
    BY <1>1, <1>5, StartTaskType DEF Submit
  <2>2. state'[j] = "queued" /\ task'[j] = "created" /\ j \notin revived'
    BY <1>3, <2>1 DEF Started
  <2>3. nonce' = nonce
    BY <1>5 DEF Submit
  <2>4. \/ pending' = pending \union {<<j, "progress">>} /\ UNCHANGED <<reply, replies>>
        \/ ScheduleReply(j) /\ UNCHANGED pending
    BY <1>5 DEF Submit
  <2>5. /\ pending' \subseteq Jobs \X Messages /\ <<j, "announce">> \notin pending'
        /\ <<j, "approved">> \notin pending'
        /\ <<j, "progress">> \in pending' => replies'[j] = 0
        /\ \A i \in Jobs \ {j}, m \in Messages : <<i, m>> \in pending' <=> <<i, m>> \in pending
        /\ reply' \in [Jobs -> {"none", "waiting", "delivering", "ended"}]
        /\ replies' \in [Jobs -> Nat]
        /\ \A i \in Jobs \ {j} : replies'[i] = replies[i]
    <3>1. CASE pending' = pending \union {<<j, "progress">>} /\ UNCHANGED <<reply, replies>>
      BY <1>1, <1>3, <3>1 DEF TypeOK, Messages
    <3>2. CASE ScheduleReply(j) /\ UNCHANGED pending
      BY <1>1, <1>3, <3>2, ScheduleReplyType DEF TypeOK, Messages
    <3> QED
      BY <2>4, <3>1, <3>2
  <2>6. TypeOK'
    BY <1>1, <1>2, <1>4, <2>1, <2>3, <2>5 DEF TypeOK, Started
  <2>7. Others({j})
    BY <1>2, <1>4, <2>1, <2>3, <2>5 DEF Others, Started
  <2>8. Fine(j)'
    BY <1>2, <1>3, <1>4, <1>5, <2>2, <2>3, <2>5
       DEF Fine, Unsubmitted, Unlaunched, StateOfTask, Findable, LiveTask
  <2> QED
    BY <1>3, <1>4, <2>2, <2>6, <2>7, <2>8, HandlerStep DEF Seated
<1>6. CASE Kind[j] # "direct"
  <2>1. /\ UNCHANGED <<task, reply, replies, revived>>
        /\ \/ /\ Kind[j] \in {"parse", "schedule"} /\ nonce' = nonce
              /\ state' = [state EXCEPT ![j] = "queued"]
              /\ pending' = pending \union {<<j, "announce">>}
           \/ /\ Kind[j] = "code" /\ nonce' = nonce \union {j} /\ pending' = pending
              /\ state' = [state EXCEPT ![j] = "waiting_approval"]
    BY <1>6 DEF Submit
  <2>2. TypeOK'
    <3>1. nonce' \subseteq Jobs /\ pending' \subseteq Jobs \X Messages
      BY <1>1, <2>1 DEF TypeOK, Messages
    <3>2. state' \in [Jobs -> States]
      BY <1>1, <2>1 DEF TypeOK, States
    <3> QED
      BY <1>1, <1>2, <1>4, <2>1, <3>1, <3>2 DEF TypeOK
  <2>3. Others({j})
    BY <1>1, <1>2, <1>4, <2>1 DEF Others, TypeOK
  <2>4. Fine(j)'
    BY <1>1, <1>2, <1>3, <1>4, <1>6, <2>1
       DEF Fine, Unsubmitted, Unlaunched, StateOfTask, Findable, LiveTask, TypeOK, Messages
  <2> QED
    BY <1>3, <1>4, <2>1, <2>2, <2>3, <2>4, HandlerStep DEF Seated
<1> QED
  BY <1>5, <1>6

LEMMA ApproveStep ==
    ASSUME IInv, NEW j \in Jobs, Approve(j)
    PROVE  IInv'
<1>1. TypeOK
  BY DEF IInv
<1>2. Unsubmitted(j) /\ Unlaunched(j) /\ StateOfTask(j) /\ Findable(j)
  BY DEF IInv, Phases, Fine
<1>3. /\ j \in ToSet(listed) /\ j \in nonce
      /\ nonce' = nonce \ {j} /\ state' = [state EXCEPT ![j] = "queued"]
      /\ pending' = pending \union {<<j, "approved">>} /\ approved' = approved \union {j}
      /\ UNCHANGED <<listed, task, cancelling, semaphores, home, reply, reloads,
                     replies, orphaned, revived>>
  BY DEF Approve, WithoutNonce
<1>4. TypeOK'
  <2>1. state' \in [Jobs -> States]
    BY <1>1, <1>3 DEF TypeOK, States
  <2>2. nonce' \subseteq Jobs /\ pending' \subseteq Jobs \X Messages /\ approved' \subseteq Jobs
    BY <1>1, <1>3 DEF TypeOK, Messages
  <2> QED
    BY <1>1, <1>3, <2>1, <2>2 DEF TypeOK
<1>5. Others({j})
  BY <1>1, <1>3 DEF Others, TypeOK
<1>6. Fine(j)'
  BY <1>1, <1>2, <1>3
     DEF Fine, Unsubmitted, Unlaunched, StateOfTask, Findable, LiveTask, TypeOK, Messages
<1>7. ~Seated(j) /\ ~Seated(j)'
  BY <1>2, <1>3 DEF Unlaunched, Seated
<1> QED
  BY <1>3, <1>4, <1>5, <1>6, <1>7, HandlerStep

LEMMA SentStep ==
    ASSUME IInv, NEW j \in Jobs, NEW message \in Messages, Sent(j, message)
    PROVE  IInv'
<1>1. TypeOK
  BY DEF IInv
<1>2. Unsubmitted(j) /\ Unlaunched(j) /\ StateOfTask(j) /\ Findable(j)
  BY DEF IInv, Phases, Fine
<1>3. /\ <<j, message>> \in pending /\ pending' = pending \ {<<j, message>>}
      /\ UNCHANGED <<nonce, cancelling, semaphores, home, reloads, approved, orphaned>>
      /\ listed' = listed \/ CleanUp
  BY DEF Sent
<1>4. /\ listed' \in Seq(Jobs) /\ ToSet(listed') \subseteq ToSet(listed)
      /\ \A i \in ToSet(listed) : ~Prunable(i) => i \in ToSet(listed')
  BY <1>1, <1>3, CleanUpForgets DEF TypeOK
<1>5. /\ pending' \subseteq Jobs \X Messages
      /\ \A i \in Jobs \ {j}, m \in Messages : <<i, m>> \in pending' <=> <<i, m>> \in pending
      /\ \A m \in Messages : <<j, m>> \notin pending'
  BY <1>1, <1>2, <1>3 DEF TypeOK, Messages, Unlaunched
<1>6. replies[j] = 0 /\ j \notin nonce /\ state[j] # "none"
  BY <1>2, <1>3 DEF Unsubmitted, Unlaunched, Messages
<1>7. CASE message = "progress"
  <2>1. /\ ScheduleReply(j) /\ UNCHANGED <<state, listed, task, revived>>
    BY <1>7 DEF Sent
  <2>2. TypeOK'
    BY <1>1, <1>3, <1>5, <2>1, ScheduleReplyType DEF TypeOK
  <2>3. Others({j})
    BY <1>1, <1>3, <1>5, <2>1, ScheduleReplyType DEF Others
  <2>4. Fine(j)'
    BY <1>2, <1>3, <1>5, <1>6, <2>1
       DEF Fine, Unsubmitted, Unlaunched, StateOfTask, Findable, Messages
  <2> QED
    BY <1>3, <2>1, <2>2, <2>3, <2>4, HandlerStep DEF Seated
<1>8. CASE message # "progress" /\ (message = "approved" => j \in ToSet(listed))
  <2>1. StartTask(j) /\ ScheduleReply(j)
    BY <1>8 DEF Sent, Messages
  <2>2. task[j] = "none" /\ state[j] \in {"queued", "cancelled"}
    BY <1>2, <1>3, <1>8 DEF Unlaunched, Messages
  <2>3. Started(j)
    BY <1>1, <2>1, StartTaskType
  <2>4. TypeOK'
    BY <1>1, <1>3, <1>4, <1>5, <2>1, <2>3, ScheduleReplyType DEF TypeOK, Started
  <2>5. Others({j})
    BY <1>1, <1>3, <1>4, <1>5, <2>1, <2>3, ScheduleReplyType DEF Others, Started
  <2>6. Fine(j)'
    <3>1. state'[j] = "queued" /\ task'[j] = "created"
      BY <2>2, <2>3 DEF Started
    <3>2. Unsubmitted(j)' /\ StateOfTask(j)'
      BY <3>1 DEF Unsubmitted, StateOfTask
    <3>3. Unlaunched(j)'
      BY <1>2, <1>3, <1>5, <1>6, <1>8, <3>1 DEF Unlaunched, Messages
    <3>4. Findable(j)'
      <4>1. j \notin revived' => j \notin revived /\ state[j] \in Doing
        BY <2>2, <2>3 DEF Started, Doing
      <4>2. j \notin revived' => j \in ToSet(listed)
        BY <1>2, <4>1 DEF Findable
      <4>3. ~Prunable(j)
        BY <3>1 DEF Prunable
      <4> QED
        BY <1>4, <4>2, <4>3 DEF Findable
    <3> QED
      BY <3>2, <3>3, <3>4 DEF Fine
  <2>7. ~Seated(j) /\ ~Seated(j)'
    BY <2>2, <2>3 DEF Started, Seated
  <2> QED
    BY <1>3, <2>4, <2>5, <2>6, <2>7, HandlerStep
<1>9. CASE message = "approved" /\ j \notin ToSet(listed)
  <2>1. UNCHANGED <<state, task, reply, replies, revived>>
    BY <1>9 DEF Sent
  <2>2. TypeOK'
    BY <1>1, <1>3, <1>4, <1>5, <2>1 DEF TypeOK
  <2>3. Others({j})
    BY <1>3, <1>4, <1>5, <2>1 DEF Others
  <2>4. Fine(j)'
    BY <1>2, <1>3, <1>4, <1>5, <1>6, <1>9, <2>1
       DEF Fine, Unsubmitted, Unlaunched, StateOfTask, Findable, Messages
  <2> QED
    BY <1>3, <2>1, <2>2, <2>3, <2>4, HandlerStep DEF Seated
<1> QED
  BY <1>7, <1>8, <1>9

LEMMA SendFailsStep ==
    ASSUME IInv, NEW j \in Jobs, NEW message \in Messages, SendFails(j, message)
    PROVE  IInv'
<1>1. TypeOK
  BY DEF IInv
<1>2. Unsubmitted(j) /\ Unlaunched(j) /\ StateOfTask(j) /\ Findable(j)
  BY DEF IInv, Phases, Fine
<1>3. /\ pending' = pending \ {<<j, message>>} /\ orphaned' = orphaned \union {j}
      /\ UNCHANGED <<state, nonce, listed, task, cancelling, semaphores, home,
                     reply, reloads, approved, replies, revived>>
  BY DEF SendFails
<1>4. TypeOK'
  BY <1>1, <1>3 DEF TypeOK
<1>5. Others({j})
  BY <1>1, <1>3 DEF Others
<1>6. Fine(j)'
  BY <1>2, <1>3 DEF Fine, Unsubmitted, Unlaunched, StateOfTask, Findable, Messages
<1> QED
  BY <1>3, <1>4, <1>5, <1>6, HandlerStep DEF Seated

LEMMA StopStep ==
    ASSUME IInv, NEW j \in Jobs, Stop(j)
    PROVE  IInv'
<1>1. TypeOK
  BY DEF IInv
<1>2. Unsubmitted(j) /\ Unlaunched(j) /\ StateOfTask(j) /\ Findable(j)
  BY DEF IInv, Phases, Fine
<1>3. /\ j \in ToSet(listed) /\ state[j] \in Active
      /\ state' = [state EXCEPT ![j] = "cancelled"]
      /\ cancelling' = IF task[j] \in LiveTask THEN cancelling \union {j} ELSE cancelling
      /\ UNCHANGED <<nonce, listed, task, semaphores, home, pending, reply,
                     reloads, approved, replies, orphaned, revived>>
  BY DEF Stop, history
<1>4. state' \in [Jobs -> States] /\ cancelling' \subseteq Jobs
  BY <1>1, <1>3 DEF TypeOK, States
<1>5. TypeOK'
  BY <1>1, <1>3, <1>4 DEF TypeOK
<1>6. Others({j})
  BY <1>1, <1>3 DEF Others, TypeOK
<1>7. Fine(j)'
  BY <1>1, <1>2, <1>3
     DEF Fine, Unsubmitted, Unlaunched, StateOfTask, Findable, Messages, Active, TypeOK,
         LiveTask
<1> QED
  BY <1>1, <1>3, <1>5, <1>6, <1>7, HandlerStep DEF Seated, Doing, TypeOK

\* Steps after which nothing changed but what is cleaned up, or a reply.
LEMMA CleaningStep ==
    ASSUME IInv, CleanUp \/ listed' = listed,
           UNCHANGED <<state, nonce, task, cancelling, semaphores, home, pending,
                       reloads, history>>,
           reply' \in [Jobs -> {"none", "waiting", "delivering", "ended"}]
    PROVE  IInv'
<1>1. TypeOK
  BY DEF IInv
<1>2. /\ listed' \in Seq(Jobs) /\ ToSet(listed') \subseteq ToSet(listed)
      /\ \A i \in ToSet(listed) : ~Prunable(i) => i \in ToSet(listed')
  BY <1>1, CleanUpForgets DEF TypeOK
<1>3. TypeOK'
  BY <1>1, <1>2 DEF TypeOK, history
<1>4. Others({})
  BY <1>2 DEF Others, history
<1> QED
  BY <1>3, <1>4, HandlerStep

LEMMA InterruptStep ==
    ASSUME IInv, NEW j \in Jobs, Interrupt(j)
    PROVE  IInv'
<1>1. TypeOK
  BY DEF IInv
<1>2. Unsubmitted(j) /\ Unlaunched(j) /\ StateOfTask(j) /\ Findable(j)
  BY DEF IInv, Phases, Fine
<1>3. UNCHANGED <<nonce, semaphores, home, reloads, approved, replies, revived>>
  BY DEF Interrupt
<1>4. CASE /\ <<j, "announce">> \in pending
           /\ pending' = pending \ {<<j, "announce">>}
           /\ orphaned' = orphaned \union {j}
           /\ UNCHANGED <<state, task, listed, cancelling, reply>>
  <2>1. TypeOK'
    BY <1>1, <1>3, <1>4 DEF TypeOK
  <2>2. Others({j})
    BY <1>1, <1>3, <1>4 DEF Others
  <2>3. Fine(j)'
    BY <1>2, <1>3, <1>4 DEF Fine, Unsubmitted, Unlaunched, StateOfTask, Findable, Messages
  <2> QED
    BY <1>3, <1>4, <2>1, <2>2, <2>3, HandlerStep DEF Seated
<1>5. CASE /\ task[j] \in LiveTask
           /\ cancelling' = cancelling \union {j}
           /\ UNCHANGED <<state, task, listed, pending, reply, orphaned>>
  <2>1. TypeOK'
    BY <1>1, <1>3, <1>5 DEF TypeOK
  <2>2. Others({j})
    BY <1>1, <1>3, <1>5 DEF Others
  <2>3. Fine(j)'
    BY <1>2, <1>3, <1>5 DEF Fine, Unsubmitted, Unlaunched, StateOfTask, Findable, Messages
  <2> QED
    BY <1>3, <1>5, <2>1, <2>2, <2>3, HandlerStep DEF Seated
<1>6. CASE /\ reply' = [reply EXCEPT ![j] = "ended"]
           /\ UNCHANGED <<state, task, cancelling, pending, orphaned>>
           /\ CleanUp
  BY <1>1, <1>3, <1>6, CleaningStep DEF TypeOK, history
<1> QED
  BY <1>4, <1>5, <1>6 DEF Interrupt

LEMMA OtherSteps ==
    ASSUME IInv, OtherCommand \/ \E j \in Jobs : Collect(j) \/ Deliver(j)
    PROVE  IInv'
<1>1. TypeOK
  BY DEF IInv
<1>2. CASE OtherCommand
  BY <1>1, <1>2, CleaningStep DEF OtherCommand, TypeOK, history
<1>3. ASSUME NEW j \in Jobs, Collect(j) \/ Deliver(j)
      PROVE  IInv'
  <2>1. reply' \in [Jobs -> {"none", "waiting", "delivering", "ended"}]
    BY <1>1, <1>3 DEF Collect, Deliver, TypeOK
  <2> QED
    BY <1>3, <2>1, CleaningStep DEF Collect, Deliver, history
<1> QED
  BY <1>2, <1>3

LEMMA ReloadStep ==
    ASSUME IInv, NEW limit \in Limits, Reload(limit)
    PROVE  IInv'
<1>1. /\ TypeOK /\ Phases /\ SlotsAddUp /\ HomeIsCurrent
  BY DEF IInv
<1>2. /\ reloads' = reloads + 1
      /\ semaphores' = IF AnyActive THEN semaphores
                       ELSE Append(semaphores, NewSemaphore(limit))
      /\ UNCHANGED <<state, nonce, listed, task, cancelling, home, pending,
                     reply, approved, replies, orphaned, revived>>
  BY DEF Reload, history
<1>n. PICK n \in Nat : n = Len(semaphores)
  BY <1>1 DEF TypeOK
<1>3. /\ n > 0 /\ DOMAIN semaphores = 1..n /\ Len(semaphores) = n
      /\ \A k \in 1..n : semaphores[k] \in Semaphore
      /\ home \in [Jobs -> 0..n]
  BY <1>1, <1>n DEF TypeOK
<1>4. Phases'
  <2>1. Others({})
    BY <1>2 DEF Others
  <2> QED
    BY <1>1, <2>1, PhasesStep
<1>5. CASE AnyActive
  <2>1. TypeOK'
    BY <1>1, <1>2, <1>5 DEF TypeOK
  <2>2. SlotsAddUp' /\ HomeIsCurrent'
    BY <1>1, <1>2, <1>5, SlotsFrame, HomeFrame
  <2> QED
    BY <1>4, <2>1, <2>2 DEF IInv
<1>6. CASE ~AnyActive
  <2>1. NewSemaphore(limit) \in Semaphore
    BY LimitsType DEF NewSemaphore, Semaphore
  <2>2. /\ semaphores' \in Seq(Semaphore) /\ semaphores' # << >>
        /\ Len(semaphores') = n + 1 /\ DOMAIN semaphores' = 1..(n + 1)
        /\ \A k \in 1..n : semaphores'[k] = semaphores[k]
        /\ semaphores'[n + 1] = NewSemaphore(limit)
    <3>1. semaphores' = Append(semaphores, NewSemaphore(limit))
      BY <1>2, <1>6
    <3>2. semaphores \in Seq(Semaphore)
      BY <1>1 DEF TypeOK
    <3> QED
      BY <1>3, <2>1, <3>1, <3>2
  <2>3. TypeOK'
    <3>1. home' \in [Jobs -> 0..Len(semaphores')]
      BY <1>2, <1>3, <2>2
    <3> QED
      BY <1>1, <1>2, <2>2, <3>1 DEF TypeOK
  <2>4. SlotsAddUp'
    <3>1. \A k : Waiting(k)' = Waiting(k) /\ Holding(k)' = Holding(k)
      BY <1>2 DEF Waiting, Holding
    <3>2. ASSUME NEW k \in 1..n
          PROVE  Slots(k)'
      BY <1>1, <1>3, <2>2, <3>1, <3>2 DEF SlotsAddUp, Slots
    <3>3. Slots(n + 1)'
      <4>1. Waiting(n + 1) = {} /\ Holding(n + 1) = {}
        BY <1>3 DEF Waiting, Holding
      <4>2. /\ NewSemaphore(limit).waiting = << >> /\ NewSemaphore(limit).granted = {}
            /\ NewSemaphore(limit).free = limit /\ NewSemaphore(limit).limit = limit
            /\ limit \in Nat
        BY LimitsType DEF NewSemaphore
      <4>3. Distinct(<< >>) /\ ToSet(<< >>) = {} /\ Cardinality({}) = 0
        BY FS_EmptySet DEF Distinct, ToSet
      <4> QED
        <5>1. /\ semaphores'[n + 1].waiting = << >> /\ semaphores'[n + 1].granted = {}
              /\ semaphores'[n + 1].free = limit /\ semaphores'[n + 1].limit = limit
          BY <2>2, <4>2
        <5>2. Waiting(n + 1)' = {} /\ Holding(n + 1)' = {}
          BY <3>1, <4>1
        <5> QED
          <6>1. /\ Distinct(semaphores'[n + 1].waiting)
                /\ ToSet(semaphores'[n + 1].waiting) = Waiting(n + 1)'
                /\ semaphores'[n + 1].granted \subseteq Waiting(n + 1)'
            BY <4>3, <5>1, <5>2
          <6>2. Cardinality(semaphores'[n + 1].granted) = 0
            BY <4>3, <5>1
          <6>3. Cardinality(Holding(n + 1)') = 0
            BY <4>3, <5>2
          <6> QED
            BY <4>2, <5>1, <6>1, <6>2, <6>3 DEF Slots
    <3> QED
      BY <1>3, <2>2, <3>2, <3>3 DEF SlotsAddUp
  <2>5. HomeIsCurrent'
    <3>1. ASSUME NEW j \in Jobs, task[j] \in {"waiting", "running"}, j \notin revived,
                 state[j] \in Doing
          PROVE  FALSE
      <4>1. j \in ToSet(listed)
        BY <1>1, <3>1 DEF Phases, Fine, Findable
      <4> QED
        BY <1>6, <3>1, <4>1 DEF AnyActive, Doing
    <3> QED
      BY <1>1, <1>2, <1>3, <2>2, <3>1 DEF HomeIsCurrent
  <2> QED
    BY <1>4, <2>3, <2>4, <2>5 DEF IInv
<1> QED
  BY <1>5, <1>6

\* A step of the task of j under the semaphore k, which becomes t.
LEMMA SeatStep ==
    ASSUME TypeOK, SlotsAddUp, NEW j \in Jobs, NEW k \in DOMAIN semaphores,
           NEW t \in Semaphore, Ordered(t),
           semaphores' = [semaphores EXCEPT ![k] = t],
           \A i \in Jobs \ {j} : task'[i] = task[i] /\ home'[i] = home[i],
           Seated(j) => home[j] = k, Seated(j)' => home'[j] = k,
           ToSet(t.waiting) = Waiting(k)',
           Spare(t) + Cardinality(Holding(k)') = t.limit
    PROVE  /\ semaphores' \in Seq(Semaphore) /\ semaphores' # << >>
           /\ Len(semaphores') = Len(semaphores)
           /\ SlotsAddUp'
<1>1. semaphores \in Seq(Semaphore) /\ semaphores # << >>
  BY DEF TypeOK
<1>2. /\ semaphores' \in Seq(Semaphore) /\ semaphores' # << >>
      /\ Len(semaphores') = Len(semaphores) /\ DOMAIN semaphores' = DOMAIN semaphores
      /\ semaphores'[k] = t
      /\ \A l \in DOMAIN semaphores \ {k} : semaphores'[l] = semaphores[l]
  BY <1>1
<1>3. Slots(k)'
  <2>1. /\ Distinct(semaphores'[k].waiting)
        /\ ToSet(semaphores'[k].waiting) = Waiting(k)'
        /\ semaphores'[k].granted \subseteq Waiting(k)'
    BY <1>2 DEF Ordered
  <2>2. semaphores'[k].free + Cardinality(semaphores'[k].granted)
           + Cardinality(Holding(k)') = semaphores'[k].limit
    BY <1>2 DEF Spare
  <2> QED
    BY <2>1, <2>2 DEF Slots
<1>4. ASSUME NEW l \in DOMAIN semaphores \ {k}
      PROVE  Slots(l)'
  <2>1. Waiting(l)' = Waiting(l) /\ Holding(l)' = Holding(l)
    BY DEF Waiting, Holding, Seated
  <2>2. Slots(l) /\ semaphores'[l] = semaphores[l]
    BY <1>2 DEF SlotsAddUp
  <2> QED
    BY <2>1, <2>2 DEF Slots
<1> QED
  BY <1>2, <1>3, <1>4 DEF SlotsAddUp

\* What the invariant says of a semaphore.
LEMMA SlotsNow ==
    ASSUME IInv, NEW k \in DOMAIN semaphores
    PROVE  /\ semaphores[k] \in Semaphore /\ Ordered(semaphores[k])
           /\ semaphores[k].limit \in Nat /\ Spare(semaphores[k]) \in Nat
           /\ ToSet(semaphores[k].waiting) = Waiting(k)
           /\ IsFiniteSet(Holding(k)) /\ Cardinality(Holding(k)) \in Nat
           /\ Spare(semaphores[k]) + Cardinality(Holding(k)) = semaphores[k].limit
<1>1. semaphores[k] \in Semaphore
  BY DEF IInv, TypeOK
<1>2. Slots(k)
  BY DEF IInv, SlotsAddUp
<1>3. /\ semaphores[k].granted \subseteq Jobs /\ semaphores[k].free \in Nat
      /\ semaphores[k].limit \in Nat
  BY <1>1, LimitsType DEF Semaphore
<1>4. IsFiniteSet(Holding(k)) /\ Cardinality(Holding(k)) \in Nat
  <2>1. Holding(k) \subseteq Jobs
    BY DEF Holding
  <2> QED
    BY <2>1, JobsFinite, FS_Subset, FS_CardinalityType
<1>5. Cardinality(semaphores[k].granted) \in Nat
  BY <1>3, JobsFinite, FS_Subset, FS_CardinalityType
<1> QED
  BY <1>1, <1>2, <1>3, <1>4, <1>5 DEF Slots, Ordered, Spare

\* A task's step leaves the lists, the handlers and the replies alone.
TaskFrame(j) ==
    /\ UNCHANGED <<nonce, listed, cancelling, pending, reply, reloads, approved,
                   replies, revived>>
    /\ state' \in [Jobs -> States] /\ task' \in [Jobs -> {"none", "done"} \union LiveTask]
    /\ home' \in [Jobs -> 0..Len(semaphores)] /\ orphaned' \subseteq Jobs
    /\ \A i \in Jobs \ {j} :
          state'[i] = state[i] /\ task'[i] = task[i] /\ home'[i] = home[i]

LEMMA TaskFrameKeeps ==
    ASSUME IInv, NEW j \in Jobs, TaskFrame(j), Fine(j)',
           semaphores' \in Seq(Semaphore), semaphores' # << >>,
           Len(semaphores') = Len(semaphores), SlotsAddUp',
           Seated(j)' =>
              /\ home'[j] \in DOMAIN semaphores
              /\ j \notin revived /\ state'[j] \in Doing => home'[j] = Len(semaphores)
    PROVE  IInv'
<1>1. TypeOK'
  BY DEF IInv, TypeOK, TaskFrame
<1>2. Others({j})
  BY DEF TaskFrame, Others
<1>3. Phases'
  BY <1>2, PhasesStep DEF IInv
<1>4. DOMAIN semaphores' = DOMAIN semaphores
  BY DEF IInv, TypeOK
<1>5. HomeIsCurrent'
  BY <1>4 DEF IInv, HomeIsCurrent, TaskFrame, Seated
<1> QED
  BY <1>1, <1>3, <1>5 DEF IInv

LEMMA EnterStep ==
    ASSUME IInv, NEW j \in Jobs, Enter(j)
    PROVE  IInv'
<1>1. TypeOK /\ SlotsAddUp /\ HomeIsCurrent
  BY DEF IInv
<1>2. Unsubmitted(j) /\ Unlaunched(j) /\ StateOfTask(j) /\ Findable(j)
  BY DEF IInv, Phases, Fine
<1>3. task[j] = "created" /\ state[j] \in {"queued", "cancelled"} /\ TaskStep(j)
  BY <1>2 DEF Enter, StateOfTask
<1>k. PICK k \in Nat : k = Len(semaphores)
  BY <1>1 DEF TypeOK
<1>4. k \in DOMAIN semaphores /\ k \in 0..Len(semaphores)
  BY <1>1, <1>k DEF TypeOK
<1> DEFINE s == semaphores[k]
<1>5. /\ s \in Semaphore /\ Ordered(s) /\ s.limit \in Nat /\ Spare(s) \in Nat
      /\ ToSet(s.waiting) = Waiting(k)
      /\ IsFiniteSet(Holding(k)) /\ Cardinality(Holding(k)) \in Nat
      /\ Spare(s) + Cardinality(Holding(k)) = s.limit
  BY <1>4, SlotsNow
<1>6. /\ s.waiting \in Seq(Jobs) /\ s.free \in Nat /\ s.granted \subseteq Jobs
      /\ s.limit \in Limits
  BY <1>5 DEF Semaphore
<1>7. j \notin Waiting(k) /\ j \notin Holding(k)
  BY <1>3 DEF Waiting, Holding
<1>8. CASE j \in cancelling
  <2>1. /\ task' = [task EXCEPT ![j] = "done"]
        /\ orphaned' = IF state[j] = "queued" THEN orphaned \union {j} ELSE orphaned
        /\ UNCHANGED <<state, home, semaphores>>
    BY <1>8 DEF Enter
  <2>2. TaskFrame(j)
    <3>1. orphaned' \subseteq Jobs
      BY <1>1, <2>1 DEF TypeOK
    <3>2. task' \in [Jobs -> {"none", "done"} \union LiveTask]
      BY <1>1, <2>1 DEF TypeOK
    <3> QED
      BY <1>1, <1>3, <2>1, <3>1, <3>2 DEF TaskFrame, TypeOK, TaskStep
  <2>3. task'[j] = "done"
    BY <1>1, <2>1 DEF TypeOK
  <2>4. Fine(j)'
    BY <1>2, <1>3, <2>1, <2>3
       DEF Fine, Unsubmitted, Unlaunched, StateOfTask, Findable, TaskStep, Messages, LiveTask
  <2>5. \A i \in Jobs : Seated(i) \/ Seated(i)' => task'[i] = task[i]
    BY <1>3, <2>2, <2>3 DEF TaskFrame, Seated
  <2>6. SlotsAddUp'
    BY <1>1, <2>1, <2>5, SlotsFrame
  <2> QED
    BY <1>1, <2>1, <2>2, <2>3, <2>4, <2>6, TaskFrameKeeps DEF Seated, TypeOK
<1>9. CASE j \notin cancelling /\ s.free > 0 /\ ToSet(s.waiting) \subseteq cancelling
  <2> DEFINE t == [s EXCEPT !.free = @ - 1]
  <2>1. /\ home' = [home EXCEPT ![j] = k] /\ task' = [task EXCEPT ![j] = "running"]
        /\ state' = [state EXCEPT ![j] = "running"] /\ orphaned' = orphaned
        /\ semaphores' = [semaphores EXCEPT ![k] = t]
    BY <1>9, <1>k DEF Enter
  <2>2. /\ t \in Semaphore /\ t.waiting = s.waiting /\ t.granted = s.granted
        /\ t.limit = s.limit /\ t.free = s.free - 1
    BY <1>6, <1>9, <1>5 DEF Semaphore
  <2> HIDE DEF t
  <2>3. Ordered(t) /\ Spare(t) = Spare(s) - 1
    <3>1. Cardinality(s.granted) \in Nat
      BY <1>6, JobsFinite, FS_Subset, FS_CardinalityType
    <3> QED
      BY <1>5, <1>6, <2>2, <3>1 DEF Ordered, Spare
  <2>4. TaskFrame(j)
    BY <1>1, <1>3, <1>4, <2>1 DEF TaskFrame, TypeOK, TaskStep, States, LiveTask
  <2>5. state'[j] = "running" /\ task'[j] = "running" /\ home'[j] = k
    BY <1>1, <2>1 DEF TypeOK
  <2>6. Fine(j)'
    <3>1. state[j] = "queued"
      BY <1>2, <1>3, <1>9 DEF StateOfTask, LiveTask
    <3> QED
      BY <1>2, <1>3, <2>5, <3>1
         DEF Fine, Unsubmitted, Unlaunched, StateOfTask, Findable, TaskStep, Messages,
             LiveTask, Doing
  <2>7. Waiting(k)' = Waiting(k) /\ Holding(k)' = Holding(k) \union {j}
    BY <1>3, <2>4, <2>5 DEF Waiting, Holding, TaskFrame
  <2>8. Cardinality(Holding(k)') = Cardinality(Holding(k)) + 1
    BY <1>5, <1>7, <2>7, FS_AddElement
  <2>9. Spare(t) + Cardinality(Holding(k)') = t.limit
    BY <1>5, <2>2, <2>3, <2>8
  <2>10. ToSet(t.waiting) = Waiting(k)'
    BY <1>5, <2>2, <2>7
  <2>11. /\ semaphores' \in Seq(Semaphore) /\ semaphores' # << >>
         /\ Len(semaphores') = Len(semaphores) /\ SlotsAddUp'
    BY <1>1, <1>3, <1>4, <2>1, <2>2, <2>3, <2>4, <2>5, <2>9, <2>10, SeatStep
       DEF TaskFrame, Seated
  <2> QED
    BY <1>4, <1>k, <2>4, <2>5, <2>6, <2>11, TaskFrameKeeps
<1>10. CASE j \notin cancelling /\ ~(s.free > 0 /\ ToSet(s.waiting) \subseteq cancelling)
  <2> DEFINE t == [s EXCEPT !.waiting = Append(@, j)]
  <2>1. /\ home' = [home EXCEPT ![j] = k] /\ task' = [task EXCEPT ![j] = "waiting"]
        /\ state' = state /\ orphaned' = orphaned
        /\ semaphores' = [semaphores EXCEPT ![k] = t]
    BY <1>10, <1>k DEF Enter
  <2>2. /\ Append(s.waiting, j) \in Seq(Jobs)
        /\ ToSet(Append(s.waiting, j)) = ToSet(s.waiting) \union {j}
        /\ Distinct(Append(s.waiting, j))
    BY <1>5, <1>6, <1>7, AppendAdds DEF Ordered
  <2>3. /\ t \in Semaphore /\ t.waiting = Append(s.waiting, j) /\ t.granted = s.granted
        /\ t.limit = s.limit /\ t.free = s.free
    BY <1>5, <1>6, <2>2 DEF Semaphore
  <2> HIDE DEF t
  <2>4. Ordered(t) /\ Spare(t) = Spare(s)
    BY <1>5, <2>2, <2>3 DEF Ordered, Spare
  <2>5. TaskFrame(j)
    BY <1>1, <1>3, <1>4, <2>1 DEF TaskFrame, TypeOK, TaskStep, LiveTask
  <2>6. task'[j] = "waiting" /\ home'[j] = k
    BY <1>1, <2>1 DEF TypeOK
  <2>7. Fine(j)'
    BY <1>2, <1>3, <2>1, <2>6
       DEF Fine, Unsubmitted, Unlaunched, StateOfTask, Findable, TaskStep, Messages,
           LiveTask, Doing
  <2>8. Waiting(k)' = Waiting(k) \union {j} /\ Holding(k)' = Holding(k)
    BY <1>3, <2>5, <2>6 DEF Waiting, Holding, TaskFrame
  <2>9. Spare(t) + Cardinality(Holding(k)') = t.limit
    BY <1>5, <2>3, <2>4, <2>8
  <2>10. ToSet(t.waiting) = Waiting(k)'
    BY <1>5, <2>2, <2>3, <2>8
  <2>11. /\ semaphores' \in Seq(Semaphore) /\ semaphores' # << >>
         /\ Len(semaphores') = Len(semaphores) /\ SlotsAddUp'
    BY <1>1, <1>3, <1>4, <2>1, <2>3, <2>4, <2>5, <2>6, <2>9, <2>10, SeatStep
       DEF TaskFrame, Seated
  <2> QED
    BY <1>4, <1>k, <2>5, <2>6, <2>7, <2>11, TaskFrameKeeps
<1> QED
  BY <1>8, <1>9, <1>10
LEMMA AcquireStep ==
    ASSUME IInv, NEW j \in Jobs, Acquire(j)
    PROVE  IInv'
<1>1. TypeOK /\ SlotsAddUp /\ HomeIsCurrent
  BY DEF IInv
<1>2. Unsubmitted(j) /\ Unlaunched(j) /\ StateOfTask(j) /\ Findable(j)
  BY DEF IInv, Phases, Fine
<1>k. PICK k \in Nat : k = home[j]
  BY <1>1 DEF TypeOK
<1> DEFINE s == semaphores[k]
<1> DEFINE t == Wake(Leave(s, j))
<1>3. /\ task[j] = "waiting" /\ j \notin cancelling /\ j \in s.granted /\ TaskStep(j)
      /\ task' = [task EXCEPT ![j] = "running"] /\ state' = [state EXCEPT ![j] = "running"]
      /\ semaphores' = [semaphores EXCEPT ![k] = t]
      /\ UNCHANGED <<home, orphaned>>
  BY <1>k DEF Acquire
<1>4. k \in DOMAIN semaphores /\ (j \notin revived /\ state[j] \in Doing => k = Len(semaphores))
  BY <1>1, <1>3, <1>k DEF HomeIsCurrent
<1>5. /\ s \in Semaphore /\ Ordered(s) /\ s.limit \in Nat /\ Spare(s) \in Nat
      /\ ToSet(s.waiting) = Waiting(k)
      /\ IsFiniteSet(Holding(k)) /\ Cardinality(Holding(k)) \in Nat
      /\ Spare(s) + Cardinality(Holding(k)) = s.limit
  BY <1>4, SlotsNow
<1> HIDE DEF s
<1>6. /\ t \in Semaphore /\ Ordered(t) /\ t.limit = s.limit
      /\ ToSet(t.waiting) = ToSet(s.waiting) \ {j} /\ Spare(t) = Spare(s) - 1
  <2>1. LET l == Leave(s, j) IN
           /\ l \in Semaphore /\ Ordered(l) /\ ToSet(l.waiting) = ToSet(s.waiting) \ {j}
           /\ l.limit = s.limit /\ Spare(l) = Spare(s) - 1
    BY <1>3, <1>5, LeaveTakes DEF s
  <2> QED
    BY <2>1, WakeKeeps
<1> HIDE DEF t
<1>7. TaskFrame(j)
  BY <1>1, <1>3 DEF TaskFrame, TypeOK, TaskStep, States, LiveTask
<1>8. task'[j] = "running" /\ home'[j] = k
  BY <1>1, <1>3, <1>k DEF TypeOK
<1>9. Fine(j)'
  <2>1. state[j] = "queued" /\ state'[j] = "running"
    BY <1>1, <1>2, <1>3 DEF StateOfTask, LiveTask, TypeOK
  <2> QED
    BY <1>2, <1>3, <1>8, <2>1
       DEF Fine, Unsubmitted, Unlaunched, StateOfTask, Findable, TaskStep, Messages,
           LiveTask, Doing
<1>10. Waiting(k)' = Waiting(k) \ {j} /\ Holding(k)' = Holding(k) \union {j}
  BY <1>3, <1>7, <1>8, <1>k DEF Waiting, Holding, TaskFrame
<1>11. Cardinality(Holding(k)') = Cardinality(Holding(k)) + 1
  BY <1>3, <1>5, <1>10, <1>k, FS_AddElement, FS_RemoveElement DEF Holding
<1>12. Spare(t) + Cardinality(Holding(k)') = t.limit
  BY <1>5, <1>6, <1>11
<1>13. /\ semaphores' \in Seq(Semaphore) /\ semaphores' # << >>
       /\ Len(semaphores') = Len(semaphores) /\ SlotsAddUp'
  BY <1>1, <1>3, <1>4, <1>5, <1>6, <1>7, <1>8, <1>10, <1>12, <1>k, SeatStep
     DEF TaskFrame, Seated
<1>14. Seated(j)' =>
          /\ home'[j] \in DOMAIN semaphores
          /\ j \notin revived /\ state'[j] \in Doing => home'[j] = Len(semaphores)
  BY <1>2, <1>3, <1>4, <1>8 DEF Seated, StateOfTask, Doing, LiveTask
<1> QED
  BY <1>7, <1>9, <1>13, <1>14, TaskFrameKeeps

LEMMA CancelWaitStep ==
    ASSUME IInv, NEW j \in Jobs, CancelWait(j)
    PROVE  IInv'
<1>1. TypeOK /\ SlotsAddUp /\ HomeIsCurrent
  BY DEF IInv
<1>2. Unsubmitted(j) /\ Unlaunched(j) /\ StateOfTask(j) /\ Findable(j)
  BY DEF IInv, Phases, Fine
<1>k. PICK k \in Nat : k = home[j]
  BY <1>1 DEF TypeOK
<1> DEFINE s == semaphores[k]
<1> DEFINE t == GiveUp(s, j)
<1>3. /\ task[j] = "waiting" /\ j \in cancelling /\ TaskStep(j)
      /\ task' = [task EXCEPT ![j] = "done"] /\ state' = [state EXCEPT ![j] = "cancelled"]
      /\ semaphores' = [semaphores EXCEPT ![k] = t]
      /\ UNCHANGED <<home, orphaned>>
  BY <1>k DEF CancelWait
<1>4. k \in DOMAIN semaphores /\ (j \notin revived /\ state[j] \in Doing => k = Len(semaphores))
  BY <1>1, <1>3, <1>k DEF HomeIsCurrent
<1>5. /\ s \in Semaphore /\ Ordered(s) /\ s.limit \in Nat /\ Spare(s) \in Nat
      /\ ToSet(s.waiting) = Waiting(k)
      /\ IsFiniteSet(Holding(k)) /\ Cardinality(Holding(k)) \in Nat
      /\ Spare(s) + Cardinality(Holding(k)) = s.limit
  BY <1>4, SlotsNow
<1> HIDE DEF s
<1>6. /\ t \in Semaphore /\ Ordered(t) /\ t.limit = s.limit
      /\ ToSet(t.waiting) = ToSet(s.waiting) \ {j} /\ Spare(t) = Spare(s)
  <2>1. LET l == Leave(s, j) IN
           /\ l \in Semaphore /\ Ordered(l) /\ ToSet(l.waiting) = ToSet(s.waiting) \ {j}
           /\ l.limit = s.limit
           /\ Spare(l) = IF j \in s.granted THEN Spare(s) - 1 ELSE Spare(s)
    BY <1>5, LeaveTakes
  <2>2. CASE j \in s.granted
    BY <1>5, <2>1, <2>2, ReleaseAdds DEF GiveUp
  <2>3. CASE j \notin s.granted
    BY <2>1, <2>3 DEF GiveUp
  <2> QED
    BY <2>2, <2>3
<1> HIDE DEF t
<1>7. TaskFrame(j)
  BY <1>1, <1>3 DEF TaskFrame, TypeOK, TaskStep, States, LiveTask
<1>8. task'[j] = "done" /\ home'[j] = k
  BY <1>1, <1>3, <1>k DEF TypeOK
<1>9. Fine(j)'
  <2>1. state'[j] = "cancelled"
    BY <1>1, <1>3 DEF TypeOK
  <2> QED
    BY <1>2, <1>3, <1>8, <2>1
       DEF Fine, Unsubmitted, Unlaunched, StateOfTask, Findable, TaskStep, Messages,
           LiveTask, Doing
<1>10. Waiting(k)' = Waiting(k) \ {j} /\ Holding(k)' = Holding(k)
  BY <1>3, <1>7, <1>8, <1>k DEF Waiting, Holding, TaskFrame
<1>11. Cardinality(Holding(k)') = Cardinality(Holding(k))
  BY <1>3, <1>5, <1>10, <1>k, FS_AddElement, FS_RemoveElement DEF Holding
<1>12. Spare(t) + Cardinality(Holding(k)') = t.limit
  BY <1>5, <1>6, <1>11
<1>13. /\ semaphores' \in Seq(Semaphore) /\ semaphores' # << >>
       /\ Len(semaphores') = Len(semaphores) /\ SlotsAddUp'
  BY <1>1, <1>3, <1>4, <1>5, <1>6, <1>7, <1>8, <1>10, <1>12, <1>k, SeatStep
     DEF TaskFrame, Seated
<1>14. Seated(j)' =>
          /\ home'[j] \in DOMAIN semaphores
          /\ j \notin revived /\ state'[j] \in Doing => home'[j] = Len(semaphores)
  BY <1>2, <1>3, <1>4, <1>8 DEF Seated, StateOfTask, Doing, LiveTask
<1> QED
  BY <1>7, <1>9, <1>13, <1>14, TaskFrameKeeps

LEMMA EndRunStep ==
    ASSUME IInv, NEW j \in Jobs, EndRun(j)
    PROVE  IInv'
<1>1. TypeOK /\ SlotsAddUp /\ HomeIsCurrent
  BY DEF IInv
<1>2. Unsubmitted(j) /\ Unlaunched(j) /\ StateOfTask(j) /\ Findable(j)
  BY DEF IInv, Phases, Fine
<1>k. PICK k \in Nat : k = home[j]
  BY <1>1 DEF TypeOK
<1> DEFINE s == semaphores[k]
<1> DEFINE t == Release(s)
<1>3. /\ task[j] = "running" /\ TaskStep(j)
      /\ task' = [task EXCEPT ![j] = "done"] /\ state' = [state EXCEPT ![j] = IF j \in cancelling THEN "cancelled" ELSE "done"]
      /\ semaphores' = [semaphores EXCEPT ![k] = t]
      /\ UNCHANGED <<home, orphaned>>
  BY <1>k DEF EndRun, Exit, Outcome
<1>4. k \in DOMAIN semaphores /\ (j \notin revived /\ state[j] \in Doing => k = Len(semaphores))
  BY <1>1, <1>3, <1>k DEF HomeIsCurrent
<1>5. /\ s \in Semaphore /\ Ordered(s) /\ s.limit \in Nat /\ Spare(s) \in Nat
      /\ ToSet(s.waiting) = Waiting(k)
      /\ IsFiniteSet(Holding(k)) /\ Cardinality(Holding(k)) \in Nat
      /\ Spare(s) + Cardinality(Holding(k)) = s.limit
  BY <1>4, SlotsNow
<1> HIDE DEF s
<1>6. /\ t \in Semaphore /\ Ordered(t) /\ t.limit = s.limit
      /\ ToSet(t.waiting) = ToSet(s.waiting) /\ Spare(t) = Spare(s) + 1
  BY <1>5, ReleaseAdds
<1> HIDE DEF t
<1>7. TaskFrame(j)
  BY <1>1, <1>3 DEF TaskFrame, TypeOK, TaskStep, States, LiveTask
<1>8. task'[j] = "done" /\ home'[j] = k
  BY <1>1, <1>3, <1>k DEF TypeOK
<1>9. Fine(j)'
  <2>1. state'[j] \in {"done", "cancelled"}
    BY <1>1, <1>3 DEF TypeOK
  <2> QED
    BY <1>2, <1>3, <1>8, <2>1
       DEF Fine, Unsubmitted, Unlaunched, StateOfTask, Findable, TaskStep, Messages,
           LiveTask, Doing
<1>10. Waiting(k)' = Waiting(k) /\ Holding(k)' = Holding(k) \ {j}
  BY <1>3, <1>7, <1>8, <1>k DEF Waiting, Holding, TaskFrame
<1>11. Cardinality(Holding(k)') = Cardinality(Holding(k)) - 1
  BY <1>3, <1>5, <1>10, <1>k, FS_AddElement, FS_RemoveElement DEF Holding
<1>12. Spare(t) + Cardinality(Holding(k)') = t.limit
  BY <1>5, <1>6, <1>11
<1>13. /\ semaphores' \in Seq(Semaphore) /\ semaphores' # << >>
       /\ Len(semaphores') = Len(semaphores) /\ SlotsAddUp'
  BY <1>1, <1>3, <1>4, <1>5, <1>6, <1>7, <1>8, <1>10, <1>12, <1>k, SeatStep
     DEF TaskFrame, Seated
<1>14. Seated(j)' =>
          /\ home'[j] \in DOMAIN semaphores
          /\ j \notin revived /\ state'[j] \in Doing => home'[j] = Len(semaphores)
  BY <1>2, <1>3, <1>4, <1>8 DEF Seated, StateOfTask, Doing, LiveTask
<1> QED
  BY <1>7, <1>9, <1>13, <1>14, TaskFrameKeeps
-----------------------------------------------------------------------------
(* The invariant.                                                          *)

LEMMA InitInv == Init => IInv
<1> SUFFICES ASSUME Init
             PROVE  IInv
  OBVIOUS
<1>1. /\ NewSemaphore(FirstLimit) \in Semaphore
      /\ semaphores = <<NewSemaphore(FirstLimit)>> /\ Len(semaphores) = 1
      /\ DOMAIN semaphores = {1} /\ semaphores[1] = NewSemaphore(FirstLimit)
  BY LimitsType DEF Init, NewSemaphore, Semaphore
<1>2. TypeOK
  <2>1. semaphores \in Seq(Semaphore) /\ semaphores # << >>
    BY <1>1
  <2>2. home \in [Jobs -> 0..Len(semaphores)]
    BY <1>1 DEF Init
  <2> QED
    BY <2>1, <2>2 DEF Init, TypeOK, States, LiveTask
<1>3. Phases
  <2>1. ToSet(listed) = {}
    BY DEF Init, ToSet
  <2> QED
    BY <2>1 DEF Init, Phases, Fine, Unsubmitted, Unlaunched, StateOfTask, Findable, LiveTask,
       Doing
<1>4. SlotsAddUp
  <2>1. Waiting(1) = {} /\ Holding(1) = {}
    BY DEF Init, Waiting, Holding
  <2>2. /\ semaphores[1].waiting = << >> /\ semaphores[1].granted = {}
        /\ semaphores[1].free = FirstLimit /\ semaphores[1].limit = FirstLimit
        /\ FirstLimit \in Nat
    BY <1>1, LimitsType DEF NewSemaphore
  <2>3. Distinct(<< >>) /\ ToSet(<< >>) = {} /\ Cardinality({}) = 0
    BY FS_EmptySet DEF Distinct, ToSet
  <2>4. Slots(1)
    <3>1. /\ Distinct(semaphores[1].waiting) /\ ToSet(semaphores[1].waiting) = Waiting(1)
          /\ semaphores[1].granted \subseteq Waiting(1)
      BY <2>1, <2>2, <2>3
    <3>2. Cardinality(semaphores[1].granted) = 0
      BY <2>2, <2>3
    <3>3. Cardinality(Holding(1)) = 0
      BY <2>1, <2>3
    <3> QED
      BY <2>2, <3>1, <3>2, <3>3 DEF Slots
  <2> QED
    BY <1>1, <2>4 DEF SlotsAddUp
<1>5. HomeIsCurrent
  BY DEF Init, HomeIsCurrent
<1> QED
  BY <1>2, <1>3, <1>4, <1>5 DEF IInv

LEMMA NextInv == IInv /\ [Next]_vars => IInv'
<1> SUFFICES ASSUME IInv, [Next]_vars
             PROVE  IInv'
  OBVIOUS
<1>1. ASSUME NEW j \in Jobs, Submit(j) \/ Approve(j) \/ Stop(j) \/ Interrupt(j)
      PROVE  IInv'
  BY <1>1, SubmitStep, ApproveStep, StopStep, InterruptStep
<1>2. ASSUME NEW j \in Jobs, NEW message \in Messages,
             Sent(j, message) \/ SendFails(j, message)
      PROVE  IInv'
  BY <1>2, SentStep, SendFailsStep
<1>3. CASE OtherCommand
  BY <1>3, OtherSteps
<1>4. ASSUME NEW limit \in Limits, Reload(limit)
      PROVE  IInv'
  BY <1>4, ReloadStep
<1>5. ASSUME NEW j \in Jobs, Enter(j) \/ Acquire(j) \/ CancelWait(j) \/ EndRun(j)
      PROVE  IInv'
  BY <1>5, EnterStep, AcquireStep, CancelWaitStep, EndRunStep
<1>6. ASSUME NEW j \in Jobs, Collect(j) \/ Deliver(j)
      PROVE  IInv'
  BY <1>6, OtherSteps
<1>7. CASE UNCHANGED vars
  <2>1. TypeOK'
    BY <1>7 DEF IInv, TypeOK, vars, history
  <2>2. Others({})
    BY <1>7 DEF Others, vars, history
  <2> QED
    BY <1>7, <2>1, <2>2, HandlerStep DEF vars
<1> QED
  BY <1>1, <1>2, <1>3, <1>4, <1>5, <1>6, <1>7 DEF Next, Handlers

LEMMA Invariant == Spec => []IInv
<1>1. Init => IInv
  BY InitInv
<1>2. IInv /\ [Next]_vars => IInv'
  BY NextInv
<1> QED
  BY <1>1, <1>2, PTL DEF Spec
-----------------------------------------------------------------------------
\* The fields of jobs and of the policy have the types they are declared with.
THEOREM TypeCorrect == Spec => []TypeOK
<1>1. IInv => TypeOK
  BY DEF IInv
<1> QED
  BY <1>1, Invariant, PTL

\* The limit on concurrent jobs holds across reloads that change it, whatever
\* is stopped, interrupted or cancelled on the way.
THEOREM LimitHolds == Spec => []RunningWithinLimit
<1>1. ASSUME IInv
      PROVE  RunningWithinLimit
  <2>1. TypeOK /\ Phases /\ HomeIsCurrent
    BY <1>1 DEF IInv
  <2> DEFINE k == Len(semaphores)
  <2>2. k \in DOMAIN semaphores /\ Last(semaphores) = semaphores[k]
    BY <2>1 DEF TypeOK, Last
  <2>3. {j \in Jobs \ revived : state[j] = "running"} \subseteq Holding(k)
    BY <2>1 DEF Phases, Fine, StateOfTask, HomeIsCurrent, Holding, Doing
  <2> HIDE DEF k
  <2>4. /\ semaphores[k].limit \in Nat /\ Spare(semaphores[k]) \in Nat
        /\ IsFiniteSet(Holding(k)) /\ Cardinality(Holding(k)) \in Nat
        /\ Spare(semaphores[k]) + Cardinality(Holding(k)) = semaphores[k].limit
    BY <1>1, <2>2, SlotsNow
  <2>5. LET running == {j \in Jobs \ revived : state[j] = "running"} IN
           Cardinality(running) =< Cardinality(Holding(k)) /\ Cardinality(running) \in Nat
    BY <2>3, <2>4, FS_Subset, FS_CardinalityType
  <2> QED
    BY <2>2, <2>4, <2>5 DEF RunningWithinLimit
<1> QED
  BY <1>1, Invariant, PTL

\* /status and /stop find every job whose task lives.
THEOREM JobsAreFound == Spec => []ListedWhileLive
<1>1. IInv => ListedWhileLive
  BY DEF IInv, Phases, Fine, Findable, ListedWhileLive
<1> QED
  BY <1>1, Invariant, PTL

\* One reply task per job, and no code runs without the owner's approval.
THEOREM JobsStartOnce == Spec => []StartedOnce
<1>1. Init => StartedOnce
  BY DEF Init, StartedOnce
<1>2. IInv /\ StartedOnce /\ [Next]_vars => StartedOnce'
  <2> SUFFICES ASSUME IInv, StartedOnce, [Next]_vars
               PROVE  StartedOnce'
    OBVIOUS
  <2>1. TypeOK /\ Phases
    BY DEF IInv
  <2>2. IInv'
    BY NextInv
  <2>3. ASSUME NEW j \in Jobs
        PROVE  Kind[j] = "code" /\ task'[j] # "none" => j \in approved'
    BY <2>2 DEF IInv, Phases, Fine, Unlaunched
  <2>4. ASSUME NEW j \in Jobs, ScheduleReply(j), replies[j] = 0
        PROVE  \A i \in Jobs : replies'[i] =< 1
    BY <2>1, <2>4 DEF ScheduleReply, StartedOnce, TypeOK
  <2>5. \A i \in Jobs : replies'[i] =< 1
    <3>1. ASSUME NEW j \in Jobs, Submit(j)
          PROVE  \A i \in Jobs : replies'[i] =< 1
      <4>1. replies[j] = 0
        BY <2>1, <3>1 DEF Phases, Fine, Unsubmitted, Submit
      <4>2. replies' = replies \/ ScheduleReply(j)
        BY <3>1 DEF Submit
      <4> QED
        BY <2>4, <4>1, <4>2 DEF StartedOnce
    <3>2. ASSUME NEW j \in Jobs, NEW message \in Messages, Sent(j, message)
          PROVE  \A i \in Jobs : replies'[i] =< 1
      <4>1. replies[j] = 0
        BY <2>1, <3>2 DEF Phases, Fine, Unlaunched, Sent, Messages
      <4>2. replies' = replies \/ ScheduleReply(j)
        BY <3>2 DEF Sent
      <4> QED
        BY <2>4, <4>1, <4>2 DEF StartedOnce
    <3>3. CASE UNCHANGED replies
      BY <3>3 DEF StartedOnce
    <3> QED
      BY <3>1, <3>2, <3>3 DEF Next, Handlers, Approve, Stop, Interrupt, SendFails,
         OtherCommand, Reload, Enter, Acquire, CancelWait, EndRun, Collect, Deliver,
         TaskStep, history, vars
  <2> QED
    BY <2>3, <2>5 DEF StartedOnce
<1> QED
  BY <1>1, <1>2, Invariant, PTL DEF Spec

Owned(j) ==
    j \notin orphaned /\ state[j] \in Doing =>
        \/ task[j] \in LiveTask
        \/ <<j, "announce">> \in pending
        \/ <<j, "approved">> \in pending

\* A job that counts as active has somebody who will finish it: a launch that
\* fails half-way is the only way to block the change of the limit for ever.
THEOREM ActiveJobsAreOwned == Spec => []ActiveIsOwned
<1>1. Init => ActiveIsOwned
  BY DEF Init, ActiveIsOwned
<1>2. IInv /\ ActiveIsOwned /\ [Next]_vars => ActiveIsOwned'
  <2> SUFFICES ASSUME IInv, ActiveIsOwned, [Next]_vars, NEW i \in Jobs
               PROVE  Owned(i)'
    BY DEF ActiveIsOwned, Owned, Doing
  <2>1. /\ TypeOK /\ Owned(i)
        /\ Unlaunched(i) /\ StateOfTask(i) /\ Findable(i) /\ Unsubmitted(i)
    BY DEF IInv, Phases, Fine, ActiveIsOwned, Owned, Doing
  <2>2. ASSUME NEW j \in Jobs, Submit(j)
        PROVE  Owned(i)'
    BY <2>1, <2>2 DEF Owned, Submit, StartTask, TypeOK, LiveTask, Doing
  <2>3. ASSUME NEW j \in Jobs, Approve(j)
        PROVE  Owned(i)'
    BY <2>1, <2>3 DEF Owned, Approve, TypeOK, LiveTask, Doing
  <2>4. ASSUME NEW j \in Jobs, Stop(j)
        PROVE  Owned(i)'
    BY <2>1, <2>4 DEF Owned, Stop, history, TypeOK, LiveTask, Doing
  <2>5. ASSUME NEW j \in Jobs, Interrupt(j)
        PROVE  Owned(i)'
    BY <2>1, <2>5 DEF Owned, Interrupt, TypeOK, LiveTask, Doing
  <2>6. ASSUME NEW j \in Jobs, NEW message \in Messages, Sent(j, message)
        PROVE  Owned(i)'
    BY <2>1, <2>6 DEF Owned, Sent, StartTask, Unlaunched, Findable, TypeOK, LiveTask, Doing,
       Messages
  <2>7. ASSUME NEW j \in Jobs, NEW message \in Messages, SendFails(j, message)
        PROVE  Owned(i)'
    BY <2>1, <2>7 DEF Owned, SendFails, TypeOK
  <2>8. ASSUME NEW j \in Jobs, Enter(j) \/ Acquire(j) \/ CancelWait(j) \/ EndRun(j)
        PROVE  Owned(i)'
    BY <2>1, <2>8 DEF Owned, Enter, Acquire, CancelWait, EndRun, Outcome, TaskStep, TypeOK,
       LiveTask, Doing, StateOfTask
  <2>9. CASE UNCHANGED <<state, task, pending, orphaned>>
    BY <2>1, <2>9 DEF Owned
  <2> QED
    BY <2>2, <2>3, <2>4, <2>5, <2>6, <2>7, <2>8, <2>9 DEF Next, Handlers, OtherCommand,
       Reload, Collect, Deliver, history, vars
<1> QED
  BY <1>1, <1>2, Invariant, PTL DEF Spec

\* A job stopped after its task was created stays cancelled, whatever the task
\* or the handlers do.
THEOREM StoppedTasksStay == Spec => StoppedTaskStays
<1> DEFINE Stays == \A j \in Jobs : state[j] = "cancelled" /\ task[j] # "none"
                       => state'[j] = "cancelled"
<1>1. IInv /\ [Next]_vars => Stays
  <2> SUFFICES ASSUME IInv, [Next]_vars, NEW i \in Jobs,
                      state[i] = "cancelled", task[i] # "none"
               PROVE  state'[i] = "cancelled"
    OBVIOUS
  <2>1. /\ TypeOK
        /\ Unlaunched(i) /\ StateOfTask(i) /\ Unsubmitted(i)
    BY DEF IInv, Phases, Fine
  <2>2. ASSUME NEW j \in Jobs, Submit(j) \/ Approve(j) \/ Stop(j)
        PROVE  state'[i] = "cancelled"
    BY <2>1, <2>2 DEF Submit, Approve, Stop, StartTask, Unlaunched, TypeOK
  <2>3. ASSUME NEW j \in Jobs, NEW message \in Messages, Sent(j, message)
        PROVE  state'[i] = "cancelled"
    BY <2>1, <2>3 DEF Sent, StartTask, TypeOK
  <2>4. ASSUME NEW j \in Jobs, Enter(j) \/ Acquire(j) \/ CancelWait(j) \/ EndRun(j)
        PROVE  state'[i] = "cancelled"
    BY <2>1, <2>4 DEF Enter, Acquire, CancelWait, EndRun, Outcome, StateOfTask, TypeOK,
       LiveTask
  <2>5. CASE UNCHANGED state
    BY <2>5
  <2> QED
    BY <2>2, <2>3, <2>4, <2>5 DEF Next, Handlers, Interrupt, SendFails, OtherCommand,
       Reload, Collect, Deliver, vars
<1>2. IInv /\ [Next]_vars => [Stays]_vars
  BY <1>1
<1>3. StoppedTaskStays <=> [][Stays]_vars
  BY DEF StoppedTaskStays
<1> HIDE DEF Stays
<1> QED
  BY <1>2, <1>3, Invariant, PTL DEF Spec
=============================================================================
