------------------------- MODULE JobSchedulerProofs -------------------------
(***************************************************************************)
(* Theorems about the job scheduler, for any set of jobs, any set of roots *)
(* and any history limit: its invariants, the order of its promotions, the *)
(* records it leaves, and that it implements RootMutex.                    *)
(***************************************************************************)
EXTENDS JobScheduler, ProofFacts

\* Dropping a position of a sequence without duplicates removes its element
\* and nothing else.
LEMMA RemoveAtElements ==
  ASSUME NEW S, NEW q \in Seq(S), NEW i \in DOMAIN q,
         \A m, n \in DOMAIN q : q[m] = q[n] => m = n
  PROVE  /\ \A x \in S : (\E k \in DOMAIN RemoveAt(q, i) : RemoveAt(q, i)[k] = x)
                        <=> x # q[i] /\ \E k \in DOMAIN q : q[k] = x
         /\ \A m, n \in DOMAIN RemoveAt(q, i) :
              RemoveAt(q, i)[m] = RemoveAt(q, i)[n] => m = n
<1> DEFINE s == RemoveAt(q, i)
<1>1. /\ DOMAIN s = 1 .. Len(q) - 1
      /\ \A k \in 1 .. Len(q) - 1 : s[k] = IF k < i THEN q[k] ELSE q[k + 1]
  BY RemoveAtProperties
<1>2. Len(q) \in Nat /\ DOMAIN q = 1 .. Len(q) /\ i \in 1 .. Len(q)
  OBVIOUS
<1> HIDE DEF s
<1>3. ASSUME NEW x \in S, NEW k \in DOMAIN s, s[k] = x
      PROVE  x # q[i] /\ \E m \in DOMAIN q : q[m] = x
  <2>1. CASE k < i
    BY <2>1, <1>1, <1>2, <1>3
  <2>2. CASE ~ (k < i)
    BY <2>2, <1>1, <1>2, <1>3
  <2> QED
    BY <2>1, <2>2
<1>4. ASSUME NEW x \in S, x # q[i], NEW m \in DOMAIN q, q[m] = x
      PROVE  \E k \in DOMAIN s : s[k] = x
  <2>1. CASE m < i
    BY <2>1, <1>1, <1>2, <1>4
  <2>2. CASE ~ (m < i)
    <3>1. m - 1 \in 1 .. Len(q) - 1 /\ ~ (m - 1 < i) /\ (m - 1) + 1 = m
      BY <2>2, <1>2, <1>4
    <3> QED
      BY <3>1, <1>1, <1>4
  <2> QED
    BY <2>1, <2>2
<1>5. ASSUME NEW m \in DOMAIN s, NEW n \in DOMAIN s, s[m] = s[n]
      PROVE  m = n
  <2> DEFINE Old(k) == IF k < i THEN k ELSE k + 1
  <2>1. /\ Old(m) \in DOMAIN q /\ Old(n) \in DOMAIN q
        /\ s[m] = q[Old(m)] /\ s[n] = q[Old(n)]
    BY <1>1, <1>2, <1>5
  <2>2. m \in Nat /\ n \in Nat /\ i \in Nat
    BY <1>1, <1>2, <1>5
  <2>3. Old(m) = Old(n)
    <3> HIDE DEF Old
    <3> QED
      BY <2>1, <1>5
  <2> QED
    BY <2>2, <2>3
<1> QED
  BY <1>3, <1>4, <1>5 DEF s

\* A new record enters a history that stays within its limit.
LEMMA RecordHistoryProperties ==
  ASSUME history \in Seq(HistoryRecord), Len(history) <= HistoryLimit,
         NEW j \in Jobs, NEW s \in Terminal, RecordHistory(j, s)
  PROVE  /\ history' \in Seq(HistoryRecord)
         /\ Len(history') <= HistoryLimit
<1>1. [job |-> j, state |-> s] \in HistoryRecord
  BY DEF HistoryRecord
<1>2. CASE Len(history) = HistoryLimit
  <2>1. history # <<>>
    BY <1>2, SchedulerAssumption DEF SchedulerAssumption
  <2>2. Tail(history) \in Seq(HistoryRecord) /\ Len(Tail(history)) = Len(history) - 1
    BY <2>1
  <2> QED
    BY <1>1, <1>2, <2>2, SchedulerAssumption DEF RecordHistory, SchedulerAssumption
<1>3. CASE Len(history) # HistoryLimit
  BY <1>1, <1>3, SchedulerAssumption DEF RecordHistory, SchedulerAssumption
<1> QED
  BY <1>2, <1>3

-----------------------------------------------------------------------------
\* The inductive invariant.  OneMutatorPerRoot is not inductive alone: submit
\* decides by the root table and finish promotes by the queue, so both must
\* agree with the job map, and a queued job must want a root that is taken.
SchedulerInv == /\ TypeOK
                /\ OneMutatorPerRoot
                /\ IndexesAgreeWithJobs
                /\ NoJobWaitsForAFreeRoot

\* The inductive invariant holds of a new scheduler.
LEMMA InitInv == Init => SchedulerInv
<1> SUFFICES ASSUME Init PROVE SchedulerInv
  OBVIOUS
<1>1. TypeOK
  BY SchedulerAssumption DEF Init, TypeOK, SchedulerAssumption, Live, Started
<1>2. OneMutatorPerRoot /\ NoJobWaitsForAFreeRoot
  BY DEF Init, OneMutatorPerRoot, NoJobWaitsForAFreeRoot, Started
<1>3. IndexesAgreeWithJobs
  BY DEF Init, IndexesAgreeWithJobs, RootTableIsExact, QueueIsExact, Started
<1> QED
  BY <1>1, <1>2, <1>3 DEF SchedulerInv

\* Submitting a job keeps the inductive invariant, whether the job starts or waits.
LEMMA SubmitInv ==
  ASSUME SchedulerInv, NEW j \in Jobs, NEW r \in Roots \cup {NoRoot}, Submit(j, r)
  PROVE  SchedulerInv'
<1> USE DEF SchedulerInv
<1>1. /\ state[j] = "Absent"
      /\ root' = [root EXCEPT ![j] = r]
      /\ UNCHANGED <<requests, history>>
      /\ NoRoot \notin Roots
  BY SchedulerAssumption DEF Submit, SchedulerAssumption
<1>2. CASE SubmitBlocked(j, r)
  <2>1. /\ r \in activeRoots
        /\ state' = [state EXCEPT ![j] = "Queued"]
        /\ queued' = Append(queued, j)
        /\ activeRoots' = activeRoots
    BY <1>2 DEF SubmitBlocked
  <2>2. TypeOK'
    BY <1>1, <2>1 DEF TypeOK, Live
  <2>3. OneMutatorPerRoot'
    BY <1>1, <2>1 DEF OneMutatorPerRoot, TypeOK, Started
  <2>4. RootTableIsExact'
    BY <1>1, <2>1 DEF IndexesAgreeWithJobs, RootTableIsExact, TypeOK, Started
  <2>5. QueueIsExact'
    <3>1. /\ Len(queued) \in Nat
          /\ DOMAIN queued = 1 .. Len(queued)
          /\ DOMAIN queued' = 1 .. Len(queued) + 1
          /\ \A k \in 1 .. Len(queued) : queued'[k] = queued[k]
          /\ queued'[Len(queued) + 1] = j
      BY <2>1 DEF TypeOK
    <3>2. \A k \in DOMAIN queued : queued[k] # j
      BY <1>1 DEF IndexesAgreeWithJobs, QueueIsExact
    <3>3. ASSUME NEW x \in Jobs
          PROVE  (state[x] = "Queued")' <=> \E k \in DOMAIN queued' : queued'[k] = x
      BY <1>1, <2>1, <3>1, <3>2 DEF IndexesAgreeWithJobs, QueueIsExact, TypeOK
    <3>4. ASSUME NEW m \in DOMAIN queued', NEW n \in DOMAIN queued', queued'[m] = queued'[n]
          PROVE  m = n
      BY <3>1, <3>2, <3>4 DEF IndexesAgreeWithJobs, QueueIsExact
    <3> QED
      BY <3>3, <3>4 DEF QueueIsExact
  <2>6. NoJobWaitsForAFreeRoot'
    BY <1>1, <2>1 DEF NoJobWaitsForAFreeRoot, TypeOK
  <2> QED
    BY <2>2, <2>3, <2>4, <2>5, <2>6 DEF IndexesAgreeWithJobs
<1>3. CASE SubmitStarts(j, r)
  <2>1. /\ r \notin activeRoots
        /\ state' = [state EXCEPT ![j] = "Starting"]
        /\ activeRoots' = activeRoots \cup ({r} \ {NoRoot})
        /\ queued' = queued
    BY <1>3 DEF SubmitStarts
  <2>2. TypeOK'
    BY <1>1, <2>1 DEF TypeOK, Live, Started
  <2>3. OneMutatorPerRoot'
    BY <1>1, <2>1 DEF OneMutatorPerRoot, IndexesAgreeWithJobs, RootTableIsExact, TypeOK, Started
  <2>4. RootTableIsExact'
    BY <1>1, <2>1 DEF IndexesAgreeWithJobs, RootTableIsExact, TypeOK, Started
  <2>5. QueueIsExact'
    BY <1>1, <2>1 DEF IndexesAgreeWithJobs, QueueIsExact, TypeOK
  <2>6. NoJobWaitsForAFreeRoot'
    BY <1>1, <2>1 DEF NoJobWaitsForAFreeRoot, TypeOK
  <2> QED
    BY <2>2, <2>3, <2>4, <2>5, <2>6 DEF IndexesAgreeWithJobs
<1> QED
  BY <1>2, <1>3 DEF Submit

\* Dropping position i of the queue takes the job there out of it, once.
LEMMA DropFromQueue ==
  ASSUME TypeOK, QueueIsExact, NEW i \in DOMAIN queued, queued' = RemoveAt(queued, i)
  PROVE  /\ \A x \in Jobs : (\E k \in DOMAIN queued' : queued'[k] = x)
                         <=> x # queued[i] /\ state[x] = "Queued"
         /\ \A m, n \in DOMAIN queued' : queued'[m] = queued'[n] => m = n
<1>1. /\ queued \in Seq(Jobs)
      /\ \A m, n \in DOMAIN queued : queued[m] = queued[n] => m = n
  BY DEF TypeOK, QueueIsExact
<1>2. /\ \A x \in Jobs : (\E k \in DOMAIN queued' : queued'[k] = x)
                         <=> x # queued[i] /\ \E k \in DOMAIN queued : queued[k] = x
      /\ \A m, n \in DOMAIN queued' : queued'[m] = queued'[n] => m = n
  <2> DEFINE q == queued
  <2>1. q \in Seq(Jobs) /\ i \in DOMAIN q
        /\ (\A m, n \in DOMAIN q : q[m] = q[n] => m = n)
    BY <1>1
  <2> HIDE DEF q
  <2>2. /\ \A x \in Jobs : (\E k \in DOMAIN RemoveAt(q, i) : RemoveAt(q, i)[k] = x)
                           <=> x # q[i] /\ \E k \in DOMAIN q : q[k] = x
        /\ \A m, n \in DOMAIN RemoveAt(q, i) :
              RemoveAt(q, i)[m] = RemoveAt(q, i)[n] => m = n
    BY <2>1, RemoveAtElements
  <2> QED
    BY <2>2 DEF q
<1> QED
  BY <1>2 DEF QueueIsExact

\* A job that is marked running was started and stays so.
LEMMA MarkRunningInv ==
  ASSUME SchedulerInv, NEW j \in Jobs, MarkRunning(j)
  PROVE  SchedulerInv'
<1> USE DEF SchedulerInv
<1>1. TypeOK'
  BY DEF MarkRunning, TypeOK, Live, Started
<1>2. OneMutatorPerRoot' /\ NoJobWaitsForAFreeRoot'
  BY DEF MarkRunning, OneMutatorPerRoot, NoJobWaitsForAFreeRoot, TypeOK, Started
<1>3. RootTableIsExact'
  BY DEF MarkRunning, IndexesAgreeWithJobs, RootTableIsExact, TypeOK, Started
<1>4. QueueIsExact'
  BY DEF MarkRunning, IndexesAgreeWithJobs, QueueIsExact, TypeOK
<1> QED
  BY <1>1, <1>2, <1>3, <1>4 DEF IndexesAgreeWithJobs

\* A started job that is cancelled keeps its root while it ends.
LEMMA CancelStartedInv ==
  ASSUME SchedulerInv, NEW j \in Jobs, CancelStarted(j)
  PROVE  SchedulerInv'
<1> USE DEF SchedulerInv
<1>1. /\ state[j] \in Started
      /\ state' = [state EXCEPT ![j] = "Cancelling"]
      /\ UNCHANGED <<root, queued, activeRoots, history>>
  BY DEF CancelStarted, Started
<1>2. requests' \in [Jobs -> 0 .. MaxRequests]
  BY SchedulerAssumption DEF CancelStarted, TypeOK, SchedulerAssumption
<1>3. TypeOK'
  BY <1>1, <1>2 DEF TypeOK, Live, Started
<1>4. OneMutatorPerRoot' /\ NoJobWaitsForAFreeRoot'
  BY <1>1 DEF OneMutatorPerRoot, NoJobWaitsForAFreeRoot, TypeOK, Started
<1>5. RootTableIsExact'
  BY <1>1 DEF IndexesAgreeWithJobs, RootTableIsExact, TypeOK, Started
<1>6. QueueIsExact'
  BY <1>1 DEF IndexesAgreeWithJobs, QueueIsExact, TypeOK, Started
<1> QED
  BY <1>3, <1>4, <1>5, <1>6 DEF IndexesAgreeWithJobs

\* A queued job that is cancelled leaves the map and the queue together.
LEMMA CancelQueuedInv ==
  ASSUME SchedulerInv, NEW j \in Jobs, CancelQueued(j)
  PROVE  SchedulerInv'
<1> USE DEF SchedulerInv
<1>1. /\ state[j] = "Queued"
      /\ state' = [state EXCEPT ![j] = "Absent"]
      /\ root' = [root EXCEPT ![j] = NoRoot]
      /\ requests' = [requests EXCEPT ![j] = 0]
      /\ activeRoots' = activeRoots
      /\ RecordHistory(j, "Cancelled")
  BY DEF CancelQueued, Forget
<1>2. PICK i \in DOMAIN queued : queued[i] = j /\ queued' = RemoveAt(queued, i)
  BY DEF CancelQueued
<1>3. TypeOK'
  <2>1. queued' \in Seq(Jobs)
    BY <1>2, RemoveAtProperties DEF TypeOK
  <2>2. history' \in Seq(HistoryRecord) /\ Len(history') <= HistoryLimit
    BY <1>1, RecordHistoryProperties DEF TypeOK, Terminal
  <2> QED
    BY <1>1, <2>1, <2>2, SchedulerAssumption DEF TypeOK, SchedulerAssumption
<1>4. OneMutatorPerRoot' /\ NoJobWaitsForAFreeRoot'
  BY <1>1 DEF OneMutatorPerRoot, NoJobWaitsForAFreeRoot, TypeOK, Started
<1>5. RootTableIsExact'
  BY <1>1 DEF IndexesAgreeWithJobs, RootTableIsExact, TypeOK, Started
<1>6. QueueIsExact'
  BY <1>1, <1>2, DropFromQueue DEF IndexesAgreeWithJobs, QueueIsExact, TypeOK
<1> QED
  BY <1>3, <1>4, <1>5, <1>6 DEF IndexesAgreeWithJobs

\* Finishing a job that was started, with and without a successor.
LEMMA FinishInv ==
  ASSUME SchedulerInv, NEW j \in Jobs, NEW s \in Terminal,
         state[j] \in Started, Finish(j, s)
  PROVE  SchedulerInv'
<1> USE DEF SchedulerInv
<1>1. /\ root' = [root EXCEPT ![j] = NoRoot]
      /\ requests' = [requests EXCEPT ![j] = 0]
      /\ RecordHistory(j, s)
  BY DEF Finish, Forget
<1>2. history' \in Seq(HistoryRecord) /\ Len(history') <= HistoryLimit
  BY <1>1, RecordHistoryProperties DEF TypeOK
<1>3. requests' \in [Jobs -> 0 .. MaxRequests] /\ NoRoot \notin Roots
  BY <1>1, SchedulerAssumption DEF TypeOK, SchedulerAssumption
<1>4. ASSUME root[j] # NoRoot, NEW i \in DOMAIN queued,
             IsNext(i, root[j], j), HandOver(j, root[j], i)
      PROVE  SchedulerInv'
  <2> DEFINE next == queued[i]
  <2>1. /\ next \in Jobs
        /\ next # j
        /\ root[next] = root[j]
        /\ state[next] = "Queued"
        /\ root[j] \in activeRoots
    BY <1>4 DEF IsNext, Waiting, TypeOK, IndexesAgreeWithJobs, QueueIsExact, RootTableIsExact
  <2>2. /\ queued' = RemoveAt(queued, i)
        /\ state' = [state EXCEPT ![j] = "Absent", ![next] = "Starting"]
        /\ activeRoots' = activeRoots
    BY <1>4, <2>1 DEF HandOver
  <2> HIDE DEF next
  <2>3. TypeOK'
    <3>1. queued' \in Seq(Jobs)
      BY <2>2, RemoveAtProperties DEF TypeOK
    <3> QED
      BY <1>1, <1>2, <1>3, <2>1, <2>2, <3>1 DEF TypeOK, Live, Started
  <2>4. OneMutatorPerRoot'
    BY <1>1, <1>4, <2>1, <2>2 DEF OneMutatorPerRoot, TypeOK, Started
  <2>5. RootTableIsExact'
    BY <1>1, <1>4, <2>1, <2>2
       DEF IndexesAgreeWithJobs, RootTableIsExact, OneMutatorPerRoot, TypeOK, Started
  <2>6. QueueIsExact'
    <3>1. /\ \A x \in Jobs : (\E k \in DOMAIN queued' : queued'[k] = x)
                            <=> x # next /\ state[x] = "Queued"
          /\ \A m, n \in DOMAIN queued' : queued'[m] = queued'[n] => m = n
      BY <2>2, DropFromQueue DEF IndexesAgreeWithJobs, next
    <3> QED
      BY <2>1, <2>2, <3>1 DEF Started, IndexesAgreeWithJobs, QueueIsExact, TypeOK
  <2>7. NoJobWaitsForAFreeRoot'
    BY <1>1, <2>1, <2>2 DEF NoJobWaitsForAFreeRoot, TypeOK
  <2> QED
    BY <2>3, <2>4, <2>5, <2>6, <2>7 DEF IndexesAgreeWithJobs
<1>5. ASSUME root[j] = NoRoot \/ Waiting(root[j], j) = {}, FreeRoot(j, root[j])
      PROVE  SchedulerInv'
  <2>1. /\ state' = [state EXCEPT ![j] = "Absent"]
        /\ activeRoots' = activeRoots \ {root[j]}
        /\ queued' = queued
    BY <1>5 DEF FreeRoot
  <2>2. TypeOK'
    BY <1>1, <1>2, <1>3, <2>1 DEF TypeOK
  <2>3. OneMutatorPerRoot'
    BY <1>1, <2>1 DEF OneMutatorPerRoot, TypeOK, Started
  <2>4. RootTableIsExact'
    BY <1>1, <1>3, <2>1
       DEF IndexesAgreeWithJobs, RootTableIsExact, OneMutatorPerRoot, TypeOK, Started
  <2>5. QueueIsExact'
    BY <1>1, <2>1 DEF IndexesAgreeWithJobs, QueueIsExact, TypeOK, Started
  <2>6. ASSUME NEW x \in Jobs, state[x] = "Queued"
        PROVE  root[x] # root[j]
    <3>1. root[x] \in Roots
      BY <2>6 DEF NoJobWaitsForAFreeRoot, TypeOK
    <3>2. PICK k \in DOMAIN queued : queued[k] = x
      BY <2>6 DEF IndexesAgreeWithJobs, QueueIsExact
    <3>3. x # j
      BY <2>6 DEF Started
    <3> QED
      BY <1>3, <1>5, <2>6, <3>1, <3>2, <3>3 DEF Waiting
  <2>7. NoJobWaitsForAFreeRoot'
    BY <1>1, <2>1, <2>6 DEF NoJobWaitsForAFreeRoot, TypeOK
  <2> QED
    BY <2>2, <2>3, <2>4, <2>5, <2>7 DEF IndexesAgreeWithJobs
<1> QED
  BY <1>4, <1>5 DEF Finish

\* Every step of the scheduler keeps the inductive invariant.
LEMMA StepInv == SchedulerInv /\ [Next]_vars => SchedulerInv'
<1> SUFFICES ASSUME SchedulerInv, [Next]_vars PROVE SchedulerInv'
  OBVIOUS
<1>1. CASE \E j \in Jobs, r \in Roots \cup {NoRoot} : Submit(j, r)
  BY <1>1, SubmitInv
<1>2. CASE \E j \in Jobs : MarkRunning(j)
  BY <1>2, MarkRunningInv
<1>3. CASE \E j \in Jobs : CancelQueued(j)
  BY <1>3, CancelQueuedInv
<1>4. CASE \E j \in Jobs : CancelStarted(j)
  BY <1>4, CancelStartedInv
<1>5. CASE \E j \in Jobs : FinishStarted(j)
  BY <1>5, FinishInv DEF FinishStarted
<1>6. CASE UNCHANGED vars
  BY <1>6 DEF vars, SchedulerInv, TypeOK, OneMutatorPerRoot, IndexesAgreeWithJobs,
              RootTableIsExact, QueueIsExact, NoJobWaitsForAFreeRoot
<1> QED
  BY <1>1, <1>2, <1>3, <1>4, <1>5, <1>6 DEF Next, Other

\* The inductive invariant holds in every behaviour.
LEMMA InvHolds == Spec => []SchedulerInv
<1> QED
  BY InitInv, StepInv, PTL DEF Spec

\* The scheduler's fields keep their types and the history its limit.
THEOREM SchedulerTypes == Spec => []TypeOK
<1>1. SchedulerInv => TypeOK
  BY DEF SchedulerInv
<1> QED
  BY <1>1, InvHolds, PTL

\* Whatever is submitted, cancelled and finished, in whatever order, no two
\* started jobs mutate the same Gradle root.
THEOREM MutualExclusion == Spec => []OneMutatorPerRoot
<1>1. SchedulerInv => OneMutatorPerRoot
  BY DEF SchedulerInv
<1> QED
  BY <1>1, InvHolds, PTL

\* The root table and the queue always describe the job map.
THEOREM IndexesAgree == Spec => []IndexesAgreeWithJobs
<1>1. SchedulerInv => IndexesAgreeWithJobs
  BY DEF SchedulerInv
<1> QED
  BY <1>1, InvHolds, PTL

\* No job is left waiting for a root that nobody mutates.
THEOREM NoMissedPromotion == Spec => []NoJobWaitsForAFreeRoot
<1>1. SchedulerInv => NoJobWaitsForAFreeRoot
  BY DEF SchedulerInv
<1> QED
  BY <1>1, InvHolds, PTL

\* The job a finish promotes was queued for that root before every other job
\* that is still queued for it.
THEOREM FifoPromotion == Spec => PromotionIsFifo
<1> DEFINE Fifo == \A i, k \in DOMAIN queued :
                     /\ state[queued[i]] = "Queued"
                     /\ state'[queued[i]] = "Starting"
                     /\ k < i
                     => root[queued[k]] # root[queued[i]]
<1>1. ASSUME SchedulerInv, [Next]_vars, ~ UNCHANGED vars
      PROVE  Fifo
  <2> SUFFICES ASSUME NEW i \in DOMAIN queued, NEW k \in DOMAIN queued,
                      state[queued[i]] = "Queued", state'[queued[i]] = "Starting", k < i,
                      root[queued[k]] = root[queued[i]]
               PROVE  FALSE
    OBVIOUS
  <2> USE DEF SchedulerInv
  <2>1. queued[i] \in Jobs /\ queued[k] \in Jobs /\ state[queued[k]] = "Queued"
    BY <1>1 DEF TypeOK, IndexesAgreeWithJobs, QueueIsExact
  <2>2. PICK j \in Jobs : FinishStarted(j)
    BY <1>1, <2>1 DEF Next, Other, Submit, SubmitBlocked, SubmitStarts, MarkRunning,
                      CancelQueued, CancelStarted, TypeOK
  <2>3. PICK m \in DOMAIN queued : IsNext(m, root[j], j) /\ HandOver(j, root[j], m)
    BY <1>1, <2>1, <2>2 DEF FinishStarted, Finish, FreeRoot, TypeOK
  <2>4. queued[m] = queued[i]
    BY <1>1, <2>1, <2>3 DEF HandOver, TypeOK
  <2>5. m = i
    BY <1>1, <2>4 DEF IndexesAgreeWithJobs, QueueIsExact
  <2>6. k \in Waiting(root[j], j)
    BY <2>1, <2>2, <2>3, <2>5 DEF IsNext, Waiting, FinishStarted, Started
  <2>7. m <= k
    BY <2>3, <2>6 DEF IsNext
  <2> QED
    BY <1>1, <2>5, <2>7 DEF TypeOK
<1>2. SchedulerInv /\ [Next]_vars => [Fifo]_vars
  BY <1>1
<1> QED
  BY <1>2, InvHolds, PTL DEF Spec, PromotionIsFifo

\* The history that record_history leaves ends with the new record; before it
\* stands a suffix of the history there was.
LEMMA RecordIsLast ==
  ASSUME history \in Seq(HistoryRecord), NEW j \in Jobs, NEW s \in Terminal, RecordHistory(j, s)
  PROVE  Last(history').job = j /\ IsSuffix(Front(history'), history)
<1> DEFINE record == [job |-> j, state |-> s]
           kept   == IF Len(history) = HistoryLimit THEN Tail(history) ELSE history
<1>1. record \in HistoryRecord /\ HistoryLimit \in Nat \ {0}
  BY SchedulerAssumption DEF HistoryRecord, SchedulerAssumption
<1>2. /\ kept \in Seq(HistoryRecord)
      /\ Len(kept) <= Len(history)
      /\ \A i \in 1 .. Len(kept) : kept[i] = history[Len(history) - Len(kept) + i]
  <2>1. CASE Len(history) = HistoryLimit
    <3>1. history # <<>> /\ kept = Tail(history)
      BY <1>1, <2>1
    <3>2. /\ Tail(history) \in Seq(HistoryRecord)
          /\ Len(Tail(history)) = Len(history) - 1
          /\ \A i \in 1 .. Len(Tail(history)) : Tail(history)[i] = history[i + 1]
      BY <3>1, HeadTailProperties
    <3> HIDE DEF kept
    <3> QED
      BY <3>1, <3>2
  <2>2. CASE Len(history) # HistoryLimit
    <3>1. kept = history
      BY <2>2
    <3> HIDE DEF kept
    <3> QED
      BY <3>1
  <2> QED
    BY <2>1, <2>2
<1>3. history' = Append(kept, record)
  BY DEF RecordHistory
<1> HIDE DEF kept, record
<1>4. Front(history') = kept
  BY <1>1, <1>2, <1>3 DEF Front
<1>5. Last(history') = record
  BY <1>1, <1>2, <1>3 DEF Last
<1>6. IsSuffix(kept, history)
  <2> DEFINE r == Reverse(kept)
             h == Reverse(history)
  <2>1. /\ r = [i \in 1 .. Len(kept) |-> kept[(Len(kept) - i) + 1]]
        /\ h = [i \in 1 .. Len(history) |-> history[(Len(history) - i) + 1]]
    BY DEF Reverse
  <2>2. /\ r \in Seq(HistoryRecord) /\ Len(r) = Len(kept)
        /\ h \in Seq(HistoryRecord) /\ Len(h) = Len(history)
    BY <1>2, <2>1
  <2>3. \A i \in 1 .. Len(kept) : r[i] = h[i]
    BY <1>2, <2>1
  <2> HIDE DEF r, h
  <2>4. SubSeq(r, 1, Len(r)) = SubSeq(h, 1, Len(r))
    BY <1>2, <2>2, <2>3
  <2> QED
    BY <1>2, <2>2, <2>4 DEF IsSuffix, IsPrefix, r, h
<1> QED
  BY <1>4, <1>5, <1>6 DEF record

\* Both ways out of the scheduler, finish and the cancellation of a queued job,
\* leave a record, whatever the limit of the history.
THEOREM ExitsAreRecorded == Spec => EveryExitIsRecorded
<1> DEFINE Recorded == \A j \in Jobs :
                         /\ state[j] # "Absent"
                         /\ state'[j] = "Absent"
                         => /\ Last(history').job = j
                            /\ IsSuffix(Front(history'), history)
<1>1. ASSUME SchedulerInv, [Next]_vars, ~ UNCHANGED vars
      PROVE  Recorded
  <2> SUFFICES ASSUME NEW j \in Jobs, state[j] # "Absent", state'[j] = "Absent"
               PROVE  Last(history').job = j /\ IsSuffix(Front(history'), history)
    OBVIOUS
  <2>1. history \in Seq(HistoryRecord)
    BY <1>1 DEF SchedulerInv, TypeOK
  <2>2. \E s \in Terminal : RecordHistory(j, s)
    <3>1. CASE CancelQueued(j)
      BY <3>1 DEF CancelQueued, Terminal
    <3>2. CASE \E k \in Jobs : FinishStarted(k)
      <4>1. PICK k \in Jobs, s \in Terminal : state[k] \in Started /\ Finish(k, s)
        BY <3>2 DEF FinishStarted
      <4>2. j = k
        BY <1>1, <4>1 DEF Finish, HandOver, FreeRoot, SchedulerInv, TypeOK
      <4> QED
        BY <4>1, <4>2 DEF Finish
    <3>3. CancelQueued(j) \/ \E k \in Jobs : FinishStarted(k)
      BY <1>1 DEF Next, Other, Submit, SubmitBlocked, SubmitStarts, MarkRunning, CancelQueued,
                  CancelStarted, SchedulerInv, TypeOK
    <3> QED
      BY <3>1, <3>2, <3>3
  <2> QED
    BY <2>1, <2>2, RecordIsLast
<1>2. SchedulerInv /\ [Next]_vars => [Recorded]_vars
  BY <1>1
<1> QED
  BY <1>2, InvHolds, PTL DEF Spec, EveryExitIsRecorded

-----------------------------------------------------------------------------
(***************************************************************************)
(* The scheduler as one lock per root.  A lane is what the shared queue    *)
(* looks like from one root.                                               *)
(***************************************************************************)
\* Only the roots of the jobs in the queue tell its lanes.
LEMMA LaneOfTheQueued ==
  ASSUME NEW q \in Seq(Jobs), NEW of, NEW now, NEW r,
         \A i \in DOMAIN q : of[q[i]] = now[q[i]]
  PROVE  Lane(q, now, r) = Lane(q, of, r)
<1> DEFINE T == {j \in Jobs : of[j] = r}
           U == {j \in Jobs : now[j] = r}
<1>1. \A i \in DOMAIN q : q[i] \in T <=> q[i] \in U
  OBVIOUS
<1> HIDE DEF T, U
<1>2. Picked(q, U) = Picked(q, T)
  BY <1>1, PickedSame
<1> QED
  BY <1>2 DEF Lane, T, U

\* A job that is queued goes to the back of the lane of its root.
LEMMA LaneGrows ==
  ASSUME NEW q \in Seq(Jobs), NEW j \in Jobs, NEW of, NEW r
  PROVE  Lane(Append(q, j), of, r) = IF of[j] = r THEN Append(Lane(q, of, r), j)
                                     ELSE Lane(q, of, r)
<1> DEFINE T == {k \in Jobs : of[k] = r}
<1>1. j \in T <=> of[j] = r
  OBVIOUS
<1> HIDE DEF T
<1>2. Picked(Append(q, j), T) = IF j \in T THEN Append(Picked(q, T), j) ELSE Picked(q, T)
  BY PickedGrows
<1> QED
  BY <1>1, <1>2 DEF Lane, T

\* Dropping place i of queue q touches the lane of its root only, at one place,
\* which is the first when no earlier job wants that root.
Shortens(q, i, of, r) ==
  /\ of[q[i]] # r => Lane(RemoveAt(q, i), of, r) = Lane(q, of, r)
  /\ of[q[i]] = r =>
       \E p \in DOMAIN Lane(q, of, r) :
         /\ Lane(q, of, r)[p] = q[i]
         /\ Lane(RemoveAt(q, i), of, r) = RemoveAt(Lane(q, of, r), p)
         /\ (\A k \in DOMAIN q : of[q[k]] = r => i <= k) => p = 1

LEMMA LaneShrinks ==
  ASSUME NEW q \in Seq(Jobs), NEW i \in DOMAIN q, NEW of, NEW r PROVE Shortens(q, i, of, r)
<1> DEFINE T == {k \in Jobs : of[k] = r}
<1>1. \A k \in DOMAIN q : q[k] \in T <=> of[q[k]] = r
  OBVIOUS
<1> HIDE DEF T
<1>2. /\ q[i] \notin T => Picked(RemoveAt(q, i), T) = Picked(q, T)
      /\ q[i] \in T =>
           \E p \in DOMAIN Picked(q, T) :
             /\ Picked(q, T)[p] = q[i]
             /\ Picked(RemoveAt(q, i), T) = RemoveAt(Picked(q, T), p)
             /\ (\A k \in DOMAIN q : q[k] \in T => i <= k) => p = 1
  BY PickedShrinks
<1> QED
  BY <1>1, <1>2 DEF Shortens, Lane, T

\* The holder of a root is the started job that mutates it.
HolderExact ==
  \A r \in Roots :
    /\ \A j \in Jobs : Holder(r) = j <=> state[j] \in Started /\ root[j] = r
    /\ Holder(r) = NoJob <=> r \notin activeRoots
    /\ Holder(r) \in Jobs \cup {NoJob}

LEMMA HolderIs == SchedulerInv => HolderExact
<1> SUFFICES ASSUME SchedulerInv, NEW r \in Roots
             PROVE  /\ \A j \in Jobs : Holder(r) = j <=> state[j] \in Started /\ root[j] = r
                    /\ Holder(r) = NoJob <=> r \notin activeRoots
                    /\ Holder(r) \in Jobs \cup {NoJob}
  BY DEF HolderExact
<1> DEFINE mutating == {j \in Jobs : state[j] \in Started /\ root[j] = r}
<1>1. \A j, k \in mutating : j = k
  BY SchedulerAssumption DEF SchedulerInv, OneMutatorPerRoot, SchedulerAssumption
<1>2. r \in activeRoots <=> mutating # {}
  BY SchedulerAssumption
     DEF SchedulerInv, IndexesAgreeWithJobs, RootTableIsExact, SchedulerAssumption
<1>3. CASE mutating = {}
  <2>1. Holder(r) = NoJob
    BY <1>3 DEF Holder
  <2> QED
    BY <1>2, <1>3, <2>1, SchedulerAssumption DEF SchedulerAssumption
<1>4. CASE mutating # {}
  <2>1. Holder(r) = CHOOSE j \in mutating : TRUE
    BY <1>4 DEF Holder
  <2>2. Holder(r) \in mutating
    BY <1>4, <2>1
  <2> QED
    BY <1>1, <1>2, <1>4, <2>2, SchedulerAssumption DEF SchedulerAssumption
<1> QED
  BY <1>3, <1>4

\* So it is after every step.
LEMMA HolderStaysExact == SchedulerInv' => HolderExact'
  BY HolderIs, PTL

\* A lane holds the queued jobs of its root.
LEMMA LaneHolds ==
  ASSUME SchedulerInv, NEW r \in Roots
  PROVE  /\ Lane(queued, root, r) \in Seq(Jobs)
         /\ \A k \in DOMAIN Lane(queued, root, r) :
              state[Lane(queued, root, r)[k]] = "Queued" /\ root[Lane(queued, root, r)[k]] = r
         /\ Lane(queued, root, r) = <<>> <=> \A i \in DOMAIN queued : root[queued[i]] # r
<1>1. queued \in Seq(Jobs) /\ \A i \in DOMAIN queued : queued[i] \in Jobs
  BY DEF SchedulerInv, TypeOK
<1> DEFINE w == Lane(queued, root, r)
           T == {j \in Jobs : root[j] = r}
<1>2. PICK at : StandsAt(at, w, queued, T)
  BY <1>1, PickedPlaces DEF Lane
<1> HIDE DEF w
<1>3. w \in Seq(T) /\ w \in Seq(Jobs) /\ (w = <<>> <=> DOMAIN w = {})
  <2>1. w \in Seq(T)
    BY <1>2 DEF StandsAt
  <2> QED
    BY <2>1, SeqGrows
<1>4. ASSUME NEW k \in DOMAIN w PROVE state[w[k]] = "Queued" /\ root[w[k]] = r
  <2>1. at[k] \in DOMAIN queued /\ w[k] = queued[at[k]] /\ root[queued[at[k]]] = r
    BY <1>2, <1>3 DEF StandsAt
  <2>2. queued[at[k]] \in Jobs
    BY <1>1, <2>1
  <2> QED
    BY <2>1, <2>2 DEF SchedulerInv, IndexesAgreeWithJobs, QueueIsExact
<1>5. w = <<>> <=> \A i \in DOMAIN queued : root[queued[i]] # r
  BY <1>1, <1>2, <1>3 DEF StandsAt
<1> QED
  BY <1>3, <1>4, <1>5 DEF w

\* A job no started or queued job is has no part in the lock.
LEMMA NotInvolved ==
  ASSUME SchedulerInv, NEW j \in Jobs, state[j] = "Absent" PROVE ~ Mutex!Involved(j)
<1> SUFFICES ASSUME NEW r \in Roots,
                    Holder(r) = j \/ Mutex!Contains(Lane(queued, root, r), j)
             PROVE  FALSE
  BY DEF Mutex!Involved
<1>1. Holder(r) # j
  BY HolderIs DEF HolderExact, Started
<1>2. ~ Mutex!Contains(Lane(queued, root, r), j)
  BY LaneHolds DEF Mutex!Contains
<1> QED
  BY <1>1, <1>2

\* A step that starts or stops no job and leaves the queue alone is invisible.
LEMMA SameHolders ==
  ASSUME SchedulerInv, SchedulerInv',
         \A j \in Jobs : (state'[j] \in Started) = (state[j] \in Started),
         \A j \in Jobs : state[j] \in Started => root'[j] = root[j]
  PROVE  \A r \in Roots : Holder(r)' = Holder(r)
<1> SUFFICES ASSUME NEW r \in Roots PROVE Holder(r)' = Holder(r)
  OBVIOUS
<1>1. /\ \A j \in Jobs : Holder(r) = j <=> state[j] \in Started /\ root[j] = r
      /\ Holder(r) \in Jobs \cup {NoJob}
  BY HolderIs DEF HolderExact
<1>2. /\ \A j \in Jobs : Holder(r)' = j <=> state'[j] \in Started /\ root'[j] = r
      /\ Holder(r)' \in Jobs \cup {NoJob}
  BY HolderStaysExact DEF HolderExact
<1> QED
  BY <1>1, <1>2

LEMMA Unseen ==
  ASSUME \A r \in Roots : Holder(r)' = Holder(r),
         \A r \in Roots : Lane(queued', root', r) = Lane(queued, root, r)
  PROVE  UNCHANGED Mutex!mutexVars
  BY DEF Mutex!mutexVars

\* Dropping a place of the queue leaves the other jobs there.
LEMMA DropKeepsOthers ==
  ASSUME SchedulerInv, NEW i \in DOMAIN queued, queued' = RemoveAt(queued, i)
  PROVE  /\ queued' \in Seq(Jobs)
         /\ \A k \in DOMAIN queued' : /\ queued'[k] \in Jobs
                                      /\ queued'[k] # queued[i]
                                      /\ state[queued'[k]] = "Queued"
<1>1. TypeOK /\ QueueIsExact /\ queued \in Seq(Jobs)
  BY DEF SchedulerInv, IndexesAgreeWithJobs, TypeOK
<1>2. RemoveAt(queued, i) \in Seq(Jobs)
  <2> DEFINE q == queued
  <2>1. q \in Seq(Jobs) /\ i \in DOMAIN q
    BY <1>1
  <2> HIDE DEF q
  <2>2. RemoveAt(q, i) \in Seq(Jobs)
    BY <2>1, RemoveAtProperties
  <2> QED
    BY <2>2 DEF q
<1>3. \A x \in Jobs : (\E k \in DOMAIN queued' : queued'[k] = x)
                         <=> x # queued[i] /\ state[x] = "Queued"
  BY <1>1, DropFromQueue
<1> QED
  BY <1>2, <1>3

\* The root of a job that is not in the queue may change.
LEMMA NextLanes ==
  ASSUME NEW j \in Jobs, NEW r, root \in [Jobs -> Roots \cup {NoRoot}],
         root' = [root EXCEPT ![j] = r],
         queued' \in Seq(Jobs), \A k \in DOMAIN queued' : queued'[k] # j /\ queued'[k] \in Jobs
  PROVE  \A x \in Roots : Lane(queued', root', x) = Lane(queued', root, x)
<1> DEFINE q == queued'
           old == root
           now == root'
<1>1. q \in Seq(Jobs) /\ \A i \in DOMAIN q : old[q[i]] = now[q[i]]
  OBVIOUS
<1> HIDE DEF q, old, now
<1>2. \A x : Lane(q, now, x) = Lane(q, old, x)
  BY <1>1, LaneOfTheQueued
<1> QED
  BY <1>2 DEF q, old, now

\* Dropping a place of the queue shortens one lane.
LEMMA NextLane ==
  ASSUME SchedulerInv, NEW i \in DOMAIN queued PROVE \A x \in Roots : Shortens(queued, i, root, x)
<1> DEFINE q == queued
           of == root
<1>1. q \in Seq(Jobs) /\ i \in DOMAIN q
  BY DEF SchedulerInv, TypeOK
<1> HIDE DEF q, of
<1>2. \A x \in Roots : Shortens(q, i, of, x)
  BY <1>1, LaneShrinks
<1> QED
  BY <1>2 DEF q, of

\* submit is Ask of the root, or invisible when the job mutates none.
LEMMA SubmitAsks ==
  ASSUME SchedulerInv, SchedulerInv', NEW j \in Jobs, NEW r \in Roots \cup {NoRoot}, Submit(j, r)
  PROVE  [Mutex!Next]_(Mutex!mutexVars)
<1>1. /\ state[j] = "Absent" /\ queued \in Seq(Jobs)
      /\ state \in [Jobs -> Live \cup {"Absent"}] /\ root \in [Jobs -> Roots \cup {NoRoot}]
      /\ root' = [root EXCEPT ![j] = r]
      /\ NoRoot \notin Roots /\ activeRoots \subseteq Roots
  BY SchedulerAssumption DEF Submit, SchedulerInv, TypeOK, SchedulerAssumption
<1>2. \A i \in DOMAIN queued : queued[i] # j /\ queued[i] \in Jobs
  BY <1>1 DEF SchedulerInv, IndexesAgreeWithJobs, QueueIsExact
<1>3. \A x \in Roots : Lane(queued, root', x) = Lane(queued, root, x)
  <2> DEFINE q == queued
             old == root
             now == root'
  <2>1. q \in Seq(Jobs) /\ \A i \in DOMAIN q : old[q[i]] = now[q[i]]
    BY <1>1, <1>2
  <2> HIDE DEF q, old, now
  <2>2. \A x : Lane(q, now, x) = Lane(q, old, x)
    BY <2>1, LaneOfTheQueued
  <2> QED
    BY <2>2 DEF q, old, now
<1>4. CASE SubmitBlocked(j, r)
  <2>1. /\ r \in Roots /\ r \in activeRoots
        /\ state' = [state EXCEPT ![j] = "Queued"]
        /\ queued' = Append(queued, j)
    BY <1>1, <1>4 DEF SubmitBlocked
  <2>2. \A x \in Roots : Holder(x)' = Holder(x)
    <3>1. /\ \A k \in Jobs : (state'[k] \in Started) = (state[k] \in Started)
          /\ \A k \in Jobs : state[k] \in Started => root'[k] = root[k]
      BY <1>1, <2>1 DEF Started
    <3> QED
      BY <3>1, SameHolders
  <2>3. ASSUME NEW x \in Roots
        PROVE  Lane(queued', root', x) = IF x = r THEN Append(Lane(queued, root, r), j)
                                         ELSE Lane(queued, root, x)
    <3>1. Lane(queued', root', x) = IF root'[j] = x THEN Append(Lane(queued, root', x), j)
                                    ELSE Lane(queued, root', x)
      <4> DEFINE q == queued
                 now == root'
      <4>1. q \in Seq(Jobs)
        BY <1>1
      <4> HIDE DEF q, now
      <4>2. Lane(Append(q, j), now, x) = IF now[j] = x THEN Append(Lane(q, now, x), j)
                                         ELSE Lane(q, now, x)
        BY <4>1, LaneGrows
      <4> QED
        BY <2>1, <4>2 DEF q, now
    <3>2. root'[j] = r
      BY <1>1
    <3> QED
      BY <1>3, <3>1, <3>2
  <2>4. Holder(r) # NoJob /\ ~ Mutex!Involved(j)
    BY <1>1, <2>1, HolderIs, NotInvolved DEF HolderExact
  <2>5. Mutex!Ask(j, r)
    BY <2>1, <2>2, <2>3, <2>4 DEF Mutex!Ask
  <2> QED
    BY <2>1, <2>5 DEF Mutex!Next
<1>5. CASE SubmitStarts(j, r)
  <2>1. /\ r \notin activeRoots /\ queued' = queued
        /\ state' = [state EXCEPT ![j] = "Starting"]
    BY <1>5 DEF SubmitStarts
  <2>2. \A x \in Roots : Lane(queued', root', x) = Lane(queued, root, x)
    BY <1>3, <2>1
  <2>3. ASSUME NEW x \in Roots PROVE Holder(x)' = IF x = r THEN j ELSE Holder(x)
    <3>1. /\ \A k \in Jobs : Holder(x) = k <=> state[k] \in Started /\ root[k] = x
          /\ Holder(x) \in Jobs \cup {NoJob}
      BY HolderIs DEF HolderExact
    <3>2. /\ \A k \in Jobs : Holder(x)' = k <=> state'[k] \in Started /\ root'[k] = x
          /\ Holder(x)' \in Jobs \cup {NoJob}
      BY HolderStaysExact DEF HolderExact
    <3>3. /\ state'[j] \in Started /\ root'[j] = r /\ state[j] \notin Started
          /\ \A k \in Jobs : k # j => state'[k] = state[k] /\ root'[k] = root[k]
      BY <1>1, <2>1 DEF Started
    <3>4. CASE x = r
      BY <3>2, <3>3, <3>4
    <3>5. CASE x # r
      BY <3>1, <3>2, <3>3, <3>5
    <3> QED
      BY <3>4, <3>5
  <2>4. CASE r \in Roots
    <3>1. Holder(r) = NoJob /\ ~ Mutex!Involved(j)
      BY <1>1, <2>1, <2>4, HolderIs, NotInvolved DEF HolderExact
    <3>2. Mutex!Ask(j, r)
      BY <2>2, <2>3, <2>4, <3>1 DEF Mutex!Ask
    <3> QED
      BY <2>4, <3>2 DEF Mutex!Next
  <2>5. CASE r \notin Roots
    BY <2>2, <2>3, <2>5, Unseen
  <2> QED
    BY <2>4, <2>5
<1> QED
  BY <1>4, <1>5 DEF Submit

\* The cancellation of a queued job is GiveUp.
LEMMA CancelGivesUp ==
  ASSUME SchedulerInv, SchedulerInv', NEW j \in Jobs, CancelQueued(j)
  PROVE  [Mutex!Next]_(Mutex!mutexVars)
<1>1. /\ state[j] = "Queued" /\ queued \in Seq(Jobs)
      /\ state \in [Jobs -> Live \cup {"Absent"}] /\ root \in [Jobs -> Roots \cup {NoRoot}]
      /\ state' = [state EXCEPT ![j] = "Absent"]
      /\ root' = [root EXCEPT ![j] = NoRoot]
  BY DEF CancelQueued, Forget, SchedulerInv, TypeOK
<1>2. PICK i \in DOMAIN queued : queued[i] = j /\ queued' = RemoveAt(queued, i)
  BY DEF CancelQueued
<1>3. root[j] \in Roots
  BY <1>1 DEF SchedulerInv, NoJobWaitsForAFreeRoot, TypeOK
<1>4. \A x \in Roots : Holder(x)' = Holder(x)
  <2>1. /\ \A k \in Jobs : (state'[k] \in Started) = (state[k] \in Started)
        /\ \A k \in Jobs : state[k] \in Started => root'[k] = root[k]
    BY <1>1 DEF Started
  <2> QED
    BY <2>1, SameHolders
<1>5. queued' \in Seq(Jobs) /\ \A k \in DOMAIN queued' : queued'[k] # j /\ queued'[k] \in Jobs
  BY <1>2, DropKeepsOthers
<1>6. \A x \in Roots : Lane(queued', root', x) = Lane(queued', root, x)
  BY <1>1, <1>5, NextLanes
<1>7. PICK p \in DOMAIN Lane(queued, root, root[j]) :
        /\ Lane(queued, root, root[j])[p] = j
        /\ Lane(queued', root, root[j]) = RemoveAt(Lane(queued, root, root[j]), p)
  <2>1. Shortens(queued, i, root, root[j])
    BY <1>2, <1>3, NextLane
  <2> QED
    BY <1>2, <2>1 DEF Shortens
<1>8. \A x \in Roots : x # root[j] => Lane(queued', root, x) = Lane(queued, root, x)
  BY <1>1, <1>2, NextLane DEF Shortens
<1>9. Mutex!GiveUp(j, root[j])
  <2>1. \A x \in Roots : Lane(queued', root', x)
                           = IF x = root[j] THEN RemoveAt(Lane(queued, root, root[j]), p)
                             ELSE Lane(queued, root, x)
    BY <1>3, <1>6, <1>7, <1>8
  <2>2. Mutex!RemoveAt(Lane(queued, root, root[j]), p)
          = RemoveAt(Lane(queued, root, root[j]), p)
    BY DEF Mutex!RemoveAt, RemoveAt
  <2> QED
    BY <1>3, <1>4, <1>7, <2>1, <2>2 DEF Mutex!GiveUp
<1> QED
  BY <1>3, <1>9 DEF Mutex!Next

\* finish is Release of the root, or invisible when the job mutates none.
LEMMA FinishReleases ==
  ASSUME SchedulerInv, SchedulerInv', NEW j \in Jobs, NEW s \in Terminal,
         state[j] \in Started, Finish(j, s)
  PROVE  [Mutex!Next]_(Mutex!mutexVars)
<1> DEFINE r == root[j]
<1>1. /\ queued \in Seq(Jobs) /\ NoRoot \notin Roots /\ r \in Roots \cup {NoRoot}
      /\ state \in [Jobs -> Live \cup {"Absent"}] /\ root \in [Jobs -> Roots \cup {NoRoot}]
      /\ root' = [root EXCEPT ![j] = NoRoot]
  BY SchedulerAssumption DEF Finish, Forget, SchedulerInv, TypeOK, SchedulerAssumption
<1>2. \A i \in DOMAIN queued : /\ queued[i] # j /\ queued[i] \in Jobs
                               /\ state[queued[i]] = "Queued"
  BY <1>1 DEF SchedulerInv, IndexesAgreeWithJobs, QueueIsExact, Started
<1>3. r \in Roots => Holder(r) = j
  BY HolderIs DEF HolderExact
<1>4. Waiting(r, j) = {k \in DOMAIN queued : root[queued[k]] = r}
  BY <1>2 DEF Waiting
<1> HIDE DEF r
<1>5. ASSUME r # NoRoot, NEW i \in DOMAIN queued, IsNext(i, r, j), HandOver(j, r, i)
      PROVE  Mutex!Release(r)
  <2> DEFINE next == queued[i]
  <2>1. /\ root[next] = r /\ next \in Jobs /\ next # j /\ state[next] = "Queued"
        /\ \A k \in DOMAIN queued : root[queued[k]] = r => i <= k
    BY <1>2, <1>4, <1>5 DEF IsNext
  <2>2. /\ queued' = RemoveAt(queued, i)
        /\ state' = [state EXCEPT ![j] = "Absent", ![next] = "Starting"]
    BY <1>5 DEF HandOver
  <2>3. queued' \in Seq(Jobs) /\ \A k \in DOMAIN queued' : queued'[k] # j /\ queued'[k] \in Jobs
    BY <2>2, DropKeepsOthers DEF Started
  <2>4. \A x \in Roots : Lane(queued', root', x) = Lane(queued', root, x)
    BY <1>1, <2>3, NextLanes
  <2>5. /\ Lane(queued, root, r) # <<>>
        /\ Head(Lane(queued, root, r)) = next
        /\ Lane(queued', root, r) = Tail(Lane(queued, root, r))
    <3> DEFINE w == Lane(queued, root, r)
    <3>1. w \in Seq(Jobs)
      BY <1>1, <1>5, LaneHolds
    <3>2. 1 \in DOMAIN w /\ w[1] = next /\ Lane(queued', root, r) = RemoveAt(w, 1)
      <4>1. Shortens(queued, i, root, r)
        BY <1>1, <1>5, NextLane
      <4> QED
        BY <2>1, <2>2, <4>1 DEF Shortens
    <3> HIDE DEF w
    <3>3. w # <<>> /\ RemoveAt(w, 1) = Tail(w) /\ Head(w) = w[1]
      BY <3>1, <3>2, DropFirst
    <3> QED
      BY <3>2, <3>3 DEF w
  <2>6. \A x \in Roots : x # r => Lane(queued', root, x) = Lane(queued, root, x)
    BY <1>1, <2>1, <2>2, NextLane DEF Shortens
  <2> HIDE DEF next
  <2>7. ASSUME NEW x \in Roots PROVE Holder(x)' = IF x = r THEN next ELSE Holder(x)
    <3>1. /\ \A k \in Jobs : Holder(x) = k <=> state[k] \in Started /\ root[k] = x
          /\ Holder(x) \in Jobs \cup {NoJob}
      BY HolderIs DEF HolderExact
    <3>2. /\ \A k \in Jobs : Holder(x)' = k <=> state'[k] \in Started /\ root'[k] = x
          /\ Holder(x)' \in Jobs \cup {NoJob}
      BY HolderStaysExact DEF HolderExact
    <3>3. /\ state'[next] \in Started /\ root'[next] = r /\ state[next] \notin Started
          /\ state'[j] \notin Started /\ root[j] = r
          /\ \A k \in Jobs : k # j /\ k # next => state'[k] = state[k] /\ root'[k] = root[k]
      BY <1>1, <2>1, <2>2 DEF Started, r
    <3>4. CASE x = r
      BY <2>1, <3>2, <3>3, <3>4
    <3>5. CASE x # r
      BY <2>1, <3>1, <3>2, <3>3, <3>5
    <3> QED
      BY <3>4, <3>5
  <2>8. r \in Roots /\ Holder(r) # NoJob
    BY <1>1, <1>3, <1>5, SchedulerAssumption DEF SchedulerAssumption
  <2>9. \A x \in Roots : Lane(queued', root', x) = IF x = r THEN Tail(Lane(queued, root, r))
                                                   ELSE Lane(queued, root, x)
    BY <2>4, <2>5, <2>6
  <2> QED
    BY <2>5, <2>7, <2>8, <2>9 DEF Mutex!Release
<1>6. ASSUME r = NoRoot \/ Waiting(r, j) = {}, FreeRoot(j, r)
      PROVE  /\ \A x \in Roots : Lane(queued', root', x) = Lane(queued, root, x)
             /\ \A x \in Roots : Holder(x)' = IF x = r THEN NoJob ELSE Holder(x)
             /\ r \in Roots => Lane(queued, root, r) = <<>>
  <2>1. queued' = queued /\ state' = [state EXCEPT ![j] = "Absent"]
    BY <1>6 DEF FreeRoot
  <2>2. \A x \in Roots : Lane(queued, root', x) = Lane(queued, root, x)
    <3>1. queued' \in Seq(Jobs) /\ \A k \in DOMAIN queued' : queued'[k] # j /\ queued'[k] \in Jobs
      BY <1>1, <1>2, <2>1
    <3> QED
      BY <1>1, <2>1, <3>1, NextLanes
  <2>3. ASSUME NEW x \in Roots PROVE Holder(x)' = IF x = r THEN NoJob ELSE Holder(x)
    <3>1. /\ \A k \in Jobs : Holder(x) = k <=> state[k] \in Started /\ root[k] = x
          /\ Holder(x) \in Jobs \cup {NoJob}
      BY HolderIs DEF HolderExact
    <3>2. /\ \A k \in Jobs : Holder(x)' = k <=> state'[k] \in Started /\ root'[k] = x
          /\ Holder(x)' \in Jobs \cup {NoJob}
      BY HolderStaysExact DEF HolderExact
    <3>3. /\ state'[j] \notin Started /\ root[j] = r
          /\ \A k \in Jobs : k # j => state'[k] = state[k] /\ root'[k] = root[k]
      BY <1>1, <2>1 DEF Started, r
    <3>4. CASE x = r
      BY <1>3, <3>1, <3>2, <3>3, <3>4
    <3>5. CASE x # r
      BY <3>1, <3>2, <3>3, <3>5
    <3> QED
      BY <3>4, <3>5
  <2>4. r \in Roots => Lane(queued, root, r) = <<>>
    BY <1>1, <1>4, <1>6, LaneHolds
  <2> QED
    BY <2>1, <2>2, <2>3, <2>4
<1>7. ASSUME r = NoRoot \/ Waiting(r, j) = {}, FreeRoot(j, r)
      PROVE  [Mutex!Next]_(Mutex!mutexVars)
  <2>1. CASE r \in Roots
    <3>1. Holder(r) # NoJob
      BY <1>3, <2>1, SchedulerAssumption DEF SchedulerAssumption
    <3>2. Mutex!Release(r)
      BY <1>6, <1>7, <2>1, <3>1 DEF Mutex!Release
    <3> QED
      BY <2>1, <3>2 DEF Mutex!Next
  <2>2. CASE r \notin Roots
    BY <1>6, <1>7, <2>2, Unseen
  <2> QED
    BY <2>1, <2>2
<1>8. \/ r # NoRoot /\ \E i \in DOMAIN queued : IsNext(i, r, j) /\ HandOver(j, r, i)
      \/ (r = NoRoot \/ Waiting(r, j) = {}) /\ FreeRoot(j, r)
  BY DEF Finish, r
<1>9. CASE r # NoRoot /\ \E i \in DOMAIN queued : IsNext(i, r, j) /\ HandOver(j, r, i)
  <2>1. r \in Roots /\ Mutex!Release(r)
    BY <1>1, <1>5, <1>9
  <2> QED
    BY <2>1 DEF Mutex!Next
<1> QED
  BY <1>7, <1>8, <1>9

\* At first no root is held and every lane is empty.
LEMMA InitMaps == Init => Mutex!Init
<1> SUFFICES ASSUME Init PROVE Mutex!Init
  OBVIOUS
<1>1. SchedulerInv /\ queued = <<>> /\ activeRoots = {}
  BY InitInv DEF Init
<1>2. \A r \in Roots : Holder(r) = NoJob /\ Lane(queued, root, r) = <<>>
  BY <1>1, HolderIs, LaneHolds DEF HolderExact
<1> QED
  BY <1>2 DEF Mutex!Init

\* Every step of the scheduler is a step of the locks or none.
LEMMA StepMaps ==
  ASSUME SchedulerInv, SchedulerInv', [Next]_vars PROVE [Mutex!Next]_(Mutex!mutexVars)
<1>1. CASE \E j \in Jobs, r \in Roots \cup {NoRoot} : Submit(j, r)
  BY <1>1, SubmitAsks
<1>2. ASSUME NEW j \in Jobs, MarkRunning(j) \/ CancelStarted(j)
      PROVE  UNCHANGED Mutex!mutexVars
  <2>1. /\ state[j] \in Started /\ (state' = [state EXCEPT ![j] = "Running"]
                                    \/ state' = [state EXCEPT ![j] = "Cancelling"])
        /\ root' = root /\ queued' = queued
    BY <1>2 DEF MarkRunning, CancelStarted, Started
  <2>2. /\ \A k \in Jobs : (state'[k] \in Started) = (state[k] \in Started)
        /\ \A k \in Jobs : state[k] \in Started => root'[k] = root[k]
    BY <2>1 DEF Started, SchedulerInv, TypeOK
  <2> QED
    BY <2>1, <2>2, SameHolders, Unseen
<1>3. CASE \E j \in Jobs : CancelQueued(j)
  BY <1>3, CancelGivesUp
<1>4. CASE \E j \in Jobs : FinishStarted(j)
  BY <1>4, FinishReleases DEF FinishStarted
<1>5. CASE UNCHANGED vars
  <2>1. state' = state /\ root' = root /\ queued' = queued
    BY <1>5 DEF vars
  <2> QED
    BY <2>1, SameHolders, Unseen
<1> QED
  BY <1>1, <1>2, <1>3, <1>4, <1>5 DEF Next, Other

\* For any jobs and roots, the shared queue, its root table and the promotions
\* out of it behave as one first-come first-served lock per Gradle root.
THEOREM QueueIsALockPerRoot == Spec => ImplementsRootMutex
<1>1. SchedulerInv /\ SchedulerInv' /\ [Next]_vars => [Mutex!Next]_(Mutex!mutexVars)
  BY StepMaps
<1> QED
  BY <1>1, InitMaps, InvHolds, PTL DEF Spec, ImplementsRootMutex, Mutex!Spec
=============================================================================
