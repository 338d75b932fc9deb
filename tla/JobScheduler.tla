---------------------------- MODULE JobScheduler ----------------------------
(***************************************************************************)
(* The job scheduler of dexdeck-core (src/crates/dexdeck-core/src/job.rs). *)
(* Callers submit jobs; a job that mutates a Gradle root runs at once when *)
(* the root is free and is queued otherwise.  A job leaves the scheduler   *)
(* by finishing, or by being cancelled while it is queued; leaving records *)
(* it in a bounded history and hands its root to the oldest queued job     *)
(* that wants it.  Every method takes &mut self, so each is one step.      *)
(*                                                                         *)
(* Left out: the output buffer and the diagnostics of a job, which no      *)
(* scheduling decision reads, and the times and exit code of a record.     *)
(***************************************************************************)
EXTENDS Naturals, Sequences, SequencesExt, Subsequences

CONSTANTS Jobs,          \* the job ids callers use
          Roots,         \* the Gradle roots a job may mutate
          NoRoot,        \* the root of a job that mutates none
          NoJob,         \* the holder of a root no job mutates
          HistoryLimit,  \* JOB_HISTORY_LIMIT, 50 in the code
          MaxRequests    \* the saturation point of a job's u8 request counter

ASSUME SchedulerAssumption ==
  /\ NoRoot \notin Roots
  /\ NoJob \notin Jobs
  /\ HistoryLimit \in Nat \ {0}
  /\ MaxRequests \in Nat \ {0}

VARIABLES state,        \* state[j]: where job j is, "Absent" when the map lacks it
          root,         \* root[j]: the Gradle root job j mutates
          requests,     \* requests[j]: the cancellation requests made so far
          queued,       \* the ids waiting for a root, oldest first
          activeRoots,  \* the roots some job is mutating
          history       \* the records of the jobs that left, oldest first

vars == <<state, root, requests, queued, activeRoots, history>>

Started  == {"Starting", "Running", "Cancelling"}
Live     == Started \cup {"Queued"}
Terminal == {"Succeeded", "Failed", "Cancelled"}

HistoryRecord == [job : Jobs, state : Terminal]

Init == /\ state = [j \in Jobs |-> "Absent"]
        /\ root = [j \in Jobs |-> NoRoot]
        /\ requests = [j \in Jobs |-> 0]
        /\ queued = <<>>
        /\ activeRoots = {}
        /\ history = <<>>

-----------------------------------------------------------------------------
\* Variants of record_history: the history only grows, or stops when it is full.
RecordHistoryUnbounded(j, s) == history' = Append(history, [job |-> j, state |-> s])
RecordHistoryWhileRoom(j, s) ==
  history' = IF Len(history) = HistoryLimit THEN history
             ELSE Append(history, [job |-> j, state |-> s])

\* record_history: the oldest record makes room for the newest.
RecordHistory(j, s) ==
  history' = Append(IF Len(history) = HistoryLimit THEN Tail(history) ELSE history,
                    [job |-> j, state |-> s])

\* Variant of Waiting: only the front of the queue is looked at.
WaitingAtFront(r, j) == {k \in DOMAIN queued : /\ k = 1
                                               /\ queued[k] # j
                                               /\ root[queued[k]] = r}

\* next_queued_for_root looks at these positions, in order, when job j has just
\* left the map: the id is known to the map and its job wants root r.
Waiting(r, j) == {k \in DOMAIN queued : /\ queued[k] # j
                                        /\ state[queued[k]] # "Absent"
                                        /\ root[queued[k]] = r}

\* Variant of IsNext: the newest waiting job goes first.
IsNewest(i, r, j) == i \in Waiting(r, j) /\ \A k \in Waiting(r, j) : k <= i

\* The position next_queued_for_root finds.
IsNext(i, r, j) == i \in Waiting(r, j) /\ \A k \in Waiting(r, j) : i <= k

SubmitBlocked(j, r) ==
  /\ r \in activeRoots
  /\ state' = [state EXCEPT ![j] = "Queued"]
  /\ queued' = Append(queued, j)
  /\ UNCHANGED activeRoots

\* Variant of SubmitStarts: a job may start on a root that is taken.
SubmitStartsAnyway(j, r) ==
  /\ state' = [state EXCEPT ![j] = "Starting"]
  /\ activeRoots' = activeRoots \cup ({r} \ {NoRoot})
  /\ UNCHANGED queued

SubmitStarts(j, r) ==
  /\ r \notin activeRoots
  /\ state' = [state EXCEPT ![j] = "Starting"]
  /\ activeRoots' = activeRoots \cup ({r} \ {NoRoot})
  /\ UNCHANGED queued

\* submit: a known id is refused; r is NoRoot for a job that mutates no root.
Submit(j, r) ==
  /\ state[j] = "Absent"
  /\ SubmitBlocked(j, r) \/ SubmitStarts(j, r)
  /\ root' = [root EXCEPT ![j] = r]
  /\ UNCHANGED <<requests, history>>

\* mark_running
MarkRunning(j) ==
  /\ state[j] = "Starting"
  /\ state' = [state EXCEPT ![j] = "Running"]
  /\ UNCHANGED <<root, requests, queued, activeRoots, history>>

\* Job j leaves the map.
Forget(j) == /\ root' = [root EXCEPT ![j] = NoRoot]
             /\ requests' = [requests EXCEPT ![j] = 0]

\* Variant of CancelQueued: the id stays in the queue.
CancelQueuedKeepsId(j) ==
  /\ state[j] = "Queued"
  /\ state' = [state EXCEPT ![j] = "Absent"]
  /\ Forget(j)
  /\ RecordHistory(j, "Cancelled")
  /\ UNCHANGED <<queued, activeRoots>>

\* cancel of a queued job: it leaves at once.  An id is queued once, so dropping
\* its position is what retain does.
CancelQueued(j) ==
  /\ state[j] = "Queued"
  /\ \E i \in DOMAIN queued : queued[i] = j /\ queued' = RemoveAt(queued, i)
  /\ state' = [state EXCEPT ![j] = "Absent"]
  /\ Forget(j)
  /\ RecordHistory(j, "Cancelled")
  /\ UNCHANGED activeRoots

\* cancel of a started job: the first request is graceful, a later one forces.
CancelStarted(j) ==
  /\ \/ /\ state[j] \in {"Starting", "Running"}
        /\ requests' = [requests EXCEPT ![j] = 1]
     \/ /\ state[j] = "Cancelling"
        /\ requests' = [requests EXCEPT ![j] = IF @ < MaxRequests THEN @ + 1 ELSE @]
  /\ state' = [state EXCEPT ![j] = "Cancelling"]
  /\ UNCHANGED <<root, queued, activeRoots, history>>

\* The job at position i of the queue takes root r over from job j.
HandOver(j, r, i) ==
  /\ queued' = RemoveAt(queued, i)
  /\ state' = [state EXCEPT ![j] = "Absent", ![queued[i]] = "Starting"]
  /\ activeRoots' = (activeRoots \ {r}) \cup {r}

\* Job j leaves and no queued job wants root r.
FreeRoot(j, r) ==
  /\ state' = [state EXCEPT ![j] = "Absent"]
  /\ activeRoots' = activeRoots \ {r}
  /\ UNCHANGED queued

\* finish: any live job is accepted, a queued one too, and gives its root to the
\* oldest job that waits for it.
Finish(j, s) ==
  /\ state[j] \in Live
  /\ \/ /\ root[j] # NoRoot
        /\ \E i \in DOMAIN queued : /\ IsNext(i, root[j], j)
                                    /\ HandOver(j, root[j], i)
     \/ /\ root[j] = NoRoot \/ Waiting(root[j], j) = {}
        /\ FreeRoot(j, root[j])
  /\ Forget(j)
  /\ RecordHistory(j, s)

-----------------------------------------------------------------------------
Other == \/ \E j \in Jobs, r \in Roots \cup {NoRoot} : Submit(j, r)
         \/ \E j \in Jobs : MarkRunning(j)
         \/ \E j \in Jobs : CancelQueued(j)
         \/ \E j \in Jobs : CancelStarted(j)

\* Callers report the end of the jobs they were told to start: those submit
\* answered StartNow for and those finish returned as promoted.
FinishStarted(j) == state[j] \in Started /\ \E s \in Terminal : Finish(j, s)

Next == Other \/ \E j \in Jobs : FinishStarted(j)

\* Every started process ends and its end is reported.
Fairness == \A j \in Jobs : WF_vars(FinishStarted(j))

Spec == Init /\ [][Next]_vars
FairSpec == Spec /\ Fairness
-----------------------------------------------------------------------------
\* Every variable keeps the type its field has in the code; the history never
\* outgrows JOB_HISTORY_LIMIT.
TypeOK ==
  /\ state \in [Jobs -> Live \cup {"Absent"}]
  /\ root \in [Jobs -> Roots \cup {NoRoot}]
  /\ requests \in [Jobs -> 0 .. MaxRequests]
  /\ queued \in Seq(Jobs)
  /\ activeRoots \in SUBSET Roots
  /\ history \in Seq(HistoryRecord)
  /\ Len(history) <= HistoryLimit

\* Only one started job mutates a Gradle root at a time (SPECS.md 9.5).
OneMutatorPerRoot ==
  \A j, k \in Jobs :
    /\ state[j] \in Started
    /\ state[k] \in Started
    /\ root[j] = root[k]
    /\ root[j] # NoRoot
    => j = k

\* active_gradle_roots, which submit consults in place of the jobs, holds a
\* root exactly while a started job mutates it: a cancelled job that is still
\* ending keeps its root, and no root stays locked after its job left.
RootTableIsExact ==
  activeRoots = {root[j] : j \in {k \in Jobs : state[k] \in Started}} \ {NoRoot}

\* The ids of the queue are those of the jobs in state Queued, each once.
QueueIsExact ==
  /\ \A j \in Jobs : state[j] = "Queued" <=> \E i \in DOMAIN queued : queued[i] = j
  /\ \A i, k \in DOMAIN queued : queued[i] = queued[k] => i = k

\* The two indexes the scheduler keeps beside the job map, its root table and
\* its queue, say what the map says.
IndexesAgreeWithJobs == RootTableIsExact /\ QueueIsExact

\* A job waits only for a root that some job is mutating: no promotion is
\* missed when a job leaves, whatever its way out.
NoJobWaitsForAFreeRoot ==
  \A j \in Jobs : state[j] = "Queued" => root[j] \in activeRoots

\* A job leaves the queue for its root only ahead of jobs that came later.
PromotionIsFifo ==
  [][\A i, k \in DOMAIN queued :
       /\ state[queued[i]] = "Queued"
       /\ state'[queued[i]] = "Starting"
       /\ k < i
       => root[queued[k]] # root[queued[i]]]_vars

\* A job leaves the scheduler only into the history, which it ends with a
\* terminal state; the records before it keep their order.
EveryExitIsRecorded ==
  [][\A j \in Jobs :
       /\ state[j] # "Absent"
       /\ state'[j] = "Absent"
       => /\ Last(history').job = j
          /\ IsSuffix(Front(history'), history)]_vars

\* A queued job is started or cancelled at last, whatever else is submitted.
QueuedJobLeavesTheQueue ==
  \A j \in Jobs : state[j] = "Queued" ~> state[j] # "Queued"

-----------------------------------------------------------------------------
\* The scheduler implements a first-come first-served lock per Gradle root.
Holder(r) ==
  LET mutating == {j \in Jobs : state[j] \in Started /\ root[j] = r}
  IN  IF mutating = {} THEN NoJob ELSE CHOOSE j \in mutating : TRUE

\* The jobs of queue that want root r, oldest first; of[j] is the root of job j.
Lane(queue, of, r) == Picked(queue, {j \in Jobs : of[j] = r})

Mutex == INSTANCE RootMutex WITH
           Clients  <- Jobs,
           NoClient <- NoJob,
           holder   <- [r \in Roots |-> Holder(r)],
           waiting  <- [r \in Roots |-> Lane(queued, root, r)]

\* Seen root by root, the shared queue behaves as one fair lock per root.
ImplementsRootMutex == Mutex!Spec
=============================================================================
