------------------------------ MODULE ShellProofs ---------------------------
(***************************************************************************)
(* What the terminal interface shows, for any workspaces, channel sizes    *)
(* and log: the state of the project model service once its events are     *)
(* read, and the scope of the capture once its commands are taken.         *)
(*                                                                         *)
(* Both follow from what is the last thing in a queue.  A drain folds      *)
(* apply_project_event over a part of the channel, so the proofs first     *)
(* show what a fold does: it applies its operator to the elements in turn. *)
(***************************************************************************)
EXTENDS Shell, ProofFacts

\* The two folds of Drain.
Step(fold, x, event) == IF fold = "project" THEN Apply(x, event) ELSE ApplyLog(x, event)

\* The function that FoldLeft chooses, with the value of every part of s.
Runs(fold, base, s, n, it) ==
  it = [t \in SUBSET (1 .. n) |->
          IF t = {} THEN base ELSE Step(fold, it[t \ {Max(t)}], s[Max(t)])]

\* run[k] is what a fold has made of the first k elements of s.
InTurn(fold, run, base, s, n) ==
  run[0] = base /\ \A k \in 1 .. n : run[k] = Step(fold, run[k - 1], s[k])

\* The results of the two folds.
Applied(x, s) == FoldLeft(Apply, x, s)
Ingested(v, s) == FoldLeft(ApplyLog, v, s)

\* The recursion that defines a fold has a solution.
LEMMA RunExists ==
  ASSUME NEW fold, NEW base, NEW s, NEW n \in Nat PROVE \E it : Runs(fold, base, s, n, it)
  <1> DEFINE T == {m \in Nat : \E it : Runs(fold, base, s, m, it)}
  <1>1. 0 \in T
    <2> DEFINE it == [t \in SUBSET (1 .. 0) |-> base]
    <2>1. ASSUME NEW t \in SUBSET (1 .. 0) PROVE t = {}
      OBVIOUS
    <2>2. Runs(fold, base, s, 0, it)
      BY <2>1 DEF Runs
    <2> QED
      BY <2>2
  <1>2. ASSUME NEW m \in Nat, m \in T PROVE m + 1 \in T
    <2>1. PICK it : Runs(fold, base, s, m, it)
      BY <1>2
    <2> DEFINE more == [t \in SUBSET (1 .. m + 1) |->
                          IF m + 1 \in t THEN Step(fold, it[t \ {m + 1}], s[m + 1]) ELSE it[t]]
    <2>2. ASSUME NEW t \in SUBSET (1 .. m + 1)
          PROVE  more[t] = IF t = {} THEN base ELSE Step(fold, more[t \ {Max(t)}], s[Max(t)])
      <3>1. CASE t = {}
        BY <3>1, <2>1 DEF Runs
      <3>2. CASE m + 1 \in t
        <4>1. Max(t) = m + 1
          <5>1. m + 1 \in Nat /\ t # {}
            BY <3>2
          <5>2. Max(t) \in t /\ m + 1 <= Max(t)
            BY <3>2, <5>1, LastPlace
          <5>3. Max(t) \in 1 .. m + 1
            BY <5>2
          <5> QED
            BY <5>1, <5>2, <5>3
        <4>2. t \ {m + 1} \in SUBSET (1 .. m) /\ t \ {m + 1} \in SUBSET (1 .. m + 1)
          OBVIOUS
        <4>3. more[t \ {m + 1}] = it[t \ {m + 1}]
          BY <4>2
        <4>4. more[t] = Step(fold, it[t \ {m + 1}], s[m + 1])
          BY <3>2
        <4> QED
          BY <3>2, <4>1, <4>3, <4>4
      <3>3. CASE m + 1 \notin t /\ t # {}
        <4>1. t \in SUBSET (1 .. m)
          BY <3>3
        <4>2. Max(t) \in t
          BY <3>3, <4>1, LastPlace
        <4>3. t \ {Max(t)} \in SUBSET (1 .. m + 1) /\ m + 1 \notin t \ {Max(t)}
          BY <3>3
        <4>4. more[t \ {Max(t)}] = it[t \ {Max(t)}]
          BY <4>3
        <4>5. more[t] = it[t]
          BY <3>3
        <4>6. it[t] = Step(fold, it[t \ {Max(t)}], s[Max(t)])
          BY <2>1, <3>3, <4>1 DEF Runs
        <4> QED
          BY <3>3, <4>4, <4>5, <4>6
      <3> QED
        BY <3>1, <3>2, <3>3
    <2>3. Runs(fold, base, s, m + 1, more)
      <3> DEFINE F == [t \in SUBSET (1 .. m + 1) |->
                         IF t = {} THEN base ELSE Step(fold, more[t \ {Max(t)}], s[Max(t)])]
      <3>1. more = F
        BY <2>2
      <3> QED
        BY <3>1 DEF Runs
    <2> QED
      BY <2>3
  <1>3. Nat \subseteq T
    <2> HIDE DEF T
    <2> QED
      BY <1>1, <1>2, SetInduction
  <1> QED
    BY <1>3

\* That solution goes through the sequence from its first element to its last.
LEMMA RunInTurn ==
  ASSUME NEW fold, NEW base, NEW s, NEW n \in Nat, NEW it, Runs(fold, base, s, n, it)
  PROVE  \E run : InTurn(fold, run, base, s, n) /\ run[n] = it[1 .. n]
  <1> DEFINE run == [k \in 0 .. n |-> it[1 .. k]]
  <1>1. run[0] = base /\ run[n] = it[1 .. n]
    <2>1. 1 .. 0 = {} /\ {} \in SUBSET (1 .. n) /\ 0 \in 0 .. n /\ n \in 0 .. n
      OBVIOUS
    <2>2. it[{}] = base
      BY <2>1 DEF Runs
    <2>3. run[0] = it[1 .. 0] /\ run[n] = it[1 .. n]
      BY <2>1
    <2> QED
      BY <2>1, <2>2, <2>3
  <1>2. ASSUME NEW k \in 1 .. n PROVE run[k] = Step(fold, run[k - 1], s[k])
    <2>1. 1 .. k \in SUBSET (1 .. n) /\ k \in 1 .. k /\ 1 .. k # {} /\ k \in Nat
      OBVIOUS
    <2>2. Max(1 .. k) = k
      <3>1. Max(1 .. k) \in 1 .. k /\ k <= Max(1 .. k)
        BY <2>1, LastPlace
      <3> QED
        BY <3>1
    <2>3. (1 .. k) \ {k} = 1 .. k - 1
      OBVIOUS
    <2>4. it[1 .. k] = Step(fold, it[1 .. k - 1], s[k])
      BY <2>1, <2>2, <2>3 DEF Runs
    <2> QED
      BY <2>4
  <1>3. InTurn(fold, run, base, s, n)
    BY <1>1, <1>2 DEF InTurn
  <1> QED
    BY <1>1, <1>3

\* What the interface shows of the project has all events of the drain applied.
LEMMA ApplyInTurn ==
  ASSUME NEW base, NEW s, NEW n \in Nat, DOMAIN s = 1 .. n
  PROVE  \E run : InTurn("project", run, base, s, n) /\ Applied(base, s) = run[n]
  <1> DEFINE it == CHOOSE it : it = [t \in SUBSET (1 .. n) |->
                     IF t = {} THEN base ELSE Apply(it[t \ {Max(t)}], s[Max(t)])]
  <1>1. Runs("project", base, s, n, it)
    <2>1. PICK some : Runs("project", base, s, n, some)
      BY RunExists
    <2>2. some = [t \in SUBSET (1 .. n) |->
                    IF t = {} THEN base ELSE Apply(some[t \ {Max(t)}], s[Max(t)])]
      BY <2>1 DEF Runs, Step
    <2>3. it = [t \in SUBSET (1 .. n) |->
                  IF t = {} THEN base ELSE Apply(it[t \ {Max(t)}], s[Max(t)])]
      BY <2>2
    <2> HIDE DEF it
    <2> QED
      BY <2>3 DEF Runs, Step
  <1>2. Applied(base, s) = it[1 .. n]
    BY DEF Applied, FoldLeft, MapThenFoldSet
  <1> HIDE DEF it
  <1> QED
    BY <1>1, <1>2, RunInTurn

\* And the Logcat workspace those of its own.
LEMMA ApplyLogInTurn ==
  ASSUME NEW base, NEW s, NEW n \in Nat, DOMAIN s = 1 .. n
  PROVE  \E run : InTurn("log", run, base, s, n) /\ Ingested(base, s) = run[n]
  <1> DEFINE it == CHOOSE it : it = [t \in SUBSET (1 .. n) |->
                     IF t = {} THEN base ELSE ApplyLog(it[t \ {Max(t)}], s[Max(t)])]
  <1>1. Runs("log", base, s, n, it)
    <2>1. PICK some : Runs("log", base, s, n, some)
      BY RunExists
    <2>2. some = [t \in SUBSET (1 .. n) |->
                    IF t = {} THEN base ELSE ApplyLog(some[t \ {Max(t)}], s[Max(t)])]
      BY <2>1 DEF Runs, Step
    <2>3. it = [t \in SUBSET (1 .. n) |->
                  IF t = {} THEN base ELSE ApplyLog(it[t \ {Max(t)}], s[Max(t)])]
      BY <2>2
    <2> HIDE DEF it
    <2> QED
      BY <2>3 DEF Runs, Step
  <1>2. Ingested(base, s) = it[1 .. n]
    BY DEF Ingested, FoldLeft, MapThenFoldSet
  <1> HIDE DEF it
  <1> QED
    BY <1>1, <1>2, RunInTurn

\* How much of a channel a drain takes.
LEMMA SplitFacts ==
  ASSUME NEW most \in Nat, NEW R, NEW channel \in Seq(R)
  PROVE  /\ Split(channel, most) \in Nat /\ Split(channel, most) <= Len(channel)
         /\ Split(channel, most) = Len(channel) \/ Split(channel, most) = most
  BY DEF Split, Min

-----------------------------------------------------------------------------
(***************************************************************************)
(* The project on the screen.  While the worker watches, or is about to,   *)
(* and its last event was not refused, the last event in the channel is    *)
(* the state of the service; when the channel is empty that state has been *)
(* applied.                                                                *)
(***************************************************************************)
ShownOf(state) == [phase |-> "Available", named |-> TRUE, tasks |-> TRUE, failed |-> FALSE,
                   state |-> state]

EventShape == \E R : projectEvents \in Seq(R)
ServiceShape == "model" \in DOMAIN service

\* With a current model the loop begins as soon as the runtime is there.
Watches == worker = "watching" \/ (worker = "starting" /\ service.freshness = "Current")

LastIsKnown ==
  Watches =>
    /\ service.model
    /\ ~ lost => IF projectEvents = <<>> THEN shown = ShownOf(service)
                 ELSE projectEvents[Len(projectEvents)] = ModelOf(service)

ProjectInv == EventShape /\ ServiceShape /\ LastIsKnown

\* An event is the last of the channel, or it is lost.
LEMMA SendIsLast ==
  ASSUME EventShape, NEW event, TrySend(event)
  PROVE  /\ EventShape'
         /\ ~ lost' => /\ projectEvents' # <<>>
                       /\ projectEvents'[Len(projectEvents')] = event
  <1>1. PICK R : projectEvents \in Seq(R)
    BY DEF EventShape
  <1> DEFINE B == R \cup {event}
  <1>2. projectEvents \in Seq(B)
    BY <1>1, SeqGrows
  <1>3. CASE Len(projectEvents) < ProjectCapacity
    <2>1. projectEvents' = Append(projectEvents, event)
      BY <1>3 DEF TrySend
    <2>2. /\ projectEvents' \in Seq(B) /\ Len(projectEvents') = Len(projectEvents) + 1
          /\ projectEvents'[Len(projectEvents) + 1] = event /\ Len(projectEvents) \in Nat
      BY <1>2, <2>1, OneMore
    <2>3. projectEvents' # <<>>
      BY <2>2
    <2> QED
      BY <2>2, <2>3 DEF EventShape
  <1>4. CASE ~ (Len(projectEvents) < ProjectCapacity)
    BY <1>1, <1>4 DEF TrySend, EventShape
  <1> QED
    BY <1>3, <1>4

\* What the service's state has, it keeps.
LEMMA WorkerKeepsShape == ASSUME ServiceShape, ProjectWorker PROVE ServiceShape'
  <1>1. CASE service' = service
    BY <1>1 DEF ServiceShape
  <1>2. ASSUME NEW freshness, service' = Failed(freshness) \/ service' = Opened(freshness)
        PROVE  ServiceShape'
    <2>1. CASE service' = Failed(freshness)
      BY <2>1 DEF Failed, ServiceShape
    <2>2. CASE service' = Opened(freshness)
      <3>1. DOMAIN Opened(freshness) = {"model", "freshness", "generation"}
        BY DEF Opened
      <3> QED
        BY <2>2, <3>1 DEF ServiceShape
    <2> QED
      BY <1>2, <2>1, <2>2
  <1>3. CASE service' = [model |-> TRUE, freshness |-> "Current",
                         generation |-> service.generation + 1]
    BY <1>3 DEF ServiceShape
  <1>4. CASE service' = [service EXCEPT !.freshness = "Stale", !.generation = @ + 1]
    BY <1>4 DEF ServiceShape
  <1> QED
    <2>1. CASE Detect \/ StartRuntime \/ Debounced \/ WorkerStops
      BY <2>1, <1>1 DEF Detect, StartRuntime, Debounced, WorkerStops
    <2>2. CASE Open
      BY <2>2, <1>1, <1>2 DEF Open
    <2>3. CASE RefreshSucceeds
      BY <2>3, <1>3 DEF RefreshSucceeds
    <2>4. CASE RefreshFails
      BY <2>4, <1>2 DEF RefreshFails
    <2>5. CASE PollWatcher
      BY <2>5, <1>1, <1>4 DEF PollWatcher
    <2> QED
      BY <2>1, <2>2, <2>3, <2>4, <2>5 DEF ProjectWorker

\* The worker's steps: whatever leads into the loop, or stays in it, ends with
\* the new state being sent.
LEMMA WorkerKeepsProject == ASSUME ProjectInv, ProjectWorker PROVE ProjectInv'
  <1>0. EventShape /\ ServiceShape /\ LastIsKnown /\ shown' = shown /\ ServiceShape'
    BY WorkerKeepsShape DEF ProjectInv, ProjectWorker
  <1>1. CASE Detect
    <2>1. \E event : TrySend(event)
      BY <1>1 DEF Detect, WorkerEnds
    <2>2. ~ Watches'
      BY <1>1 DEF Detect, WorkerEnds, Watches
    <2> QED
      BY <2>1, <2>2, <1>0, SendIsLast DEF ProjectInv, LastIsKnown
  <1>2. ASSUME SendState(service'), service'.model PROVE ProjectInv'
    BY <1>0, <1>2, SendIsLast DEF SendState, ProjectInv, LastIsKnown
  <1>3. ASSUME NEW event, WorkerEnds(event) PROVE ProjectInv'
    BY <1>0, <1>3, SendIsLast DEF WorkerEnds, ProjectInv, LastIsKnown, Watches
  <1>4. CASE Open
    <2>1. CASE WorkerEnds(Failure(TRUE))
      BY <2>1, <1>3
    <2>2. ASSUME NEW freshness \in {"Current", "Stale", "Provisional"},
                 service' = Opened(freshness),
                 worker' = "starting",
                 SendState(service')
          PROVE  ProjectInv'
      <3>1. CASE freshness = "Provisional"
        <4>1. EventShape'
          BY <2>2, <3>1, <1>0 DEF SendState, Opened, EventShape
        <4>2. service'.freshness # "Current"
          BY <2>2, <3>1 DEF Opened
        <4> QED
          BY <1>0, <2>2, <4>1, <4>2 DEF ProjectInv, LastIsKnown, Watches
      <3>2. CASE freshness # "Provisional"
        BY <2>2, <3>2, <1>2 DEF Opened
      <3> QED
        BY <3>1, <3>2
    <2> QED
      BY <1>4, <2>1, <2>2 DEF Open
  <1>5. CASE RefreshSucceeds
    BY <1>5, <1>2 DEF RefreshSucceeds
  <1>6. CASE RefreshFails
    <2>1. CASE service.model
      <3>1. PICK freshness \in {"Degraded", "Refreshing"} : service' = Failed(freshness)
        BY <1>6 DEF RefreshFails
      <3>2. SendState(service') /\ worker' = "watching"
        BY <1>6, <2>1 DEF RefreshFails, StateAfterFailure
      <3>3. service'.model
        BY <1>0, <3>1, <2>1 DEF Failed, ServiceShape
      <3> QED
        BY <3>2, <3>3, <1>2
    <2>2. CASE ~ service.model
      BY <1>6, <2>2, <1>3 DEF RefreshFails
    <2> QED
      BY <2>1, <2>2
  <1>7. CASE PollWatcher
    <2>1. CASE WorkerEnds(Failure(TRUE))
      BY <2>1, <1>3
    <2>2. CASE /\ service' = [service EXCEPT !.freshness = "Stale", !.generation = @ + 1]
               /\ SendState(service') /\ worker' = worker
      <3>1. service'.model = service.model
        BY <1>0, <2>2 DEF ServiceShape
      <3>2. service.model
        BY <1>0, <1>7 DEF PollWatcher, LastIsKnown, Watches
      <3> QED
        BY <2>2, <3>1, <3>2, <1>2
    <2> QED
      BY <1>7, <2>1, <2>2 DEF PollWatcher
  <1>8. CASE Debounced \/ WorkerStops
    BY <1>0, <1>8 DEF Debounced, WorkerStops, ProjectInv, EventShape, LastIsKnown, Watches
  <1>9. CASE StartRuntime
    <2>1. CASE WorkerEnds(Failure(TRUE))
      BY <2>1, <1>3
    <2>2. CASE /\ worker' = IF service.freshness = "Current" THEN "watching" ELSE "refreshing"
               /\ UNCHANGED <<projectEvents, lost, service>>
      <3>1. Watches' => Watches
        BY <1>9, <2>2 DEF StartRuntime, Watches
      <3> QED
        BY <1>0, <2>2, <3>1 DEF ProjectInv, EventShape, LastIsKnown
    <2> QED
      BY <1>9, <2>1, <2>2 DEF StartRuntime
  <1> QED
    BY <1>1, <1>4, <1>5, <1>6, <1>7, <1>8, <1>9 DEF ProjectWorker

\* A drain that empties the channel applies its last event last.
LEMMA DrainKeepsProject == ASSUME ProjectInv, Drain PROVE ProjectInv'
  <1>1. PICK R : projectEvents \in Seq(R)
    BY DEF ProjectInv, EventShape
  <1>n. PICK n : n = Split(projectEvents, ProjectDrain)
    OBVIOUS
  <1>l. PICK l : l = Len(projectEvents)
    OBVIOUS
  <1>2. n \in Nat /\ n <= l /\ l \in Nat
    BY <1>1, <1>n, <1>l, SplitFacts, ShellAssumption
  <1>3. /\ shown' = Applied(shown, SubSeq(projectEvents, 1, n))
        /\ projectEvents' = SubSeq(projectEvents, n + 1, l)
        /\ UNCHANGED <<worker, service, lost>>
    BY <1>n, <1>l DEF Drain, projectVars, Applied
  <1>s. PICK s : s = SubSeq(projectEvents, 1, n)
    OBVIOUS
  <1>4. DOMAIN s = 1 .. n /\ \A k \in 1 .. n : s[k] = projectEvents[k]
    BY <1>1, <1>2, <1>l, <1>s
  <1>5. /\ projectEvents' \in Seq(R) /\ Len(projectEvents') = l - n
        /\ \A k \in 1 .. l - n : projectEvents'[k] = projectEvents[n + k]
    BY <1>1, <1>2, <1>3, <1>l
  <1>5a. PICK run : InTurn("project", run, shown, s, n) /\ Applied(shown, s) = run[n]
    BY <1>2, <1>4, ApplyInTurn
  <1>6. /\ run[0] = shown
        /\ \A k \in 1 .. n : run[k] = Apply(run[k - 1], s[k])
        /\ Applied(shown, s) = run[n]
    BY <1>5a DEF InTurn, Step
  <1>7. ASSUME Watches, ~ lost
        PROVE  IF projectEvents' = <<>> THEN shown' = ShownOf(service)
               ELSE projectEvents'[Len(projectEvents')] = ModelOf(service)
    <2>1. CASE n = l /\ l = 0
      <3>1. projectEvents = <<>> /\ projectEvents' = <<>>
        BY <2>1, <1>1, <1>5, <1>l
      <3>2. shown' = shown
        BY <2>1, <1>3, <1>6, <1>s
      <3> QED
        BY <3>1, <3>2, <1>7 DEF ProjectInv, LastIsKnown
    <2>2. CASE n = l /\ l > 0
      <3>1. projectEvents # <<>> /\ projectEvents' = <<>>
        BY <2>2, <1>1, <1>2, <1>5, <1>l
      <3>2. projectEvents[l] = ModelOf(service)
        BY <3>1, <1>7, <1>l DEF ProjectInv, LastIsKnown
      <3>3. l \in 1 .. n
        BY <2>2, <1>2
      <3>4. shown' = Apply(run[l - 1], ModelOf(service))
        BY <2>2, <3>2, <3>3, <1>3, <1>4, <1>6, <1>s
      <3>5. shown' = ShownOf(service)
        BY <3>4 DEF Apply, ModelOf, Showing, ShownOf
      <3> QED
        BY <3>1, <3>5
    <2>3. CASE n < l
      <3>1. projectEvents # <<>> /\ projectEvents' # <<>>
        BY <2>3, <1>1, <1>2, <1>5, <1>l
      <3>2. l - n \in 1 .. l - n /\ n + (l - n) = l
        BY <2>3, <1>2
      <3>3. projectEvents'[Len(projectEvents')] = projectEvents[l]
        BY <3>2, <1>5
      <3> QED
        BY <3>1, <3>3, <1>7, <1>l DEF ProjectInv, LastIsKnown
    <2> QED
      BY <2>1, <2>2, <2>3, <1>2
  <1> QED
    <2>1. Watches' <=> Watches
      BY <1>3 DEF Watches
    <2> QED
      BY <2>1, <1>3, <1>5, <1>7 DEF ProjectInv, EventShape, ServiceShape, LastIsKnown

\* The other steps touch neither the worker, nor its channel, nor the screen's
\* view of the project.
LEMMA OthersKeepProject ==
  ASSUME ProjectInv, UNCHANGED <<worker, service, lost, projectEvents, shown>> PROVE ProjectInv'
  BY DEF ProjectInv, EventShape, ServiceShape, LastIsKnown, Watches

\* Every step.
LEMMA NextProject == ProjectInv /\ [Next]_vars => ProjectInv'
  <1> SUFFICES ASSUME ProjectInv, [Next]_vars PROVE ProjectInv'
    OBVIOUS
  <1>1. CASE ProjectWorker
    BY <1>1, WorkerKeepsProject
  <1>2. CASE Drain
    BY <1>2, DrainKeepsProject
  <1>3. CASE LogcatWorker \/ Edit \/ UNCHANGED vars
    BY <1>3, OthersKeepProject DEF LogcatWorker, Edit, vars, projectVars
  <1>4. CASE Wait \/ StopProject \/ StopLogcat \/ Restore
    BY <1>4, OthersKeepProject DEF Wait, StopProject, StopLogcat, Restore, Elsewhere, projectVars
  <1>5. CASE Input
    <2>1. Elsewhere
      BY <1>5 DEF Input, Quit, OpenOverlay, OpenSearch, EditQuery, CloseOverlay, GoTo, TurnTab,
                  Tab, Choose, LogcatKey, Scope
    <2> QED
      BY <2>1, OthersKeepProject DEF Elsewhere, projectVars
  <1> QED
    BY <1>1, <1>2, <1>3, <1>4, <1>5 DEF Next, Interface

\* No worker watches before it has opened the project.
LEMMA InitProject == Init => ProjectInv
  <1> SUFFICES ASSUME Init PROVE ProjectInv
    OBVIOUS
  <1>1. projectEvents \in Seq(Nat)
    BY DEF Init
  <1>2. ~ Watches
    BY DEF Init, Watches
  <1>3. "model" \in DOMAIN service
    BY DEF Init, NoState
  <1> QED
    BY <1>1, <1>2, <1>3 DEF ProjectInv, EventShape, ServiceShape, LastIsKnown

\* However edits, polls, refreshes, failures and drains interleave, the screen
\* never keeps an older state than the service's, unless the channel was full.
THEOREM ProjectIsShown == Spec => []LastStateIsShown
  <1>1. ProjectInv => LastStateIsShown
    BY DEF ProjectInv, LastIsKnown, Watches, LastStateIsShown, ShownOf
  <1> QED
    BY <1>1, InitProject, NextProject, PTL DEF Spec
-----------------------------------------------------------------------------
(***************************************************************************)
(* The scope of the capture.  While the worker may still take commands and *)
(* the last request was not refused, the last command in the queue asks    *)
(* for the scope the view has, or stops the capture; with an empty queue   *)
(* the capture has that scope.                                             *)
(***************************************************************************)
Asks(command, device) ==
  command.kind = "Stop" \/ (command.kind = "SetDeviceScope" /\ command.device = device)

QueueShape == (\E R : commands \in Seq(R)) /\ (\E R : logEvents \in Seq(R))

ScopeIsAsked ==
  capture \in {"off", "preparing", "connected"} /\ ~ refused =>
    IF commands = <<>> THEN scope = view.device
    ELSE Asks(commands[Len(commands)], view.device)

ScopeInv == /\ QueueShape
            /\ "device" \in DOMAIN view
            /\ ~ started => capture = "off"
            /\ ScopeIsAsked

\* Two values of the view that differ in what is not the scope.
SameScope(v, w) == "device" \in DOMAIN v => "device" \in DOMAIN w /\ w.device = v.device

\* No key but the one for the scope changes it, and neither do lines and searches.
LEMMA ViewKeepsScope ==
  ASSUME NEW v
  PROVE  /\ \A lines : SameScope(v, Ingest(v, lines))
         /\ \A text : SameScope(v, SetSearch(v, text))
         /\ \A key \in ViewKeys : SameScope(v, HandleKey(v, key))
  <1>1. \A lines : SameScope(v, Ingest(v, lines))
    BY DEF SameScope, Ingest
  <1>2. \A text : SameScope(v, SetSearch(v, text))
    BY DEF SameScope, SetSearch
  <1>3. SameScope(v, TogglePause(v)) /\ SameScope(v, ClearView(v))
    BY DEF SameScope, TogglePause, ClearView
  <1>4. SameScope(v, ToEnd(v)) /\ SameScope(v, ScrollUp(v)) /\ SameScope(v, ScrollDown(v))
    BY DEF SameScope, ToEnd, ScrollUp, ScrollDown
  <1>5. ASSUME NEW reverse PROVE SameScope(v, SelectError(v, reverse))
    <2>1. ASSUME NEW a, NEW b
          PROVE  /\ SameScope(v, [[v EXCEPT !.follow = FALSE] EXCEPT !.selected = a])
                 /\ SameScope(v, [[v EXCEPT !.follow = FALSE] EXCEPT !.selected = a, !.scroll = b])
      BY DEF SameScope
    <2> QED
      BY <2>1 DEF SelectError
  <1>6. ASSUME NEW key \in ViewKeys PROVE SameScope(v, HandleKey(v, key))
    BY <1>3, <1>4, <1>5 DEF ViewKeys, HandleKey
  <1> QED
    BY <1>1, <1>2, <1>6

\* Nor does a drain, however many batches it takes.
LEMMA IngestedKeepsScope ==
  ASSUME NEW v, NEW s, NEW n \in Nat, DOMAIN s = 1 .. n PROVE SameScope(v, Ingested(v, s))
  <1>1. PICK run : InTurn("log", run, v, s, n) /\ Ingested(v, s) = run[n]
    BY ApplyLogInTurn
  <1>2. run[0] = v /\ \A k \in 1 .. n : run[k] = ApplyLog(run[k - 1], s[k])
    BY <1>1 DEF InTurn, Step
  <1> DEFINE T == {k \in Nat : k <= n => SameScope(v, run[k])}
  <1>3. 0 \in T
    BY <1>2 DEF SameScope
  <1>4. ASSUME NEW k \in Nat, k \in T PROVE k + 1 \in T
    <2>1. CASE k + 1 <= n
      <3>1. k + 1 \in 1 .. n /\ (k + 1) - 1 = k /\ k <= n
        BY <2>1
      <3>2. run[k + 1] = ApplyLog(run[k], s[k + 1])
        BY <3>1, <1>2
      <3>3. SameScope(run[k], ApplyLog(run[k], s[k + 1]))
        BY ViewKeepsScope DEF ApplyLog, SameScope
      <3>4. SameScope(v, run[k])
        BY <3>1, <1>4
      <3>5. SameScope(v, run[k + 1])
        BY <3>2, <3>3, <3>4 DEF SameScope
      <3> QED
        BY <3>5
    <2> QED
      BY <2>1
  <1>5. Nat \subseteq T
    <2> HIDE DEF T
    <2> QED
      BY <1>3, <1>4, SetInduction
  <1>6. SameScope(v, run[n])
    BY <1>5
  <1> QED
    BY <1>1, <1>6

\* The interface's steps that keep the queue and the scope.
LEMMA StaysAsked ==
  ASSUME ScopeInv, SameScope(view, view'), UNCHANGED <<commands, refused, scope>>,
         \E R : logEvents' \in Seq(R),
         ~ started' => capture' = "off",
         capture' \in {"off", "preparing", "connected"} =>
           capture \in {"off", "preparing", "connected"}
  PROVE  ScopeInv'
  BY DEF ScopeInv, QueueShape, ScopeIsAsked, SameScope

\* A command that is queued is the last, and one that is taken the first.
LEMMA ScopeIsFollowed == ASSUME ScopeInv, Scope PROVE ScopeInv'
  <1>0. PICK R : commands \in Seq(R)
    BY DEF ScopeInv, QueueShape
  <1>1. view' = ChangeScope(view) /\ UNCHANGED <<started, capture, scope, logEvents>>
    BY DEF Scope, Elsewhere, captureVars
  <1>2. "device" \in DOMAIN view'
    BY <1>1 DEF ScopeInv, ChangeScope
  <1>3. CASE refused' = TRUE /\ commands' = commands
    BY <1>1, <1>2, <1>3 DEF ScopeInv, QueueShape, ScopeIsAsked
  <1>4. CASE commands' = Append(commands, [kind |-> "SetDeviceScope", device |-> view'.device])
    <2> DEFINE command == [kind |-> "SetDeviceScope", device |-> view'.device]
               B == R \cup {command}
    <2>1. commands \in Seq(B)
      BY <1>0, SeqGrows
    <2>2. /\ commands' \in Seq(B) /\ Len(commands') = Len(commands) + 1
          /\ commands'[Len(commands) + 1] = command /\ Len(commands) \in Nat
      BY <1>4, <2>1, OneMore
    <2>3. commands' # <<>>
      BY <2>2
    <2>4. Asks(command, view'.device)
      BY DEF Asks
    <2>5. commands'[Len(commands')] = command
      BY <2>2
    <2> HIDE DEF command, B
    <2> QED
      BY <1>1, <1>2, <2>2, <2>3, <2>4, <2>5 DEF ScopeInv, QueueShape, ScopeIsAsked
  <1> QED
    BY <1>3, <1>4 DEF Scope

LEMMA TakenIsFollowed ==
  ASSUME ScopeInv, TakeCommand, UNCHANGED <<view, started, refused>> PROVE ScopeInv'
  <1>0. PICK R : commands \in Seq(R)
    BY DEF ScopeInv, QueueShape
  <1>1. /\ capture = "connected" /\ commands # <<>>
        /\ commands' = Tail(commands) /\ logEvents' = logEvents
    BY DEF TakeCommand
  <1>2. /\ Head(commands) = commands[1] /\ commands' \in Seq(R)
        /\ Len(commands') = Len(commands) - 1 /\ Len(commands) \in Nat /\ Len(commands) > 0
        /\ \A k \in 1 .. Len(commands) - 1 : commands'[k] = commands[k + 1]
    BY <1>0, <1>1, FirstAndOthers
  <1>3. started
    BY <1>1 DEF ScopeInv
  <1>4. CASE Head(commands).kind = "Stop"
    <2>1. capture' = "ended"
      BY <1>4 DEF TakeCommand
    <2> QED
      BY <1>1, <1>2, <1>3, <2>1 DEF ScopeInv, QueueShape, ScopeIsAsked
  <1>5. CASE Head(commands).kind # "Stop" /\ ~ refused
    <2>1. scope' = Head(commands).device /\ capture' = capture
      BY <1>5 DEF TakeCommand, ScopeAfter
    <2>2. Asks(commands[Len(commands)], view.device)
      BY <1>1, <1>5 DEF ScopeInv, ScopeIsAsked
    <2>3. CASE Len(commands) = 1
      <3>1. commands' = <<>>
        BY <1>2, <2>3
      <3>2. scope' = view.device
        BY <1>2, <1>5, <2>1, <2>2, <2>3 DEF Asks
      <3> QED
        BY <1>1, <1>2, <1>3, <2>1, <3>1, <3>2 DEF ScopeInv, QueueShape, ScopeIsAsked
    <2>4. CASE Len(commands) > 1
      <3>1. commands' # <<>>
        BY <1>2, <2>4
      <3>2. Len(commands') \in 1 .. Len(commands) - 1 /\ Len(commands') + 1 = Len(commands)
        BY <1>2, <2>4
      <3>3. commands'[Len(commands')] = commands[Len(commands)]
        BY <1>2, <3>2
      <3> QED
        BY <1>1, <1>2, <1>3, <2>1, <2>2, <3>1, <3>3 DEF ScopeInv, QueueShape, ScopeIsAsked
    <2> QED
      BY <1>2, <2>3, <2>4
  <1>6. CASE Head(commands).kind # "Stop" /\ refused
    BY <1>1, <1>2, <1>3, <1>6 DEF ScopeInv, QueueShape, ScopeIsAsked
  <1> QED
    BY <1>4, <1>5, <1>6

\* Stop is the last command there is.
LEMMA StopIsLast == ASSUME ScopeInv, StopLogcat PROVE ScopeInv'
  <1>0. PICK R : commands \in Seq(R)
    BY DEF ScopeInv, QueueShape
  <1>1. UNCHANGED <<view, started, capture, scope, refused, logEvents>>
    BY DEF StopLogcat, captureVars
  <1>2. CASE commands' = commands
    BY <1>1, <1>2 DEF ScopeInv, QueueShape, ScopeIsAsked
  <1>3. CASE commands' = Append(commands, [kind |-> "Stop"])
    <2> DEFINE command == [kind |-> "Stop"]
               B == R \cup {command}
    <2>1. commands \in Seq(B)
      BY <1>0, SeqGrows
    <2>2. /\ commands' \in Seq(B) /\ Len(commands') = Len(commands) + 1
          /\ commands'[Len(commands) + 1] = command /\ Len(commands) \in Nat
      BY <1>3, <2>1, OneMore
    <2>3. commands' # <<>>
      BY <2>2
    <2>4. Asks(command, view.device)
      BY DEF Asks
    <2>5. commands'[Len(commands')] = command
      BY <2>2
    <2> HIDE DEF command, B
    <2> QED
      BY <1>1, <2>2, <2>3, <2>4, <2>5 DEF ScopeInv, QueueShape, ScopeIsAsked
  <1> QED
    BY <1>2, <1>3 DEF StopLogcat

\* The events that wait for the interface.
LEMMA LogEventsGrow == ASSUME ScopeInv, NEW event PROVE \E R : TrySendLog(event) \in Seq(R)
  <1>1. PICK R : logEvents \in Seq(R)
    BY DEF ScopeInv, QueueShape
  <1> DEFINE B == R \cup {event}
  <1>2. logEvents \in Seq(B)
    BY <1>1, SeqGrows
  <1>3. Append(logEvents, event) \in Seq(B)
    BY <1>2, OneMore
  <1> QED
    BY <1>2, <1>3 DEF TrySendLog

\* The worker's steps.
LEMMA LogcatKeepsScope == ASSUME ScopeInv, LogcatWorker PROVE ScopeInv'
  <1>0. /\ UNCHANGED <<view, started, refused>> /\ SameScope(view, view')
        /\ \E R : logEvents \in Seq(R)
    BY DEF LogcatWorker, SameScope, ScopeInv, QueueShape
  <1>1. CASE Prepare
    <2>1. started
      BY <1>1 DEF Prepare, ScopeInv
    <2>2. \E R : logEvents' \in Seq(R)
      BY <1>1, LogEventsGrow DEF Prepare
    <2> QED
      BY <1>0, <1>1, <2>1, <2>2, StaysAsked DEF Prepare
  <1>2. CASE TakeCommand
    BY <1>0, <1>2, TakenIsFollowed
  <1>3. CASE TakeBatch
    <2>1. PICK batch : logEvents' = IF batch = <<>> THEN logEvents
                                    ELSE TrySendLog([kind |-> "Records", lines |-> batch])
      BY <1>3 DEF TakeBatch
    <2>2. \E R : logEvents' \in Seq(R)
      BY <1>0, <2>1, LogEventsGrow
    <2> QED
      BY <1>0, <1>3, <2>2, StaysAsked DEF TakeBatch, ScopeInv
  <1>4. CASE SessionEnds
    <2>1. started
      BY <1>4 DEF SessionEnds, ScopeInv
    <2> QED
      BY <1>0, <1>4, <2>1, StaysAsked DEF SessionEnds
  <1> QED
    BY <1>1, <1>2, <1>3, <1>4 DEF LogcatWorker

\* A drain takes events, and not their scope.
LEMMA DrainKeepsScope == ASSUME ScopeInv, Drain PROVE ScopeInv'
  <1>1. PICK R : logEvents \in Seq(R)
    BY DEF ScopeInv, QueueShape
  <1>2. PICK m : m = IF active = "Logcat" THEN Split(logEvents, LogDrain) ELSE 0
    OBVIOUS
  <1>3. PICK l : l = Len(logEvents)
    OBVIOUS
  <1>4. m \in Nat /\ m <= l /\ l \in Nat
    BY <1>1, <1>2, <1>3, SplitFacts, ShellAssumption
  <1>5. PICK s : s = SubSeq(logEvents, 1, m)
    OBVIOUS
  <1>6. DOMAIN s = 1 .. m
    BY <1>1, <1>3, <1>4, <1>5
  <1>7. view' = Ingested(view, s) /\ logEvents' = SubSeq(logEvents, m + 1, l)
    BY <1>2, <1>3, <1>5 DEF Drain, Ingested
  <1>8. SameScope(view, view')
    BY <1>4, <1>6, <1>7, IngestedKeepsScope
  <1>9. logEvents' \in Seq(R)
    BY <1>1, <1>3, <1>4, <1>7
  <1> QED
    BY <1>8, <1>9, StaysAsked DEF Drain, captureVars, ScopeInv

\* The first visit to Logcat starts its worker.
LEMMA GoingKeepsScope ==
  ASSUME ScopeInv, NEW w, Activate(w), UNCHANGED <<scope, logEvents>> PROVE ScopeInv'
  <1>1. UNCHANGED <<view, commands, refused>> /\ SameScope(view, view')
    BY DEF Activate, SameScope
  <1>2. \E R : logEvents' \in Seq(R)
    BY DEF ScopeInv, QueueShape
  <1>3. CASE w = "Logcat" /\ ~ started
    <2>1. started' /\ capture = "off"
      BY <1>3 DEF Activate, ScopeInv
    <2> QED
      BY <1>1, <1>2, <2>1, StaysAsked
  <1>4. CASE ~ (w = "Logcat" /\ ~ started)
    BY <1>1, <1>2, <1>4, StaysAsked DEF Activate, ScopeInv
  <1> QED
    BY <1>3, <1>4

\* The steps that leave the queue, the worker and its channel as they are.
LEMMA OthersKeepScope ==
  ASSUME ScopeInv, SameScope(view, view'),
         UNCHANGED <<commands, refused, scope, logEvents, started, capture>>
  PROVE  ScopeInv'
  BY StaysAsked DEF ScopeInv, QueueShape

\* Every input.
LEMMA InputKeepsScope == ASSUME ScopeInv, Input PROVE ScopeInv'
  <1>1. Elsewhere /\ UNCHANGED <<scope, logEvents>>
    BY DEF Input, Quit, OpenOverlay, OpenSearch, EditQuery, CloseOverlay, GoTo, TurnTab, Tab,
           Choose, LogcatKey, Scope, Elsewhere, captureVars
  <1>2. ASSUME NotLogcat PROVE ScopeInv'
    BY <1>1, <1>2, OthersKeepScope DEF NotLogcat, SameScope
  <1>3. ASSUME NEW text, Searches(text) PROVE ScopeInv'
    <2>1. SameScope(view, view')
      BY <1>3, ViewKeepsScope DEF Searches, Searched, SameScope
    <2> QED
      BY <1>1, <1>3, <2>1, OthersKeepScope DEF Searches
  <1>4. CASE Quit \/ OpenOverlay("palette", "Palette", TRUE) \/ OpenOverlay("help", "Help", FALSE)
               \/ CloseOverlay \/ TurnTab \/ Tab
    BY <1>2, <1>4 DEF Quit, OpenOverlay, CloseOverlay, TurnTab, Tab
  <1>5. CASE OpenSearch
    BY <1>3, <1>5 DEF OpenSearch
  <1>6. CASE EditQuery
    <2>1. \E text : Edited(text)
      BY <1>6 DEF EditQuery
    <2> QED
      BY <1>2, <1>3, <2>1 DEF Edited
  <1>7. CASE GoTo
    <2>1. \E w : Activate(w)
      BY <1>7 DEF GoTo
    <2> QED
      BY <1>1, <2>1, GoingKeepsScope
  <1>8. CASE Choose
    <2>1. NotLogcat \/ \E w : Activate(w)
      BY <1>8 DEF Choose
    <2> QED
      BY <1>1, <1>2, <2>1, GoingKeepsScope
  <1>9. CASE LogcatKey
    <2>1. SameScope(view, view')
      BY <1>9, ViewKeepsScope DEF LogcatKey
    <2> QED
      BY <1>1, <1>9, <2>1, OthersKeepScope DEF LogcatKey
  <1>10. CASE Scope
    BY <1>10, ScopeIsFollowed
  <1> QED
    BY <1>4, <1>5, <1>6, <1>7, <1>8, <1>9, <1>10 DEF Input

\* Every step.
LEMMA NextScope == ScopeInv /\ [Next]_vars => ScopeInv'
  <1> SUFFICES ASSUME ScopeInv, [Next]_vars PROVE ScopeInv'
    OBVIOUS
  <1>1. CASE ProjectWorker \/ Edit \/ UNCHANGED vars
    BY <1>1, OthersKeepScope DEF ProjectWorker, Edit, vars, captureVars, SameScope
  <1>2. CASE LogcatWorker
    BY <1>2, LogcatKeepsScope
  <1>3. CASE Input
    BY <1>3, InputKeepsScope
  <1>4. CASE Drain
    BY <1>4, DrainKeepsScope
  <1>5. CASE Wait \/ StopProject \/ Restore
    BY <1>5, OthersKeepScope DEF Wait, StopProject, Restore, Elsewhere, NotLogcat, captureVars,
                                 SameScope
  <1>6. CASE StopLogcat
    BY <1>6, StopIsLast
  <1> QED
    BY <1>1, <1>2, <1>3, <1>4, <1>5, <1>6 DEF Next, Interface

\* At the start the capture and the view are scoped to the application.
LEMMA InitScope == Init => ScopeInv
  <1> SUFFICES ASSUME Init PROVE ScopeInv
    OBVIOUS
  <1>1. commands \in Seq(Nat) /\ logEvents \in Seq(Nat) /\ commands = <<>>
    BY DEF Init
  <1>2. "device" \in DOMAIN view /\ view.device = FALSE /\ scope = FALSE /\ capture = "off"
    BY DEF Init, NewView
  <1> QED
    BY <1>1, <1>2 DEF ScopeInv, QueueShape, ScopeIsAsked

\* The title names the scope the capture has once the worker has taken its commands,
\* however keys, batches and refusals interleave.
THEOREM ScopeIsShown == Spec => []ScopeFollows
  <1>1. ScopeInv => ScopeFollows
    BY DEF ScopeInv, ScopeIsAsked, ScopeFollows
  <1> QED
    BY <1>1, InitScope, NextScope, PTL DEF Spec
=============================================================================
