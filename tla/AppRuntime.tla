----------------------------- MODULE AppRuntime -----------------------------
(***************************************************************************)
(* The action/effect runtime of dexdeck: the Runtime and its ActionSender  *)
(* (dexdeck-core, runtime.rs), the AppReducer it runs (app.rs), and the    *)
(* AppServices that compose it with the one effect worker and shut both    *)
(* down (dexdeck, app_services.rs).  Four actors run concurrently and meet *)
(* at two bounded channels: the runtime task receives actions, reduces     *)
(* them and sends the effects they ask for; the worker receives effects,   *)
(* runs them and dispatches their outcomes as actions; clients dispatch    *)
(* actions of their own; the owner shuts everything down.                  *)
(*                                                                         *)
(* The application state is its lifecycle: no property reads the rest.     *)
(***************************************************************************)
EXTENDS Naturals, Sequences, FiniteSets, SequencesExt

CONSTANTS ActionCapacity,   \* DEFAULT_ACTION_CAPACITY, 256 in the code
          EffectCapacity,   \* DEFAULT_EFFECT_CAPACITY, 64 in the code
          MaxClientActions  \* bound: how many actions the clients dispatch

ASSUME RuntimeAssumption ==
  /\ ActionCapacity \in Nat \ {0}
  /\ EffectCapacity \in Nat \ {0}
  /\ MaxClientActions \in Nat

VARIABLES lifecycle,      \* the lifecycle of AppState
          runtime,        \* the runtime task: "running", "returned" or "failed"
          actions,        \* the action channel
          todo,           \* the effects of the last reduction still to be sent
          effects,        \* the effect channel, of [id, effect] requests
          nextId,         \* the next effect id
          tokens,         \* the ids in the runtime's cancellation map
          cancelled,      \* the ids whose token is cancelled
          worker,         \* the worker: where it is and the request it holds
          routed,         \* the router has a service for the effects
          shutdown,       \* the shutdown token is cancelled
          owner,          \* where AppServices::shutdown is
          clientSends,    \* a client still holds a clone of the ActionSender
          clientActions   \* how many actions the clients dispatched

vars == <<lifecycle, runtime, actions, todo, effects, nextId, tokens, cancelled,
          worker, routed, shutdown, owner, clientSends, clientActions>>

runtimeVars == <<lifecycle, runtime, todo, nextId, tokens, cancelled>>
clientVars  == <<clientSends, clientActions>>

Effects    == {"DiscoverProject", "LoadProjectCache", "RefreshProjectModel"}
Outcomes   == {"Completed", "ProjectDetected", "ProjectModelLoaded", "Failed", "Cancelled"}
Lifecycles == {"Idle", "Starting", "Ready", "ShuttingDown", "Stopped"}
MaxEffects == 3   \* one start asks for at most these many effects

Start        == [kind |-> "StartRequested"]
AskShutdown  == [kind |-> "ShutdownRequested"]
EndShutdown  == [kind |-> "ShutdownCompleted"]
WorkerFailed == [kind |-> "WorkerFailed"]
Cancel(id)          == [kind |-> "CancelEffectRequested", id |-> id]
Finished(id, o)     == [kind |-> "EffectFinished", id |-> id, outcome |-> o]

ClientActions == {Start, AskShutdown} \cup {Cancel(id) : id \in 1 .. MaxEffects}
AnyAction == ClientActions \cup {EndShutdown, WorkerFailed}
                \cup {Finished(id, o) : id \in 1 .. MaxEffects, o \in Outcomes}

Requests == [id : 1 .. MaxEffects, effect : Effects]
Nothing  == [at |-> "idle"]
Gone     == [at |-> "gone"]
Executing(q)    == [at |-> "executing", request |-> q]
Failing(q)      == [at |-> "failing", request |-> q]
Reporting(q, o) == [at |-> "reporting", request |-> q, outcome |-> o]

\* What the services answer; the router reaches them only through their trait.
Answers(effect) ==
  CASE effect = "DiscoverProject"     -> {"ProjectDetected", "Failed"}
    [] effect = "LoadProjectCache"    -> {"ProjectModelLoaded", "Completed", "Failed"}
    [] effect = "RefreshProjectModel" -> {"ProjectModelLoaded", "Failed"}

\* compose: both tasks are spawned and the start is the first action.
Init == /\ lifecycle = "Idle"
        /\ runtime = "running"
        /\ actions = <<Start>>
        /\ todo = <<>>
        /\ effects = <<>>
        /\ nextId = 1
        /\ tokens = {}
        /\ cancelled = {}
        /\ worker = Nothing
        /\ routed \in BOOLEAN
        /\ shutdown = FALSE
        /\ owner = "up"
        /\ clientSends = TRUE
        /\ clientActions = 0

-----------------------------------------------------------------------------
\* A dispatch waits for room; once the runtime is gone it fails at once, and
\* no caller looks at the result.
Dispatch(a) ==
  \/ /\ runtime = "running"
     /\ Len(actions) < ActionCapacity
     /\ actions' = Append(actions, a)
  \/ /\ runtime # "running"
     /\ UNCHANGED actions

\* The effects the reducer asks for.
EffectsOf(a) ==
  IF a = Start /\ lifecycle = "Idle" THEN <<"DiscoverProject">>
  ELSE IF a.kind = "EffectFinished" /\ a.outcome = "ProjectDetected"
       THEN <<"LoadProjectCache", "RefreshProjectModel">>
       ELSE <<>>

\* The lifecycle the reducer moves to.
LifecycleAfter(a) ==
  CASE a = Start /\ lifecycle = "Idle" -> "Starting"
    [] a.kind = "EffectFinished" /\ a.outcome = "ProjectModelLoaded" -> "Ready"
    [] a = AskShutdown /\ lifecycle # "Stopped" -> "ShuttingDown"
    [] a = EndShutdown -> "Stopped"
    [] OTHER -> lifecycle

\* step, up to the effects: the target of a cancellation is cancelled if the map
\* knows it, the token of a finished effect is forgotten, the action is reduced.
Step ==
  /\ runtime = "running"
  /\ todo = <<>>
  /\ actions # <<>>
  /\ LET a == Head(actions) IN
       /\ cancelled' = IF a.kind = "CancelEffectRequested"
                       THEN cancelled \cup ({a.id} \cap tokens) ELSE cancelled
       /\ tokens' = IF a.kind = "EffectFinished" THEN tokens \ {a.id} ELSE tokens
       /\ lifecycle' = LifecycleAfter(a)
       /\ todo' = EffectsOf(a)
  /\ actions' = Tail(actions)
  /\ UNCHANGED <<runtime, effects, nextId, worker, routed, shutdown, owner, clientVars>>

\* Variant of SendEffect: the effect channel is unbounded.
SendEffectUnbounded ==
  /\ runtime = "running" /\ todo # <<>> /\ worker # Gone
  /\ effects' = Append(effects, [id |-> nextId, effect |-> Head(todo)])
  /\ todo' = Tail(todo)
  /\ nextId' = nextId + 1
  /\ tokens' = tokens \cup {nextId}
  /\ UNCHANGED <<lifecycle, runtime, actions, cancelled, worker, routed, shutdown, owner, clientVars>>

\* The effects of a step are sent one by one, each waiting for room.  The token is put into
\* the map before the wait; the map is the runtime task's own, which looks at it again only
\* after the send, so that both are one step.
SendEffect ==
  /\ runtime = "running"
  /\ todo # <<>>
  /\ worker # Gone
  /\ Len(effects) < EffectCapacity
  /\ effects' = Append(effects, [id |-> nextId, effect |-> Head(todo)])
  /\ todo' = Tail(todo)
  /\ nextId' = nextId + 1
  /\ tokens' = tokens \cup {nextId}
  /\ UNCHANGED <<lifecycle, runtime, actions, cancelled, worker, routed, shutdown, owner, clientVars>>

\* The runtime task ends and drops both channel ends with what they hold.
RuntimeEnds(how) ==
  /\ runtime' = how
  /\ actions' = <<>>
  /\ todo' = <<>>
  /\ tokens' = {}
  /\ UNCHANGED <<lifecycle, effects, nextId, cancelled, worker, routed, shutdown, owner, clientVars>>

\* The worker is gone: the send fails and run returns EffectChannelClosed.
SendFails ==
  /\ runtime = "running"
  /\ todo # <<>>
  /\ worker = Gone
  /\ RuntimeEnds("failed")

\* Variant of RunReturns: it waits for the effects that have not ended.
RunReturnsWhenIdle ==
  /\ runtime = "running" /\ todo = <<>> /\ actions = <<>> /\ tokens = {}
  /\ worker = Gone /\ owner = "waiting" /\ ~ clientSends
  /\ RuntimeEnds("returned")

\* run returns when every sender is dropped and the channel is drained.
RunReturns ==
  /\ runtime = "running"
  /\ todo = <<>>
  /\ actions = <<>>
  /\ worker = Gone
  /\ owner = "waiting"
  /\ ~ clientSends
  /\ RuntimeEnds("returned")

-----------------------------------------------------------------------------
\* The select of the worker may prefer a request even after the shutdown token
\* is cancelled.  An effect no service is routed for is skipped in silence.
Receive ==
  /\ worker = Nothing
  /\ effects # <<>>
  /\ worker' = IF routed THEN Executing(Head(effects)) ELSE Nothing
  /\ effects' = Tail(effects)
  /\ UNCHANGED <<runtimeVars, actions, routed, shutdown, owner, clientVars>>

\* The worker leaves its loop, and the requests it did not receive are dropped.
WorkerStops ==
  /\ worker = Nothing
  /\ shutdown \/ (runtime # "running" /\ effects = <<>>)
  /\ worker' = Gone
  /\ effects' = <<>>
  /\ UNCHANGED <<runtimeVars, actions, routed, shutdown, owner, clientVars>>

\* Variant of ServiceEnds: a failure is not followed by the end of the effect.
ServiceEndsFailureLost ==
  /\ worker.at = "executing"
  /\ \E o \in Answers(worker.request.effect) :
       worker' = IF o = "Failed" THEN Nothing ELSE Reporting(worker.request, o)
  /\ UNCHANGED <<runtimeVars, actions, effects, routed, shutdown, owner, clientVars>>

\* The service answers.
ServiceEnds ==
  /\ worker.at = "executing"
  /\ \E o \in Answers(worker.request.effect) :
       worker' = IF o = "Failed" THEN Failing(worker.request)
                 ELSE Reporting(worker.request, o)
  /\ UNCHANGED <<runtimeVars, actions, effects, routed, shutdown, owner, clientVars>>

\* Variant of Interrupt: the select watches the token of the shutdown.
InterruptAtShutdown ==
  /\ worker.at = "executing"
  /\ shutdown
  /\ worker' = Reporting(worker.request, "Cancelled")
  /\ UNCHANGED <<runtimeVars, actions, effects, routed, shutdown, owner, clientVars>>

\* The token wins the select and the service's future is dropped.
Interrupt ==
  /\ worker.at = "executing"
  /\ worker.request.id \in cancelled
  /\ worker' = Reporting(worker.request, "Cancelled")
  /\ UNCHANGED <<runtimeVars, actions, effects, routed, shutdown, owner, clientVars>>

\* A failure is dispatched twice: as WorkerFailed, then as the effect's end.
ReportFailure ==
  /\ worker.at = "failing"
  /\ Dispatch(WorkerFailed)
  /\ worker' = Reporting(worker.request, "Failed")
  /\ UNCHANGED <<runtimeVars, effects, routed, shutdown, owner, clientVars>>

ReportEnd ==
  /\ worker.at = "reporting"
  /\ Dispatch(Finished(worker.request.id, worker.outcome))
  /\ worker' = Nothing
  /\ UNCHANGED <<runtimeVars, effects, routed, shutdown, owner, clientVars>>

-----------------------------------------------------------------------------
\* A client dispatches an action, for as long as it holds a sender.
ClientDispatches ==
  /\ clientSends
  /\ clientActions < MaxClientActions
  /\ \E a \in ClientActions : Dispatch(a)
  /\ clientActions' = clientActions + 1
  /\ UNCHANGED <<runtimeVars, effects, worker, routed, shutdown, owner, clientSends>>

ClientLeaves ==
  /\ clientSends
  /\ clientSends' = FALSE
  /\ UNCHANGED <<runtimeVars, actions, effects, worker, routed, shutdown, owner, clientActions>>

\* The owner calls shutdown: the request is dispatched, then the token cancelled.
ShutdownBegins ==
  /\ owner = "up"
  /\ owner' = "asking"
  /\ UNCHANGED <<runtimeVars, actions, effects, worker, routed, shutdown, clientVars>>

ShutdownAsks ==
  /\ owner = "asking"
  /\ Dispatch(AskShutdown)
  /\ shutdown' = TRUE
  /\ owner' = "stopping"
  /\ UNCHANGED <<runtimeVars, effects, worker, routed, clientVars>>

\* Variant of ShutdownCompletes: the completion is dispatched only if there is room.
ShutdownCompletesIfRoom ==
  /\ owner = "stopping"
  /\ worker = Gone
  /\ IF Len(actions) < ActionCapacity THEN Dispatch(EndShutdown) ELSE UNCHANGED actions
  /\ owner' = "waiting"
  /\ UNCHANGED <<runtimeVars, effects, worker, routed, shutdown, clientVars>>

\* The worker is awaited, the completion dispatched and the owner's sender dropped.
ShutdownCompletes ==
  /\ owner = "stopping"
  /\ worker = Gone
  /\ Dispatch(EndShutdown)
  /\ owner' = "waiting"
  /\ UNCHANGED <<runtimeVars, effects, worker, routed, shutdown, clientVars>>

ShutdownReturns ==
  /\ owner = "waiting"
  /\ runtime # "running"
  /\ owner' = "down"
  /\ UNCHANGED <<runtimeVars, actions, effects, worker, routed, shutdown, clientVars>>

-----------------------------------------------------------------------------
RuntimeTask == Step \/ SendEffect \/ SendFails \/ RunReturns
WorkerTask  == Receive \/ WorkerStops \/ Interrupt \/ ReportFailure \/ ReportEnd
Owner       == ShutdownAsks \/ ShutdownCompletes \/ ShutdownReturns

Next == \/ RuntimeTask
        \/ WorkerTask
        \/ ServiceEnds
        \/ Owner
        \/ ShutdownBegins
        \/ ClientDispatches
        \/ ClientLeaves

\* tokio polls every task that can move and its channels serve waiting senders
\* in turn, so the shutdown's dispatch gets the room that is freed again and
\* again.  Nothing makes a service answer, a client leave or a shutdown begin.
Fairness == WF_vars(RuntimeTask) /\ WF_vars(WorkerTask) /\ SF_vars(Owner)

Spec == Init /\ [][Next]_vars /\ Fairness
-----------------------------------------------------------------------------
\* Every variable keeps the type its field has in the code, and neither channel
\* outgrows its capacity.
TypeOK ==
  /\ lifecycle \in Lifecycles
  /\ runtime \in {"running", "returned", "failed"}
  /\ actions \in Seq(AnyAction) /\ Len(actions) <= ActionCapacity
  /\ todo \in Seq(Effects)
  /\ effects \in Seq(Requests) /\ Len(effects) <= EffectCapacity
  /\ nextId \in 1 .. MaxEffects + 1
  /\ tokens \subseteq 1 .. MaxEffects
  /\ cancelled \subseteq 1 .. MaxEffects
  /\ worker \in {Nothing, Gone}
                  \cup {Executing(q) : q \in Requests} \cup {Failing(q) : q \in Requests}
                  \cup {Reporting(q, o) : q \in Requests, o \in Outcomes}
  /\ routed \in BOOLEAN /\ shutdown \in BOOLEAN /\ clientSends \in BOOLEAN
  /\ owner \in {"up", "asking", "stopping", "waiting", "down"}
  /\ clientActions \in 0 .. MaxClientActions

\* The requests whose end the runtime has still to hear of.
InFlight ==
  {effects[i].id : i \in DOMAIN effects}
    \cup (IF worker \in {Nothing, Gone} THEN {} ELSE {worker.request.id})
    \cup {actions[i].id : i \in {k \in DOMAIN actions : actions[k].kind = "EffectFinished"}}

\* active_effect_count is exact: the cancellation map holds precisely the effects
\* that are queued, running or being reported, so that each of them can be
\* cancelled and none is kept for ever.  Effects without a service and the
\* requests a stopped worker drops are the exceptions.
TokensMatchEffectsInFlight ==
  runtime = "running" /\ routed /\ worker # Gone => tokens = InFlight

\* A runtime that returns in good order has reduced the whole shutdown.
ReturnsStopped == runtime = "returned" => lifecycle = "Stopped"

\* A running effect whose cancellation was reduced ends even if its service
\* never answers (SPECS.md 9.1: every long-running effect has cancellation support).
CancelEndsExecution ==
  \A id \in 1 .. MaxEffects :
    id \in cancelled ~> ~ (worker.at = "executing" /\ worker.request.id = id)

Hung == worker.at = "executing"

\* shutdown returns, unless a service never answers or a client never lets go
\* of its sender: the bounded channels bring no circular wait about.
ShutdownEnds == [](owner = "asking" => <>(owner = "down" \/ []Hung \/ []clientSends))
=============================================================================
