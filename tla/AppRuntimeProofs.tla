-------------------------- MODULE AppRuntimeProofs --------------------------
(***************************************************************************)
(* What AppRuntime guarantees for any capacities of its channels and any   *)
(* number of actions of its clients.                                       *)
(*                                                                         *)
(* ReturnsStopped is not inductive: a client may still dispatch when the   *)
(* completion of the shutdown is in the channel, and an effect that ends   *)
(* late would make the application ready again.  Closing says why neither  *)
(* happens: the worker is gone before the completion is dispatched, so no  *)
(* end of an effect can stand behind it.                                   *)
(*                                                                         *)
(* TokensMatchEffectsInFlight needs that an effect is at one place at a    *)
(* time, see AtOnePlace.                                                   *)
(*                                                                         *)
(* TypeOK bounds the ids of effects: the application is idle once, so a    *)
(* project is discovered once, and only the end of its discovery asks for  *)
(* more effects, see Budget.                                               *)
(***************************************************************************)
EXTENDS AppRuntime, SequenceTheorems, TLAPS

Act == {Start, AskShutdown, EndShutdown, WorkerFailed}
         \cup {Cancel(id) : id \in Nat} \cup {Finished(id, o) : id \in Nat, o \in Outcomes}

Req == [id : Nat, effect : Effects]

\* The part of TypeOK that the argument needs, with ids that are not bounded.
ShapeOK ==
  /\ actions \in Seq(Act)
  /\ effects \in Seq(Req)
  /\ todo \in Seq(Effects)
  /\ nextId \in Nat
  /\ worker \in {Nothing, Gone}
                  \cup {Executing(q) : q \in Req} \cup {Failing(q) : q \in Req}
                  \cup {Reporting(q, o) : q \in Req, o \in Outcomes}

NoEndAfter(i) == \A j \in DOMAIN actions : j > i => actions[j].kind # "EffectFinished"

\* The completion was reduced, or is on its way with no end of an effect behind it.
Closing == \/ lifecycle = "Stopped" /\ NoEndAfter(0)
           \/ \E i \in DOMAIN actions : actions[i] = EndShutdown /\ NoEndAfter(i)

RuntimeInv ==
  /\ ShapeOK
  /\ owner \in {"waiting", "down"} => worker = Gone
  /\ owner = "down" => runtime # "running"
  /\ owner = "waiting" /\ runtime = "running" => Closing
  /\ ReturnsStopped

-----------------------------------------------------------------------------
\* Only a start is in the channel, and nobody has begun a shutdown.
LEMMA InitInv == Init => RuntimeInv
  <1> SUFFICES ASSUME Init PROVE RuntimeInv
    OBVIOUS
  <1>1. Start \in Act
    BY DEF Act
  <1>2. ShapeOK
    BY <1>1 DEF Init, ShapeOK
  <1> QED
    BY <1>2 DEF Init, RuntimeInv, ReturnsStopped

\* Only the end of an effect can undo a stopped application.
LEMMA StoppedStays ==
  ASSUME NEW a \in Act
  PROVE  /\ LifecycleAfter(EndShutdown) = "Stopped"
         /\ lifecycle = "Stopped" /\ a.kind # "EffectFinished" => LifecycleAfter(a) = "Stopped"
  BY DEF LifecycleAfter, Start, AskShutdown, EndShutdown

\* The shape of the head and of what is behind it.
LEMMA TailShape ==
  ASSUME NEW S, NEW q \in Seq(S), q # <<>>
  PROVE  /\ Head(q) \in S /\ Tail(q) \in Seq(S) /\ Head(q) = q[1]
         /\ Len(q) \in Nat /\ Len(q) >= 1
         /\ DOMAIN q = 1 .. Len(q) /\ DOMAIN Tail(q) = 1 .. Len(q) - 1
         /\ \A j \in DOMAIN Tail(q) : Tail(q)[j] = q[j + 1]
  BY HeadTailProperties

\* Every reduction keeps the completion on its way or reduces it.
LEMMA ReductionInv ==
  ASSUME RuntimeInv, Step
  PROVE  RuntimeInv'
  <1> DEFINE a == Head(actions)
  <1>1. /\ a \in Act /\ Tail(actions) \in Seq(Act) /\ a = actions[1] /\ actions # <<>>
        /\ Len(actions) \in Nat /\ Len(actions) >= 1
        /\ DOMAIN actions = 1 .. Len(actions) /\ DOMAIN Tail(actions) = 1 .. Len(actions) - 1
        /\ \A j \in DOMAIN Tail(actions) : Tail(actions)[j] = actions[j + 1]
    BY TailShape DEF Step, RuntimeInv, ShapeOK
  <1>2. /\ actions' = Tail(actions) /\ lifecycle' = LifecycleAfter(a) /\ todo' = EffectsOf(a)
        /\ UNCHANGED <<runtime, effects, nextId, worker, owner>> /\ runtime = "running"
    BY DEF Step
  <1> HIDE DEF a
  <1>3. ShapeOK'
    <2>1. EffectsOf(a) \in Seq(Effects)
      <3>1. EffectsOf(a) \in {<<>>, <<"DiscoverProject">>,
                             <<"LoadProjectCache", "RefreshProjectModel">>}
        BY DEF EffectsOf
      <3>2. <<>> \in Seq(Effects)
        OBVIOUS
      <3>3. <<"DiscoverProject">> \in Seq(Effects)
        BY DEF Effects
      <3>4. <<"LoadProjectCache", "RefreshProjectModel">> \in Seq(Effects)
        BY DEF Effects
      <3> QED
        BY <3>1, <3>2, <3>3, <3>4
    <2> QED
      BY <1>1, <1>2, <2>1 DEF RuntimeInv, ShapeOK
  <1>4. Closing => Closing'
    <2>1. CASE lifecycle = "Stopped" /\ NoEndAfter(0)
      <3>1. a.kind # "EffectFinished"
        BY <1>1, <2>1 DEF NoEndAfter
      <3>2. lifecycle' = "Stopped"
        BY <1>1, <1>2, <2>1, <3>1, StoppedStays
      <3>3. NoEndAfter(0)'
        BY <1>1, <1>2, <2>1 DEF NoEndAfter
      <3> QED
        BY <3>2, <3>3 DEF Closing
    <2>2. ASSUME NEW i \in DOMAIN actions, actions[i] = EndShutdown, NoEndAfter(i)
          PROVE  Closing'
      <3>1. CASE i = 1
        <4>1. lifecycle' = "Stopped"
          BY <1>1, <1>2, <2>2, <3>1, StoppedStays
        <4>2. NoEndAfter(0)'
          BY <1>1, <1>2, <2>2, <3>1 DEF NoEndAfter
        <4> QED
          BY <4>1, <4>2 DEF Closing
      <3>2. CASE i # 1
        <4>1. i - 1 \in DOMAIN actions' /\ actions'[i - 1] = EndShutdown
          BY <1>1, <1>2, <2>2, <3>2
        <4>2. NoEndAfter(i - 1)'
          BY <1>1, <1>2, <2>2, <3>2 DEF NoEndAfter
        <4> QED
          BY <4>1, <4>2 DEF Closing
      <3> QED
        BY <3>1, <3>2
    <2> QED
      BY <2>1, <2>2 DEF Closing
  <1> QED
    BY <1>2, <1>3, <1>4 DEF RuntimeInv, ReturnsStopped

\* An action joins the channel: the end of an effect comes from a living worker.
LEMMA DispatchKeepsClosing ==
  ASSUME ShapeOK, NEW a \in Act, Dispatch(a), UNCHANGED lifecycle,
         a.kind # "EffectFinished", Closing
  PROVE  Closing'
  <1>1. CASE UNCHANGED actions
    BY <1>1 DEF Closing, NoEndAfter
  <1>2. CASE actions' = Append(actions, a)
    <2>1. /\ Len(actions) \in Nat /\ DOMAIN actions = 1 .. Len(actions)
          /\ DOMAIN actions' = 1 .. Len(actions) + 1
          /\ actions'[Len(actions) + 1] = a
          /\ \A j \in DOMAIN actions : actions'[j] = actions[j]
      BY <1>2 DEF ShapeOK
    <2>2. \A i \in {0} \cup DOMAIN actions : NoEndAfter(i) => NoEndAfter(i)'
      BY <2>1 DEF NoEndAfter
    <2> QED
      BY <2>1, <2>2 DEF Closing
  <1> QED
    BY <1>1, <1>2 DEF Dispatch

\* A dispatched action keeps the channel a sequence of actions.
LEMMA DispatchShape ==
  ASSUME actions \in Seq(Act), NEW a \in Act, Dispatch(a)
  PROVE  actions' \in Seq(Act)
  BY DEF Dispatch

\* The steps of the runtime task besides the reduction.
LEMMA RuntimeTaskInv ==
  ASSUME RuntimeInv, SendEffect \/ SendFails \/ RunReturns
  PROVE  RuntimeInv'
  <1>1. CASE SendEffect
    <2>1. [id |-> nextId, effect |-> Head(todo)] \in Req /\ Tail(todo) \in Seq(Effects)
      BY <1>1, TailShape DEF SendEffect, RuntimeInv, ShapeOK, Req
    <2>2. ShapeOK'
      BY <1>1, <2>1 DEF SendEffect, RuntimeInv, ShapeOK
    <2> QED
      BY <1>1, <2>2 DEF SendEffect, RuntimeInv, ReturnsStopped, Closing, NoEndAfter
  <1>2. CASE SendFails
    BY <1>2 DEF SendFails, RuntimeEnds, RuntimeInv, ShapeOK, ReturnsStopped
  <1>3. CASE RunReturns
    <2>1. lifecycle = "Stopped"
      BY <1>3 DEF RunReturns, RuntimeInv, Closing
    <2> QED
      BY <1>3, <2>1 DEF RunReturns, RuntimeEnds, RuntimeInv, ShapeOK, ReturnsStopped
  <1> QED
    BY <1>1, <1>2, <1>3

\* The worker reports the ends of effects, and only while it lives.
LEMMA WorkerInv ==
  ASSUME RuntimeInv, WorkerTask \/ ServiceEnds
  PROVE  RuntimeInv'
  <1>1. CASE Receive
    <2>1. Head(effects) \in Req /\ Tail(effects) \in Seq(Req)
      BY <1>1, TailShape DEF Receive, RuntimeInv, ShapeOK
    <2> QED
      BY <1>1, <2>1 DEF Receive, runtimeVars, RuntimeInv, ShapeOK, ReturnsStopped, Nothing, Gone
  <1>2. CASE WorkerStops
    BY <1>2 DEF WorkerStops, runtimeVars, RuntimeInv, ShapeOK, ReturnsStopped, Closing,
                NoEndAfter
  <1>3. CASE ServiceEnds \/ Interrupt
    <2>1. PICK q \in Req : worker = Executing(q)
      BY <1>3 DEF ServiceEnds, Interrupt, RuntimeInv, ShapeOK, Nothing, Gone, Failing, Reporting
    <2>2. worker.request = q /\ worker # Gone
      BY <2>1 DEF Executing, Gone
    <2>3. worker' = Failing(q) \/ \E o \in Outcomes : worker' = Reporting(q, o)
      BY <1>3, <2>2 DEF ServiceEnds, Interrupt, Answers, Outcomes, Req, Effects
    <2> QED
      BY <1>3, <2>2, <2>3
      DEF ServiceEnds, Interrupt, runtimeVars, RuntimeInv, ShapeOK, ReturnsStopped
  <1>4. CASE ReportFailure \/ ReportEnd
    <2>1. PICK q \in Req, o \in Outcomes : worker \in {Failing(q), Reporting(q, o)}
      BY <1>4 DEF ReportFailure, ReportEnd, RuntimeInv, ShapeOK, Nothing, Gone, Executing,
                  Failing, Outcomes
    <2>2. worker # Gone /\ worker.request = q
      BY <2>1 DEF Failing, Reporting, Gone
    <2>3. CASE ReportFailure
      <3>1. WorkerFailed \in Act /\ "Failed" \in Outcomes
        BY DEF Act, Outcomes
      <3> QED
        BY <2>2, <2>3, <3>1, DispatchShape
        DEF ReportFailure, runtimeVars, RuntimeInv, ShapeOK, ReturnsStopped
    <2>4. CASE ReportEnd
      <3>1. worker = Reporting(q, o)
        BY <2>1, <2>4 DEF ReportEnd, Failing
      <3>2. Finished(worker.request.id, worker.outcome) \in Act
        BY <3>1 DEF Act, Reporting, Req
      <3> QED
        BY <2>2, <2>4, <3>2, DispatchShape
        DEF ReportEnd, runtimeVars, RuntimeInv, ShapeOK, ReturnsStopped
    <2> QED
      BY <1>4, <2>3, <2>4
  <1> QED
    BY <1>1, <1>2, <1>3, <1>4 DEF WorkerTask

\* The owner dispatches the completion after it saw the worker gone.
LEMMA OwnerInv ==
  ASSUME RuntimeInv, Owner \/ ShutdownBegins
  PROVE  RuntimeInv'
  <1>1. CASE ShutdownBegins
    BY <1>1 DEF ShutdownBegins, runtimeVars, RuntimeInv, ShapeOK, ReturnsStopped
  <1>2. CASE ShutdownAsks
    <2>1. AskShutdown \in Act
      BY DEF Act
    <2> QED
      BY <1>2, <2>1, DispatchShape
      DEF ShutdownAsks, runtimeVars, RuntimeInv, ShapeOK, ReturnsStopped
  <1>3. CASE ShutdownCompletes
    <2>1. EndShutdown \in Act
      BY DEF Act
    <2>2. ShapeOK'
      BY <1>3, <2>1, DispatchShape DEF ShutdownCompletes, runtimeVars, RuntimeInv, ShapeOK
    <2>3. runtime = "running" => Closing'
      <3>1. SUFFICES ASSUME runtime = "running" PROVE Closing'
        OBVIOUS
      <3>2. actions' = Append(actions, EndShutdown)
        BY <1>3, <3>1 DEF ShutdownCompletes, Dispatch
      <3>3. /\ Len(actions) \in Nat /\ DOMAIN actions' = 1 .. Len(actions) + 1
            /\ actions'[Len(actions) + 1] = EndShutdown
        BY <3>2 DEF RuntimeInv, ShapeOK
      <3> QED
        BY <3>3 DEF Closing, NoEndAfter
    <2> QED
      BY <1>3, <2>2, <2>3 DEF ShutdownCompletes, runtimeVars, RuntimeInv, ReturnsStopped
  <1>4. CASE ShutdownReturns
    BY <1>4 DEF ShutdownReturns, runtimeVars, RuntimeInv, ShapeOK, ReturnsStopped
  <1> QED
    BY <1>1, <1>2, <1>3, <1>4 DEF Owner

\* Clients ask for starts, cancellations and shutdowns only.
LEMMA ClientInv ==
  ASSUME RuntimeInv, ClientDispatches \/ ClientLeaves
  PROVE  RuntimeInv'
  <1>1. CASE ClientLeaves
    BY <1>1 DEF ClientLeaves, runtimeVars, RuntimeInv, ShapeOK, ReturnsStopped, Closing,
                NoEndAfter
  <1>2. CASE ClientDispatches
    <2>1. PICK a \in ClientActions : Dispatch(a)
      BY <1>2 DEF ClientDispatches
    <2>2. a \in Act /\ a.kind # "EffectFinished"
      BY <2>1 DEF ClientActions, Act, Start, AskShutdown, Cancel, MaxEffects
    <2>3. UNCHANGED <<lifecycle, runtime, todo, nextId, effects, worker, owner>>
      BY <1>2 DEF ClientDispatches, runtimeVars
    <2>4. ShapeOK'
      BY <2>1, <2>2, <2>3, DispatchShape DEF RuntimeInv, ShapeOK
    <2>5. Closing => Closing'
      BY <2>1, <2>2, <2>3, DispatchKeepsClosing DEF RuntimeInv
    <2> QED
      BY <2>3, <2>4, <2>5 DEF RuntimeInv, ReturnsStopped
  <1> QED
    BY <1>1, <1>2

\* Every step of the four actors.
LEMMA StepInv == RuntimeInv /\ [Next]_vars => RuntimeInv'
  <1> SUFFICES ASSUME RuntimeInv, [Next]_vars PROVE RuntimeInv'
    OBVIOUS
  <1>1. CASE RuntimeTask
    BY <1>1, ReductionInv, RuntimeTaskInv DEF RuntimeTask
  <1>2. CASE WorkerTask \/ ServiceEnds
    BY <1>2, WorkerInv
  <1>3. CASE Owner \/ ShutdownBegins
    BY <1>3, OwnerInv
  <1>4. CASE ClientDispatches \/ ClientLeaves
    BY <1>4, ClientInv
  <1>5. CASE UNCHANGED vars
    BY <1>5 DEF vars, RuntimeInv, ShapeOK, ReturnsStopped, Closing, NoEndAfter
  <1> QED
    BY <1>1, <1>2, <1>3, <1>4, <1>5 DEF Next

-----------------------------------------------------------------------------
\* A runtime that returns in good order has reduced the whole shutdown, whatever
\* the clients dispatch meanwhile and whenever the effects end.
THEOREM ReturnedMeansStopped == Spec => []ReturnsStopped
  <1>1. RuntimeInv => ReturnsStopped
    BY DEF RuntimeInv
  <1> QED
    BY <1>1, InitInv, StepInv, PTL DEF Spec

-----------------------------------------------------------------------------
\* Where an effect can be between the step that asks for it and the one that
\* hears of its end: in the channel, with the worker, or on its way back.
Queued    == {effects[i].id : i \in DOMAIN effects}
InHand    == IF worker \in {Nothing, Gone} THEN {} ELSE {worker.request.id}
Ending(i) == actions[i].kind = "EffectFinished"
Returned  == {actions[i].id : i \in {k \in DOMAIN actions : Ending(k)}}
Flying    == Queued \cup InHand \cup Returned

\* TokensMatchEffectsInFlight is not inductive: the end of an effect removes the
\* token, so the effect must not be anywhere else too.  It is at one place, and
\* its id was given out before.
AtOnePlace ==
  /\ \A i, j \in DOMAIN effects : effects[i].id = effects[j].id => i = j
  /\ \A i, j \in DOMAIN actions :
       Ending(i) /\ Ending(j) /\ actions[i].id = actions[j].id => i = j
  /\ \A id \in Nat : /\ ~ (id \in Queued /\ id \in InHand)
                     /\ ~ (id \in Queued /\ id \in Returned)
                     /\ ~ (id \in InHand /\ id \in Returned)
                     /\ id \in Flying => id < nextId

Exact == /\ tokens \subseteq Nat
         /\ runtime = "running" /\ routed /\ worker # Gone
              => \A id \in Nat : id \in tokens <=> id \in Flying

TokenInv == ShapeOK /\ AtOnePlace /\ Exact

\* No effect has been asked for.
LEMMA TokenInit == Init => TokenInv
  <1> SUFFICES ASSUME Init PROVE TokenInv
    OBVIOUS
  <1>1. ShapeOK
    BY InitInv DEF RuntimeInv
  <1>2. /\ effects = <<>> /\ DOMAIN effects = {} /\ worker = Nothing /\ tokens = {}
        /\ DOMAIN actions = {1} /\ actions[1].kind = "StartRequested"
    BY DEF Init, Start
  <1>3. \A id \in Nat : id \notin Flying
    BY <1>2 DEF Flying, Queued, InHand, Returned, Ending
  <1>4. AtOnePlace
    BY <1>2, <1>3 DEF AtOnePlace, Flying
  <1> QED
    BY <1>1, <1>2, <1>3, <1>4 DEF TokenInv, Exact

\* What the worker holds.
LEMMA Hand ==
  ASSUME NEW q \in Req, NEW o
  PROVE  /\ Executing(q) \notin {Nothing, Gone} /\ Executing(q).request = q
         /\ Failing(q) \notin {Nothing, Gone} /\ Failing(q).request = q
         /\ Reporting(q, o) \notin {Nothing, Gone} /\ Reporting(q, o).request = q
         /\ q.id \in Nat
  BY DEF Executing, Failing, Reporting, Nothing, Gone, Req

\* The end that is reduced takes its effect out of flight and nothing else.
LEMMA ReductionTokens ==
  ASSUME TokenInv, Step, ShapeOK'
  PROVE  TokenInv'
  <1>1. PICK a : a = Head(actions)
    OBVIOUS
  <1>2. /\ a = actions[1] /\ a \in Act /\ actions \in Seq(Act)
        /\ Len(actions) \in Nat /\ Len(actions) >= 1
        /\ DOMAIN actions = 1 .. Len(actions) /\ DOMAIN actions' = 1 .. Len(actions) - 1
        /\ \A j \in DOMAIN actions' : actions'[j] = actions[j + 1]
    BY <1>1, TailShape DEF Step, TokenInv, ShapeOK
  <1>3. /\ UNCHANGED <<effects, worker, nextId, runtime, routed>>
        /\ tokens' = IF a.kind = "EffectFinished" THEN tokens \ {a.id} ELSE tokens
    BY <1>1 DEF Step
  <1>4. \A i, j \in DOMAIN actions' :
          Ending(i)' /\ Ending(j)' /\ actions'[i].id = actions'[j].id => i = j
    <2> SUFFICES ASSUME NEW i \in DOMAIN actions', NEW j \in DOMAIN actions',
                        Ending(i)', Ending(j)', actions'[i].id = actions'[j].id
                 PROVE  i = j
      OBVIOUS
    <2>1. i + 1 \in DOMAIN actions /\ j + 1 \in DOMAIN actions /\ i \in Int /\ j \in Int
      BY <1>2
    <2>2. Ending(i + 1) /\ Ending(j + 1) /\ actions[i + 1].id = actions[j + 1].id
      BY <1>2 DEF Ending
    <2>3. i + 1 = j + 1
      BY <2>1, <2>2 DEF TokenInv, AtOnePlace
    <2> QED
      BY <2>1, <2>3
  <1>5. ASSUME NEW id \in Nat
        PROVE  id \in Returned' <=> id \in Returned /\ ~ (Ending(1) /\ a.id = id)
    <2>1. ASSUME id \in Returned' PROVE id \in Returned /\ ~ (Ending(1) /\ a.id = id)
      <3>1. PICK i \in DOMAIN actions' : Ending(i)' /\ actions'[i].id = id
        BY <2>1 DEF Returned
      <3>2. i + 1 \in DOMAIN actions /\ i + 1 # 1 /\ 1 \in DOMAIN actions
        BY <1>2
      <3>3. Ending(i + 1) /\ actions[i + 1].id = id
        BY <1>2, <3>1 DEF Ending
      <3> QED
        BY <1>2, <3>2, <3>3 DEF Returned, TokenInv, AtOnePlace
    <2>2. ASSUME id \in Returned, ~ (Ending(1) /\ a.id = id) PROVE id \in Returned'
      <3>1. PICK i \in DOMAIN actions : Ending(i) /\ actions[i].id = id
        BY <2>2 DEF Returned
      <3>2. i # 1
        BY <1>2, <2>2, <3>1
      <3>3. i - 1 \in DOMAIN actions' /\ actions'[i - 1] = actions[i]
        BY <1>2, <3>2
      <3> QED
        BY <3>1, <3>3 DEF Returned, Ending
    <2> QED
      BY <2>1, <2>2
  <1>6. \A id \in Nat : (id \in Queued' <=> id \in Queued) /\ (id \in InHand' <=> id \in InHand)
    BY <1>3 DEF Queued, InHand
  <1>7. AtOnePlace'
    <2>1. \A i, j \in DOMAIN effects' : effects'[i].id = effects'[j].id => i = j
      BY <1>3 DEF TokenInv, AtOnePlace
    <2>2. ASSUME NEW id \in Nat
          PROVE  /\ ~ (id \in Queued' /\ id \in InHand')
                 /\ ~ (id \in Queued' /\ id \in Returned')
                 /\ ~ (id \in InHand' /\ id \in Returned')
                 /\ id \in Flying' => id < nextId'
      BY <1>3, <1>5, <1>6 DEF TokenInv, AtOnePlace, Flying
    <2> QED
      BY <2>1, <2>2, <1>4 DEF AtOnePlace
  <1>8. Exact'
    <2>1. CASE Ending(1)
      <3>0. a.id \in Nat
        <4>1. a \in {Finished(id, o) : id \in Nat, o \in Outcomes}
          BY <1>2, <2>1 DEF Act, Ending, Start, AskShutdown, EndShutdown, WorkerFailed, Cancel
        <4> QED
          BY <4>1 DEF Finished
      <3>1. a.id \in Nat /\ a.id \in Returned
        BY <1>2, <2>1, <3>0 DEF Returned
      <3>2. a.id \notin Queued /\ a.id \notin InHand
        BY <3>1 DEF TokenInv, AtOnePlace
      <3>3. tokens' = tokens \ {a.id}
        BY <1>2, <1>3, <2>1 DEF Ending
      <3>4. \A id \in Nat : id \in Flying' <=> id \in Flying /\ id # a.id
        BY <1>5, <1>6, <2>1, <3>2 DEF Flying
      <3> QED
        BY <1>3, <3>3, <3>4 DEF TokenInv, Exact
    <2>2. CASE ~ Ending(1)
      <3>1. \A id \in Nat : id \in Flying' <=> id \in Flying
        BY <1>5, <1>6, <2>2 DEF Flying
      <3> QED
        BY <1>2, <1>3, <2>2, <3>1 DEF TokenInv, Exact, Ending
    <2> QED
      BY <2>1, <2>2
  <1> QED
    BY <1>7, <1>8 DEF TokenInv

\* A new effect gets a new id, and its token with it.
LEMMA SendTokens ==
  ASSUME TokenInv, SendEffect, ShapeOK'
  PROVE  TokenInv'
  <1>1. PICK e : e = [id |-> nextId, effect |-> Head(todo)]
    OBVIOUS
  <1>2. /\ effects \in Seq(Req) /\ Len(effects) \in Nat /\ nextId \in Nat
        /\ DOMAIN effects = 1 .. Len(effects)
    BY DEF TokenInv, ShapeOK
  <1>3. /\ effects' = Append(effects, e) /\ e.id = nextId
        /\ nextId' = nextId + 1 /\ tokens' = tokens \cup {nextId}
        /\ UNCHANGED <<actions, worker, runtime, routed>>
    BY <1>1 DEF SendEffect
  <1>4. /\ DOMAIN effects' = 1 .. Len(effects) + 1 /\ effects'[Len(effects) + 1].id = nextId
        /\ \A i \in 1 .. Len(effects) : effects'[i] = effects[i]
    BY <1>2, <1>3
  <1>5. \A id \in Nat : (id \in Returned' <=> id \in Returned) /\ (id \in InHand' <=> id \in InHand)
    BY <1>3 DEF Returned, Ending, InHand
  <1>6. \A id \in Nat : id \in Queued' <=> id \in Queued \/ id = nextId
    BY <1>2, <1>4 DEF Queued
  <1>7. nextId \notin Flying
    BY <1>2 DEF TokenInv, AtOnePlace
  <1>8. AtOnePlace'
    <2>1. ASSUME NEW i \in DOMAIN effects', NEW j \in DOMAIN effects',
                 effects'[i].id = effects'[j].id
          PROVE  i = j
      <3>1. \A k \in 1 .. Len(effects) : effects[k].id # nextId
        BY <1>2, <1>7 DEF Flying, Queued
      <3>2. \A k \in 1 .. Len(effects) : effects'[k].id # nextId
        BY <1>4, <3>1
      <3>3. CASE i \in 1 .. Len(effects) /\ j \in 1 .. Len(effects)
        BY <2>1, <3>3, <1>2, <1>4 DEF TokenInv, AtOnePlace
      <3>4. CASE i = Len(effects) + 1 /\ j = Len(effects) + 1
        BY <3>4
      <3> QED
        BY <2>1, <3>2, <3>3, <3>4, <1>2, <1>4
    <2>2. \A i, j \in DOMAIN actions' :
            Ending(i)' /\ Ending(j)' /\ actions'[i].id = actions'[j].id => i = j
      BY <1>3 DEF TokenInv, AtOnePlace, Ending
    <2>3. ASSUME NEW id \in Nat
          PROVE  /\ ~ (id \in Queued' /\ id \in InHand')
                 /\ ~ (id \in Queued' /\ id \in Returned')
                 /\ ~ (id \in InHand' /\ id \in Returned')
                 /\ id \in Flying' => id < nextId'
      BY <1>2, <1>3, <1>5, <1>6, <1>7 DEF TokenInv, AtOnePlace, Flying
    <2> QED
      BY <2>1, <2>2, <2>3 DEF AtOnePlace
  <1>9. Exact'
    <2>1. \A id \in Nat : id \in Flying' <=> id \in Flying \/ id = nextId
      BY <1>5, <1>6 DEF Flying
    <2> QED
      BY <2>1, <1>2, <1>3 DEF TokenInv, Exact
  <1> QED
    BY <1>8, <1>9 DEF TokenInv

\* The worker takes the oldest request; without a service for it the request is
\* dropped, and Exact says nothing.
LEMMA ReceiveTokens ==
  ASSUME TokenInv, Receive, ShapeOK'
  PROVE  TokenInv'
  <1>1. PICK q : q = Head(effects)
    OBVIOUS
  <1>2. /\ q = effects[1] /\ q \in Req /\ q.id \in Nat
        /\ Len(effects) \in Nat /\ Len(effects) >= 1
        /\ DOMAIN effects = 1 .. Len(effects) /\ DOMAIN effects' = 1 .. Len(effects) - 1
        /\ \A j \in DOMAIN effects' : effects'[j] = effects[j + 1]
    <2>1. /\ effects \in Seq(Req) /\ effects # <<>> /\ effects' = Tail(effects)
      BY DEF Receive, TokenInv, ShapeOK
    <2>2. q \in Req
      BY <1>1, <2>1, TailShape
    <2> QED
      BY <1>1, <2>1, <2>2, TailShape DEF Req
  <1>3. /\ worker = Nothing /\ worker' = IF routed THEN Executing(q) ELSE Nothing
        /\ UNCHANGED <<actions, tokens, nextId, runtime, routed>>
    BY <1>1 DEF Receive, runtimeVars
  <1>4. \A id \in Nat :
          /\ id \in Returned' <=> id \in Returned
          /\ id \notin InHand
          /\ id \in InHand' <=> routed /\ id = q.id
    BY <1>2, <1>3, Hand DEF Returned, Ending, InHand
  <1>5. ASSUME NEW id \in Nat PROVE id \in Queued' <=> id \in Queued /\ id # q.id
    <2>1. ASSUME id \in Queued' PROVE id \in Queued /\ id # q.id
      <3>1. PICK i \in DOMAIN effects' : effects'[i].id = id
        BY <2>1 DEF Queued
      <3>2. i + 1 \in DOMAIN effects /\ i + 1 # 1 /\ 1 \in DOMAIN effects
            /\ effects[i + 1].id = id
        BY <1>2, <3>1
      <3> QED
        BY <1>2, <3>2 DEF Queued, TokenInv, AtOnePlace
    <2>2. ASSUME id \in Queued, id # q.id PROVE id \in Queued'
      <3>1. PICK i \in DOMAIN effects : effects[i].id = id
        BY <2>2 DEF Queued
      <3>2. i - 1 \in DOMAIN effects' /\ effects'[i - 1] = effects[i]
        BY <1>2, <2>2, <3>1
      <3> QED
        BY <3>1, <3>2 DEF Queued
    <2> QED
      BY <2>1, <2>2
  <1>6. q.id \in Queued
    BY <1>2 DEF Queued
  <1>7. AtOnePlace'
    <2>1. ASSUME NEW i \in DOMAIN effects', NEW j \in DOMAIN effects',
                 effects'[i].id = effects'[j].id
          PROVE  i = j
      <3>1. /\ i + 1 \in DOMAIN effects /\ j + 1 \in DOMAIN effects /\ i \in Int /\ j \in Int
            /\ effects[i + 1].id = effects[j + 1].id
        BY <1>2, <2>1
      <3>2. i + 1 = j + 1
        BY <3>1 DEF TokenInv, AtOnePlace
      <3> QED
        BY <3>1, <3>2
    <2>2. \A i, j \in DOMAIN actions' :
            Ending(i)' /\ Ending(j)' /\ actions'[i].id = actions'[j].id => i = j
      BY <1>3 DEF TokenInv, AtOnePlace, Ending
    <2>3. ASSUME NEW id \in Nat
          PROVE  /\ ~ (id \in Queued' /\ id \in InHand')
                 /\ ~ (id \in Queued' /\ id \in Returned')
                 /\ ~ (id \in InHand' /\ id \in Returned')
                 /\ id \in Flying' => id < nextId'
      BY <1>3, <1>4, <1>5, <1>6 DEF TokenInv, AtOnePlace, Flying
    <2> QED
      BY <2>1, <2>2, <2>3 DEF AtOnePlace
  <1>8. Exact'
    <2>1. ASSUME routed, NEW id \in Nat PROVE id \in Flying' <=> id \in Flying
      BY <1>2, <1>4, <1>5, <1>6, <2>1 DEF Flying
    <2>2. worker # Gone
      BY <1>3 DEF Nothing, Gone
    <2> QED
      BY <1>3, <2>1, <2>2 DEF TokenInv, Exact
  <1> QED
    BY <1>7, <1>8 DEF TokenInv

\* The end of an effect goes from the worker's hand into the channel.
LEMMA ReportTokens ==
  ASSUME TokenInv, ReportEnd, ShapeOK'
  PROVE  TokenInv'
  <1>1. PICK q \in Req, o \in Outcomes : worker = Reporting(q, o)
    BY DEF ReportEnd, TokenInv, ShapeOK, Nothing, Gone, Executing, Failing
  <1>2. /\ worker.request = q /\ worker \notin {Nothing, Gone} /\ q.id \in Nat
        /\ worker.outcome = o
    BY <1>1, Hand DEF Reporting
  <1>3. /\ worker' = Nothing /\ UNCHANGED <<effects, tokens, nextId, runtime, routed>>
        /\ Dispatch(Finished(q.id, o))
    BY <1>2 DEF ReportEnd, runtimeVars
  <1>4. \A id \in Nat :
          /\ id \in Queued' <=> id \in Queued
          /\ id \in InHand <=> id = q.id
          /\ id \notin InHand'
    BY <1>2, <1>3 DEF Queued, InHand
  <1>5. \A i, j \in DOMAIN effects' : effects'[i].id = effects'[j].id => i = j
    BY <1>3 DEF TokenInv, AtOnePlace
  <1>6. CASE runtime # "running"
    <2>1. actions' = actions
      BY <1>3, <1>6 DEF Dispatch
    <2>2. \A id \in Nat : id \in Returned' <=> id \in Returned
      BY <2>1 DEF Returned, Ending
    <2>3. \A i, j \in DOMAIN actions' :
            Ending(i)' /\ Ending(j)' /\ actions'[i].id = actions'[j].id => i = j
      BY <2>1 DEF TokenInv, AtOnePlace, Ending
    <2>4. AtOnePlace'
      BY <2>2, <2>3, <1>3, <1>4, <1>5 DEF TokenInv, AtOnePlace, Flying
    <2> QED
      BY <2>4, <1>3, <1>6 DEF TokenInv, Exact
  <1>7. CASE runtime = "running"
    <2>1. /\ actions' = Append(actions, Finished(q.id, o))
          /\ actions \in Seq(Act) /\ Len(actions) \in Nat /\ DOMAIN actions = 1 .. Len(actions)
      BY <1>3, <1>7 DEF Dispatch, TokenInv, ShapeOK
    <2>2. /\ DOMAIN actions' = 1 .. Len(actions) + 1
          /\ actions'[Len(actions) + 1].kind = "EffectFinished"
          /\ actions'[Len(actions) + 1].id = q.id
          /\ \A i \in 1 .. Len(actions) : actions'[i] = actions[i]
      BY <2>1 DEF Finished
    <2>3. \A id \in Nat : id \in Returned' <=> id \in Returned \/ id = q.id
      BY <2>1, <2>2 DEF Returned, Ending
    <2>4. q.id \notin Returned
      BY <1>2, <1>4 DEF TokenInv, AtOnePlace
    <2>5. ASSUME NEW i \in DOMAIN actions', NEW j \in DOMAIN actions',
                 Ending(i)', Ending(j)', actions'[i].id = actions'[j].id
          PROVE  i = j
      <3>1. \A k \in 1 .. Len(actions) : Ending(k)' => actions'[k].id # q.id
        BY <2>1, <2>2, <2>4 DEF Returned, Ending
      <3>2. CASE i \in 1 .. Len(actions) /\ j \in 1 .. Len(actions)
        BY <2>1, <2>2, <2>5, <3>2 DEF TokenInv, AtOnePlace, Ending
      <3>3. CASE i = Len(actions) + 1 /\ j = Len(actions) + 1
        BY <3>3
      <3> QED
        BY <2>1, <2>2, <2>5, <3>1, <3>2, <3>3
    <2>6. ASSUME NEW id \in Nat
          PROVE  /\ ~ (id \in Queued' /\ id \in InHand')
                 /\ ~ (id \in Queued' /\ id \in Returned')
                 /\ ~ (id \in InHand' /\ id \in Returned')
                 /\ id \in Flying' => id < nextId'
      BY <1>3, <1>4, <2>3 DEF TokenInv, AtOnePlace, Flying
    <2>7. AtOnePlace'
      BY <2>5, <2>6, <1>5 DEF AtOnePlace
    <2>8. \A id \in Nat : id \in Flying' <=> id \in Flying
      BY <1>4, <2>3 DEF Flying
    <2> QED
      BY <2>7, <2>8, <1>2, <1>3 DEF TokenInv, Exact
  <1> QED
    BY <1>6, <1>7

\* Any other action joins the channel without touching an effect.
LEMMA DispatchTokens ==
  ASSUME TokenInv, ShapeOK', NEW a \in Act, a.kind # "EffectFinished", Dispatch(a),
         UNCHANGED <<effects, tokens, nextId, runtime, routed>>, InHand' = InHand,
         worker' = Gone <=> worker = Gone
  PROVE  TokenInv'
  <1>1. CASE actions' = actions
    <2>1. Queued' = Queued /\ Returned' = Returned /\ Flying' = Flying
      BY <1>1 DEF Queued, Returned, Ending, Flying
    <2>2. AtOnePlace'
      BY <1>1, <2>1 DEF TokenInv, AtOnePlace, Ending
    <2> QED
      BY <2>1, <2>2 DEF TokenInv, Exact
  <1>2. CASE actions' = Append(actions, a)
    <2>1. /\ Len(actions) \in Nat /\ DOMAIN actions = 1 .. Len(actions)
          /\ DOMAIN actions' = 1 .. Len(actions) + 1 /\ actions'[Len(actions) + 1] = a
          /\ \A i \in 1 .. Len(actions) : actions'[i] = actions[i]
      BY <1>2 DEF TokenInv, ShapeOK
    <2>2. \A i \in DOMAIN actions' : Ending(i)' <=> i \in DOMAIN actions /\ Ending(i)
      BY <2>1 DEF Ending
    <2>3. Queued' = Queued /\ Returned' = Returned /\ Flying' = Flying
      BY <2>1, <2>2 DEF Queued, Returned, Flying
    <2>4. \A i, j \in DOMAIN actions' :
            Ending(i)' /\ Ending(j)' /\ actions'[i].id = actions'[j].id => i = j
      BY <2>1, <2>2 DEF TokenInv, AtOnePlace
    <2>5. AtOnePlace'
      BY <2>3, <2>4 DEF TokenInv, AtOnePlace
    <2> QED
      BY <2>3, <2>5 DEF TokenInv, Exact
  <1> QED
    BY <1>1, <1>2 DEF Dispatch

\* A runtime that has ended, and a worker that has stopped, promise nothing.
LEMMA EndTokens ==
  ASSUME TokenInv, SendFails \/ RunReturns \/ WorkerStops, ShapeOK'
  PROVE  TokenInv'
  <1>1. CASE SendFails \/ RunReturns
    <2>1. /\ actions' = <<>> /\ tokens' = {} /\ runtime' # "running"
          /\ UNCHANGED <<effects, worker, nextId>>
      BY <1>1 DEF SendFails, RunReturns, RuntimeEnds
    <2>2. DOMAIN actions' = {}
      BY <2>1
    <2>3. Queued' = Queued /\ InHand' = InHand /\ Returned' = {}
      BY <2>1, <2>2 DEF Queued, InHand, Returned
    <2>4. Flying' \subseteq Flying
      BY <2>3 DEF Flying
    <2>5. AtOnePlace'
      BY <2>1, <2>2, <2>3, <2>4 DEF TokenInv, AtOnePlace
    <2> QED
      BY <2>1, <2>5 DEF TokenInv, Exact
  <1>2. CASE WorkerStops
    <2>1. /\ effects' = <<>> /\ worker' = Gone
          /\ UNCHANGED <<actions, tokens, nextId>>
      BY <1>2 DEF WorkerStops, runtimeVars
    <2>2. DOMAIN effects' = {}
      BY <2>1
    <2>3. Queued' = {} /\ InHand' = {} /\ Returned' = Returned
      BY <2>1, <2>2 DEF Queued, InHand, Returned, Ending
    <2>4. Flying' \subseteq Flying
      BY <2>3 DEF Flying
    <2>5. AtOnePlace'
      BY <2>1, <2>2, <2>3, <2>4 DEF TokenInv, AtOnePlace, Ending
    <2> QED
      BY <2>1, <2>5 DEF TokenInv, Exact
  <1> QED
    BY <1>1, <1>2

\* Every step that leaves the effects where they are.
LEMMA OtherTokens ==
  ASSUME TokenInv, ShapeOK', UNCHANGED <<actions, effects, tokens, nextId, runtime, routed>>,
         InHand' = InHand, worker' = Gone <=> worker = Gone
  PROVE  TokenInv'
  <1>1. Queued' = Queued /\ Returned' = Returned /\ Flying' = Flying
    BY DEF Queued, Returned, Ending, Flying
  <1>2. AtOnePlace'
    BY <1>1 DEF TokenInv, AtOnePlace, Ending
  <1> QED
    BY <1>1, <1>2 DEF TokenInv, Exact

\* While a service runs, and when it has answered, its effect is in hand.
LEMMA ServiceTokens ==
  ASSUME TokenInv, ServiceEnds \/ Interrupt \/ ReportFailure, ShapeOK'
  PROVE  TokenInv'
  <1>1. PICK q \in Req : worker \in {Executing(q), Failing(q)}
    BY DEF ServiceEnds, Interrupt, ReportFailure, TokenInv, ShapeOK, Nothing, Gone, Reporting
  <1>2. worker.request = q /\ worker \notin {Nothing, Gone}
    BY <1>1, Hand
  <1>3. \/ worker' = Failing(q)
        \/ \E o : worker' = Reporting(q, o)
    BY <1>2 DEF ServiceEnds, Interrupt, ReportFailure
  <1>4. worker'.request = q /\ worker' \notin {Nothing, Gone}
    BY <1>3, Hand
  <1>5. InHand' = InHand /\ (worker' = Gone <=> worker = Gone)
    BY <1>2, <1>4 DEF InHand
  <1>6. CASE ServiceEnds \/ Interrupt
    BY <1>5, <1>6, OtherTokens DEF ServiceEnds, Interrupt, runtimeVars
  <1>7. CASE ReportFailure
    <2>1. WorkerFailed \in Act /\ WorkerFailed.kind # "EffectFinished"
      BY DEF Act, WorkerFailed
    <2> QED
      BY <1>5, <1>7, <2>1, DispatchTokens DEF ReportFailure, runtimeVars
  <1> QED
    BY <1>6, <1>7

\* The owner and the clients dispatch no end of an effect.
LEMMA OutsideTokens ==
  ASSUME TokenInv, Owner \/ ShutdownBegins \/ ClientDispatches \/ ClientLeaves, ShapeOK'
  PROVE  TokenInv'
  <1>1. /\ UNCHANGED <<effects, tokens, nextId, runtime, routed, worker>>
        /\ \/ UNCHANGED actions
           \/ \E a \in ClientActions \cup {EndShutdown} : Dispatch(a)
    BY DEF Owner, ShutdownAsks, ShutdownCompletes, ShutdownReturns, ShutdownBegins,
           ClientDispatches, ClientLeaves, runtimeVars, ClientActions
  <1>2. InHand' = InHand /\ (worker' = Gone <=> worker = Gone)
    BY <1>1 DEF InHand
  <1>3. \A a \in ClientActions \cup {EndShutdown} : a \in Act /\ a.kind # "EffectFinished"
    BY DEF ClientActions, Act, Start, AskShutdown, EndShutdown, Cancel, MaxEffects
  <1>4. CASE UNCHANGED actions
    BY <1>1, <1>2, <1>4, OtherTokens
  <1>5. ASSUME NEW a \in ClientActions \cup {EndShutdown}, Dispatch(a) PROVE TokenInv'
    BY <1>1, <1>2, <1>3, <1>5, DispatchTokens
  <1> QED
    BY <1>1, <1>4, <1>5

\* Every step; that the channels keep their shape is known from RuntimeInv.
LEMMA TokenStep == TokenInv /\ RuntimeInv /\ RuntimeInv' /\ [Next]_vars => TokenInv'
  <1> SUFFICES ASSUME TokenInv, RuntimeInv', [Next]_vars PROVE TokenInv'
    OBVIOUS
  <1>1. ShapeOK'
    BY DEF RuntimeInv
  <1>2. CASE Next
    BY <1>1, <1>2, ReductionTokens, SendTokens, ReceiveTokens, ReportTokens, EndTokens,
       ServiceTokens, OutsideTokens DEF Next, RuntimeTask, WorkerTask
  <1>3. CASE UNCHANGED vars
    <2>1. InHand' = InHand /\ (worker' = Gone <=> worker = Gone)
      BY <1>3 DEF InHand, vars
    <2> QED
      BY <1>1, <1>3, <2>1, OtherTokens DEF vars
  <1> QED
    BY <1>2, <1>3

\* The places of an effect are those InFlight collects.
LEMMA TokenInvGivesExact == TokenInv => TokensMatchEffectsInFlight
  <1> SUFFICES ASSUME TokenInv, runtime = "running", routed, worker # Gone
               PROVE  tokens = InFlight
    BY DEF TokensMatchEffectsInFlight
  <1>1. InFlight = Flying
    BY DEF InFlight, Flying, Queued, InHand, Returned, Ending
  <1>2. Queued \subseteq Nat
    <2>1. \A i \in DOMAIN effects : effects[i] \in Req
      BY DEF TokenInv, ShapeOK
    <2>2. \A q \in Req : q.id \in Nat
      BY DEF Req
    <2> QED
      BY <2>1, <2>2 DEF Queued
  <1>3. InHand \subseteq Nat
    <2>1. CASE worker \in {Nothing, Gone}
      BY <2>1 DEF InHand
    <2>2. CASE worker \notin {Nothing, Gone}
      <3>1. PICK q \in Req, o \in Outcomes : worker \in {Executing(q), Failing(q), Reporting(q, o)}
        BY <2>2 DEF TokenInv, ShapeOK, Outcomes
      <3> QED
        BY <2>2, <3>1, Hand DEF InHand
    <2> QED
      BY <2>1, <2>2
  <1>4. Returned \subseteq Nat
    <2>1. ASSUME NEW i \in DOMAIN actions, Ending(i) PROVE actions[i].id \in Nat
      <3>1. actions[i] \in Act
        BY DEF TokenInv, ShapeOK
      <3>2. actions[i] \in {Finished(id, o) : id \in Nat, o \in Outcomes}
        BY <2>1, <3>1 DEF Act, Ending, Start, AskShutdown, EndShutdown, WorkerFailed, Cancel
      <3> QED
        BY <3>2 DEF Finished
    <2> QED
      BY <2>1 DEF Returned
  <1> QED
    BY <1>1, <1>2, <1>3, <1>4 DEF TokenInv, Exact, Flying

\* active_effect_count is exact for channels of any size: an effect's token is
\* forgotten by the end of that very effect, and no token outlives its effect.
THEOREM TokensExact == Spec => []TokensMatchEffectsInFlight
  <1>1. Spec => []RuntimeInv
    BY InitInv, StepInv, PTL DEF Spec
  <1>2. RuntimeInv /\ TokenInv /\ [Next]_vars /\ RuntimeInv' => TokenInv'
    BY TokenStep
  <1>3. Spec => []TokenInv
    BY <1>1, <1>2, TokenInit, PTL DEF Spec
  <1> QED
    BY <1>3, TokenInvGivesExact, PTL
-----------------------------------------------------------------------------
(***************************************************************************)
(* The types.  That there are at most MaxEffects ids is a fact about the   *)
(* reducer: a project is discovered once, because the application is idle  *)
(* once, and only the end of the discovery asks for two more effects.      *)
(***************************************************************************)
\* No discovery is under way, and none has still to be heard of.
NoDiscovery ==
  /\ \A i \in DOMAIN todo : todo[i] # "DiscoverProject"
  /\ \A i \in DOMAIN effects : effects[i].effect # "DiscoverProject"
  /\ worker.at = "executing" => worker.request.effect # "DiscoverProject"
  /\ worker.at = "reporting" => worker.outcome # "ProjectDetected"
  /\ \A i \in DOMAIN actions : Ending(i) => actions[i].outcome # "ProjectDetected"

\* Nothing was asked for, or the discovery is to be asked for, is under way, or is over.
Budget ==
  \/ nextId = 1 /\ todo = <<>>
  \/ nextId = 1 /\ todo = <<"DiscoverProject">> /\ lifecycle # "Idle"
  \/ nextId = 2 /\ todo = <<>> /\ lifecycle # "Idle"
  \/ nextId + Len(todo) <= MaxEffects + 1 /\ NoDiscovery /\ lifecycle # "Idle"

FewEffects == runtime = "running" => Budget

\* What the worker holds tells its place.
LEMMA Places ==
  ASSUME NEW q, NEW o
  PROVE  /\ Nothing.at = "idle" /\ Gone.at = "gone"
         /\ Executing(q).at = "executing" /\ Executing(q).request = q
         /\ Failing(q).at = "failing" /\ Failing(q).request = q
         /\ Reporting(q, o).at = "reporting" /\ Reporting(q, o).request = q
         /\ Reporting(q, o).outcome = o
  BY DEF Nothing, Gone, Executing, Failing, Reporting

LEMMA WorkerPlaces ==
  ASSUME TypeOK
  PROVE  /\ worker.at = "executing" => /\ worker.request \in Requests
                                       /\ worker = Executing(worker.request)
         /\ worker.at = "failing" => /\ worker.request \in Requests
                                     /\ worker = Failing(worker.request)
         /\ worker.at = "reporting" =>
              /\ worker.request \in Requests /\ worker.outcome \in Outcomes
              /\ worker = Reporting(worker.request, worker.outcome)
         /\ worker.at \notin {"executing", "failing", "reporting"} => worker \in {Nothing, Gone}
  <1>1. CASE worker \in {Nothing, Gone}
    BY <1>1, Places
  <1>2. ASSUME NEW q \in Requests, worker = Executing(q) \/ worker = Failing(q)
        PROVE  worker.request = q /\ worker.at \in {"executing", "failing"}
                 /\ (worker.at = "executing" <=> worker = Executing(q))
    BY <1>2, Places
  <1>3. ASSUME NEW q \in Requests, NEW o \in Outcomes, worker = Reporting(q, o)
        PROVE  worker.request = q /\ worker.at = "reporting" /\ worker.outcome = o
    BY <1>3, Places
  <1>4. \/ worker \in {Nothing, Gone}
        \/ \E q \in Requests : worker = Executing(q) \/ worker = Failing(q)
        \/ \E q \in Requests, o \in Outcomes : worker = Reporting(q, o)
    BY DEF TypeOK
  <1> QED
    BY <1>1, <1>2, <1>3, <1>4

\* The actions of each kind.
LEMMA ActionKinds ==
  /\ Start \in AnyAction /\ AskShutdown \in AnyAction /\ EndShutdown \in AnyAction
  /\ WorkerFailed \in AnyAction /\ ClientActions \subseteq AnyAction
  /\ \A id \in 1 .. MaxEffects, o \in Outcomes : Finished(id, o) \in AnyAction
  /\ \A a \in AnyAction : a.kind = "EffectFinished" => /\ a.id \in 1 .. MaxEffects
                                                       /\ a.outcome \in Outcomes
                                                       /\ a = Finished(a.id, a.outcome)
  /\ \A a \in ClientActions \cup {EndShutdown, WorkerFailed} : a.kind # "EffectFinished"
  <1>1. \A a \in ClientActions \cup {EndShutdown, WorkerFailed} : a.kind # "EffectFinished"
    BY DEF ClientActions, Start, AskShutdown, EndShutdown, WorkerFailed, Cancel
  <1>2. /\ Start \in ClientActions /\ AskShutdown \in ClientActions
        /\ ClientActions \cup {EndShutdown, WorkerFailed} \subseteq AnyAction
    BY DEF AnyAction, ClientActions
  <1>3. \A id \in 1 .. MaxEffects, o \in Outcomes : Finished(id, o) \in AnyAction
    BY DEF AnyAction
  <1>4. ASSUME NEW a \in AnyAction, a.kind = "EffectFinished"
        PROVE  a.id \in 1 .. MaxEffects /\ a.outcome \in Outcomes /\ a = Finished(a.id, a.outcome)
    <2>1. PICK id \in 1 .. MaxEffects, o \in Outcomes : a = Finished(id, o)
      BY <1>1, <1>4 DEF AnyAction
    <2>2. a.id = id /\ a.outcome = o
      BY <2>1 DEF Finished
    <2> QED
      BY <2>1, <2>2
  <1> QED
    BY <1>1, <1>2, <1>3, <1>4

\* A dispatch keeps the channel's type and its capacity.
LEMMA DispatchTypes ==
  ASSUME TypeOK, NEW a \in AnyAction, Dispatch(a)
  PROVE  actions' \in Seq(AnyAction) /\ Len(actions') <= ActionCapacity
  <1>1. /\ actions \in Seq(AnyAction) /\ Len(actions) <= ActionCapacity
        /\ ActionCapacity \in Nat
    BY RuntimeAssumption DEF TypeOK
  <1>2. Append(actions, a) \in Seq(AnyAction) /\ Len(Append(actions, a)) = Len(actions) + 1
    BY <1>1
  <1>3. CASE Len(actions) < ActionCapacity /\ actions' = Append(actions, a)
    <2>1. Len(actions) \in Nat
      BY <1>1
    <2>2. Len(actions) + 1 <= ActionCapacity
      BY <1>1, <1>3, <2>1
    <2> QED
      BY <1>2, <1>3, <2>2
  <1>4. CASE actions' = actions
    BY <1>1, <1>4
  <1> QED
    BY <1>3, <1>4 DEF Dispatch

\* The effects of a reduction, by what was reduced.
LEMMA EffectsAsked ==
  ASSUME NEW a \in AnyAction
  PROVE  /\ EffectsOf(a) \in Seq(Effects)
         /\ LifecycleAfter(a) \in Lifecycles \/ LifecycleAfter(a) = lifecycle
         /\ lifecycle # "Idle" => LifecycleAfter(a) # "Idle"
         /\ \/ EffectsOf(a) = <<>>
            \/ /\ EffectsOf(a) = <<"DiscoverProject">>
               /\ lifecycle = "Idle" /\ LifecycleAfter(a) # "Idle"
            \/ /\ EffectsOf(a) = <<"LoadProjectCache", "RefreshProjectModel">>
               /\ a.kind = "EffectFinished" /\ a.outcome = "ProjectDetected"
  <1>1. /\ <<>> \in Seq(Effects) /\ <<"DiscoverProject">> \in Seq(Effects)
        /\ <<"LoadProjectCache", "RefreshProjectModel">> \in Seq(Effects)
    BY DEF Effects
  <1>2. CASE a = Start /\ lifecycle = "Idle"
    BY <1>1, <1>2 DEF EffectsOf, LifecycleAfter, Lifecycles
  <1>3. CASE ~ (a = Start /\ lifecycle = "Idle")
    <2>1. LifecycleAfter(a) \in Lifecycles \ {"Idle"} \/ LifecycleAfter(a) = lifecycle
      BY <1>3 DEF LifecycleAfter, Lifecycles
    <2>2. \/ EffectsOf(a) = <<>>
          \/ /\ EffectsOf(a) = <<"LoadProjectCache", "RefreshProjectModel">>
             /\ a.kind = "EffectFinished" /\ a.outcome = "ProjectDetected"
      BY <1>3 DEF EffectsOf
    <2> QED
      BY <1>1, <2>1, <2>2
  <1> QED
    BY <1>2, <1>3

\* The runtime task keeps the types; there is an id for whatever has still to be sent.
LEMMA RuntimeTypes ==
  ASSUME TypeOK, FewEffects, RuntimeTask
  PROVE  TypeOK'
  <1>1. CASE Step
    <2>1. PICK a : a = Head(actions)
      OBVIOUS
    <2>2. /\ a \in AnyAction
          /\ Tail(actions) \in Seq(AnyAction) /\ Len(Tail(actions)) <= ActionCapacity
      BY <1>1, <2>1, TailShape, RuntimeAssumption DEF Step, TypeOK
    <2>3. EffectsOf(a) \in Seq(Effects) /\ LifecycleAfter(a) \in Lifecycles
      BY <2>2, EffectsAsked DEF TypeOK
    <2>4. tokens' \subseteq tokens /\ cancelled' \subseteq cancelled \cup tokens
      BY <1>1 DEF Step
    <2>5. /\ actions' = Tail(actions) /\ todo' = EffectsOf(a) /\ lifecycle' = LifecycleAfter(a)
          /\ UNCHANGED <<runtime, effects, nextId, worker, routed, shutdown, owner, clientVars>>
      BY <1>1, <2>1 DEF Step
    <2> QED
      BY <2>2, <2>3, <2>4, <2>5 DEF TypeOK, clientVars
  <1>2. CASE SendEffect
    <2>1. todo \in Seq(Effects) /\ todo # <<>> /\ Len(todo) >= 1 /\ Budget /\ nextId \in Nat
      BY <1>2, TailShape DEF SendEffect, FewEffects, TypeOK
    <2>2. nextId \in 1 .. MaxEffects
      BY <2>1 DEF Budget, MaxEffects, TypeOK
    <2>3. Head(todo) \in Effects /\ Tail(todo) \in Seq(Effects)
      BY <2>1, TailShape
    <2>4. [id |-> nextId, effect |-> Head(todo)] \in Requests
      BY <2>2, <2>3 DEF Requests
    <2>5. effects' \in Seq(Requests) /\ Len(effects') <= EffectCapacity
      BY <1>2, <2>4, RuntimeAssumption DEF SendEffect, TypeOK
    <2> QED
      BY <1>2, <2>2, <2>3, <2>5 DEF SendEffect, TypeOK, clientVars, MaxEffects
  <1>3. CASE SendFails \/ RunReturns
    <2>1. \E how \in {"returned", "failed"} : RuntimeEnds(how)
      BY <1>3 DEF SendFails, RunReturns
    <2>2. <<>> \in Seq(AnyAction) /\ <<>> \in Seq(Effects) /\ Len(<<>>) = 0
      OBVIOUS
    <2> QED
      BY <2>1, <2>2, RuntimeAssumption DEF RuntimeEnds, TypeOK, clientVars
  <1> QED
    BY <1>1, <1>2, <1>3 DEF RuntimeTask

\* So does the worker.
LEMMA WorkerTypes ==
  ASSUME TypeOK, WorkerTask \/ ServiceEnds
  PROVE  TypeOK'
  <1>1. CASE Receive
    <2>1. Head(effects) \in Requests /\ Tail(effects) \in Seq(Requests)
          /\ Len(Tail(effects)) <= EffectCapacity
      BY <1>1, TailShape, RuntimeAssumption DEF Receive, TypeOK
    <2> QED
      BY <1>1, <2>1 DEF Receive, TypeOK, runtimeVars, clientVars
  <1>2. CASE WorkerStops
    BY <1>2, RuntimeAssumption DEF WorkerStops, TypeOK, runtimeVars, clientVars
  <1>3. CASE ServiceEnds \/ Interrupt
    <2>1. worker.request \in Requests /\ "Cancelled" \in Outcomes
      BY <1>3, WorkerPlaces DEF ServiceEnds, Interrupt, Outcomes
    <2>2. Answers(worker.request.effect) \subseteq Outcomes
      BY <2>1 DEF Answers, Outcomes, Requests, Effects
    <2>3. \/ worker' = Failing(worker.request)
          \/ \E o \in Outcomes : worker' = Reporting(worker.request, o)
      BY <1>3, <2>1, <2>2 DEF ServiceEnds, Interrupt
    <2> QED
      BY <1>3, <2>1, <2>3 DEF ServiceEnds, Interrupt, TypeOK, runtimeVars, clientVars
  <1>4. CASE ReportFailure
    <2>1. worker.request \in Requests /\ "Failed" \in Outcomes
      BY <1>4, WorkerPlaces DEF ReportFailure, Outcomes
    <2>2. actions' \in Seq(AnyAction) /\ Len(actions') <= ActionCapacity
      BY <1>4, ActionKinds, DispatchTypes DEF ReportFailure
    <2> QED
      BY <1>4, <2>1, <2>2 DEF ReportFailure, TypeOK, runtimeVars, clientVars
  <1>5. CASE ReportEnd
    <2>1. worker.request \in Requests /\ worker.outcome \in Outcomes
      BY <1>5, WorkerPlaces DEF ReportEnd
    <2>2. Finished(worker.request.id, worker.outcome) \in AnyAction
      BY <2>1, ActionKinds DEF Requests
    <2>3. actions' \in Seq(AnyAction) /\ Len(actions') <= ActionCapacity
      BY <1>5, <2>2, DispatchTypes DEF ReportEnd
    <2> QED
      BY <1>5, <2>3 DEF ReportEnd, TypeOK, runtimeVars, clientVars
  <1> QED
    BY <1>1, <1>2, <1>3, <1>4, <1>5 DEF WorkerTask

\* And the owner and the clients.
LEMMA OutsideTypes ==
  ASSUME TypeOK, Owner \/ ShutdownBegins \/ ClientDispatches \/ ClientLeaves
  PROVE  TypeOK'
  <1>1. \/ UNCHANGED actions
        \/ \E a \in ClientActions \cup {EndShutdown} : Dispatch(a)
    BY DEF Owner, ShutdownAsks, ShutdownCompletes, ShutdownReturns, ShutdownBegins,
           ClientDispatches, ClientLeaves, ClientActions
  <1>2. actions' \in Seq(AnyAction) /\ Len(actions') <= ActionCapacity
    BY <1>1, ActionKinds, DispatchTypes DEF TypeOK
  <1>3. UNCHANGED <<runtimeVars, effects, worker, routed>>
    BY DEF Owner, ShutdownAsks, ShutdownCompletes, ShutdownReturns, ShutdownBegins,
           ClientDispatches, ClientLeaves, runtimeVars
  <1>4. /\ owner' \in {"up", "asking", "stopping", "waiting", "down"}
        /\ shutdown' \in BOOLEAN /\ clientSends' \in BOOLEAN
        /\ clientActions' \in {clientActions, clientActions + 1}
        /\ clientActions' # clientActions => clientActions < MaxClientActions
    <2>1. /\ owner \in {"up", "asking", "stopping", "waiting", "down"}
          /\ shutdown \in BOOLEAN /\ clientSends \in BOOLEAN
      BY DEF TypeOK
    <2>2. CASE Owner
      BY <2>1, <2>2 DEF Owner, ShutdownAsks, ShutdownCompletes, ShutdownReturns, clientVars
    <2>3. CASE ShutdownBegins
      BY <2>1, <2>3 DEF ShutdownBegins, clientVars
    <2>4. CASE ClientDispatches \/ ClientLeaves
      BY <2>1, <2>4 DEF ClientDispatches, ClientLeaves
    <2> QED
      BY <2>2, <2>3, <2>4
  <1>5. clientActions' \in 0 .. MaxClientActions
    BY <1>4, RuntimeAssumption DEF TypeOK
  <1> QED
    BY <1>2, <1>3, <1>4, <1>5 DEF TypeOK, runtimeVars
\* Whatever flies has an id that was given out.
LEMMA FlyingIds ==
  ASSUME TypeOK, TokenInv
  PROVE  /\ \A i \in DOMAIN effects : effects[i].id \in 1 .. nextId - 1
         /\ worker.at \in {"executing", "reporting"} => worker.request.id \in 1 .. nextId - 1
         /\ \A i \in DOMAIN actions : Ending(i) => actions[i].id \in 1 .. nextId - 1
  <1>1. \A id \in Nat : id \in Flying => id < nextId
    BY DEF TokenInv, AtOnePlace
  <1>2. \A i \in DOMAIN effects : effects[i].id \in Nat \ {0} /\ effects[i].id \in Flying
    <2>1. ASSUME NEW i \in DOMAIN effects PROVE effects[i].id \in Nat \ {0}
      <3>1. effects[i] \in Requests
        BY DEF TypeOK
      <3> QED
        BY <3>1 DEF Requests, MaxEffects
    <2> QED
      BY <2>1 DEF Flying, Queued
  <1>3. worker.at \in {"executing", "reporting"} =>
          worker.request.id \in Nat \ {0} /\ worker.request.id \in Flying
    <2>1. SUFFICES ASSUME worker.at \in {"executing", "reporting"}
                   PROVE  worker.request.id \in Nat \ {0} /\ worker.request.id \in Flying
      OBVIOUS
    <2>2. worker.request \in Requests
      BY <2>1, WorkerPlaces
    <2>3. worker \notin {Nothing, Gone}
      BY <2>1, Places
    <2> QED
      BY <2>2, <2>3 DEF Requests, MaxEffects, Flying, InHand
  <1>4. \A i \in DOMAIN actions :
          Ending(i) => actions[i].id \in Nat \ {0} /\ actions[i].id \in Flying
    <2>1. ASSUME NEW i \in DOMAIN actions, Ending(i) PROVE actions[i].id \in Nat \ {0}
      <3>1. actions[i] \in AnyAction
        BY DEF TypeOK
      <3> QED
        BY <2>1, <3>1, ActionKinds DEF Ending, MaxEffects
    <2> QED
      BY <2>1 DEF Flying, Returned
  <1>5. nextId \in Nat
    BY DEF TypeOK
  <1> QED
    BY <1>1, <1>2, <1>3, <1>4, <1>5

\* Before the first id is given out nothing flies.
LEMMA NothingYet ==
  ASSUME TypeOK, TokenInv, nextId = 1
  PROVE  /\ todo = <<>> => NoDiscovery
         /\ \A i \in DOMAIN actions : ~ Ending(i)
  BY FlyingIds DEF NoDiscovery

\* A discovery that is heard of is over.
LEMMA DiscoveryEnds ==
  ASSUME TypeOK, TokenInv, TypeOK', TokenInv', Step, Ending(1), nextId = 2
  PROVE  /\ \A i \in DOMAIN effects' : FALSE
         /\ worker'.at \notin {"executing", "reporting"}
         /\ \A i \in DOMAIN actions' : ~ Ending(i)'
  <1>1. /\ actions \in Seq(AnyAction) /\ actions # <<>> /\ actions' = Tail(actions)
        /\ UNCHANGED <<effects, worker, nextId>>
    BY DEF Step, TypeOK
  <1>2. /\ 1 \in DOMAIN actions
        /\ \A j \in DOMAIN actions' : /\ j + 1 \in DOMAIN actions /\ j \in Nat \ {0}
                                      /\ actions'[j] = actions[j + 1]
    BY <1>1, TailShape
  <1>3. actions[1].id = 1 /\ 1 \in Returned
    BY <1>1, <1>2, FlyingIds DEF Returned
  <1>4. \A i \in DOMAIN effects : FALSE
    BY <1>3, FlyingIds DEF TokenInv, AtOnePlace, Queued
  <1>5. worker.at \notin {"executing", "reporting"}
    <2>1. SUFFICES ASSUME worker.at \in {"executing", "reporting"} PROVE FALSE
      OBVIOUS
    <2>2. worker.request.id = 1 /\ worker \notin {Nothing, Gone}
      BY <2>1, FlyingIds, Places
    <2> QED
      BY <1>3, <2>2 DEF TokenInv, AtOnePlace, InHand
  <1>6. ASSUME NEW i \in DOMAIN actions', Ending(i)' PROVE FALSE
    <2>1. Ending(i + 1) /\ i + 1 \in DOMAIN actions
      BY <1>2, <1>6 DEF Ending
    <2>2. actions[i + 1].id = 1
      BY <2>1, FlyingIds
    <2>3. i + 1 = 1
      BY <1>2, <1>3, <2>1, <2>2 DEF TokenInv, AtOnePlace
    <2> QED
      BY <1>2, <2>3
  <1> QED
    BY <1>1, <1>4, <1>5, <1>6

\* A reduction asks for a discovery once, and for two effects when that has ended.
LEMMA ReductionBudget ==
  ASSUME TypeOK, TypeOK', TokenInv, TokenInv', FewEffects, Step
  PROVE  FewEffects'
  <1>1. PICK a : a = Head(actions)
    OBVIOUS
  <1>2. /\ a \in AnyAction /\ a = actions[1] /\ 1 \in DOMAIN actions
        /\ \A j \in DOMAIN actions' : j + 1 \in DOMAIN actions /\ actions'[j] = actions[j + 1]
    <2>1. actions \in Seq(AnyAction) /\ actions # <<>> /\ actions' = Tail(actions)
      BY DEF Step, TypeOK
    <2> QED
      BY <1>1, <2>1, TailShape
  <1>3. /\ runtime = "running" /\ todo = <<>> /\ Budget
        /\ todo' = EffectsOf(a) /\ lifecycle' = LifecycleAfter(a)
        /\ UNCHANGED <<effects, nextId, worker>>
    BY <1>1 DEF Step, FewEffects
  <1>4. /\ lifecycle # "Idle" => lifecycle' # "Idle"
        /\ \/ todo' = <<>>
           \/ todo' = <<"DiscoverProject">> /\ lifecycle = "Idle" /\ lifecycle' # "Idle"
           \/ /\ todo' = <<"LoadProjectCache", "RefreshProjectModel">>
              /\ Ending(1) /\ actions[1].outcome = "ProjectDetected"
    BY <1>2, <1>3, EffectsAsked DEF Ending
  <1>5. NoDiscovery /\ (\A i \in DOMAIN todo' : todo'[i] # "DiscoverProject") => NoDiscovery'
    BY <1>2, <1>3 DEF NoDiscovery, Ending
  <1>6. CASE nextId = 1
    BY <1>2, <1>3, <1>4, <1>6, NothingYet DEF Budget, FewEffects
  <1>7. CASE nextId = 2 /\ lifecycle # "Idle"
    <2>1. CASE todo' = <<>>
      BY <1>3, <1>4, <1>7, <2>1 DEF Budget, FewEffects
    <2>2. CASE todo' # <<>>
      <3>1. /\ todo' = <<"LoadProjectCache", "RefreshProjectModel">> /\ Ending(1)
        BY <1>4, <1>7, <2>2
      <3>2. NoDiscovery'
        BY <1>7, <3>1, DiscoveryEnds DEF NoDiscovery
      <3> QED
        BY <1>3, <1>4, <1>7, <3>1, <3>2 DEF Budget, FewEffects, MaxEffects
    <2> QED
      BY <2>1, <2>2
  <1>8. CASE NoDiscovery /\ lifecycle # "Idle" /\ nextId + Len(todo) <= MaxEffects + 1
    <2>1. todo' = <<>>
      BY <1>2, <1>4, <1>8 DEF NoDiscovery
    <2>2. NoDiscovery'
      BY <1>5, <1>8, <2>1
    <2> QED
      BY <1>3, <1>4, <1>8, <2>1, <2>2 DEF Budget, FewEffects
  <1> QED
    BY <1>3, <1>6, <1>7, <1>8 DEF Budget

\* What is sent is no longer to be sent.
LEMMA SendBudget ==
  ASSUME TypeOK, TokenInv, FewEffects, SendEffect
  PROVE  FewEffects'
  <1>1. PICK e : e = Head(todo)
    OBVIOUS
  <1>2. /\ todo \in Seq(Effects) /\ e = todo[1] /\ 1 \in DOMAIN todo /\ Len(todo) \in Nat
        /\ todo' = Tail(todo) /\ Len(todo') = Len(todo) - 1
        /\ \A j \in DOMAIN todo' : j + 1 \in DOMAIN todo /\ todo'[j] = todo[j + 1]
    <2>1. todo \in Seq(Effects) /\ todo # <<>> /\ todo' = Tail(todo)
      BY DEF SendEffect, TypeOK
    <2> QED
      BY <1>1, <2>1, TailShape
  <1>3. /\ runtime = "running" /\ Budget /\ todo # <<>> /\ nextId' = nextId + 1 /\ nextId \in Nat
        /\ UNCHANGED <<lifecycle, actions, worker>>
        /\ effects' = Append(effects, [id |-> nextId, effect |-> e])
    BY <1>1 DEF SendEffect, FewEffects, TypeOK
  <1>4. CASE nextId = 1 /\ todo = <<"DiscoverProject">> /\ lifecycle # "Idle"
    BY <1>2, <1>3, <1>4 DEF Budget, FewEffects
  <1>5. CASE NoDiscovery /\ lifecycle # "Idle" /\ nextId + Len(todo) <= MaxEffects + 1
    <2>1. \A i \in DOMAIN effects' : effects'[i].effect # "DiscoverProject"
      <3>1. /\ effects \in Seq(Requests) /\ e # "DiscoverProject"
            /\ \A i \in DOMAIN effects : effects[i].effect # "DiscoverProject"
        BY <1>2, <1>5 DEF NoDiscovery, TypeOK
      <3> QED
        BY <1>3, <3>1
    <2>2. NoDiscovery'
      BY <1>2, <1>3, <1>5, <2>1 DEF NoDiscovery, Ending
    <2>3. nextId' + Len(todo') <= MaxEffects + 1
      BY <1>2, <1>3, <1>5 DEF MaxEffects
    <2> QED
      BY <1>3, <1>5, <2>2, <2>3 DEF Budget, FewEffects
  <1> QED
    BY <1>3, <1>4, <1>5 DEF Budget

\* An action that is no end of a discovery, or none, joins the channel.
LEMMA DispatchHidesNone ==
  ASSUME TypeOK, NEW a \in AnyAction, Dispatch(a),
         a.kind = "EffectFinished" => a.outcome # "ProjectDetected",
         \A i \in DOMAIN actions : Ending(i) => actions[i].outcome # "ProjectDetected"
  PROVE  \A i \in DOMAIN actions' : Ending(i)' => actions'[i].outcome # "ProjectDetected"
  <1>1. CASE actions' = actions
    BY <1>1 DEF Ending
  <1>2. CASE actions' = Append(actions, a)
    <2>1. /\ actions \in Seq(AnyAction)
          /\ DOMAIN actions = 1 .. Len(actions) /\ Len(actions) \in Nat
      BY DEF TypeOK
    <2>2. /\ DOMAIN actions' = 1 .. Len(actions) + 1 /\ actions'[Len(actions) + 1] = a
          /\ \A i \in DOMAIN actions : actions'[i] = actions[i]
      BY <1>2, <2>1
    <2> QED
      BY <2>1, <2>2 DEF Ending
  <1> QED
    BY <1>1, <1>2 DEF Dispatch

\* Nobody but the runtime asks for effects, and only a discovery ends in one.
LEMMA OthersBudget ==
  ASSUME TypeOK, FewEffects, Next, ~ RuntimeTask
  PROVE  FewEffects'
  <1>1. UNCHANGED <<runtime, lifecycle, todo, nextId>>
    BY DEF Next, WorkerTask, Receive, WorkerStops, Interrupt, ReportFailure, ReportEnd, ServiceEnds,
           Owner, ShutdownAsks, ShutdownCompletes, ShutdownReturns, ShutdownBegins,
           ClientDispatches, ClientLeaves, runtimeVars
  <1>2. ASSUME NoDiscovery PROVE NoDiscovery'
    <2>1. CASE Receive
      <3>1. /\ effects[1] = Head(effects) /\ 1 \in DOMAIN effects
            /\ \A j \in DOMAIN effects' : j + 1 \in DOMAIN effects /\ effects'[j] = effects[j + 1]
        <4>1. effects \in Seq(Requests) /\ effects # <<>> /\ effects' = Tail(effects)
          BY <2>1 DEF Receive, TypeOK
        <4> QED
          BY <4>1, TailShape
      <3>2. worker' = Nothing \/ worker' = Executing(effects[1])
        BY <2>1, <3>1 DEF Receive
      <3>3. /\ worker'.at # "reporting"
            /\ worker'.at = "executing" => worker'.request = effects[1]
        BY <3>2, Places
      <3> QED
        BY <1>1, <1>2, <2>1, <3>1, <3>3 DEF NoDiscovery, Ending, Receive
    <2>2. CASE WorkerStops
      <3>1. worker'.at = "gone" /\ DOMAIN effects' = {} /\ actions' = actions
        BY <2>2, Places DEF WorkerStops
      <3> QED
        BY <1>1, <1>2, <3>1 DEF NoDiscovery, Ending
    <2>3. CASE ServiceEnds
      <3>1. worker.request \in Requests /\ worker.request.effect # "DiscoverProject"
        BY <1>2, <2>3, WorkerPlaces DEF ServiceEnds, NoDiscovery
      <3>2. "ProjectDetected" \notin Answers(worker.request.effect)
        BY <3>1 DEF Answers, Requests, Effects
      <3>3. /\ worker'.at # "executing"
            /\ worker'.at = "reporting" => worker'.outcome # "ProjectDetected"
        BY <2>3, <3>2, Places DEF ServiceEnds
      <3> QED
        BY <1>1, <1>2, <2>3, <3>3 DEF NoDiscovery, Ending, ServiceEnds
    <2>4. CASE Interrupt \/ ReportFailure
      <3>1. \/ worker' = Reporting(worker.request, "Cancelled")
            \/ worker' = Reporting(worker.request, "Failed")
        BY <2>4 DEF Interrupt, ReportFailure
      <3>2. worker'.at = "reporting" /\ worker'.outcome # "ProjectDetected"
        BY <3>1, Places
      <3>3. \A i \in DOMAIN actions' : Ending(i)' => actions'[i].outcome # "ProjectDetected"
        BY <1>2, <2>4, ActionKinds, DispatchHidesNone
        DEF Interrupt, ReportFailure, NoDiscovery, Ending
      <3>4. effects' = effects
        BY <2>4 DEF Interrupt, ReportFailure
      <3> QED
        BY <1>1, <1>2, <3>2, <3>3, <3>4 DEF NoDiscovery
    <2>5. CASE ReportEnd
      <3>1. /\ worker.request \in Requests /\ worker.outcome \in Outcomes
            /\ worker.outcome # "ProjectDetected"
        BY <1>2, <2>5, WorkerPlaces DEF ReportEnd, NoDiscovery
      <3>2. PICK a : a = Finished(worker.request.id, worker.outcome)
        OBVIOUS
      <3>3. a \in AnyAction /\ a.outcome # "ProjectDetected" /\ Dispatch(a)
        BY <2>5, <3>1, <3>2, ActionKinds DEF ReportEnd, Requests, Finished
      <3>4. \A i \in DOMAIN actions' : Ending(i)' => actions'[i].outcome # "ProjectDetected"
        BY <1>2, <3>3, DispatchHidesNone DEF NoDiscovery
      <3>5. effects' = effects /\ worker'.at = "idle"
        BY <2>5, Places DEF ReportEnd
      <3> QED
        BY <1>1, <1>2, <3>4, <3>5 DEF NoDiscovery
    <2>6. CASE Owner \/ ShutdownBegins \/ ClientDispatches \/ ClientLeaves
      <3>1. /\ UNCHANGED <<effects, worker>>
            /\ \/ UNCHANGED actions
               \/ \E a \in ClientActions \cup {EndShutdown} : Dispatch(a)
        BY <2>6 DEF Owner, ShutdownAsks, ShutdownCompletes, ShutdownReturns, ShutdownBegins,
                    ClientDispatches, ClientLeaves, ClientActions
      <3>2. \A i \in DOMAIN actions' : Ending(i)' => actions'[i].outcome # "ProjectDetected"
        BY <1>2, <3>1, ActionKinds, DispatchHidesNone DEF NoDiscovery, Ending
      <3> QED
        BY <1>1, <1>2, <3>1, <3>2 DEF NoDiscovery
    <2> QED
      BY <2>1, <2>2, <2>3, <2>4, <2>5, <2>6 DEF Next, WorkerTask
  <1> QED
    BY <1>1, <1>2 DEF FewEffects, Budget

\* Every step.
LEMMA TypeStep ==
  TypeOK /\ FewEffects /\ TokenInv /\ TokenInv' /\ [Next]_vars => TypeOK' /\ FewEffects'
  <1> SUFFICES ASSUME TypeOK, FewEffects, TokenInv, TokenInv', [Next]_vars
               PROVE  TypeOK' /\ FewEffects'
    OBVIOUS
  <1>1. CASE Next
    <2>1. TypeOK'
      BY <1>1, RuntimeTypes, WorkerTypes, OutsideTypes DEF Next
    <2>2. CASE RuntimeTask
      <3>1. CASE Step
        BY <2>1, <3>1, ReductionBudget
      <3>2. CASE SendEffect
        BY <2>1, <3>2, SendBudget
      <3>3. CASE SendFails \/ RunReturns
        BY <2>1, <3>3 DEF SendFails, RunReturns, RuntimeEnds, FewEffects
      <3> QED
        BY <2>2, <3>1, <3>2, <3>3 DEF RuntimeTask
    <2>3. CASE ~ RuntimeTask
      BY <1>1, <2>1, <2>3, OthersBudget
    <2> QED
      BY <2>1, <2>2, <2>3
  <1>2. CASE UNCHANGED vars
    BY <1>2 DEF vars, TypeOK, FewEffects, Budget, NoDiscovery, Ending
  <1> QED
    BY <1>1, <1>2

\* Every variable keeps the type of its field, neither channel outgrows its capacity,
\* and no more than three effects are ever asked for.
THEOREM AppTypes == Spec => []TypeOK
  <1>1. Spec => []TokenInv
    <2>1. Spec => []RuntimeInv
      BY InitInv, StepInv, PTL DEF Spec
    <2>2. RuntimeInv /\ TokenInv /\ [Next]_vars /\ RuntimeInv' => TokenInv'
      BY TokenStep
    <2> QED
      BY <2>1, <2>2, TokenInit, PTL DEF Spec
  <1>2. Init => TypeOK /\ FewEffects
    <2>1. Start \in AnyAction
      BY ActionKinds
    <2>2. /\ <<Start>> \in Seq(AnyAction) /\ Len(<<Start>>) = 1
          /\ <<>> \in Seq(Effects) /\ <<>> \in Seq(Requests) /\ Len(<<>>) = 0
      BY <2>1
    <2>3. Init => TypeOK
      <3>1. SUFFICES ASSUME Init PROVE TypeOK
        OBVIOUS
      <3>2. /\ actions \in Seq(AnyAction) /\ Len(actions) <= ActionCapacity
            /\ todo \in Seq(Effects) /\ effects \in Seq(Requests) /\ Len(effects) <= EffectCapacity
        BY <2>2, <3>1, RuntimeAssumption DEF Init
      <3>3. /\ lifecycle \in Lifecycles /\ runtime \in {"running", "returned", "failed"}
            /\ nextId \in 1 .. MaxEffects + 1 /\ tokens \subseteq 1 .. MaxEffects
            /\ cancelled \subseteq 1 .. MaxEffects /\ worker = Nothing
        BY <3>1 DEF Init, Lifecycles, MaxEffects
      <3>4. routed \in BOOLEAN /\ shutdown \in BOOLEAN /\ clientSends \in BOOLEAN
        BY <3>1 DEF Init
      <3>5. worker \in {Nothing, Gone}
                         \cup {Executing(q) : q \in Requests} \cup {Failing(q) : q \in Requests}
                         \cup {Reporting(q, o) : q \in Requests, o \in Outcomes}
        BY <3>3
      <3>6. owner \in {"up", "asking", "stopping", "waiting", "down"}
        BY <3>1 DEF Init
      <3>7. clientActions \in 0 .. MaxClientActions
        BY <3>1, RuntimeAssumption DEF Init
      <3> QED
        BY <3>2, <3>3, <3>4, <3>5, <3>6, <3>7 DEF TypeOK
    <2> QED
      BY <2>3 DEF Init, FewEffects, Budget
  <1>3. TypeOK /\ FewEffects /\ TokenInv /\ TokenInv' /\ [Next]_vars => TypeOK' /\ FewEffects'
    BY TypeStep
  <1> QED
    BY <1>1, <1>2, <1>3, PTL DEF Spec
=============================================================================
