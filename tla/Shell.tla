-------------------------------- MODULE Shell -------------------------------
(***************************************************************************)
(* The terminal interface and its two background threads.  run_loop        *)
(* (shell.rs) drains the two event channels, takes one input and draws;    *)
(* shell_project_worker (lib.rs) drives the project model service and its  *)
(* watcher; shell_logcat_worker owns a Logcat session and obeys a command  *)
(* queue.  Every channel is bounded and every send is a try_send.  The     *)
(* service is reduced to what ModelRefresh says a single caller sees of    *)
(* it, the session to the batches it hands out.                            *)
(***************************************************************************)
EXTENDS LogView

CONSTANTS Workspaces,      \* WorkspaceId::ALL
          ProjectCapacity, \* 16 project events
          ProjectDrain,    \* MAX_PROJECT_NOTIFICATIONS_PER_TICK, 4
          LogCapacity,     \* 32 Logcat events
          LogDrain,        \* MAX_LOG_NOTIFICATIONS_PER_TICK, 8
          CommandCapacity, \* 8 commands
          Letters,         \* what can be typed into an overlay
          MaxQuery,        \* bound on the letters of a query
          Sessions         \* the sessions explored: backends given, keys and bounds

ASSUME ShellAssumption ==
  {ProjectCapacity, ProjectDrain, LogCapacity, LogDrain, CommandCapacity} \subseteq Nat \ {0}

Regions == <<"WorkspaceBar", "Primary", "Secondary", "Actions">>

VARIABLES ui,            \* where run_with_backends is
          active,        \* active_workspace
          overlay,       \* the open overlay
          query,         \* overlay_query
          focus,         \* index of the focused region
          tab,           \* tooling.tab
          listSearch,    \* tooling.search
          shown,         \* what the overview shows of the project
          view,          \* the Logcat workspace
          started,       \* logcat_started
          worker,        \* where shell_project_worker is
          service,       \* state of the project model service
          edited,        \* the watcher has events
          marked,        \* ModelWatchState: a change awaits the debounce
          cancelled,     \* the worker's two cancellation tokens
          projectEvents, \* the channel to the interface
          lost,          \* history: the last project event found the channel full
          capture,       \* where shell_logcat_worker is
          scope,         \* the session captures the whole device
          printed,       \* the lines the session has handed out
          logEvents,     \* the channel to the interface
          commands,      \* the queue to the worker
          refused,       \* history: the last scope command was not accepted
          stopRefused,   \* history: Stop found the queue full
          budget         \* what is left of the session's bounds

screenVars  == <<active, overlay, query, focus, tab, listSearch>>
projectVars == <<worker, service, edited, marked>>
captureVars == <<scope, printed>>
vars == <<ui, screenVars, shown, view, started, projectVars, cancelled, projectEvents, lost,
          capture, captureVars, logEvents, commands, refused, stopRefused, budget>>

Freshness == {"Current", "Stale", "Refreshing", "Provisional", "Degraded"}
NoState == [model |-> FALSE, freshness |-> "Provisional", generation |-> 0]

Detected == [kind |-> "Detected"]
ModelOf(state) == [kind |-> "Model", state |-> state]
Failure(root) == [kind |-> "Error", root |-> root]
Nothing == [phase |-> "Detecting", named |-> FALSE, tasks |-> FALSE, failed |-> FALSE,
            state |-> NoState]

Init ==
  /\ budget \in Sessions
  /\ ui = "drain"
  /\ active = Workspaces[1] /\ overlay = "None" /\ query = <<>> /\ focus = 2
  /\ tab = "Devices" /\ listSearch = <<>>
  /\ shown = IF budget.project THEN Nothing ELSE [Nothing EXCEPT !.phase = "Unavailable"]
  /\ view = NewView /\ started = FALSE
  /\ worker = IF budget.project THEN "detecting" ELSE "ended"
  /\ service = NoState /\ edited = FALSE /\ marked = FALSE /\ cancelled = FALSE
  /\ projectEvents = <<>> /\ lost = FALSE
  /\ capture = "off" /\ scope = FALSE /\ printed = 0
  /\ logEvents = <<>> /\ commands = <<>>
  /\ refused = FALSE /\ stopRefused = FALSE

-----------------------------------------------------------------------------
\* The project worker.

TrySend(event) ==
  IF Len(projectEvents) < ProjectCapacity
  THEN projectEvents' = Append(projectEvents, event) /\ lost' = FALSE
  ELSE lost' = TRUE /\ UNCHANGED projectEvents

\* send_project_state: without a model there is nothing to send.
SendState(state) == IF state.model THEN TrySend(ModelOf(state))
                    ELSE UNCHANGED <<projectEvents, lost>>

WorkerEnds(event) == worker' = "ended" /\ TrySend(event)

\* The directory, the storage or the project is not found, or the project is
\* announced and then its identity or its configuration fails.
Detect ==
  /\ worker = "detecting"
  /\ \/ WorkerEnds(Failure(FALSE))
     \/ worker' = "opening" /\ TrySend(Detected)
  /\ UNCHANGED <<service, edited, marked>>

Opened(freshness) == [model |-> freshness # "Provisional", freshness |-> freshness,
                      generation |-> service.generation + 1]

Open ==
  /\ worker = "opening"
  /\ \/ WorkerEnds(Failure(TRUE)) /\ UNCHANGED service
     \/ \E freshness \in {"Current", "Stale", "Provisional"} :
          /\ service' = Opened(freshness)
          /\ worker' = "starting"
          /\ SendState(service')
  /\ UNCHANGED <<edited, marked>>

\* The tokio runtime is created once the state is sent; a state that is not current is
\* refreshed before the loop.
StartRuntime ==
  /\ worker = "starting"
  /\ \/ /\ worker' = IF service.freshness = "Current" THEN "watching" ELSE "refreshing"
        /\ UNCHANGED <<projectEvents, lost>>
     \/ WorkerEnds(Failure(TRUE))
  /\ UNCHANGED <<service, edited, marked>>

\* Where a refresh leads: the loop, from the first one as from any other.
RefreshSucceeds ==
  /\ worker = "refreshing"
  /\ service' = [model |-> TRUE, freshness |-> "Current", generation |-> service.generation + 1]
  /\ edited' = FALSE
  /\ worker' = "watching"
  /\ SendState(service')
  /\ UNCHANGED marked

\* The service's state after a failure: marked degraded, or still refreshing
\* when an error path leaves it so.
Failed(freshness) == [service EXCEPT !.freshness = freshness, !.generation = @ + 1]

\* Variant of StateAfterFailure: the state from before the refresh.
StateBeforeFailure(failed) == service

\* service.state() is asked again after a failed refresh.
StateAfterFailure(failed) == failed

RefreshFails ==
  /\ worker = "refreshing" /\ ~cancelled
  /\ \E freshness \in {"Degraded", "Refreshing"} : service' = Failed(freshness)
  /\ IF service.model THEN worker' = "watching" /\ SendState(StateAfterFailure(service'))
     ELSE WorkerEnds(Failure(TRUE))
  /\ UNCHANGED <<edited, marked>>

\* poll_watcher invalidates the model of a changed project; a tick that sends
\* the new state also starts the debounce.
PollWatcher ==
  /\ worker = "watching" /\ edited
  /\ edited' = FALSE
  /\ \/ /\ service' = [service EXCEPT !.freshness = "Stale", !.generation = @ + 1]
        /\ SendState(service')
        /\ marked' = TRUE
        /\ UNCHANGED worker
     \/ WorkerEnds(Failure(TRUE)) /\ UNCHANGED <<service, marked>>

\* The debounce has passed without another change.
Debounced == /\ worker = "watching" /\ marked /\ ~edited
             /\ worker' = "refreshing"
             /\ marked' = FALSE
             /\ UNCHANGED <<service, edited, projectEvents, lost>>

\* Cancelled in the loop, or while the bridge runs.
WorkerStops == /\ worker \in {"refreshing", "watching"} /\ cancelled
               /\ worker' = "ended"
               /\ UNCHANGED <<service, edited, marked, projectEvents, lost>>

ProjectWorker ==
  /\ \/ Detect \/ Open \/ StartRuntime \/ RefreshSucceeds \/ RefreshFails \/ PollWatcher
     \/ Debounced \/ WorkerStops
  /\ UNCHANGED <<ui, screenVars, shown, view, started, cancelled, capture, captureVars, logEvents,
                 commands, refused, stopRefused, budget>>

\* A watched build file is edited.
Edit == /\ budget.edits > 0 /\ worker \in {"starting", "refreshing", "watching"}
        /\ edited' = TRUE
        /\ budget' = [budget EXCEPT !.edits = @ - 1]
        /\ UNCHANGED <<ui, screenVars, shown, view, started, worker, service, marked, cancelled,
                       projectEvents, lost, capture, captureVars, logEvents, commands, refused,
                       stopRefused>>

-----------------------------------------------------------------------------
\* The Logcat worker.

TrySendLog(event) == IF Len(logEvents) < LogCapacity THEN Append(logEvents, event) ELSE logEvents
Status(name) == [kind |-> "Status", status |-> name]

\* Project, model, SDK, device, profile and session are resolved on the worker.
Prepare ==
  /\ capture = "preparing"
  /\ \/ capture' = "connected" /\ logEvents' = TrySendLog(Status("connected"))
     \/ capture' = "ended" /\ logEvents' = TrySendLog(Status("unavailable"))
  /\ UNCHANGED <<scope, printed, commands>>

\* Variant of ScopeAfter: the command is a toggle.
ScopeToggled(device) == ~scope

\* set_scope with the value the command carries.
ScopeAfter(device) == device

TakeCommand ==
  /\ capture = "connected" /\ commands # <<>>
  /\ commands' = Tail(commands)
  /\ IF Head(commands).kind = "Stop" THEN capture' = "ended" /\ UNCHANGED scope
     ELSE scope' = ScopeAfter(Head(commands).device) /\ UNCHANGED capture
  /\ UNCHANGED <<printed, logEvents>>

\* A batch that finds the channel full is gone, and so is the message about it.
TakeBatch ==
  /\ capture = "connected" /\ printed < budget.lines
  /\ \E n \in printed + 1 .. budget.lines :
       /\ printed' = n
       /\ LET batch == SelectSeq([i \in 1 .. n - printed |-> printed + i],
                                 LAMBDA i : scope \/ Lines[i].app)
          IN logEvents' = IF batch = <<>> THEN logEvents
                          ELSE TrySendLog([kind |-> "Records", lines |-> batch])
  /\ UNCHANGED <<capture, scope, commands>>

SessionEnds == /\ capture = "connected" /\ budget.sessionMayEnd
               /\ capture' = "ended"
               /\ UNCHANGED <<scope, printed, logEvents, commands>>

LogcatWorker ==
  /\ Prepare \/ TakeCommand \/ TakeBatch \/ SessionEnds
  /\ UNCHANGED <<ui, screenVars, shown, view, started, projectVars, cancelled, projectEvents, lost,
                 refused, stopRefused, budget>>

-----------------------------------------------------------------------------
\* The interface: one turn of the loop drains the channels and takes one input.

\* apply_project_event; a failure is told in the status text, beside a usable model or not.
Detecting(s) == [s EXCEPT !.phase = "Detected", !.named = TRUE, !.failed = FALSE]
Showing(s, state) == [phase |-> "Available", named |-> TRUE, tasks |-> TRUE, failed |-> FALSE,
                      state |-> state]
Failing(s, root) == IF s.phase = "Available" /\ root THEN [s EXCEPT !.failed = TRUE]
                    ELSE [s EXCEPT !.phase = "Unavailable", !.named = root, !.tasks = FALSE,
                                   !.failed = TRUE]

Apply(s, event) == CASE event.kind = "Detected" -> Detecting(s)
                     [] event.kind = "Model"    -> Showing(s, event.state)
                     [] event.kind = "Error"    -> Failing(s, event.root)

ApplyLog(v, event) == IF event.kind = "Records" THEN Ingest(v, event.lines) ELSE v

Split(channel, most) == Min({most, Len(channel)})

\* Logcat's channel is looked at only while its workspace is on the screen.
Drain ==
  /\ ui = "drain"
  /\ LET n == Split(projectEvents, ProjectDrain)
         m == IF active = "Logcat" THEN Split(logEvents, LogDrain) ELSE 0
     IN /\ shown' = FoldLeft(Apply, shown, SubSeq(projectEvents, 1, n))
        /\ projectEvents' = SubSeq(projectEvents, n + 1, Len(projectEvents))
        /\ view' = FoldLeft(ApplyLog, view, SubSeq(logEvents, 1, m))
        /\ logEvents' = SubSeq(logEvents, m + 1, Len(logEvents))
  /\ ui' = "input"
  /\ UNCHANGED <<screenVars, started, projectVars, cancelled, lost, capture, captureVars, commands,
                 refused, stopRefused, budget>>

Press(key) == /\ ui = "input" /\ key \in budget.keys /\ budget.inputs > 0
              /\ budget' = [budget EXCEPT !.inputs = @ - 1]

\* What no key press changes by itself.
Elsewhere == UNCHANGED <<shown, projectVars, cancelled, projectEvents, lost, captureVars,
                         logEvents, stopRefused>>
NotLogcat == UNCHANGED <<view, started, capture, commands, refused>>
Goes(place) == ui' = place

\* event::poll runs into its timeout.
Wait == /\ ui = "input" /\ Goes("drain")
        /\ Elsewhere /\ NotLogcat /\ UNCHANGED <<screenVars, budget>>

\* No job of this session is active, so there is nothing to ask about.
Quit == /\ Press("quit") /\ overlay = "None"
        /\ Goes("stopping")
        /\ Elsewhere /\ NotLogcat /\ UNCHANGED screenVars

OpenOverlay(key, name, clears) ==
  /\ Press(key) /\ overlay = "None"
  /\ overlay' = name
  /\ query' = IF clears THEN <<>> ELSE query
  /\ Goes("drain")
  /\ Elsewhere /\ NotLogcat /\ UNCHANGED <<active, focus, tab, listSearch>>

\* apply_search_query
Searched(text) == view' = IF active = "Logcat" THEN SetSearch(view, text) ELSE view
ListSearched(text) == listSearch' = IF active \in {"Devices", "Tasks"} THEN text ELSE listSearch
Searches(text) == /\ query' = text /\ Searched(text) /\ ListSearched(text)
                  /\ UNCHANGED <<started, capture, commands, refused>>

\* A search starts from the empty query, which lifts the one before.
OpenSearch ==
  /\ Press("search") /\ overlay = "None"
  /\ active \in {"Logcat", "Devices", "Tasks"}
  /\ overlay' = "Search"
  /\ Searches(<<>>)
  /\ Goes("drain")
  /\ Elsewhere /\ UNCHANGED <<active, focus, tab>>

\* The palette and the search edit one query; only the search is applied.
Edited(text) == IF overlay = "Search" THEN Searches(text)
                ELSE query' = text /\ NotLogcat /\ UNCHANGED listSearch

EditQuery ==
  /\ overlay \in {"Palette", "Search"}
  /\ \/ Press("type") /\ Len(query) < MaxQuery /\ \E c \in Letters : Edited(Append(query, c))
     \/ Press("backspace") /\ query # <<>> /\ Edited(Front(query))
  /\ Goes("drain")
  /\ Elsewhere /\ UNCHANGED <<active, overlay, focus, tab>>

CloseOverlay ==
  /\ \/ Press("escape") /\ overlay # "None"
     \/ Press("enter") /\ overlay = "Search"
  /\ overlay' = "None"
  /\ Goes("drain")
  /\ Elsewhere /\ NotLogcat /\ UNCHANGED <<active, query, focus, tab, listSearch>>

MoveFocus(by) == focus' = ((focus - 1 + by) % Len(Regions)) + 1

\* The tooling workspaces share one list, which turns to a tab of theirs.
TabFor(w) == CASE w = "Devices" /\ tab \notin {"Devices", "Emulators"}  -> "Devices"
               [] w = "Tasks" /\ tab \notin {"GradleTasks", "Commands"} -> "GradleTasks"
               [] w = "Doctor"                                          -> "Doctor"
               [] OTHER                                                 -> tab

\* activate_workspace; the first visit to Logcat starts the worker, and a thread
\* that cannot be started ends the interface with an error.
Activate(w) ==
  /\ active' = w /\ tab' = TabFor(w)
  /\ UNCHANGED <<view, commands, refused, listSearch>>
  /\ IF w = "Logcat" /\ ~started
     THEN /\ started' = TRUE
          /\ \/ Goes("drain") /\ capture' = IF budget.logcat THEN "preparing" ELSE "off"
             \/ budget.logcat /\ Goes("stopping") /\ UNCHANGED capture
     ELSE Goes("drain") /\ UNCHANGED <<started, capture>>

PositionOf(w) == CHOOSE i \in DOMAIN Workspaces : Workspaces[i] = w
Adjacent(by) == Workspaces[((PositionOf(active) - 1 + by) % Len(Workspaces)) + 1]

\* A number, a click on a tab or an arrow on the focused bar.
GoTo ==
  /\ overlay = "None"
  /\ \/ Press("number") /\ \E i \in DOMAIN Workspaces : Activate(Workspaces[i])
     \/ /\ Press("arrow") /\ Regions[focus] = "WorkspaceBar"
        /\ \E by \in {1, -1} : Activate(Adjacent(by))
  /\ Elsewhere /\ UNCHANGED <<overlay, query, focus>>

\* move_subview; the two tabs of a workspace alternate.
Other(t) == CASE t = "Devices" -> "Emulators"  [] t = "Emulators" -> "Devices"
              [] t = "GradleTasks" -> "Commands" [] t = "Commands" -> "GradleTasks"
              [] OTHER -> t

TurnTab ==
  /\ Press("arrow") /\ overlay = "None" /\ Regions[focus] # "WorkspaceBar"
  /\ active \in {"Devices", "Tasks"}
  /\ tab' = Other(tab)
  /\ Goes("drain")
  /\ Elsewhere /\ NotLogcat /\ UNCHANGED <<active, overlay, query, focus, listSearch>>

Tab ==
  /\ Press("tab") /\ overlay = "None"
  /\ \E by \in {1, -1} : MoveFocus(by)
  /\ Goes("drain")
  /\ Elsewhere /\ NotLogcat /\ UNCHANGED <<active, overlay, query, tab, listSearch>>

\* apply_named_action; the palette closes first, and the search it opens starts
\* from what was typed into the palette.
Choose ==
  /\ Press("enter") /\ overlay = "Palette"
  /\ UNCHANGED query
  /\ \/ overlay' = "None" /\ (\E i \in DOMAIN Workspaces : Activate(Workspaces[i]))
        /\ UNCHANGED focus
     \/ /\ overlay' \in {"Help", "Search", "Palette"}
        /\ Goes("drain") /\ NotLogcat /\ UNCHANGED <<active, focus, tab, listSearch>>
     \/ /\ overlay' = "None" /\ (\E by \in {1, -1} : MoveFocus(by))
        /\ Goes("drain") /\ NotLogcat /\ UNCHANGED <<active, tab, listSearch>>
     \/ /\ overlay' = "None" /\ Goes("stopping")
        /\ NotLogcat /\ UNCHANGED <<active, focus, tab, listSearch>>
  /\ Elsewhere

\* The rows of the workspace answer a key, or the wheel of the mouse.
LogcatKey ==
  /\ active = "Logcat" /\ overlay = "None"
  /\ \E key \in ViewKeys : Press(key) /\ view' = HandleKey(view, key)
  /\ Goes("drain")
  /\ Elsewhere /\ UNCHANGED <<screenVars, started, capture, commands, refused>>

\* The view takes the scope before the backend accepts it.  The receiver of a
\* worker that has ended is gone.
Scope ==
  /\ Press("scope") /\ active = "Logcat" /\ overlay = "None"
  /\ view' = ChangeScope(view)
  /\ IF capture \in {"preparing", "connected"} /\ Len(commands) < CommandCapacity
     THEN /\ commands' = Append(commands, [kind |-> "SetDeviceScope", device |-> view'.device])
          /\ refused' = FALSE
     ELSE refused' = TRUE /\ UNCHANGED commands
  /\ Goes("drain")
  /\ Elsewhere /\ UNCHANGED <<screenVars, started, capture>>

Input == \/ Quit
         \/ OpenOverlay("palette", "Palette", TRUE)
         \/ OpenOverlay("help", "Help", FALSE)
         \/ OpenSearch
         \/ EditQuery
         \/ CloseOverlay
         \/ GoTo
         \/ TurnTab
         \/ Tab
         \/ Choose
         \/ LogcatKey
         \/ Scope

-----------------------------------------------------------------------------
\* After the loop the two backends are stopped one after the other, then the
\* terminal session is dropped, which restores the terminal.

\* Variant of StopProject: the tokens are not cancelled.
StopProjectJoins ==
  /\ ui = "stopping" /\ Goes("joining project")
  /\ Elsewhere /\ NotLogcat /\ UNCHANGED <<screenVars, budget>>

StopProject ==
  /\ ui = "stopping" /\ Goes("joining project")
  /\ cancelled' = TRUE
  /\ UNCHANGED <<shown, projectVars, projectEvents, lost, captureVars, logEvents, stopRefused,
                 screenVars, budget>>
  /\ NotLogcat

\* Stop is put into the queue if there is room, and the queue's sender is kept.
StopLogcat ==
  /\ ui = "joining project" /\ worker = "ended"
  /\ Goes("joining logcat")
  /\ \/ /\ Len(commands) < CommandCapacity
        /\ commands' = Append(commands, [kind |-> "Stop"])
        /\ UNCHANGED stopRefused
     \/ /\ Len(commands) >= CommandCapacity
        /\ stopRefused' = TRUE
        /\ UNCHANGED commands
  /\ UNCHANGED <<screenVars, shown, view, started, projectVars, cancelled, projectEvents, lost,
                 capture, captureVars, logEvents, refused, budget>>

Restore ==
  /\ ui = "joining logcat" /\ capture \in {"off", "ended"}
  /\ Goes("restored")
  /\ Elsewhere /\ NotLogcat /\ UNCHANGED <<screenVars, budget>>

Interface == Drain \/ Wait \/ StopProject \/ StopLogcat \/ Restore

Next == Interface \/ Input \/ ProjectWorker \/ LogcatWorker \/ Edit

Spec == Init /\ [][Next]_vars

ProjectProceeds == (Detect \/ Open \/ StartRuntime \/ WorkerStops)
                     /\ UNCHANGED <<ui, screenVars, shown, view, started, cancelled, capture,
                                    captureVars, logEvents, commands, refused, stopRefused, budget>>

LogcatTakes == TakeCommand /\ UNCHANGED <<ui, screenVars, shown, view, started, projectVars,
                                          cancelled, projectEvents, lost, refused, stopRefused,
                                          budget>>

Prepares == Prepare /\ UNCHANGED <<ui, screenVars, shown, view, started, projectVars, cancelled,
                                   projectEvents, lost, refused, stopRefused, budget>>

\* The threads run: a cancelled worker sees its tokens (ProcessSupervisor shows
\* that a cancelled command ends), a connected one looks at its commands.
\* Nothing makes a key be pressed, a file change or Gradle answer.
FairSpec == /\ Spec
            /\ WF_vars(Interface)
            /\ WF_vars(ProjectProceeds)
            /\ WF_vars(LogcatTakes)

\* And the tools that prepare a Logcat session answer.
AnsweredSpec == FairSpec /\ WF_vars(Prepares)
-----------------------------------------------------------------------------
\* While the worker watches, the interface shows the state of the service, with
\* its model's tasks and no failure, as soon as it has read its events, unless the last event
\* found the channel full: no order of edits, polls, refreshes and failures
\* leaves an older state on the screen (lib.rs, shell_project_worker).
LastStateIsShown ==
  worker = "watching" /\ projectEvents = <<>> /\ ~lost =>
    shown = [phase |-> "Available", named |-> TRUE, tasks |-> TRUE, failed |-> FALSE,
             state |-> service]

\* The scope in the title is the scope of the capture once the worker has taken
\* its commands, unless the last request was refused; an earlier refusal does
\* not keep the two apart (shell.rs, handle_logcat_action).
ScopeFollows ==
  capture = "connected" /\ commands = <<>> /\ ~refused => scope = view.device

\* A page that is paused and not moved by the user only loses rows from its top,
\* to the byte limit: what arrives meanwhile neither enters nor shifts it
\* (logcat_workspace.rs, render).
PausedPageStays ==
  [][LET Held(v) == <<v.paused, v.pausedAt, v.scroll, v.query>>
     IN view.pausedAt # 0 /\ Held(view') = Held(view) => IsSuffix(Page(view'), Page(view))]_vars

Leaving == ui \in {"stopping", "joining project", "joining logcat"}

\* An interface that is left returns the terminal, unless the Logcat worker is
\* still being prepared or its queue had no room for Stop.
QuitEnds == [](Leaving => <>(ui = "restored" \/ stopRefused \/ []<>(capture = "preparing")))

\* SPECS.md 24.3: on exit, restore the terminal state.
TerminalIsRestored == Leaving ~> ui = "restored"
=============================================================================
