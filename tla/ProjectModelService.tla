------------------------- MODULE ProjectModelService -------------------------
(***************************************************************************)
(* The project model service of dexdeck-gradle (service.rs) with the cache *)
(* (model_cache.rs) and the watcher (model_watch.rs) it drives.  A project *)
(* is opened from its cached bundle, refreshed by a Gradle bridge process  *)
(* that may run for minutes, and invalidated when a watched input changes. *)
(* The service is shared: opens, refreshes, polls and invalidations run    *)
(* concurrently.  The sections under the commit lock are single steps,     *)
(* except open, which reads the disk while it holds the lock; the sections *)
(* of refresh outside the lock are steps of their own.                     *)
(*                                                                         *)
(* Build inputs are abstracted to a version per root: each edit makes a    *)
(* new one, by changing a file or by adding one.  A model is the version   *)
(* the bridge evaluated.  A fingerprint is the edits its hashes show: all  *)
(* those made to the files that were listed, up to when they were hashed.  *)
(* Left out: how well the project's plugin version is supported, which     *)
(* nothing here decides upon.                                              *)
(***************************************************************************)
EXTENDS Naturals

CONSTANTS Roots,          \* the Gradle roots that may be opened
          NoRoot,         \* no root
          Calls,          \* the refresh calls that may be in flight together
          Faults,         \* the operations that may fail, see FaultNames
          UnseenEdits,    \* the edits nothing notices that may be made, see UnseenNames
          MaxEdits,       \* bound on the edits of a root
          MaxOpens,       \* bound on the calls of open
          MaxGeneration   \* bound on the generations

\* bridge: BridgeModelProvider::run     drop: the caller drops the refresh future
\* scan: discover_model_inputs          read: cache.load, fingerprint_for_model
\* watch: registrar.replace             save: cache.save
\* open: a step of open after registrar.replace
\* poll: registrar.changed              corrupt: the bundle on disk is damaged
FaultNames == {"bridge", "drop", "scan", "read", "watch", "save", "open", "poll", "corrupt"}

\* refresh: an edit after Gradle read the files and before the refresh has ended
\* open: a file added after open listed the inputs and before it watches them
\* apart: a file added to a directory that held no input when the watcher was started
UnseenNames == {"refresh", "open", "apart"}

ASSUME ServiceAssumption ==
  /\ NoRoot \notin Roots
  /\ Faults \subseteq FaultNames
  /\ UnseenEdits \subseteq UnseenNames
  /\ MaxEdits \in Nat /\ MaxOpens \in Nat /\ MaxGeneration \in Nat

VARIABLES disk,        \* disk[r]: the version of the build inputs of r
          added,       \* added[r]: the versions that brought a new input file
          bundle,      \* bundle[r]: the cached model bundle of r
          watched,     \* the root being watched and whether an event is pending
          polled,      \* a poll has taken the events and not invalidated yet
          generation,  \* the atomic generation counter
          opened,      \* the root of the open project
          state,       \* the published ProjectModelState
          opening,     \* the root open is working on: it holds the commit lock
          listing,     \* the version at which open listed the inputs, and whether
                       \* it watches them by now
          opens,       \* the calls of open so far
          calls,       \* calls[c]: the progress of refresh call c
          noticed,     \* noticed[r]: history, the version of r last invalidated
          missed       \* history: "edit", an edit was lost on the service; "refresh", a
                       \* refresh ended and nothing marked the state

vars == <<disk, added, bundle, watched, polled, generation, opened, state, opening, listing,
          opens, calls, noticed, missed>>

Version == 0 .. MaxEdits
Model   == [root : Roots, version : Version]
NoModel == [root |-> NoRoot, version |-> 0]
Phase   == {"idle", "snapshot", "running", "evaluated", "listed", "hashed", "failing"}

IdleCall == [phase |-> "idle", root |-> NoRoot, generation |-> 0,
             evaluated |-> 0, listed |-> 0, inputs |-> {}]

\* The edits that make up a version, and what their hashes look like.
Edits(v) == 1 .. v
Hashes   == SUBSET Edits(MaxEdits)

Missing == [kind |-> "Missing", evaluated |-> 0, inputs |-> {}]
Corrupt == [kind |-> "Corrupt", evaluated |-> 0, inputs |-> {}]
Stored(e, i) == [kind |-> "Loaded", evaluated |-> e, inputs |-> i]
Bundle  == {Missing, Corrupt} \cup {Stored(e, i) : e \in Version, i \in Hashes}

NoListing == [version |-> 0, watched |-> FALSE]

\* Nothing is open; an earlier session may have left a bundle, which the files
\* may have outdated since.
Init ==
  /\ disk \in [Roots -> {0, 1} \cap Version]
  /\ added = [r \in Roots |-> {}]
  /\ bundle \in [Roots -> {Missing, Stored(0, Edits(0))}]
  /\ watched = [root |-> NoRoot, pending |-> FALSE]
  /\ polled = FALSE
  /\ generation = 0
  /\ opened = NoRoot
  /\ state = [model |-> NoModel, freshness |-> "Provisional", generation |-> 0]
  /\ opening = NoRoot /\ listing = NoListing
  /\ opens = 0
  /\ calls = [c \in Calls |-> IdleCall]
  /\ noticed = [r \in Roots |-> 0]
  /\ missed = {}

MayFail(f) == f \in Faults
CommitLockFree == opening = NoRoot
RoomForGeneration == generation < MaxGeneration

WatchAnew(r) == watched' = [root |-> r, pending |-> FALSE]

-----------------------------------------------------------------------------
\* What the hashes of the inputs of r show that were listed at some version.
Fingerprint(r, listed) == {v \in Edits(disk[r]) : v \in added[r] => v <= listed}

-----------------------------------------------------------------------------
\* A refresh has read the files of r and has not ended.
Evaluated(r) ==
  \E c \in Calls : calls[c].phase \in {"evaluated", "listed", "hashed"} /\ calls[c].root = r

\* Inputs of r were listed and are not watched yet.
Unwatched(r) == opening = r /\ ~ listing.watched

Miss(what) == missed' = missed \cup {what}

-----------------------------------------------------------------------------
\* The world outside: the build inputs are edited, and a stored bundle is damaged.
NewVersion(r) ==
  /\ disk[r] < MaxEdits
  /\ "refresh" \in UnseenEdits \/ ~ Evaluated(r)
  /\ disk' = [disk EXCEPT ![r] = @ + 1]
  /\ UNCHANGED <<bundle, polled, generation, opened, state, opening, listing, opens, calls,
                 noticed>>

\* The watcher of r, if that is the root it watches, has an event to report.
Raises(r) == watched' = [watched EXCEPT !.pending = @ \/ watched.root = r]

\* An input that is known changes: its directory is watched.
Edit(r) ==
  /\ NewVersion(r)
  /\ Raises(r)
  /\ IF Evaluated(r) THEN Miss("edit") ELSE UNCHANGED missed
  /\ UNCHANGED added

\* An input is added.  The watcher watches the root and the directories of the inputs
\* that were listed, and not what is below them.
AddInput(r) ==
  /\ "open" \in UnseenEdits \/ ~ Unwatched(r)
  /\ NewVersion(r)
  /\ added' = [added EXCEPT ![r] = @ \cup {disk[r] + 1}]
  /\ \/ /\ Raises(r)
        /\ IF Evaluated(r) \/ Unwatched(r) THEN Miss("edit") ELSE UNCHANGED missed
     \/ "apart" \in UnseenEdits /\ UNCHANGED watched /\ Miss("edit")

DamageBundle(r) ==
  /\ MayFail("corrupt")
  /\ bundle[r].kind = "Loaded"
  /\ bundle' = [bundle EXCEPT ![r] = Corrupt]
  /\ UNCHANGED <<disk, added, watched, polled, generation, opened, state, opening, listing, opens,
                 calls, noticed, missed>>

-----------------------------------------------------------------------------
\* open, with the commit lock taken: the inputs are listed, ...
OpenBegins(r) ==
  /\ CommitLockFree
  /\ RoomForGeneration
  /\ opens < MaxOpens
  /\ opens' = opens + 1
  /\ opening' = r
  /\ listing' = [version |-> disk[r], watched |-> FALSE]
  /\ UNCHANGED <<disk, added, bundle, watched, polled, generation, opened, state, calls, noticed,
                 missed>>

\* ... and the watcher moves to where they are, before the cache and the inputs are read.
OpenWatches ==
  /\ opening # NoRoot /\ ~listing.watched
  /\ WatchAnew(opening)
  /\ listing' = [listing EXCEPT !.watched = TRUE]
  /\ UNCHANGED <<disk, added, bundle, polled, generation, opened, state, opening, opens, calls,
                 noticed, missed>>

\* open returns an error: the previous project and its state stay, the watcher may
\* have moved and lost its events.  A damaged bundle is set aside by the load and is
\* the error.
OpenFails ==
  /\ opening # NoRoot
  /\ \/ MayFail("open") /\ UNCHANGED bundle
     \/ /\ listing.watched /\ bundle[opening] = Corrupt
        /\ bundle' = [bundle EXCEPT ![opening] = Missing]
  /\ opening' = NoRoot /\ listing' = NoListing
  /\ IF listing.watched THEN Miss("edit") ELSE UNCHANGED missed
  /\ UNCHANGED <<disk, added, watched, polled, generation, opened, state, opens, calls, noticed>>

\* Variant of CachedFreshness: any cached model is current.
CachedFreshnessUnchecked(r) ==
  IF bundle[r].kind = "Loaded" THEN "Current" ELSE "Provisional"

\* A cached model is current exactly when the inputs that were listed hash to the
\* fingerprint stored with it.
CachedFreshness(r) == IF bundle[r].kind # "Loaded" THEN "Provisional"
                      ELSE IF bundle[r].inputs = Fingerprint(r, listing.version) THEN "Current"
                      ELSE "Stale"

CachedModel(r) == IF bundle[r].kind # "Loaded" THEN NoModel
                  ELSE [root |-> r, version |-> bundle[r].evaluated]

\* open succeeds and publishes what the cache holds.
OpenPublishes ==
  /\ opening # NoRoot /\ listing.watched
  /\ bundle[opening] # Corrupt
  /\ state' = [model |-> CachedModel(opening),
               freshness |-> CachedFreshness(opening),
               generation |-> generation + 1]
  /\ generation' = generation + 1
  /\ opened' = opening
  /\ opening' = NoRoot /\ listing' = NoListing
  /\ UNCHANGED <<disk, added, bundle, watched, polled, opens, calls, noticed, missed>>

-----------------------------------------------------------------------------
\* refresh, up to its first lock: the open project is copied without the commit
\* lock, so another open may follow before the generation is taken.
SnapshotOpen(c) ==
  /\ calls[c].phase = "idle"
  /\ opened # NoRoot
  /\ calls' = [calls EXCEPT ![c].phase = "snapshot", ![c].root = opened]
  /\ UNCHANGED <<disk, added, bundle, watched, polled, generation, opened, state, opening,
                 listing, opens, noticed, missed>>

\* Variant of BeginRefresh: the refresh joins the generation that is current.
BeginRefreshSameGeneration(c) ==
  /\ calls[c].phase = "snapshot"
  /\ CommitLockFree
  /\ state' = [state EXCEPT !.freshness = "Refreshing"]
  /\ calls' = [calls EXCEPT ![c].phase = "running", ![c].generation = generation]
  /\ UNCHANGED <<disk, added, bundle, watched, polled, generation, opened, opening, listing,
                 opens, noticed, missed>>

BeginRefresh(c) ==
  /\ calls[c].phase = "snapshot"
  /\ CommitLockFree
  /\ RoomForGeneration
  /\ generation' = generation + 1
  /\ state' = [state EXCEPT !.freshness = "Refreshing", !.generation = generation + 1]
  /\ calls' = [calls EXCEPT ![c].phase = "running", ![c].generation = generation + 1]
  /\ UNCHANGED <<disk, added, bundle, watched, polled, opened, opening, listing, opens, noticed,
                 missed>>

\* Call c goes on, or ends, and changes nothing else but the bundle.
Progress(c, call) ==
  /\ calls' = [calls EXCEPT ![c] = call]
  /\ UNCHANGED <<disk, added, watched, polled, generation, opened, state, opening, listing, opens,
                 noticed>>

\* Variant of Failing: the call ends without marking the state.
FailingUnmarked(c) == IdleCall

Failing(c) == [calls[c] EXCEPT !.phase = "failing", !.listed = 0, !.inputs = {}]

\* bridge.run: Gradle reads the build files at some moment of the run.
Evaluate(c) ==
  /\ calls[c].phase = "running"
  /\ Progress(c, [calls[c] EXCEPT !.phase = "evaluated", !.evaluated = disk[calls[c].root]])
  /\ UNCHANGED <<bundle, missed>>

BridgeFails(c) ==
  /\ MayFail("bridge")
  /\ calls[c].phase \in {"running", "evaluated"}
  /\ Progress(c, Failing(c))
  /\ UNCHANGED <<bundle, missed>>

\* The future is dropped at its only await.
Dropped(c) ==
  /\ MayFail("drop")
  /\ calls[c].phase \in {"running", "evaluated"}
  /\ Progress(c, IdleCall)
  /\ Miss("refresh")
  /\ UNCHANGED bundle

\* discover_model_inputs and model_hash return with `?`: nothing marks the state.
ScanFails(c) ==
  /\ MayFail("scan")
  /\ calls[c].phase = "evaluated"
  /\ Progress(c, IdleCall)
  /\ Miss("refresh")
  /\ UNCHANGED bundle

\* cache.load or the fingerprint fails; a damaged bundle is set aside.
ReadFails(c) ==
  /\ calls[c].phase = "listed"
  /\ MayFail("read") \/ bundle[calls[c].root] = Corrupt
  /\ bundle' = [bundle EXCEPT ![calls[c].root] = IF @ = Corrupt THEN Missing ELSE @]
  /\ Progress(c, Failing(c))
  /\ UNCHANGED missed

\* The inputs are listed once the bridge has returned, ...
List(c) ==
  /\ calls[c].phase = "evaluated"
  /\ Progress(c, [calls[c] EXCEPT !.phase = "listed", !.listed = disk[calls[c].root]])
  /\ UNCHANGED <<bundle, missed>>

\* ... and hashed.
Hash(c) ==
  /\ calls[c].phase = "listed"
  /\ bundle[calls[c].root] # Corrupt
  /\ Progress(c, [calls[c] EXCEPT !.phase = "hashed", !.listed = 0,
                                  !.inputs = Fingerprint(calls[c].root, calls[c].listed)])
  /\ UNCHANGED <<bundle, missed>>

-----------------------------------------------------------------------------
\* refresh, under its second lock.  A call whose generation has been taken over
\* returns the state of the newer one.
Superseded(c) == calls[c].generation # generation

CommitSuperseded(c) ==
  /\ Superseded(c)
  /\ Progress(c, IdleCall)
  /\ UNCHANGED <<bundle, missed>>

\* registrar.replace fails: the old watcher stays.
CommitWatchFails(c) ==
  /\ ~ Superseded(c)
  /\ MayFail("watch")
  /\ Progress(c, Failing(c))
  /\ UNCHANGED <<bundle, missed>>

\* cache.save fails, before the new bundle replaced the old one or after it.
CommitSaveFails(c) ==
  /\ ~ Superseded(c)
  /\ MayFail("save")
  /\ WatchAnew(calls[c].root)
  /\ \/ UNCHANGED bundle
     \/ bundle' = [bundle EXCEPT ![calls[c].root] = Stored(calls[c].evaluated, calls[c].inputs)]
  /\ calls' = [calls EXCEPT ![c] = Failing(c)]
  /\ UNCHANGED <<disk, added, polled, generation, opened, state, opening, listing, opens,
                 noticed, missed>>

\* Variant of CommitPublishes: the generation is not looked at again.
CommitPublishesAnyway(c) ==
  /\ WatchAnew(calls[c].root)
  /\ bundle' = [bundle EXCEPT ![calls[c].root] = Stored(calls[c].evaluated, calls[c].inputs)]
  /\ state' = [model |-> [root |-> calls[c].root, version |-> calls[c].evaluated],
               freshness |-> "Current", generation |-> state.generation]
  /\ calls' = [calls EXCEPT ![c] = IdleCall]
  /\ UNCHANGED <<disk, added, polled, generation, opened, opening, listing, opens, noticed, missed>>

\* The new model is watched, stored and published, in this order.
CommitPublishes(c) ==
  /\ ~ Superseded(c)
  /\ WatchAnew(calls[c].root)
  /\ bundle' = [bundle EXCEPT ![calls[c].root] = Stored(calls[c].evaluated, calls[c].inputs)]
  /\ state' = [model |-> [root |-> calls[c].root, version |-> calls[c].evaluated],
               freshness |-> "Current", generation |-> state.generation]
  /\ calls' = [calls EXCEPT ![c] = IdleCall]
  /\ UNCHANGED <<disk, added, polled, generation, opened, opening, listing, opens, noticed, missed>>

CommitRefresh(c) ==
  /\ calls[c].phase = "hashed"
  /\ CommitLockFree
  /\ \/ CommitSuperseded(c)
     \/ CommitWatchFails(c)
     \/ CommitSaveFails(c)
     \/ CommitPublishes(c)

\* Variant of MarkDegraded: the generation is not looked at again.
MarkDegradedAnyway(c) ==
  /\ calls[c].phase = "failing"
  /\ CommitLockFree
  /\ state' = [state EXCEPT !.freshness = "Degraded"]
  /\ calls' = [calls EXCEPT ![c] = IdleCall]
  /\ UNCHANGED <<disk, added, bundle, watched, polled, generation, opened, opening, listing,
                 opens, noticed, missed>>

\* mark_degraded, after the lock was given up, and the error return.
MarkDegraded(c) ==
  /\ calls[c].phase = "failing"
  /\ CommitLockFree
  /\ state' = IF Superseded(c) THEN state
              ELSE [state EXCEPT !.freshness = "Degraded"]
  /\ calls' = [calls EXCEPT ![c] = IdleCall]
  /\ UNCHANGED <<disk, added, bundle, watched, polled, generation, opened, opening, listing,
                 opens, noticed, missed>>

-----------------------------------------------------------------------------
\* Variant of Outdated: the label does not look whether there is a model.
OutdatedAlwaysStale == "Stale"

\* The label of the model once its inputs are known to have changed.
Outdated == IF state.model = NoModel THEN "Provisional" ELSE "Stale"

\* What invalidate does under the commit lock.
TakeInvalidation ==
  /\ CommitLockFree
  /\ RoomForGeneration
  /\ generation' = generation + 1
  /\ state' = [state EXCEPT !.freshness = Outdated, !.generation = generation + 1]
  /\ noticed' = [r \in Roots |-> IF r = opened THEN disk[r] ELSE noticed[r]]
  /\ UNCHANGED <<disk, added, bundle, watched, opened, opening, listing, opens, calls, missed>>

Invalidate == TakeInvalidation /\ UNCHANGED polled

\* poll_watcher: registrar.changed drains the events without the commit lock ...
PollTakesEvents ==
  /\ watched.pending
  /\ polled' = TRUE
  /\ watched' = [watched EXCEPT !.pending = FALSE]
  /\ UNCHANGED <<disk, added, bundle, generation, opened, state, opening, listing, opens, calls,
                 noticed, missed>>

\* ... and invalidate follows.
PollInvalidates == polled /\ TakeInvalidation /\ polled' = FALSE

\* A watcher error ends the drain with the events read before it.
PollFails ==
  /\ MayFail("poll")
  /\ watched.pending
  /\ watched' = [watched EXCEPT !.pending = FALSE]
  /\ Miss("edit")
  /\ UNCHANGED <<disk, added, bundle, polled, generation, opened, state, opening, listing,
                 opens, calls, noticed>>

-----------------------------------------------------------------------------
CallStep(c) == \/ Evaluate(c)
               \/ BridgeFails(c)
               \/ Dropped(c)
               \/ ScanFails(c)
               \/ ReadFails(c)
               \/ List(c)
               \/ Hash(c)
               \/ CommitRefresh(c)
               \/ MarkDegraded(c)

OpenStep == OpenWatches \/ OpenFails \/ OpenPublishes

Next == \/ \E r \in Roots : Edit(r)
        \/ \E r \in Roots : AddInput(r)
        \/ \E r \in Roots : DamageBundle(r)
        \/ \E r \in Roots : OpenBegins(r)
        \/ OpenStep
        \/ \E c \in Calls : SnapshotOpen(c)
        \/ \E c \in Calls : BeginRefresh(c)
        \/ \E c \in Calls : CallStep(c)
        \/ Invalidate
        \/ PollTakesEvents
        \/ PollInvalidates
        \/ PollFails

\* An open that took the lock and a refresh that began run to their end: the
\* bridge process ends, by itself or because it is cancelled.
Fairness == WF_vars(OpenStep) /\ \A c \in Calls : WF_vars(CallStep(c))

Spec == Init /\ [][Next]_vars
FairSpec == Spec /\ Fairness

-----------------------------------------------------------------------------
\* Every variable keeps its type, the published generation is the newest, and
\* a model that is shown as current or stale exists.
TypeOK ==
  /\ disk \in [Roots -> Version]
  /\ added \in [Roots -> Hashes]
  /\ bundle \in [Roots -> Bundle]
  /\ watched \in [root : Roots \cup {NoRoot}, pending : BOOLEAN]
  /\ polled \in BOOLEAN
  /\ generation \in 0 .. MaxGeneration
  /\ opened \in Roots \cup {NoRoot}
  /\ state \in [model : Model \cup {NoModel},
                freshness : {"Current", "Stale", "Refreshing", "Provisional", "Degraded"},
                generation : {generation}]
  /\ state.freshness \in {"Current", "Stale"} => state.model # NoModel
  /\ opening \in Roots \cup {NoRoot}
  /\ listing \in [version : Version, watched : BOOLEAN]
  /\ opens \in 0 .. MaxOpens
  /\ calls \in [Calls -> [phase : Phase, root : Roots \cup {NoRoot},
                         generation : 0 .. MaxGeneration,
                         evaluated : Version, listed : Version, inputs : Hashes]]
  /\ noticed \in [Roots -> Version]
  /\ missed \subseteq {"edit", "refresh"}

\* A model older than an invalidation is never published as current again: the
\* answer of a refresh that began before the invalidation is thrown away, and
\* one that begins later evaluates the files as they are by then.  The one way
\* back is an open that finds a bundle hashed after an edit Gradle did not read.
NoticedEditIsNotForgotten ==
  [][state' # state /\ state'.freshness = "Current"
       => \/ state'.model.version >= noticed[state'.model.root]
          \/ opening # NoRoot /\ bundle[opening].inputs # Edits(bundle[opening].evaluated)]_vars

\* Answers that arrive out of order never replace the model or the bundle of a
\* root by an older one, whichever calls overlap and whatever fails.
ModelNeverGoesBack ==
  [][/\ state.model.root = state'.model.root => state'.model.version >= state.model.version
     /\ \A r \in Roots : bundle[r].kind = "Loaded" /\ bundle'[r].kind = "Loaded"
                          => bundle'[r].evaluated >= bundle[r].evaluated]_vars

\* A model shown as current was evaluated from the inputs as they are, unless
\* the change is about to be noticed: an event is pending, or being acted upon.
StaleIsNeverCurrent ==
  /\ state.freshness = "Current"
  /\ opening = NoRoot
  /\ ~ polled
  /\ ~ (watched.root = state.model.root /\ watched.pending)
  => state.model.version = disk[state.model.root]

\* That holds as long as no edit is lost on the service: whatever calls overlap,
\* fail or are dropped, only an edit in one of the gaps of UnseenEdits, a drain
\* that fails or an open that fails with the watcher moved takes it away.
CurrentModelIsFresh == "edit" \notin missed => StaleIsNeverCurrent

\* The state does not say "Refreshing" for ever, unless a refresh was dropped or
\* failed to list the inputs, which mark nothing.
RefreshingEnds ==
  state.freshness = "Refreshing" ~> state.freshness # "Refreshing" \/ "refresh" \in missed

-----------------------------------------------------------------------------
\* The calls that owe an answer to the generation machine.
Published == INSTANCE ModelRefresh WITH
               Models     <- Model,
               Tokens     <- 1 .. MaxGeneration,
               model      <- state.model,
               freshness  <- state.freshness,
               due        <- {calls[c].generation :
                                c \in {d \in Calls : calls[d].phase \notin {"idle", "snapshot"}}}

\* What the service publishes follows the generation machine of refresh.rs.
ImplementsModelRefresh == Published!Spec
=============================================================================
