----------------------------- MODULE Invocations ----------------------------
(***************************************************************************)
(* Several `dexdeck` commands at work on one project at once: processes    *)
(* that share the cache and state directory, the extracted bridge, the     *)
(* sources and what Gradle builds of them, and the devices (dexdeck,       *)
(* lib.rs, with the services it calls).  A process works through the       *)
(* stages of its command; each stage is one call that reads or changes     *)
(* what is shared.  Gradle, adb and the emulator are external.             *)
(***************************************************************************)
EXTENDS AtomicStorage, BridgeStream, RunProfile, Discovery, CommandStages

CONSTANTS Processes,
          Sessions,       \* commands started together, and what they find (see Init)
          Model,          \* the modules of the project
          OldModel,       \* those of an earlier model
          Layers,         \* the configuration files: shared, user, and explicit by name
          DeviceLists,    \* what `adb devices` may list beside the emulator
          Emulator,       \* the emulator as it is listed, and the AVD it runs
          Avd,
          Outputs,        \* what the Gradle bridge may write
          PresetLimit,    \* SAVED_LOG_FILTER_LIMIT
          MaxPolls,       \* polls of the boot until its deadline
          RemoteAnyTime   \* the Git remote may change between a preview and the decision

\* The command line names a command, and what was built before was built of sources that
\* are not newer than these.
ASSUME InvocationsAssumption ==
  /\ Files = {"bundle", "trust", "filters"}
  /\ Sessions # {} /\ DeviceLists # {} /\ Outputs # {}
  /\ {PresetLimit, MaxPolls} \subseteq Nat /\ RemoteAnyTime \in BOOLEAN
  /\ DOMAIN Emulator = {"serial", "names", "online"}
  /\ \A session \in Sessions :
       /\ \A p \in Processes : session.request[p].command \in Subcommands
       /\ session.artifact \in 0 .. 2
       /\ session.avd \in {"off", "starting", "online", "booted"}
       /\ session.bundle \in {"missing", "stale", "current"}

VARIABLES request,    \* the command line of each process
          todo,       \* its stages to come
          exit,       \* "running", the exit code, or "Killed"
          mem,        \* what it holds in memory
          tree,       \* [sources, inputs, artifact, failing] of the project's directory
          builder,    \* the Gradle build that holds Gradle's lock, if any
          installed,  \* the build installed on each device, 0 for none
          avd,        \* the emulator: off, starting, online, booted
          bridge,     \* [temp, final, inodes]: the files of the extracted bridge
          remote,     \* the Git remote of the project
          consents,   \* history: the remotes the user was asked about and trusted
                      \* the project with
          budget      \* bounds: how many edits, spoiled files, changes of the remote, kills
                      \* and power losses are still to come

processVars == <<request, todo, exit, mem>>
worldVars == <<tree, builder, installed, avd, bridge, remote, consents, budget>>
vars == <<processVars, worldVars, storageVars>>

NoBuild == {}
Serials == {Emulator.serial} \cup {d.serial : d \in UNION DeviceLists}

InitialMem == [known |-> FALSE, model |-> {}, output |-> {}, inputs |-> 0, config |-> Defaults,
               devices |-> {}, chosen |-> {}, asked |-> FALSE, trusted |-> FALSE,
               readFor |-> 0, previewed |-> {}, decision |-> "none", ran |-> FALSE, ranFor |-> 0,
               began |-> tree.sources, apk |-> 0, launched |-> 0, passed |-> TRUE,
               destroyed |-> FALSE, presets |-> {}, data |-> {}, wrote |-> 0, inode |-> 0,
               polls |-> 0, timedOut |-> FALSE, booted |-> FALSE]

Init ==
  \E session \in Sessions :
    /\ request = session.request
    /\ todo = [p \in Processes |-> Stages(request[p])]
    /\ exit = [p \in Processes |-> "running"]
    /\ tree = [sources |-> 2, inputs |-> 1, artifact |-> session.artifact,
               failing |-> session.failing]
    /\ mem = [p \in Processes |-> InitialMem]
    /\ builder = NoBuild
    /\ installed = [s \in Serials |-> session.artifact]
    /\ avd = session.avd
    /\ bridge = IF session.extracted THEN [temp |-> 0, final |-> 1, inodes |-> <<"whole">>]
                ELSE [temp |-> 0, final |-> 0, inodes |-> <<>>]
    /\ remote = 1 /\ consents = (IF session.trusted THEN {1} ELSE {}) /\ budget = session.budget
    /\ StorageInit(
         [f \in Files |->
            CASE f = "filters" -> Written(1, {"crashes"})
              [] f = "trust"   -> IF session.trusted THEN Written(1, 1) ELSE Missing
              [] f = "bundle"  ->
                   CASE session.bundle = "missing" -> Missing
                     [] session.bundle = "stale"   -> Written(1, [model |-> OldModel, inputs |-> 0])
                     [] session.bundle = "current" -> Written(1, [model |-> Model, inputs |-> 1])])

-----------------------------------------------------------------------------
Doing(p, does) == /\ exit[p] = "running"
                  /\ Head(todo[p]).do \in does
                  /\ UNCHANGED request

\* The stages that are left; after the last one the command has succeeded.
Follows(p, stages) == /\ todo' = [todo EXCEPT ![p] = stages]
                      /\ exit' = [exit EXCEPT ![p] = IF stages = <<>> THEN "Success" ELSE @]

Moves(p, m) == Follows(p, Tail(todo[p])) /\ mem' = [mem EXCEPT ![p] = m]
Inserts(p, stages, m) == Follows(p, stages \o Tail(todo[p])) /\ mem' = [mem EXCEPT ![p] = m]

\* Variant of FailsWith: the error is reported, and the command goes on.
FailsAndGoesOn(p, code, m) == /\ mem' = [mem EXCEPT ![p] = m]
                              /\ todo' = [todo EXCEPT ![p] = Tail(@)]
                              /\ exit' = [exit EXCEPT ![p] = code]

OpenedAt(stages) == SelectInSeq(stages, LAMBDA s : s.do = "opened")

\* An error ends the command, or leaves it with the project as it is.
FailsWith(p, code, m) ==
  /\ mem' = [mem EXCEPT ![p] = m]
  /\ IF code = Fallback
     THEN Follows(p, SubSeq(todo[p], OpenedAt(todo[p]), Len(todo[p])))
     ELSE /\ todo' = [todo EXCEPT ![p] = <<>>]
          /\ exit' = [exit EXCEPT ![p] = code]
Fails(p) == FailsWith(p, Head(todo[p]).exit, mem[p])

\* A stage that only depends on what is known, and one that may fail.
Checks(p, holds, m) == IF holds THEN Moves(p, m) ELSE Fails(p)
Tries(p, m) == Moves(p, m) \/ Fails(p)

\* Stages whose failure is the environment's and whose success changes nothing shared.
Local == {"sdk", "runtime", "report", "service", "compile", "buffer", "recorder", "temporary",
          "sync", "working-directory", "list-avds", "kill-server", "start-server"}
-----------------------------------------------------------------------------
Try(p) == /\ Doing(p, Local)
          /\ Tries(p, mem[p])
          /\ UNCHANGED <<worldVars, storageVars>>

Validate(p) ==
  /\ Doing(p, {"validate"})
  /\ Checks(p, request[p].yes => AllowsYes(request[p]) \/ request[p].command = "test", mem[p])
  /\ UNCHANGED <<worldVars, storageVars>>

\* A directory that cannot be read fails as well.
Discover(p) ==
  /\ Doing(p, {"discover"})
  /\ \/ Checks(p, IsDiscovered(request[p].start, request[p].explicit), mem[p])
     \/ Fails(p)
  /\ UNCHANGED <<worldVars, storageVars>>

LoadConfig(p) ==
  /\ Doing(p, {"config"})
  /\ LET named == request[p].config # Unnamed
         explicit == IF named THEN Layers.explicit[request[p].config] ELSE Layers.user
     IN Checks(p, Loads(Layers.shared, Layers.user, explicit, named),
               [mem[p] EXCEPT !.config = Resolved(Layers.shared, Layers.user, explicit, named)])
  /\ UNCHANGED <<worldVars, storageVars>>

\* FileProjectModelCache::load: a damaged bundle is set aside, and the load fails.
Bundle == directory.at["bundle"]
IsDamaged(file) == directory.at[file].kind = "damaged"
SetsAside(p, file, code) == Inserts(p, <<SetAsideStage(file, code)>>, mem[p])

OpenProject(p) ==
  /\ Doing(p, {"cache"})
  /\ \/ /\ IsDamaged("bundle")
        /\ SetsAside(p, "bundle", Head(todo[p]).exit)
     \/ /\ Bundle = Missing
        /\ Inserts(p, Refresh, mem[p])
     \/ /\ IsLoaded(Bundle)
        /\ LET m == [mem[p] EXCEPT !.known = TRUE, !.model = Bundle.data.model] IN
             IF Bundle.data.inputs = tree.inputs THEN Moves(p, m) ELSE Inserts(p, Refresh, m)
  /\ UNCHANGED <<worldVars, storageVars>>

\* load_json_recovering: the file is moved by name, whatever it holds by now; that it
\* cannot be moved is not noticed.
QuarantineFile(p) ==
  /\ Doing(p, {"set-aside"})
  /\ LET stage == Head(todo[p]) IN
       /\ IF stage.exit = Unnoticed THEN Moves(p, mem[p]) ELSE Fails(p)
       /\ IF directory.at[stage.file] = Missing THEN UNCHANGED storageVars ELSE SetAside(stage.file)
  /\ UNCHANGED worldVars

IsExtracted == bridge.final # 0 /\ bridge.inodes[bridge.final] = "whole"

Extract(p) == /\ Doing(p, {"extract"})
              /\ IF IsExtracted THEN Moves(p, mem[p]) ELSE Inserts(p, Extraction, mem[p])
              /\ UNCHANGED <<worldVars, storageVars>>

\* write_verified: every process writes the same temporary file; opening it empties it.
OpenTemporary(p) ==
  /\ Doing(p, {"open"})
  /\ LET inode == IF bridge.temp # 0 THEN bridge.temp ELSE Len(bridge.inodes) + 1 IN
       /\ bridge' = [bridge EXCEPT !.temp = inode, !.inodes =
                       IF bridge.temp # 0 THEN [@ EXCEPT ![inode] = "torn"] ELSE Append(@, "torn")]
       /\ Moves(p, [mem[p] EXCEPT !.inode = inode])
  /\ UNCHANGED <<tree, builder, installed, avd, remote, consents, budget, storageVars>>

FillTemporary(p) ==
  /\ Doing(p, {"fill"})
  /\ \/ /\ bridge' = [bridge EXCEPT !.inodes[mem[p].inode] = "whole"]
        /\ Moves(p, mem[p])
     \/ Fails(p) /\ UNCHANGED bridge
  /\ UNCHANGED <<tree, builder, installed, avd, remote, consents, budget, storageVars>>

VerifyTemporary(p) ==
  /\ Doing(p, {"verify"})
  /\ Checks(p, bridge.temp # 0 /\ bridge.inodes[bridge.temp] = "whole", mem[p])
  /\ UNCHANGED <<worldVars, storageVars>>

InstallBridge(p) ==
  /\ Doing(p, {"install-bridge"})
  /\ Checks(p, bridge.temp # 0, mem[p])
  /\ bridge' = IF bridge.temp # 0 THEN [bridge EXCEPT !.final = bridge.temp, !.temp = 0] ELSE bridge
  /\ UNCHANGED <<tree, builder, installed, avd, remote, consents, budget, storageVars>>

\* The modules and variants the records speak of.
ModelOf(records) ==
  {[m EXCEPT !.variants = {v \in @ : [type |-> "variant", module |-> m.path, name |-> v.name]
                                       \in records}] :
     m \in {n \in Model : [type |-> "module", module |-> n.path, name |-> ""] \in records}}

\* The bridge hashes the records of the whole model, whatever becomes of them on the way.
ASSUME BridgeAssumption ==
  \A stream \in Outputs :
    /\ stream \in Seq(Range(stream))
    /\ \A i \in DOMAIN stream :
         stream[i].type = "complete" => ModelOf(Assembled(stream[i].hash)) = Model

\* BridgeRunner::run: Gradle writes the records, which are read once it has ended well.
Evaluate(p) ==
  /\ Doing(p, {"evaluate"})
  /\ \E stream \in Outputs :
       Checks(p, IsExtracted /\ Assembles(stream),
              [mem[p] EXCEPT !.output = IF Assembles(stream) THEN ModelOf(Assembled(stream)) ELSE {}])
  /\ UNCHANGED <<worldVars, storageVars>>

\* The inputs are read after the evaluation, and the cache for their earlier hashes.
Fingerprint(p) ==
  /\ Doing(p, {"cache-again"})
  /\ IF IsDamaged("bundle")
     THEN SetsAside(p, "bundle", Fallback)
     ELSE Moves(p, [mem[p] EXCEPT !.inputs = tree.inputs,
                                  !.data = [model |-> mem[p].output, inputs |-> tree.inputs]])
  /\ UNCHANGED <<worldVars, storageVars>>

\* write_json_atomic from its rename on; before it only the temporary file exists.
RenameFile(p) ==
  /\ Doing(p, {"rename"})
  /\ LET file == Head(todo[p]).file IN
       \/ /\ Moves(p, [mem[p] EXCEPT !.wrote = writes[file] + 1])
          /\ Persist(file, mem[p].data, TRUE)
       \/ Fails(p) /\ UNCHANGED storageVars
  /\ UNCHANGED worldVars

SyncDirectory(p) ==
  /\ Doing(p, {"sync-directory"})
  /\ \/ Moves(p, mem[p]) /\ Acknowledge(Head(todo[p]).file, mem[p].wrote)
     \/ Fails(p) /\ UNCHANGED storageVars
  /\ UNCHANGED worldVars

Publish(p) == /\ Doing(p, {"publish"})
              /\ Moves(p, [mem[p] EXCEPT !.known = TRUE, !.model = mem[p].output])
              /\ UNCHANGED <<worldVars, storageVars>>

\* A command that can do without the project goes on when there is none.
ProjectOpened(p) ==
  /\ Doing(p, {"opened"})
  /\ Checks(p, mem[p].known \/ Head(todo[p]).exit = Fallback, mem[p])
  /\ UNCHANGED <<worldVars, storageVars>>

-----------------------------------------------------------------------------
\* The emulator as adb lists it; its AVD is only known from its properties.
Listed(enriched) ==
  IF avd \in {"off", "starting"} THEN {}
  ELSE {IF enriched THEN [Emulator EXCEPT !.names = @ \cup {Avd}] ELSE Emulator}

\* enriched_devices; a device whose properties cannot be read stays as it was listed.
ListDevices(p) ==
  /\ Doing(p, {"devices"})
  /\ \/ \E list \in DeviceLists, enriched \in BOOLEAN :
          Moves(p, [mem[p] EXCEPT !.devices = list \cup Listed(enriched)])
     \/ Fails(p)
  /\ UNCHANGED <<worldVars, storageVars>>

\* An environment variable that a profile refers to may be missing.
ResolveProfile(p) ==
  /\ Doing(p, {"profile"})
  /\ LET m == mem[p]
         r == request[p]
         resolves == Resolves(m.model, m.config, m.devices, r, NeedsDevice(r))
     IN \/ Checks(p, resolves,
                  [m EXCEPT !.chosen = IF resolves THEN {Chosen(m.model, m.config, m.devices, r)}
                                       ELSE {}])
        \/ Fails(p)
  /\ UNCHANGED <<worldVars, storageVars>>

Choice(p) == CHOOSE c \in mem[p].chosen : TRUE
Device(p) == (CHOOSE d \in Choice(p).device : TRUE).serial

\* Without --yes the user is asked, where there is somebody to ask.
Confirm(p) ==
  /\ Doing(p, {"confirm"})
  /\ LET r == request[p] IN
       IF (IsDestructive(r.command) \/ NeedsConfirmation(Choice(p), r)) /\ ~r.yes
       THEN \/ r.interactive /\ Moves(p, [mem[p] EXCEPT !.asked = TRUE])
            \/ Fails(p)
       ELSE Moves(p, mem[p])
  /\ UNCHANGED <<worldVars, storageVars>>

\* Gradle runs one build of a project at a time, whoever asks for it, and reads the
\* sources once it has begun.
StartGradle(p) ==
  /\ Doing(p, {"assemble", "clean", "test"})
  /\ builder = NoBuild
  /\ builder' = {[by |-> p, does |-> Head(todo[p]).do, sources |-> tree.sources]}
  /\ UNCHANGED <<todo, exit, mem, tree, installed, avd, bridge, remote, consents, budget,
                 storageVars>>

\* The build ends, well or not, whether or not the command still waits for it.  A run
\* of local tests that fails early writes no reports, and those of another variant are left.
GradleEnds ==
  \E build \in builder, well \in BOOLEAN, failing \in BOOLEAN :
    LET p == build.by
        m == [mem[p] EXCEPT !.passed = @ /\ well]
        local == build.does = "test" /\ request[p].kind = "local"
    IN /\ builder' = NoBuild
       /\ failing => local /\ (~well \/ tree.failing)
       /\ tree' = CASE local                         -> [tree EXCEPT !.failing = failing]
                    [] build.does = "clean" /\ well  -> [tree EXCEPT !.artifact = 0]
                    [] build.does = "assemble" /\ well -> [tree EXCEPT !.artifact = build.sources]
                    [] OTHER                         -> tree
       /\ CASE exit[p] # "running"                  -> UNCHANGED <<todo, exit, mem>>
            [] exit[p] = "running" /\ (well \/ build.does = "test") -> Moves(p, m)
            [] OTHER                                -> Fails(p)
       /\ UNCHANGED <<request, installed, avd, bridge, remote, consents, budget, storageVars>>

\* ResolvedTestInvocation::resolve.  The selection always names the module, which a
\* custom task refuses.
ResolveInvocation(p) ==
  /\ Doing(p, {"invocation"})
  /\ Checks(p, CASE request[p].kind = "local"           -> "package" \notin request[p].selects
                 [] request[p].kind = "instrumentation" -> Choice(p).device # {}
                 [] request[p].kind = "custom"          -> FALSE, mem[p])
  /\ UNCHANGED <<worldVars, storageVars>>

\* run returns an error: Gradle cannot be started, or the wait for it is given up.
GradleFails(p) ==
  /\ Doing(p, {"assemble", "clean", "test"})
  /\ \A build \in builder : build.by # p
  /\ Fails(p)
  /\ UNCHANGED <<worldVars, storageVars>>

\* --rerun-failed takes the failed cases of the local reports as they are.
FindFailures(p) == /\ Doing(p, {"failures"})
                   /\ Checks(p, request[p].kind = "local" /\ tree.failing, mem[p])
                   /\ UNCHANGED <<worldVars, storageVars>>

\* The reports below the module's build directory are read after the last run; those of
\* an instrumentation run may be of an earlier one, and without any the output counts.
Verdict(p) ==
  /\ Doing(p, {"verdict"})
  /\ LET local == request[p].kind = "local" IN
       \/ Checks(p, mem[p].passed /\ (local => ~tree.failing), mem[p])
       \/ ~local /\ Fails(p)
  /\ UNCHANGED <<worldVars, storageVars>>

\* discover_apks: `install` assembles when it finds none.
FindArtifacts(p) ==
  /\ Doing(p, {"existing", "find"})
  /\ CASE tree.artifact # 0 -> Moves(p, mem[p])
       [] tree.artifact = 0 /\ Head(todo[p]).do = "existing" ->
            Inserts(p, Assemble \o Adb("find"), mem[p])
       [] OTHER -> Fails(p)
  /\ UNCHANGED <<worldVars, storageVars>>

-----------------------------------------------------------------------------
\* One adb command: it takes effect or not, and may be reported as failed although
\* it did, when adb does not answer within its five seconds.
Adbs(p, effect, unchanged, m) ==
  \/ effect /\ (Moves(p, m) \/ FailsWith(p, Head(todo[p]).exit, m))
  \/ unchanged /\ Fails(p)

AdbInstall(p) ==
  /\ Doing(p, {"install"})
  /\ Adbs(p, tree.artifact # 0 /\ installed' = [installed EXCEPT ![Device(p)] = tree.artifact],
          UNCHANGED installed, mem[p])
  /\ UNCHANGED <<tree, builder, avd, bridge, remote, consents, budget, storageVars>>

AdbRemove(p) ==
  /\ Doing(p, {"uninstall", "clear"})
  /\ Adbs(p, installed' = IF Head(todo[p]).do = "clear" THEN installed
                          ELSE [installed EXCEPT ![Device(p)] = 0],
          UNCHANGED installed, [mem[p] EXCEPT !.destroyed = TRUE])
  /\ UNCHANGED <<tree, builder, avd, bridge, remote, consents, budget, storageVars>>

AdbLaunch(p) ==
  /\ Doing(p, {"launch"})
  /\ \/ /\ installed[Device(p)] # 0
        /\ Adbs(p, TRUE, TRUE, [mem[p] EXCEPT !.launched = installed[Device(p)]])
     \/ installed[Device(p)] = 0 /\ Fails(p)
  /\ UNCHANGED <<worldVars, storageVars>>

AdbStop(p) == /\ Doing(p, {"stop"})
              /\ Tries(p, mem[p])
              /\ UNCHANGED <<worldVars, storageVars>>

RunsAvd(devices) == {d \in devices : Avd \in d.names}

\* start and stop of an emulator, by the list taken when the command began.
CheckEmulator(p) ==
  /\ Doing(p, {"not-running", "running", "wipe"})
  /\ LET stage == Head(todo[p]).do
         count == Cardinality(RunsAvd(mem[p].devices))
     IN Checks(p, CASE stage = "not-running" -> count = 0
                    [] stage = "running"     -> count = 1
                    [] stage = "wipe"        -> request[p].wipe => request[p].yes, mem[p])
  /\ UNCHANGED <<worldVars, storageVars>>

\* An emulator that runs already refuses its AVD to a second one.
SpawnEmulator(p) ==
  /\ Doing(p, {"spawn"})
  /\ \/ /\ avd' = IF avd = "off" THEN "starting" ELSE avd
        /\ Moves(p, [mem[p] EXCEPT !.destroyed = request[p].wipe])
     \/ Fails(p) /\ UNCHANGED avd
  /\ UNCHANGED <<tree, builder, installed, bridge, remote, consents, budget, storageVars>>

\* The poll lists the devices as they are, without their properties.
PollBoot(p) ==
  /\ Doing(p, {"boot"})
  /\ LET m == [mem[p] EXCEPT !.polls = @ + 1, !.booted = avd = "booted"] IN
       CASE RunsAvd(Listed(FALSE)) # {} /\ avd = "booted" -> Moves(p, m)
         [] m.polls = MaxPolls -> FailsWith(p, Head(todo[p]).exit, [m EXCEPT !.timedOut = TRUE])
         [] OTHER -> mem' = [mem EXCEPT ![p] = m] /\ UNCHANGED <<todo, exit>>
  /\ UNCHANGED <<worldVars, storageVars>>

KillEmulator(p) ==
  /\ Doing(p, {"kill"})
  /\ \/ avd' = "off" /\ (Moves(p, mem[p]) \/ Fails(p))
     \/ Fails(p) /\ UNCHANGED avd
  /\ UNCHANGED <<tree, builder, installed, bridge, remote, consents, budget, storageVars>>

-----------------------------------------------------------------------------
\* Variant of IsTrusted: any trust that was stored counts.
IsTrustedForAny == IsLoaded(directory.at["trust"])

\* is_trusted: the trust stored is for the remote the project has now.
IsTrusted == IsLoaded(directory.at["trust"]) /\ directory.at["trust"].data = remote

FindCommand(p) == /\ Doing(p, {"named"})
                  /\ Checks(p, request[p].name \in DOMAIN mem[p].config.commands, mem[p])
                  /\ UNCHANGED <<worldVars, storageVars>>

\* Read for the preview, whose remote is the one the user is asked about, and again before
\* the command is run.  Git's configuration or the trust file may be unreadable.
ReadTrust(p) ==
  /\ Doing(p, {"trust"})
  /\ LET m == [mem[p] EXCEPT !.trusted = IsTrusted, !.readFor = remote,
                             !.previewed = IF @ = {} THEN {remote} ELSE @]
     IN \/ IF IsDamaged("trust") THEN Inserts(p, <<SetAsideStage("trust", Unnoticed)>>, m)
           ELSE Moves(p, m)
        \/ Fails(p)
  /\ UNCHANGED <<worldVars, storageVars>>

Ask(p) ==
  /\ Doing(p, {"ask"})
  /\ IF ~mem[p].trusted /\ request[p].interactive
     THEN \E answer \in {"once", "project", "cancel"} :
            Moves(p, [mem[p] EXCEPT !.decision = answer, !.asked = @ \/ answer # "cancel"])
     ELSE Moves(p, [mem[p] EXCEPT !.decision = "once"])
  /\ UNCHANGED <<worldVars, storageVars>>

\* The trust is stored for the remote the project has by now, whichever the user was asked
\* about; the answer is used up.
Decide(p) ==
  /\ Doing(p, {"decide"})
  /\ LET m == mem[p]
         decided == [m EXCEPT !.decision = "none", !.previewed = {}]
         stores == ~m.trusted /\ request[p].interactive /\ m.decision = "project"
     IN /\ IF stores
           THEN Inserts(p, Write("trust", "InvalidUsage"), [decided EXCEPT !.data = remote])
           ELSE Checks(p, m.trusted \/ (request[p].interactive /\ m.decision = "once"), decided)
        /\ consents' = IF stores THEN consents \cup m.previewed ELSE consents
  /\ UNCHANGED <<tree, builder, installed, avd, bridge, remote, budget, storageVars>>

\* A command that ran and failed has run as well; one that cannot be started has not.
RunCommand(p) ==
  /\ Doing(p, {"run"})
  /\ LET m == [mem[p] EXCEPT !.ran = TRUE, !.ranFor = mem[p].readFor] IN
       Moves(p, m) \/ FailsWith(p, Head(todo[p]).exit, m) \/ FailsWith(p, "InvalidUsage", mem[p])
  /\ UNCHANGED <<worldVars, storageVars>>

-----------------------------------------------------------------------------
\* A preset to filter with must be there; the presets to add one to need not.
Presets == IF IsLoaded(directory.at["filters"]) THEN directory.at["filters"].data ELSE {}

UsePreset(p) == /\ Doing(p, {"use-preset"})
                /\ IF IsDamaged("filters") THEN SetsAside(p, "filters", Head(todo[p]).exit)
                   ELSE Checks(p, request[p].preset \in Presets, mem[p])
                /\ UNCHANGED <<worldVars, storageVars>>

LoadPresets(p) ==
  /\ Doing(p, {"load-presets"})
  /\ LET m == [mem[p] EXCEPT !.presets = Presets] IN
       IF IsDamaged("filters") THEN Inserts(p, <<SetAsideStage("filters", Unnoticed)>>, m)
       ELSE Moves(p, m)
  /\ UNCHANGED <<worldVars, storageVars>>

AddPreset(p) ==
  /\ Doing(p, {"add-preset"})
  /\ LET presets == mem[p].presets \cup {request[p].save} IN
       IF Cardinality(presets) <= PresetLimit
       THEN Inserts(p, Write("filters", Head(todo[p]).exit), [mem[p] EXCEPT !.data = presets])
       ELSE Fails(p)
  /\ UNCHANGED <<worldVars, storageVars>>

\* resolve_log_target: by the run profile, unless only a package and a device are named, or
\* by the device alone.
ResolveTarget(p) ==
  /\ Doing(p, {"target"})
  /\ LET m == mem[p]
         r == request[p]
         needsProfile == \/ ~r.package \/ r.device = Unnamed
                         \/ {r.profile, r.module, r.variant} # {Unnamed}
     IN \/ Checks(p, IF needsProfile /\ m.known THEN Resolves(m.model, m.config, m.devices, r, TRUE)
                     ELSE r.device # Unnamed /\ Cardinality(Selects(m.devices, r.device)) = 1, m)
        \/ needsProfile /\ m.known /\ Fails(p)
  /\ UNCHANGED <<worldVars, storageVars>>

\* run_logs, in LogsCommand: to its end, an error, or Ctrl-C.
Capture(p) == /\ Doing(p, {"capture"})
              /\ Tries(p, mem[p]) \/ FailsWith(p, "Cancelled", mem[p])
              /\ UNCHANGED <<worldVars, storageVars>>

-----------------------------------------------------------------------------
\* The world around the processes.
Spends(what) == budget[what] > 0 /\ budget' = [budget EXCEPT ![what] = @ - 1]

Kill(p) == /\ Spends("kills") /\ exit[p] = "running"
           /\ exit' = [exit EXCEPT ![p] = "Killed"]
           /\ todo' = [todo EXCEPT ![p] = <<>>]
           /\ UNCHANGED <<request, mem, tree, builder, installed, avd, bridge, remote, consents,
                          storageVars>>

LosePower == /\ Spends("losses")
             /\ PowerLoss
             /\ exit' = [p \in Processes |-> IF exit[p] = "running" THEN "Killed" ELSE exit[p]]
             /\ todo' = [p \in Processes |-> <<>>]
             /\ builder' = NoBuild
             /\ UNCHANGED <<request, mem, tree, installed, avd, bridge, remote, consents>>

Edit == /\ Spends("edits")
        /\ \E input \in {0, 1} :
             tree' = [tree EXCEPT !.sources = @ + 1, !.inputs = @ + input]
        /\ UNCHANGED <<processVars, builder, installed, avd, bridge, remote, consents, storageVars>>

SpoilFile == /\ Spends("spoils")
             /\ \E file \in Files : Spoil(file)
             /\ UNCHANGED <<processVars, tree, builder, installed, avd, bridge, remote, consents>>

\* Where RemoteAnyTime does not hold, no remote is changed between a command's preview and
\* its decision.
RemoteChanges == /\ Spends("remotes")
                 /\ \/ RemoteAnyTime
                    \/ \A p \in Processes : exit[p] = "running" => mem[p].previewed = {}
                 /\ remote' = remote + 1
                 /\ UNCHANGED <<processVars, tree, builder, installed, avd, bridge, consents,
                                storageVars>>

EmulatorBoots == /\ avd \in {"starting", "online"}
                 /\ avd' = IF avd = "starting" THEN "online" ELSE "booted"
                 /\ UNCHANGED <<processVars, tree, builder, installed, bridge, remote, consents,
                                budget, storageVars>>

Steps(p) ==
  \/ Try(p) \/ Validate(p) \/ Discover(p) \/ LoadConfig(p) \/ OpenProject(p) \/ QuarantineFile(p)
  \/ Extract(p) \/ OpenTemporary(p) \/ FillTemporary(p) \/ VerifyTemporary(p) \/ InstallBridge(p)
  \/ Evaluate(p) \/ Fingerprint(p) \/ RenameFile(p) \/ SyncDirectory(p) \/ Publish(p)
  \/ ProjectOpened(p) \/ ListDevices(p) \/ ResolveProfile(p) \/ Confirm(p)
  \/ ResolveInvocation(p) \/ StartGradle(p) \/ GradleFails(p) \/ FindFailures(p) \/ Verdict(p)
  \/ FindArtifacts(p)
  \/ AdbInstall(p) \/ AdbRemove(p) \/ AdbLaunch(p) \/ AdbStop(p)
  \/ CheckEmulator(p) \/ SpawnEmulator(p) \/ PollBoot(p) \/ KillEmulator(p)
  \/ FindCommand(p) \/ ReadTrust(p) \/ Ask(p) \/ Decide(p) \/ RunCommand(p)
  \/ UsePreset(p) \/ LoadPresets(p) \/ AddPreset(p) \/ ResolveTarget(p) \/ Capture(p)

Next == \/ \E p \in Processes : Steps(p) \/ Kill(p)
        \/ GradleEnds
        \/ LosePower \/ Edit \/ SpoilFile \/ RemoteChanges \/ EmulatorBoots

Spec == Init /\ [][Next]_vars

-----------------------------------------------------------------------------
\* The stages to come are those of the command; a command has ended or has some left;
\* the stored files, the builder and the bridge are what they can be.
TypeOK ==
  /\ StorageTypeOK
  /\ \A p \in Processes : exit[p] = "running" <=> todo[p] # <<>>
  /\ Cardinality(builder) <= 1
  /\ bridge.final \in 0 .. Len(bridge.inodes) /\ bridge.temp \in 0 .. Len(bridge.inodes)
  /\ tree.artifact <= tree.sources
  /\ \A s \in Serials : installed[s] <= tree.sources
  /\ remote \in Nat /\ avd \in {"off", "starting", "online", "booted"}

\* What a success says: run and its kin have launched what was built of the sources
\* as they were when the command began or later, and no test run of a successful
\* test command failed, whichever other commands build, install or test meanwhile.
SuccessIsTrue ==
  \A p \in Processes : exit[p] = "Success" =>
    /\ request[p].command \in {"run", "reinstall", "clean-reinstall"} =>
         mem[p].launched >= mem[p].began
    /\ request[p].command = "test" => mem[p].passed

\* Data on a device, and a release build on it, are only touched by a command that was
\* given --yes, was answered yes, or names a profile for the release.
NothingIsTouchedUnasked ==
  \A p \in Processes :
    LET r == request[p]
        m == mem[p]
    IN /\ m.destroyed => r.yes \/ m.asked
       /\ exit[p] = "running" /\ m.chosen # {} /\ Choice(p).variant.release
            /\ Head(todo[p]).do \in {"assemble", "install", "launch", "stop"}
            /\ r.command # "test"
          => r.yes \/ m.asked \/ r.profile # Unnamed

\* A write whose command went on after it is kept through crashes, other commands'
\* writes and their handling of damaged files: the path has it or a later one, or it
\* was set aside.
NothingAcknowledgedIsLost == \A f \in Files : Keeps(directory, f)

\* A custom command runs when its user was asked and agreed, or had agreed to trust the
\* project with the very Git remote the command read last before it ran: a change of the
\* remote takes the trust back, and trust is stored for the remote the user was asked about
\* (SPECS.md: "Trust is invalidated when the Git remote changes.").
TrustedOrAsked ==
  \A p \in Processes : mem[p].ran => mem[p].asked \/ mem[p].ranFor \in consents

\* No command works with part of a model: what Gradle failed to write whole, and a
\* file damaged in the cache, are never taken for the project.
OnlyWholeModelsAreUsed ==
  \A p \in Processes : mem[p].known => mem[p].model \in {Model, OldModel}

\* What the user names is what is chosen: whatever the profile, the configuration and
\* the other devices say, and never one of several.
SelectionIsExact ==
  \A p \in Processes : \A c \in mem[p].chosen :
    LET r == request[p] IN
      /\ r.module # Unnamed => c.module.path = r.module
      /\ r.variant # Unnamed => c.variant.name = r.variant
      /\ r.module = Unnamed /\ r.profile # Unnamed /\ ProfileOf(mem[p].config, r).module # Unnamed =>
           c.module.path = ProfileOf(mem[p].config, r).module
      /\ NeedsDevice(r) => \E d \in mem[p].devices :
           /\ c.device = {d} /\ d.online
           /\ r.device # Unnamed => \/ d.serial = r.device
                               \/ \A e \in mem[p].devices : r.device \in e.names => e = d

-----------------------------------------------------------------------------
\* SPECS.md lists "Monitor boot completion" for emulators: an emulator that was booted
\* when it was last looked at is not reported as one that did not boot in time.
BootedEmulatorIsReported == \A p \in Processes : mem[p].timedOut => ~mem[p].booted
=============================================================================
