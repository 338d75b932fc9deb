---------------------------- MODULE CommandStages ---------------------------
(***************************************************************************)
(* What each subcommand of `dexdeck` does, one stage after the other, and  *)
(* the exit code when a stage fails (dexdeck, lib.rs: execute and the      *)
(* execute_ functions).  A stage that fails with Fallback does not end the *)
(* command: the command goes on with the project as it was before.         *)
(***************************************************************************)
EXTENDS Naturals, Sequences, SequencesExt

Stage(do, exit) == [do |-> do, exit |-> exit, file |-> "none"]

Fallback == "Fallback"

\* The exit of a stage whose failure nobody hears of.
Unnoticed == "Unnoticed"

\* write_json_atomic.
Write(file, exit) ==
  [n \in 1 .. 4 |-> [do |-> <<"temporary", "sync", "rename", "sync-directory">>[n],
                     exit |-> exit, file |-> file]]

\* A damaged file is set aside before the caller hears of it.
SetAsideStage(file, exit) == [do |-> "set-aside", exit |-> exit, file |-> file]

\* extract_bridge and write_verified, for a bridge that is not there yet.
Extraction == [n \in 1 .. 4 |-> Stage(<<"open", "fill", "verify", "install-bridge">>[n], Fallback)]

\* ProjectModelService::refresh as one command sees it.
Refresh == <<Stage("extract", Fallback), Stage("evaluate", Fallback), Stage("cache-again", Fallback)>>
             \o Write("bundle", Fallback) \o <<Stage("publish", Fallback)>>

\* load_operation_project up to the open of the service, and the model it asks for.
Project(exit) == <<Stage("discover", exit), Stage("config", exit), Stage("cache", exit),
                   Stage("opened", exit)>>

Tools(runtime) == <<Stage("sdk", "ToolMissing"), Stage("runtime", runtime),
                    Stage("devices", "DeviceError")>>

Report == <<Stage("report", "Internal")>>

Adb(do) == <<Stage(do, "OperationFailed")>>

\* Variant of Assemble: what an earlier build left is taken as it is.
AssembleNothing == <<>>

Assemble == Adb("assemble")
Install == Adb("find") \o Adb("install")

\* The match at the heart of execute_application_command.
Operation(command) ==
  CASE command = "build"           -> Assemble
    [] command = "install"         -> Adb("existing") \o Adb("install")
    [] command = "launch"          -> Adb("launch")
    [] command \in {"run", "reinstall"} -> Assemble \o Install \o Adb("launch")
    [] command = "clean-reinstall" -> Assemble \o Adb("uninstall") \o Install \o Adb("launch")
    [] command = "rerun"           -> Adb("stop") \o Adb("launch")
    [] command = "stop"            -> Adb("stop")
    [] command = "uninstall"       -> Adb("uninstall")
    [] command = "clear-data"      -> Adb("clear")

\* execute_application_command.
ApplicationStages(command) ==
  Project("ProjectUnavailable") \o Tools("Internal")
    \o <<Stage("profile", "InvalidUsage"), Stage("confirm", "InvalidUsage")>>
    \o Operation(command) \o Report

\* execute_tests; --rerun-failed runs Gradle once for each failed case, two here.
TestStages(rerun) ==
  Project("ProjectUnavailable") \o Tools("InvalidUsage")
    \o <<Stage("profile", "InvalidUsage"), Stage("invocation", "InvalidUsage")>>
    \o (IF rerun THEN <<Stage("failures", "InvalidUsage")>> \o Adb("test") ELSE <<>>)
    \o Adb("test") \o Report \o <<Stage("verdict", "OperationFailed")>>

UsesPreset(r) == r.preset # ""
SavesPreset(r) == r.save # ""

\* execute_logs; the project is only required by some options.
LogsStages(r) ==
  Project(IF r.needsProject THEN "ProjectUnavailable" ELSE Fallback)
    \o (IF UsesPreset(r) THEN <<Stage("use-preset", "InvalidUsage")>> ELSE <<>>)
    \o <<Stage("compile", "InvalidUsage")>>
    \o (IF SavesPreset(r) THEN <<Stage("load-presets", "InvalidUsage"),
                              Stage("add-preset", "InvalidUsage")>> ELSE <<>>)
    \o Tools("Internal")
    \o <<Stage("target", "DeviceError"), Stage("buffer", "InvalidUsage"),
         Stage("recorder", "OperationFailed"), Stage("capture", "OperationFailed")>>

\* execute_custom_command: the preview, the question, and execute of the service.
CustomStages ==
  Project("ProjectUnavailable")
    \o [n \in 1 .. 7 |-> Stage(<<"named", "service", "trust", "ask", "runtime", "trust", "decide">>[n],
                               IF n = 5 THEN "Internal" ELSE "InvalidUsage")]
    \o <<Stage("working-directory", "InvalidUsage"), Stage("run", "OperationFailed")>> \o Report

\* execute_android_tool_command; the Gradle task stands for `clean`.  What fails after
\* the runtime exists is one error.
ToolStages(command, exit) ==
  <<Stage("sdk", "ToolMissing"), Stage("runtime", "Internal")>>
    \o [n \in 1 .. Len(command) |-> Stage(command[n], exit)] \o Report

\* execute_project_command.
ProjectStages ==
  <<Stage("discover", "ProjectUnavailable"), Stage("config", "InvalidUsage"),
    Stage("cache", "ProjectUnavailable"), Stage("opened", Fallback)>> \o Report

\* execute_doctor: the snapshot is written, then a missing tool is the exit code.
DoctorStages == Report \o <<Stage("sdk", "ToolMissing")>>

Subcommands == {"init", "version", "doctor", "project", "devices", "restart-adb", "emulators",
                "emulator-start", "emulator-stop", "gradle", "test", "logs", "command", "build",
                "install", "launch", "run", "reinstall", "clean-reinstall", "rerun", "stop",
                "uninstall", "clear-data"}

\* execute; `init` is accepted and does nothing.
Stages(r) ==
  <<Stage("validate", "InvalidUsage")>> \o
  CASE r.command = "init"           -> <<>>
    [] r.command = "version"        -> Report
    [] r.command = "doctor"         -> DoctorStages
    [] r.command = "project"        -> ProjectStages
    [] r.command = "devices"        -> ToolStages(<<"devices">>, "DeviceError")
    [] r.command = "restart-adb"    -> ToolStages(<<"kill-server", "start-server">>, "DeviceError")
    [] r.command = "emulators"      -> ToolStages(<<"devices", "list-avds">>, "DeviceError")
    [] r.command = "emulator-start" ->
         ToolStages(<<"devices", "not-running", "wipe", "spawn", "boot">>, "DeviceError")
    [] r.command = "emulator-stop"  -> ToolStages(<<"devices", "running", "kill">>, "DeviceError")
    [] r.command = "gradle"         -> ToolStages(<<"discover", "clean">>, "OperationFailed")
    [] r.command = "test"           -> TestStages(r.rerun)
    [] r.command = "logs"           -> LogsStages(r)
    [] r.command = "command"        -> CustomStages
    [] OTHER                        -> ApplicationStages(r.command)

-----------------------------------------------------------------------------
\* allows_yes.
AllowsYes(r) ==
  \/ r.command \in {"clean-reinstall", "uninstall", "clear-data", "install", "run", "reinstall"}
  \/ r.command = "emulator-start" /\ r.wipe

\* Variant of IsDestructive: a clean reinstall is taken for a reinstall.
IsDestructiveAtLast(command) == command \in {"uninstall", "clear-data"}

IsDestructive(command) == command \in {"clean-reinstall", "uninstall", "clear-data"}

NeedsDevice(r) == IF r.command = "test" THEN r.kind = "instrumentation" ELSE r.command # "build"
=============================================================================
