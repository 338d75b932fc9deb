--------------------------- MODULE MCInvocations ---------------------------
EXTENDS Invocations

Variant(name, release) == [name |-> name, enabled |-> TRUE, release |-> release, id |-> "app"]
Module(path, kind, variants) == [path |-> path, kind |-> kind, variants |-> variants]

\* Two applications, one with a release variant, and a library.
MCModel == {Module("app", "application", {Variant("debug", FALSE), Variant("release", TRUE)}),
            Module("wear", "application", {Variant("debug", FALSE)}),
            Module("lib", "library", {Variant("debug", FALSE)})}
MCOldModel == {m \in MCModel : m.path = "app"}

Layer(settings, profiles, commands) ==
  [state |-> "present", sdk |-> FALSE, settings |-> settings, profiles |-> profiles,
   commands |-> commands]

\* The profile of the shared file is replaced whole by the user's.
MCLayers ==
  [shared   |-> Layer([module |-> "wear"], [day |-> [NoProfile EXCEPT !.variant = "debug"]],
                      [lint |-> "lint"]),
   user     |-> Layer(NoNames, [day |-> [NoProfile EXCEPT !.module = "app", !.device = "Pixel"]],
                      NoNames),
   explicit |-> [f \in {"ci.toml", "typo.toml"} |->
                  [Layer([variant |-> "debug"], NoNames, NoNames) EXCEPT !.state =
                     IF f = "ci.toml" THEN @ ELSE "invalid"]]]

Phone(serial, online) == [serial |-> serial, names |-> {"Pixel"}, online |-> online]
MCEmulator == [serial |-> "emulator-5554", names |-> {"sdk"}, online |-> TRUE]

\* One phone, or two of one model, one of which is not authorized.
MCDeviceLists == {{Phone("P1", TRUE)}, {Phone("P1", TRUE), Phone("P2", FALSE)}}

MCWhole == LET records == <<Record("build", "", ""),
                            Record("module", "app", ""), Record("variant", "app", "debug"),
                            Record("variant", "app", "release"), Record("module", "wear", ""),
                            Record("variant", "wear", "debug"), Record("module", "lib", ""),
                            Record("variant", "lib", "debug")>>
           IN Append(records, Complete(records))
Completion == Complete(Front(MCWhole))

\* The bridge writes all, stops early, loses a record, repeats one, swaps two, writes
\* a part before its module, or another one in its place; or reports an error.
MCOutputs == {MCWhole, Front(MCWhole),
              SubSeq(MCWhole, 1, 7) \o <<Completion>>,
              RemoveAt(MCWhole, 4),
              ReplaceAt(RemoveAt(MCWhole, 4), 8, [Completion EXCEPT !.count = 7]),
              ReplaceAt(MCWhole, 4, MCWhole[3]),
              ReplaceAt(ReplaceAt(MCWhole, 5, MCWhole[6]), 6, MCWhole[5]),
              ReplaceAt(MCWhole, 6, Record("flavor", "wear", "free")),
              ReplaceAt(MCWhole, 4, Record("error", "", ""))}

\* From a module below the root of the project.
Root == {"settings", "wrapper", "android"}
InModule == <<{"build script", "android"}, Root>>

Request(command) ==
  [command |-> command, yes |-> FALSE, interactive |-> TRUE, profile |-> "", module |-> "app",
   variant |-> "debug", device |-> "P1", config |-> "", preset |-> "", save |-> "",
   needsProject |-> FALSE, package |-> FALSE, rerun |-> FALSE, kind |-> "local", selects |-> {},
   wipe |-> FALSE, name |-> "", start |-> InModule, explicit |-> FALSE]

NoBudget == [edits |-> 0, spoils |-> 0, remotes |-> 0, kills |-> 0, losses |-> 0]
Session(one, other, world, bounds) ==
  [request |-> [p \in {"one", "other"} |-> IF p = "one" THEN one ELSE other],
   artifact |-> world.artifact, failing |-> world.failing, avd |-> world.avd,
   extracted |-> world.extracted, trusted |-> world.trusted, bundle |-> world.bundle,
   budget |-> bounds]

Found == [artifact |-> 1, failing |-> FALSE, avd |-> "off", extracted |-> TRUE, trusted |-> FALSE,
          bundle |-> "current"]

Log(preset, save) == [Request("logs") EXCEPT !.preset = preset, !.save = save,
                                             !.needsProject = TRUE]

\* The logs of a package, which need no project.
LogPackage(device) ==
  [Request("logs") EXCEPT !.module = "", !.variant = "", !.package = TRUE, !.device = device]
Custom == [Request("command") EXCEPT !.name = "lint"]

\* Builds at once while the sources are edited, and an application that comes and goes.
Builds ==
  {Session(Request("run"), Request(other), Found, [NoBudget EXCEPT !.edits = 2, !.kills = 1]) :
     other \in {"build", "clean-reinstall"}}
  \cup {Session(Request("install"), Request("uninstall"), [Found EXCEPT !.artifact = 0],
                [NoBudget EXCEPT !.kills = 1]),
        Session(Request("launch"), Request("reinstall"), Found, NoBudget)}

Tests ==
  {Session([Request("test") EXCEPT !.rerun = TRUE], Request("test"), [Found EXCEPT !.failing = TRUE],
           NoBudget),
   Session([Request("test") EXCEPT !.kind = "instrumentation"],
           [Request("test") EXCEPT !.rerun = TRUE, !.yes = TRUE, !.device = ""], Found, NoBudget)}
  \cup {Session([Request("test") EXCEPT !.kind = kind, !.rerun = rerun, !.selects = selects],
                Request("version"), [Found EXCEPT !.failing = TRUE], NoBudget) :
          kind \in {"local", "instrumentation", "custom"}, rerun \in BOOLEAN,
          selects \in {{"package"}, {"class", "method"}}}

\* What the command line names, leaves to a profile or to the configuration.
Selections ==
  {Session([Request("run") EXCEPT !.profile = profile, !.module = module, !.variant = variant,
                                  !.device = device, !.config = config, !.interactive = FALSE],
           Request("version"), Found, NoBudget) :
     profile \in {"", "day", "night"}, module \in {"", "app", "lib"},
     variant \in {"", "debug", "release"}, device \in {"", "P1", "Pixel"},
     config \in {"", "ci.toml", "typo.toml"}}

\* Destructive and release commands, with and without --yes and somebody to ask.
Confirmations ==
  {Session([Request(command) EXCEPT !.yes = yes, !.interactive = interactive, !.variant = variant],
           Request("doctor"), Found, NoBudget) :
     command \in {"clean-reinstall", "uninstall", "clear-data", "install", "rerun", "stop"},
     yes \in BOOLEAN, interactive \in BOOLEAN, variant \in {"debug", "release"}}

\* The model is refreshed by two commands at once, with or without the bridge, and the
\* bundle is damaged under them.
Refreshes ==
  {Session(Request("project"), Request("project"),
           [Found EXCEPT !.bundle = "stale"], [NoBudget EXCEPT !.spoils = 1]),
   Session(Request("project"), Request("project"),
           [Found EXCEPT !.bundle = "missing"], [NoBudget EXCEPT !.losses = 1]),
   Session(Request("project"), LogPackage(""),
           [Found EXCEPT !.bundle = "missing", !.extracted = FALSE], [NoBudget EXCEPT !.edits = 1])}

Presettings ==
  {Session(Log("", "mine"), Log("", "yours"), Found,
           [NoBudget EXCEPT !.spoils = 1, !.losses = 1]),
   Session(Log("crashes", ""), Log("mine", "mine"), Found, [NoBudget EXCEPT !.spoils = 1])}

Commands ==
  {Session(Custom, [Custom EXCEPT !.interactive = interactive], [Found EXCEPT !.trusted = trusted],
           [NoBudget EXCEPT !.remotes = 1, !.spoils = 1]) :
     interactive \in BOOLEAN, trusted \in BOOLEAN}
  \cup {Session(Request("command"), Request("build"), Found, [NoBudget EXCEPT !.kills = 1])}

\* A custom command whose remote may be changed.
MCRemotes == {Session(Custom, Custom, [Found EXCEPT !.trusted = trusted],
                      [NoBudget EXCEPT !.remotes = 1]) : trusted \in BOOLEAN}

Emulators ==
  {Session([Request("emulator-start") EXCEPT !.wipe = wipe, !.yes = yes], Request(other),
           [Found EXCEPT !.avd = avd0], NoBudget) :
     wipe \in BOOLEAN, yes \in BOOLEAN, avd0 \in {"off", "booted"},
     other \in {"emulator-stop", "emulators"}}
  \cup {Session(Request("devices"), Request("restart-adb"), Found, NoBudget),
        Session(Request("gradle"), Request("run"), Found, NoBudget),
        Session(Request("init"), Request("version"), Found, NoBudget),
        Session(LogPackage("P1"), Request("version"), Found, NoBudget)}

\* Started elsewhere: in a Gradle build of another kind within the project, in a script
\* directory, nowhere; or told where, and no further.
Starts ==
  {Session([Request("project") EXCEPT !.start = start, !.explicit = explicit], Request("version"),
           [Found EXCEPT !.bundle = "missing"], NoBudget) :
     start \in {InModule, <<{"settings"}, Root>>, <<{"build script", "gradle", "android"}>>, <<>>},
     explicit \in BOOLEAN}

MCSessions == Builds \cup Tests \cup Selections \cup Confirmations \cup Refreshes \cup Presettings
                \cup Commands \cup Emulators \cup Starts

MCBoots == {Session(Request("emulator-start"), Request("version"), Found, NoBudget)}
=============================================================================
