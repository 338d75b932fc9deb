------------------------------- MODULE MCShell ------------------------------
EXTENDS Shell

Line(text, app, priority) == [text |-> text, app |-> app, priority |-> priority, bytes |-> 1,
                              crash |-> FALSE, marker |-> FALSE, tag |-> "App", package |-> "",
                              process |-> "p"]

\* Errors and other lines, of the application and not; the buffer holds three.
MCLines == <<Line("a", TRUE, 4), Line("b", TRUE, 2), Line("b", FALSE, 4), Line("a", TRUE, 2)>>

MCWorkspaces == <<"Overview", "Run", "Tests", "Logcat", "Devices", "Tasks", "Doctor">>

Bounds(project, logcat, keys, inputs, edits, lines, ends) ==
  [project |-> project, logcat |-> logcat, keys |-> keys, inputs |-> inputs, edits |-> edits,
   lines |-> lines, sessionMayEnd |-> ends]

Navigation == {"number", "arrow", "tab", "palette", "help", "search", "type", "backspace",
               "enter", "escape", "quit"}

MCSessions ==
  {Bounds(TRUE, FALSE, {"quit"}, 1, 3, 0, FALSE),                       \* the project worker
   Bounds(FALSE, TRUE, {"number", "scope", "quit"}, 6, 0, 3, TRUE),     \* scope and shutdown
   Bounds(FALSE, TRUE, {"number"} \cup ViewKeys, 5, 0, 4, FALSE),       \* the log view
   Bounds(FALSE, TRUE, {"number", "search", "type", "backspace", "escape", "pause"}, 5, 0, 3, FALSE),
   Bounds(FALSE, FALSE, Navigation, 5, 0, 0, FALSE)}                    \* the screens

MCQuits == {Bounds(TRUE, TRUE, {"number", "scope", "quit"}, 4, 0, 0, FALSE)}
=============================================================================
