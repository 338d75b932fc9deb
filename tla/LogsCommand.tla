----------------------------- MODULE LogsCommand ----------------------------
(***************************************************************************)
(* `dexdeck logs` once its options are resolved (run_logs in lib.rs): one  *)
(* task receives the batches of a Logcat session, hands them to the        *)
(* recorder, keeps them in the buffer and prints those the filter shows,   *)
(* until Ctrl-C or the end of the capture; then it shuts the session down, *)
(* stops the recorder and writes the export.                               *)
(***************************************************************************)
EXTENDS LogcatSession, LogRecorder, Subsequences

CONSTANTS BufferBytes,   \* --buffer-mib
          Filter         \* the filter of the command line

ASSUME LogsAssumption == /\ BufferBytes \in Nat
                         /\ \A i \in 1 .. Len(Lines) : Lines[i].bytes \in Nat

LineSize(i) == Lines[i].bytes
Buffer == INSTANCE LogBuffer WITH Capacity <- BufferBytes, Size <- LineSize
Filters == INSTANCE LogFilter

VARIABLES command,     \* where run_logs is
          outcome,     \* the result of the command
          interrupted, \* cancelled in run_logs
          recording,   \* --record was given
          received,    \* history: the lines received from the session
          buffer,      \* the buffer of the command
          shown,       \* the lines given to standard output
          exported     \* the lines of the export, or NoExport

commandVars == <<command, outcome, interrupted, recording, received, buffer, shown, exported>>
vars == <<sessionVars, recorderVars, commandVars>>

NoExport == <<0>>
Visible(lines) == SelectSeq(lines, LAMBDA i : Filters!Matches(Filter, Lines[i]))

Init == /\ SessionInit
        /\ recording \in BOOLEAN
        /\ IF recording THEN Started ELSE Off
        /\ command = "receiving"
        /\ outcome = "none" /\ interrupted = FALSE
        /\ received = <<>> /\ shown = <<>>
        /\ buffer = Buffer!EmptyBuffer
        /\ exported = NoExport

\* An error return drops the session, whose tasks are aborted, and the recorder.
Abandon(overflow) ==
  /\ command' = "done" /\ outcome' = "failed"
  /\ cancelled' = TRUE
  /\ capture' = IF CaptureEnded THEN capture ELSE "failed"
  /\ tracker' = "ended"
  /\ DropRecorder(overflow)
  /\ UNCHANGED <<captureVars, uidKnown, tracked, scope, interrupted, recording, received, buffer,
                 shown, exported>>

-----------------------------------------------------------------------------
Interrupt == /\ command = "receiving"
             /\ command' = "shutting"
             /\ interrupted' = TRUE
             /\ cancelled' = TRUE
             /\ UNCHANGED <<outcome, recording, received, buffer, shown, exported, recorderVars,
                            capture, captureVars, trackerVars, scope>>

\* recv returns nothing once the capture is over and the channel is empty.
ChannelEnds == /\ command = "receiving" /\ channel = <<>> /\ CaptureEnded
               /\ command' = "shutting"
               /\ cancelled' = TRUE
               /\ UNCHANGED <<outcome, interrupted, recording, received, buffer, shown, exported,
                              recorderVars, capture, captureVars, trackerVars, scope>>

\* The whole batch is offered to the recorder, kept and shown.
Receive == /\ command = "receiving" /\ channel # <<>>
           /\ channel' = Tail(channel)
           /\ IF recording THEN Record(Head(channel)) ELSE UNCHANGED recorderVars
           /\ received' = received \o Head(channel)
           /\ buffer' = Buffer!PushAll(buffer, Head(channel))
           /\ shown' = shown \o Visible(Head(channel))
           /\ UNCHANGED <<command, outcome, interrupted, recording, exported, capture, position,
                          lastTime, recent, batch, connected, reconnects, lastError, sent, dropped,
                          accepted, trackerVars, scope, cancelled>>

\* The recorder has stopped, or has no room for this batch.
RecordingFails ==
  /\ command = "receiving" /\ channel # <<>> /\ recording
  /\ RecordRefused \/ RecordOverflows
  /\ Abandon(RecordOverflows)

\* Standard output is gone: it is found when the start, a line of the last batch, which has
\* been offered to the recorder and is kept, or the status after it is printed.
PrintFails == command = "receiving" /\ Abandon(FALSE)

\* shutdown awaits the capture and passes its error up, then awaits the tracker.
ShutdownFails == /\ command = "shutting" /\ capture = "failed"
                 /\ Abandon(FALSE)

ShutdownEnds == /\ command = "shutting" /\ capture = "ok" /\ tracker = "ended"
                /\ command' = IF recording THEN "stopping" ELSE "exporting"
                /\ IF recording THEN CloseRecorder ELSE UNCHANGED recorderVars
                /\ UNCHANGED <<outcome, interrupted, recording, received, buffer, shown, exported,
                               sessionVars>>

\* stop awaits the thread; an error of the recording is the command's.
RecorderStops == /\ command = "stopping" /\ writer = "ended"
                 /\ IF failure THEN command' = "done" /\ outcome' = "failed"
                    ELSE command' = "exporting" /\ UNCHANGED outcome
                 /\ UNCHANGED <<interrupted, recording, received, buffer, shown, exported,
                                sessionVars, recorderVars>>

\* The export is what the buffer still holds, or of that what the filter shows.
Finish == /\ command = "exporting"
          /\ command' = "done"
          /\ \/ /\ outcome' = IF interrupted THEN "cancelled" ELSE "success"
                /\ LET held == [i \in 1 .. Len(buffer.entries) |-> buffer.entries[i].record]
                   IN exported' \in {held, Visible(held)}
             \/ outcome' = "failed" /\ UNCHANGED exported
          /\ UNCHANGED <<interrupted, recording, received, buffer, shown, sessionVars, recorderVars>>

CommandStep == Receive \/ ChannelEnds \/ RecordingFails \/ ShutdownFails \/ ShutdownEnds
                 \/ RecorderStops \/ Finish

Next == \/ CommandStep \/ Interrupt \/ PrintFails
        \/ SessionNext /\ command # "done" /\ UNCHANGED <<recorderVars, commandVars>>
        \/ WriterNext /\ UNCHANGED <<sessionVars, commandVars>>

Spec == Init /\ [][Next]_vars

\* The scheduler runs every task; adb ends once it is told to.
FairSpec ==
  /\ Spec
  /\ WF_vars(CommandStep)
  /\ WF_vars((LoopEnds \/ Connect \/ ReadRecord \/ ChildEnds \/ PauseEnds) /\ UNCHANGED trackerVars
             /\ UNCHANGED <<scope, cancelled, recorderVars, commandVars>>)
  /\ WF_vars(cancelled /\ StreamEnds /\ UNCHANGED <<trackerVars, scope, cancelled, recorderVars, commandVars>>)
  /\ WF_vars(TrackerEnds /\ UNCHANGED <<capture, captureVars, scope, cancelled, recorderVars, commandVars>>)
  /\ WF_vars(WriterStep /\ UNCHANGED <<sessionVars, commandVars>>)

-----------------------------------------------------------------------------
\* Every variable has its type and no channel, window or batch outgrows its limit.
TypeOK == /\ SessionTypeOK /\ RecorderTypeOK
          /\ command \in {"receiving", "shutting", "stopping", "exporting", "done"}
          /\ outcome \in {"none", "cancelled", "success", "failed"}
          /\ (command = "done") = (outcome # "none")

\* A reconnect replays lines, and the window of remembered keys drops the ones
\* that came before: no record is accepted twice.
NothingTwice == \A m, n \in 1 .. Len(accepted) :
                  m # n => Lines[accepted[m]].key # Lines[accepted[n]].key

\* With the whole device selected, a reconnect leaves no gap: whatever adb has
\* written was accepted then or before, or equals a line that was.
NothingSkipped ==
  scope = "Device" /\ Selector.kind = "none" =>
    \A i \in 1 .. position - 1 : \E n \in 1 .. Len(accepted) : Lines[accepted[n]].key = Lines[i].key

\* A recording holds what was received, in that order, and all of it when the
\* command ends without an error; so a lost batch is always an error.
RecordingIsFaithful ==
  recording => /\ IsPrefix(file, received)
               /\ outcome \in {"cancelled", "success"} => file = received

\* The buffer holds the newest records received, with numbers in a row, within
\* its limit, and counts every other one.
BufferIsExact ==
  /\ buffer.buffered = Buffer!Bytes(buffer.entries) /\ buffer.buffered <= BufferBytes
  /\ LET fit == Picked(received, {i \in 1 .. Len(Lines) : Lines[i].bytes <= BufferBytes})
         n   == Len(buffer.entries)
     IN /\ buffer.next = Len(fit) + 1
        /\ \A k \in 1 .. n : /\ buffer.entries[k].sequence = Len(fit) - n + k
                             /\ buffer.entries[k].record = fit[Len(fit) - n + k]
  /\ buffer.dropped + Len(buffer.entries) = Len(received)

\* Once interrupted the command ends.
InterruptEnds == (command = "shutting") ~> (command = "done")
=============================================================================
