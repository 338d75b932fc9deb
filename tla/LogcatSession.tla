---------------------------- MODULE LogcatSession ---------------------------
(***************************************************************************)
(* A Logcat session (dexdeck-android, logcat.rs): the capture task, which  *)
(* runs `adb logcat`, selects its records, drops those it has seen, sends  *)
(* them in batches over a bounded channel and reconnects when adb ends;    *)
(* and the tracker task, which keeps asking the device for the processes   *)
(* of the application.                                                     *)
(*                                                                         *)
(* The device's log is the constant sequence Lines; reading past its end   *)
(* waits.  adb starts at the first line that is not older than `-T`.  A    *)
(* line cut by the end of the stream counts as unread: the parser's        *)
(* restart returns it and capture throws it away.                          *)
(***************************************************************************)
EXTENDS Naturals, Sequences, FiniteSets, SequencesExt

CONSTANTS Lines,            \* the records the device has, in the order of their times
          Processes,        \* the processes of the application
          Selector,         \* LogcatRequest.process: [kind, process]
          ChannelBatches,   \* LOGCAT_CHANNEL_BATCHES, 16 in the code
          BatchRecords,     \* LOGCAT_BATCH_RECORDS, 256 in the code
          Window,           \* how many keys are remembered, 4096 in the code
          MaxReconnects     \* bound: how often adb ends by itself

SameTime(i) == {j \in 1 .. Len(Lines) : Lines[j].time = Lines[i].time}

\* Times do not go back, a key holds the time of its line (dedup_key), and no
\* more lines share one microsecond than the window holds.
ASSUME SessionAssumption ==
  /\ Lines \in Seq(Range(Lines))
  /\ \A i \in 1 .. Len(Lines) : Lines[i].time \in Nat \ {0} /\ Cardinality(SameTime(i)) <= Window
  /\ \A i, j \in 1 .. Len(Lines) :
       /\ i < j => Lines[i].time <= Lines[j].time
       /\ Lines[i].key = Lines[j].key => Lines[i].time = Lines[j].time
  /\ {ChannelBatches, BatchRecords, Window} \subseteq Nat \ {0}

VARIABLES capture,      \* the capture task's place
          position,     \* the next line of the device that adb writes
          lastTime,     \* last_timestamp, 0 for none
          recent,       \* the keys remembered, oldest first
          batch,        \* the records accepted and not yet sent
          channel,      \* the batches sent and not yet received
          connected, reconnects, lastError,   \* LogcatStatus
          sent, dropped,                      \* its records_sent and records_dropped
          scope,        \* the selection: "Application" or "Device"
          uidKnown,     \* ProcessSnapshot.uid
          tracked,      \* ProcessSnapshot.names
          tracker,      \* the tracker task: "running" or "ended"
          cancelled,    \* the session's token
          accepted      \* history: the lines that went into a batch

captureVars == <<position, lastTime, recent, batch, channel, connected, reconnects,
                 lastError, sent, dropped, accepted>>
trackerVars == <<uidKnown, tracked, tracker>>
sessionVars == <<capture, captureVars, trackerVars, scope, cancelled>>

SessionInit ==
  /\ capture = "connecting"
  /\ position = 1 /\ lastTime = 0
  /\ recent = <<>> /\ batch = <<>> /\ channel = <<>>
  /\ connected = FALSE /\ reconnects = 0 /\ lastError = FALSE
  /\ sent = 0 /\ dropped = 0
  /\ scope \in {"Application", "Device"}
  /\ uidKnown = FALSE /\ tracked = {}
  /\ tracker = "running"
  /\ cancelled = FALSE
  /\ accepted = <<>>

-----------------------------------------------------------------------------
\* matches_selection, after enrich_record has looked the process up.
Selected(line) ==
  /\ scope = "Application" =>
       \/ line.process \in tracked
       \/ uidKnown /\ line.process \in Processes
  /\ CASE Selector.kind = "none" -> TRUE
       [] Selector.kind = "pid"  -> line.process = Selector.process
       [] Selector.kind = "name" -> line.process = Selector.process /\ line.process \in tracked

\* Variant of ReplayFrom: only lines after that time.
ReplayAfter(time) ==
  CHOOSE i \in 1 .. Len(Lines) + 1 :
    /\ \A j \in 1 .. i - 1 : Lines[j].time <= time
    /\ i <= Len(Lines) => Lines[i].time > time

\* Where adb starts when told `-T time`: lines of that very time come again.
ReplayFrom(time) ==
  CHOOSE i \in 1 .. Len(Lines) + 1 :
    /\ \A j \in 1 .. i - 1 : Lines[j].time < time
    /\ i <= Len(Lines) => Lines[i].time >= time

\* Variant of Flush: a channel without a limit.
FlushUnbounded(records) ==
  /\ batch' = <<>>
  /\ channel' = IF records = <<>> THEN channel ELSE Append(channel, records)
  /\ sent' = sent + Len(records)
  /\ UNCHANGED dropped

\* flush_batch: a full channel loses the whole batch, and counts it.
Flush(records) ==
  /\ batch' = <<>>
  /\ IF records # <<>> /\ Len(channel) < ChannelBatches
     THEN /\ channel' = Append(channel, records)
          /\ sent' = sent + Len(records)
          /\ UNCHANGED dropped
     ELSE /\ dropped' = dropped + Len(records)
          /\ UNCHANGED <<channel, sent>>

\* Variant of Remember: once the window is full the newest key is not kept.
RememberWhileRoom(key) == IF Len(recent) < Window THEN Append(recent, key) ELSE recent

\* The oldest key is forgotten when there are too many.
Remember(key) == LET r == Append(recent, key) IN IF Len(r) > Window THEN Tail(r) ELSE r

-----------------------------------------------------------------------------
LoopEnds == /\ capture = "connecting" /\ cancelled
            /\ capture' = "ok"
            /\ UNCHANGED captureVars

Connect == /\ capture = "connecting" /\ ~cancelled
           /\ position' = ReplayFrom(lastTime)
           /\ connected' = TRUE
           /\ lastError' = FALSE
           /\ capture' = "streaming"
           /\ UNCHANGED <<lastTime, recent, batch, channel, reconnects, sent, dropped, accepted>>

SpawnFails == /\ capture = "connecting" /\ ~cancelled
              /\ lastError' = TRUE
              /\ capture' = "pausing"
              /\ UNCHANGED <<position, lastTime, recent, batch, channel, connected, reconnects,
                             sent, dropped, accepted>>

\* A record of a chunk; the token is not looked at within a chunk.
ReadRecord ==
  /\ capture = "streaming" /\ position <= Len(Lines)
  /\ position' = position + 1
  /\ LET line == Lines[position] IN
       /\ lastTime' = IF Selected(line) THEN line.time ELSE lastTime
       /\ IF ~Selected(line) \/ Contains(recent, line.key)
          THEN UNCHANGED <<recent, batch, channel, sent, dropped, accepted>>
          ELSE /\ recent' = Remember(line.key)
               /\ accepted' = Append(accepted, position)
               /\ IF Len(batch) + 1 >= BatchRecords
                  THEN Flush(Append(batch, position))
                  ELSE batch' = Append(batch, position) /\ UNCHANGED <<channel, sent, dropped>>
  /\ UNCHANGED <<capture, connected, reconnects, lastError>>

FlushTick == /\ capture = "streaming" /\ ~cancelled /\ batch # <<>>
             /\ Flush(batch)
             /\ UNCHANGED <<capture, position, lastTime, recent, connected, reconnects,
                            lastError, accepted>>

\* The stream ends, or the token is seen: what is left is sent.
StreamEnds == /\ capture = "streaming"
              /\ cancelled \/ reconnects < MaxReconnects
              /\ capture' = "closing"
              /\ Flush(batch)
              /\ UNCHANGED <<position, lastTime, recent, connected, reconnects, lastError, accepted>>

\* adb is reaped, after a cancellation or having ended by itself.
ChildEnds == /\ capture = "closing"
             /\ connected' = FALSE
             /\ IF cancelled THEN capture' = "ok" /\ UNCHANGED reconnects
                ELSE capture' = "pausing" /\ reconnects' = reconnects + 1
             /\ UNCHANGED <<position, lastTime, recent, batch, channel, lastError, sent, dropped,
                            accepted>>

\* wait_backoff; when both are ready either is taken.
PauseEnds == /\ capture = "pausing"
             /\ \/ capture' = "connecting"
                \/ cancelled /\ capture' = "ok"
             /\ UNCHANGED captureVars

\* An error the code passes up: pipes missing, a read or a wait that fails.  The
\* batch is lost uncounted, and the status still says connected.
CaptureFails == /\ capture \in {"connecting", "streaming", "closing"}
                /\ capture = "connecting" => ~cancelled
                /\ capture' = "failed"
                /\ UNCHANGED captureVars

CaptureStep == LoopEnds \/ Connect \/ SpawnFails \/ ReadRecord \/ FlushTick \/ StreamEnds
                 \/ ChildEnds \/ PauseEnds
CaptureEnded == capture \in {"ok", "failed"}

\* A poll answers what the device says, or nothing when adb fails.
Poll == /\ tracker = "running"
        /\ uidKnown' \in BOOLEAN
        /\ tracked' \in SUBSET Processes
        /\ UNCHANGED tracker

TrackerEnds == /\ tracker = "running" /\ cancelled
               /\ tracker' = "ended"
               /\ UNCHANGED <<uidKnown, tracked>>

SessionNext == /\ \/ (CaptureStep \/ CaptureFails) /\ UNCHANGED trackerVars
                  \/ (Poll \/ TrackerEnds) /\ UNCHANGED <<capture, captureVars>>
               /\ UNCHANGED <<scope, cancelled>>

SessionTypeOK ==
  /\ capture \in {"connecting", "streaming", "closing", "pausing", "ok", "failed"}
  /\ position \in 1 .. Len(Lines) + 1
  /\ Len(recent) <= Window /\ Len(channel) <= ChannelBatches
  /\ Len(batch) < BatchRecords
=============================================================================
