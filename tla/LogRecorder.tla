----------------------------- MODULE LogRecorder ----------------------------
(***************************************************************************)
(* The recording of log records to a file (dexdeck-core, log_actions.rs):  *)
(* a bounded queue of batches between the caller, which never waits, and a *)
(* blocking thread that writes them.  An error of the thread, and an       *)
(* overflow of the queue, stop the recording and are seen by the caller at *)
(* its next call or when it stops.                                         *)
(***************************************************************************)
EXTENDS Naturals, Sequences

CONSTANT RecordingQueueBatches   \* RECORDING_QUEUE_BATCHES, 16 in the code

ASSUME RecorderAssumption == RecordingQueueBatches \in Nat \ {0}

VARIABLES queue,     \* the batches sent and not yet received
          open,      \* the sender exists
          stopped,   \* the flag both sides look at
          failure,   \* RecordingStatus.error is set
          writer,    \* the thread: "checking" the flag, "receiving", "writing",
                     \* "flushing" or "ended"
          rest,      \* the records of the batch in hand still to be written
          file       \* the records written

recorderVars == <<queue, open, stopped, failure, writer, rest, file>>

Off == /\ queue = <<>> /\ open = FALSE /\ stopped = FALSE /\ failure = FALSE
       /\ writer = "ended" /\ rest = <<>> /\ file = <<>>
Started == /\ queue = <<>> /\ open = TRUE /\ stopped = FALSE /\ failure = FALSE
           /\ writer = "checking" /\ rest = <<>> /\ file = <<>>

-----------------------------------------------------------------------------
\* What try_record finds: the recording has stopped, or no room, which stops it.
RecordRefused  == stopped \/ writer = "ended"
RecordOverflows == ~RecordRefused /\ Len(queue) = RecordingQueueBatches

\* try_record takes the batch.
Record(batch) ==
  /\ ~RecordRefused /\ ~RecordOverflows
  /\ queue' = Append(queue, batch)
  /\ UNCHANGED <<open, stopped, failure, writer, rest, file>>

\* Variant of CloseRecorder: stopping raises the flag as dropping does.
CloseRecorderAtOnce ==
  open' = FALSE /\ stopped' = TRUE /\ UNCHANGED <<queue, failure, writer, rest, file>>

\* stop closes the queue, which the thread then drains.
CloseRecorder == open' = FALSE /\ UNCHANGED <<queue, stopped, failure, writer, rest, file>>

\* Dropping raises the flag too, and what is queued is lost; so it is after an
\* overflow, which is recorded as the error.
DropRecorder(overflow) ==
  /\ open' = FALSE
  /\ stopped' = (stopped \/ open)
  /\ failure' = (failure \/ overflow)
  /\ UNCHANGED <<queue, writer, rest, file>>

-----------------------------------------------------------------------------
\* The thread looks at the flag between two batches, and after every timeout.
WriterChecks ==
  /\ writer = "checking"
  /\ writer' = IF stopped THEN "flushing" ELSE "receiving"
  /\ UNCHANGED <<queue, open, stopped, failure, rest, file>>

WriterReceives ==
  /\ writer = "receiving" /\ queue # <<>>
  /\ rest' = Head(queue)
  /\ queue' = Tail(queue)
  /\ writer' = "writing"
  /\ UNCHANGED <<open, stopped, failure, file>>

\* Variant of WriterReceivesNothing: a closed queue is taken for a slow one.
WriterReceivesNothingYet ==
  /\ writer = "receiving" /\ queue = <<>>
  /\ writer' = "checking"
  /\ UNCHANGED <<queue, open, stopped, failure, rest, file>>

\* recv_timeout gives up, or finds the queue closed and empty.
WriterReceivesNothing ==
  /\ writer = "receiving" /\ queue = <<>>
  /\ writer' = IF open THEN "checking" ELSE "flushing"
  /\ UNCHANGED <<queue, open, stopped, failure, rest, file>>

WriterWrites ==
  /\ writer = "writing"
  /\ IF rest = <<>> THEN writer' = "checking" /\ UNCHANGED <<rest, file>>
     ELSE /\ file' = Append(file, Head(rest))
          /\ rest' = Tail(rest)
          /\ UNCHANGED writer
  /\ UNCHANGED <<queue, open, stopped, failure>>

WriterFails ==
  /\ writer \in {"writing", "flushing"}
  /\ writer = "writing" => rest # <<>>
  /\ stopped' = TRUE
  /\ failure' = TRUE
  /\ writer' = "ended"
  /\ UNCHANGED <<queue, open, rest, file>>

WriterFlushes ==
  /\ writer = "flushing"
  /\ writer' = "ended"
  /\ UNCHANGED <<queue, open, stopped, failure, rest, file>>

WriterStep == WriterChecks \/ WriterReceives \/ WriterReceivesNothing \/ WriterWrites
                \/ WriterFlushes
WriterNext == WriterStep \/ WriterFails

RecorderTypeOK ==
  /\ Len(queue) <= RecordingQueueBatches
  /\ {open, stopped, failure} \subseteq BOOLEAN
  /\ writer \in {"checking", "receiving", "writing", "flushing", "ended"}
=============================================================================
