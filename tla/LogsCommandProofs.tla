------------------------- MODULE LogsCommandProofs -------------------------
(***************************************************************************)
(* What `dexdeck logs` guarantees for any device log, any limits and any   *)
(* filter: of a recording, of the records a reconnect replays, and last of *)
(* the buffer.                                                             *)
(*                                                                         *)
(* The records received are those in the file, then those of the batch in  *)
(* the writer's hand, then those of the queued batches, in this order      *)
(* (InOrder).  The queue is a sequence of sequences, and InOrder says      *)
(* where each batch ends instead of concatenating them.                    *)
(***************************************************************************)
EXTENDS LogsCommand, ProofFacts, FiniteSetTheorems

\* Batch k of the queue is what was received between ends[k] and ends[k + 1].
InOrderAt(ends) ==
  /\ ends \in [1 .. Len(queue) + 1 -> Nat]
  /\ ends[1] = Len(file) + Len(rest)
  /\ ends[Len(queue) + 1] = Len(received)
  /\ \A k \in 1 .. Len(queue) : /\ ends[k] + Len(queue[k]) = ends[k + 1]
                                /\ \A n \in 1 .. Len(queue[k]) :
                                     queue[k][n] = received[ends[k] + n]
  /\ \A k \in 1 .. Len(queue) + 1 : ends[k] <= Len(received)
  /\ \A n \in 1 .. Len(file) : file[n] = received[n]
  /\ \A n \in 1 .. Len(rest) : rest[n] = received[Len(file) + n]

InOrder == \E ends : InOrderAt(ends)

\* What is captured and recorded are sequences; of what does not matter.
ShapeOver(R) ==
  /\ position \in R /\ batch \in Seq(R) /\ channel \in Seq(Seq(R))
  /\ queue \in Seq(Seq(R)) /\ rest \in Seq(R) /\ file \in Seq(R) /\ received \in Seq(R)

Shape == \E R : ShapeOver(R)

\* What the flags say of the command and of the writing thread.
FlagsAgree ==
  /\ command = "receiving" => open
  /\ command \in {"stopping", "exporting"} => ~ open
  /\ command = "exporting" \/ outcome \in {"cancelled", "success"}
       => writer = "ended" /\ ~ failure /\ ~ open /\ ~ stopped
  /\ stopped /\ ~ failure => outcome = "failed"
  /\ rest # <<>> => writer = "writing" \/ (writer = "ended" /\ failure)
  /\ writer \in {"flushing", "ended"} => stopped \/ (queue = <<>> /\ ~ open)
  /\ (command = "done") = (outcome # "none")

Flags == {open, stopped, failure} \subseteq BOOLEAN

LogsInv == Shape /\ recording \in BOOLEAN /\ Flags /\ (recording => InOrder /\ FlagsAgree)

-----------------------------------------------------------------------------
\* Nothing has been received.
LEMMA InitInv == Init => LogsInv
  <1> SUFFICES ASSUME Init PROVE LogsInv
    OBVIOUS
  <1>0. /\ position = 1 /\ batch = <<>> /\ channel = <<>> /\ received = <<>>
        /\ queue = <<>> /\ rest = <<>> /\ file = <<>>
        /\ recording \in BOOLEAN /\ Flags
    BY DEF Init, SessionInit, Started, Off, Flags
  <1>1. Shape
    <2>1. ShapeOver(Nat)
      BY <1>0 DEF ShapeOver
    <2> QED
      BY <2>1 DEF Shape
  <1>2. ASSUME recording PROVE InOrder /\ FlagsAgree
    <2>1. InOrderAt([k \in {1} |-> 0])
      <3>1. 1 .. Len(queue) + 1 = {1} /\ Len(file) = 0 /\ Len(rest) = 0 /\ Len(received) = 0
            /\ Len(queue) = 0
        BY <1>0
      <3> QED
        BY <3>1 DEF InOrderAt
    <2>2. FlagsAgree
      BY <1>2 DEF Init, Started, FlagsAgree
    <2> QED
      BY <2>1, <2>2 DEF InOrder
  <1> QED
    BY <1>0, <1>1, <1>2 DEF LogsInv

-----------------------------------------------------------------------------
\* One more value may occur in the sequences.
LEMMA ShapeGrows == ASSUME NEW R, NEW x, ShapeOver(R) PROVE ShapeOver(R \cup {x})
  <1> DEFINE B == R \cup {x}
  <1>1. \A s \in Seq(R) : s \in Seq(B)
    BY SeqGrows
  <1>2. Seq(R) \subseteq Seq(B)
    BY <1>1
  <1>3. \A s \in Seq(Seq(R)) : s \in Seq(Seq(B))
    BY <1>2, SeqGrows
  <1> QED
    BY <1>1, <1>3 DEF ShapeOver

\* Sending a batch, or losing it, keeps the batches sequences.
LEMMA FlushShape ==
  ASSUME NEW R, channel \in Seq(Seq(R)), NEW records \in Seq(R), Flush(records)
  PROVE  channel' \in Seq(Seq(R)) /\ batch' \in Seq(R)
  <1>1. batch' = <<>> /\ channel' \in {channel, Append(channel, records)}
    BY DEF Flush
  <1>2. Append(channel, records) \in Seq(Seq(R))
    OBVIOUS
  <1>3. <<>> \in Seq(R)
    OBVIOUS
  <1> QED
    BY <1>1, <1>2, <1>3

recordedVars == <<queue, rest, file, received>>

\* The order is about four variables only.
LEMMA StaysInOrder == ASSUME InOrder, UNCHANGED recordedVars PROVE InOrder'
  <1>1. PICK ends : InOrderAt(ends)
    BY DEF InOrder
  <1>2. InOrderAt(ends)'
    BY <1>1 DEF InOrderAt, recordedVars
  <1> QED
    BY <1>2 DEF InOrder

\* No step of the session touches the recording, and all keep its channel in
\* shape.
LEMMA SessionShape == Shape /\ SessionNext /\ UNCHANGED recordedVars => Shape'
  <1> SUFFICES ASSUME Shape, SessionNext, UNCHANGED recordedVars PROVE Shape'
    OBVIOUS
  <1>1. PICK R : ShapeOver(R)
    BY DEF Shape
  <1> DEFINE B == R \cup {position'}
  <1>2. ShapeOver(B)
    BY <1>1, ShapeGrows
  <1>3. queue' \in Seq(Seq(B)) /\ rest' \in Seq(B) /\ file' \in Seq(B) /\ received' \in Seq(B)
    BY <1>2 DEF ShapeOver, recordedVars
  <1>4. position' \in B
    OBVIOUS
  <1>5. batch' \in Seq(B) /\ channel' \in Seq(Seq(B))
    <2>1. CASE UNCHANGED <<batch, channel>>
      BY <1>2, <2>1 DEF ShapeOver
    <2>2. CASE ReadRecord
      <3>1. Append(batch, position) \in Seq(B)
        BY <1>2 DEF ShapeOver
      <3>2. \/ UNCHANGED <<batch, channel>>
            \/ Flush(Append(batch, position))
            \/ batch' = Append(batch, position) /\ channel' = channel
        BY <2>2 DEF ReadRecord
      <3> QED
        BY <3>1, <3>2, <1>2, FlushShape DEF ShapeOver
    <2>3. CASE FlushTick \/ StreamEnds
      BY <2>3, <1>2, FlushShape DEF FlushTick, StreamEnds, ShapeOver
    <2>4. \/ UNCHANGED <<batch, channel>>
          \/ ReadRecord \/ FlushTick \/ StreamEnds
      BY DEF SessionNext, CaptureStep, CaptureFails, LoopEnds, Connect, SpawnFails, ChildEnds,
             PauseEnds, captureVars
    <2> QED
      BY <2>1, <2>2, <2>3, <2>4
  <1> QED
    BY <1>3, <1>4, <1>5 DEF Shape, ShapeOver

\* The session works beside the recording.
LEMMA SessionStep ==
  LogsInv /\ SessionNext /\ UNCHANGED <<recorderVars, commandVars>> => LogsInv'
  <1> SUFFICES ASSUME LogsInv, SessionNext, UNCHANGED <<recorderVars, commandVars>>
               PROVE  LogsInv'
    OBVIOUS
  <1>1. Shape'
    BY SessionShape DEF LogsInv, recordedVars, recorderVars, commandVars
  <1>2. InOrder => InOrder'
    BY StaysInOrder DEF recordedVars, recorderVars, commandVars
  <1> QED
    BY <1>1, <1>2 DEF LogsInv, Flags, FlagsAgree, recorderVars, commandVars

-----------------------------------------------------------------------------
\* The writing thread: InOrder moves records from the queue to its hand and
\* from there to the file.
LEMMA WriterShape ==
  Shape /\ WriterNext /\ UNCHANGED <<position, batch, channel, received>> => Shape'
  <1> SUFFICES ASSUME Shape, WriterNext, UNCHANGED <<position, batch, channel, received>>
               PROVE  Shape'
    OBVIOUS
  <1>1. PICK R : ShapeOver(R)
    BY DEF Shape
  <1>2. queue' \in Seq(Seq(R)) /\ rest' \in Seq(R) /\ file' \in Seq(R)
    <2>1. CASE WriterReceives
      BY <2>1, <1>1 DEF WriterReceives, ShapeOver
    <2>2. CASE WriterWrites /\ rest # <<>>
      <3>1. Head(rest) \in R /\ Tail(rest) \in Seq(R)
        BY <2>2, <1>1, FirstAndOthers DEF ShapeOver
      <3>2. Append(file, Head(rest)) \in Seq(R)
        BY <3>1, <1>1, OneMore DEF ShapeOver
      <3> QED
        BY <2>2, <3>1, <3>2, <1>1 DEF WriterWrites, ShapeOver
    <2>3. CASE UNCHANGED <<queue, rest, file>>
      BY <2>3, <1>1 DEF ShapeOver
    <2> QED
      BY <2>1, <2>2, <2>3 DEF WriterNext, WriterStep, WriterChecks, WriterReceivesNothing,
                              WriterFlushes, WriterFails, WriterWrites
  <1> QED
    BY <1>1, <1>2 DEF Shape, ShapeOver

\* The oldest batch goes from the queue into the thread's empty hand.
LEMMA ReceivesInOrder ==
  ASSUME Shape, InOrder, rest = <<>>, WriterReceives, received' = received
  PROVE  InOrder'
  <1>1. PICK R : ShapeOver(R)
    BY DEF Shape
  <1>2. PICK ends : InOrderAt(ends)
    BY DEF InOrder
  <1> PICK later : later = [k \in 1 .. Len(queue') + 1 |-> ends[k + 1]]
    OBVIOUS
  <1>3. /\ queue \in Seq(Seq(R)) /\ queue # <<>> /\ Len(queue) \in Nat /\ Len(queue) > 0
        /\ Len(file) \in Nat /\ Len(rest) = 0 /\ Len(received) \in Nat
    BY <1>1 DEF WriterReceives, ShapeOver
  <1>4. /\ Len(queue') = Len(queue) - 1
        /\ \A k \in 1 .. Len(queue') : queue'[k] = queue[k + 1]
        /\ rest' = queue[1] /\ Len(rest') \in Nat
        /\ file' = file
    BY <1>3 DEF WriterReceives
  <1>5. \A k \in 1 .. Len(queue) : Len(queue[k]) \in Nat
    BY <1>3
  <1>6. later \in [1 .. Len(queue') + 1 -> Nat]
    <2>1. ends \in [1 .. Len(queue) + 1 -> Nat]
      BY <1>2 DEF InOrderAt
    <2>2. Len(queue') + 1 = Len(queue) /\ Len(queue) \in Nat
      BY <1>3, <1>4
    <2>3. \A k \in 1 .. Len(queue) : ends[k + 1] \in Nat
      BY <2>1, <2>2
    <2> QED
      BY <2>2, <2>3
  <1>7. later[1] = Len(file') + Len(rest')
    BY <1>2, <1>3, <1>4, <1>5 DEF InOrderAt
  <1>8. later[Len(queue') + 1] = Len(received')
    BY <1>2, <1>3, <1>4 DEF InOrderAt
  <1>9. ASSUME NEW k \in 1 .. Len(queue')
        PROVE  /\ later[k] + Len(queue'[k]) = later[k + 1]
               /\ \A n \in 1 .. Len(queue'[k]) : queue'[k][n] = received'[later[k] + n]
    <2>1. /\ k + 1 \in 1 .. Len(queue) /\ k \in 1 .. Len(queue') + 1
          /\ k + 1 \in 1 .. Len(queue') + 1
      BY <1>3, <1>4
    <2>2. later[k] = ends[k + 1] /\ later[k + 1] = ends[(k + 1) + 1] /\ queue'[k] = queue[k + 1]
      BY <2>1, <1>4
    <2>3. /\ ends[k + 1] + Len(queue[k + 1]) = ends[(k + 1) + 1]
          /\ \A n \in 1 .. Len(queue[k + 1]) : queue[k + 1][n] = received[ends[k + 1] + n]
      BY <2>1, <1>2 DEF InOrderAt
    <2> QED
      BY <2>2, <2>3
  <1>10. ASSUME NEW k \in 1 .. Len(queue') + 1 PROVE later[k] <= Len(received')
    <2>1. k + 1 \in 1 .. Len(queue) + 1
      BY <1>3, <1>4
    <2> QED
      BY <2>1, <1>2 DEF InOrderAt
  <1>11. \A n \in 1 .. Len(file') : file'[n] = received'[n]
    BY <1>2, <1>4 DEF InOrderAt
  <1>12. \A n \in 1 .. Len(rest') : rest'[n] = received'[Len(file') + n]
    BY <1>2, <1>3, <1>4 DEF InOrderAt
  <1>13. InOrderAt(later)'
    BY <1>6, <1>7, <1>8, <1>9, <1>10, <1>11, <1>12 DEF InOrderAt
  <1> QED
    BY <1>13 DEF InOrder

\* The next record goes from the hand into the file.
LEMMA WritesInOrder ==
  ASSUME Shape, InOrder, WriterWrites, received' = received
  PROVE  InOrder'
  <1>1. PICK R : ShapeOver(R)
    BY DEF Shape
  <1>2. PICK ends : InOrderAt(ends)
    BY DEF InOrder
  <1>3. queue' = queue /\ file \in Seq(R) /\ rest \in Seq(R) /\ Len(file) \in Nat
    BY <1>1 DEF WriterWrites, ShapeOver
  <1>4. CASE rest = <<>>
    <2>1. rest' = rest /\ file' = file
      BY <1>4 DEF WriterWrites
    <2> QED
      BY <2>1, <1>3, StaysInOrder DEF recordedVars
  <1>5. CASE rest # <<>>
    <2>1. /\ Len(file') = Len(file) + 1
          /\ \A n \in 1 .. Len(file) : file'[n] = file[n]
          /\ file'[Len(file) + 1] = rest[1]
      BY <1>3, <1>5, FirstAndOthers, OneMore DEF WriterWrites
    <2>2. /\ Len(rest') = Len(rest) - 1 /\ Len(rest) \in Nat /\ Len(rest) > 0
          /\ \A n \in 1 .. Len(rest) - 1 : rest'[n] = rest[n + 1]
      BY <1>3, <1>5, FirstAndOthers DEF WriterWrites
    <2>3. Len(file') + Len(rest') = Len(file) + Len(rest)
      BY <2>1, <2>2, <1>3
    <2>4. ASSUME NEW n \in 1 .. Len(file') PROVE file'[n] = received[n]
      <3>1. CASE n \in 1 .. Len(file)
        BY <3>1, <2>1, <1>2 DEF InOrderAt
      <3>2. CASE n = Len(file) + 1
        BY <3>2, <2>1, <2>2, <1>2 DEF InOrderAt
      <3> QED
        BY <3>1, <3>2, <2>1, <1>3
    <2>5. ASSUME NEW n \in 1 .. Len(rest') PROVE rest'[n] = received[Len(file') + n]
      <3>1. n + 1 \in 1 .. Len(rest) /\ n \in 1 .. Len(rest) - 1
        BY <2>2
      <3>2. rest'[n] = rest[n + 1] /\ rest[n + 1] = received[Len(file) + (n + 1)]
        BY <3>1, <2>2, <1>2 DEF InOrderAt
      <3>3. Len(file) + (n + 1) = Len(file') + n
        BY <3>1, <2>1, <1>3
      <3> QED
        BY <3>2, <3>3
    <2>6. InOrderAt(ends)'
      BY <2>3, <2>4, <2>5, <1>2, <1>3 DEF InOrderAt
    <2> QED
      BY <2>6 DEF InOrder
  <1> QED
    BY <1>4, <1>5

\* Every step of the thread.
LEMMA WriterKeepsInv ==
  LogsInv /\ WriterNext /\ UNCHANGED <<sessionVars, commandVars>> => LogsInv'
  <1> SUFFICES ASSUME LogsInv, WriterNext, UNCHANGED <<sessionVars, commandVars>>
               PROVE  LogsInv'
    OBVIOUS
  <1>1. /\ UNCHANGED <<position, batch, channel, received>>
        /\ UNCHANGED <<command, outcome, recording>>
    BY DEF sessionVars, captureVars, commandVars
  <1>2. Shape'
    BY <1>1, WriterShape DEF LogsInv
  <1>3. Flags'
    BY DEF LogsInv, Flags, WriterNext, WriterStep, WriterChecks, WriterReceives,
           WriterReceivesNothing, WriterWrites, WriterFlushes, WriterFails
  <1>4. ASSUME recording PROVE InOrder' /\ FlagsAgree'
    <2> USE <1>4
    <2>0. InOrder /\ FlagsAgree /\ Shape /\ Flags
      BY DEF LogsInv
    <2>1. CASE WriterReceives
      <3>1. rest = <<>>
        BY <2>0, <2>1 DEF WriterReceives, FlagsAgree
      <3>2. FlagsAgree'
        BY <1>1, <2>0, <2>1 DEF WriterReceives, FlagsAgree
      <3> QED
        BY <3>1, <3>2, <1>1, <2>0, <2>1, ReceivesInOrder
    <2>2. CASE WriterWrites
      <3>1. InOrder'
        BY <1>1, <2>0, <2>2, WritesInOrder
      <3>2. FlagsAgree'
        BY <1>1, <2>0, <2>2 DEF WriterWrites, FlagsAgree
      <3> QED
        BY <3>1, <3>2
    <2>3. CASE WriterChecks \/ WriterReceivesNothing \/ WriterFlushes \/ WriterFails
      <3>1. UNCHANGED recordedVars
        BY <1>1, <2>3 DEF WriterChecks, WriterReceivesNothing, WriterFlushes, WriterFails,
                          recordedVars
      <3>2. InOrder'
        BY <3>1, <2>0, StaysInOrder
      <3>3. FlagsAgree'
        BY <1>1, <2>0, <2>3
           DEF WriterChecks, WriterReceivesNothing, WriterFlushes, WriterFails, FlagsAgree, Flags
      <3> QED
        BY <3>2, <3>3
    <2> QED
      BY <2>1, <2>2, <2>3 DEF WriterNext, WriterStep
  <1> QED
    BY <1>1, <1>2, <1>3, <1>4 DEF LogsInv

-----------------------------------------------------------------------------
\* What the command receives it gives to the recorder before anything else.
LEMMA ReceiveShape == Shape /\ Receive => Shape'
  <1> SUFFICES ASSUME Shape, Receive PROVE Shape'
    OBVIOUS
  <1>1. PICK R : ShapeOver(R)
    BY DEF Shape
  <1>2. Head(channel) \in Seq(R) /\ Tail(channel) \in Seq(Seq(R))
    BY <1>1, FirstAndOthers DEF Receive, ShapeOver
  <1>3. received \o Head(channel) \in Seq(R)
    BY <1>1, <1>2 DEF ShapeOver
  <1>4. Append(queue, Head(channel)) \in Seq(Seq(R))
    BY <1>1, <1>2, OneMore DEF ShapeOver
  <1>5. queue' \in {queue, Append(queue, Head(channel))} /\ UNCHANGED <<rest, file>>
    BY DEF Receive, Record, recorderVars
  <1>6. /\ channel' = Tail(channel) /\ UNCHANGED <<position, batch>>
        /\ received' = received \o Head(channel)
    BY DEF Receive
  <1>7. ShapeOver(R)'
    BY <1>1, <1>2, <1>3, <1>4, <1>5, <1>6 DEF ShapeOver
  <1> QED
    BY <1>7 DEF Shape

\* A record of a batch is one of those received.
LEMMA WithinReceived ==
  ASSUME NEW l \in Nat, NEW from \in Nat, NEW to \in Nat, NEW m \in Nat, from + m = to, to <= l,
         NEW n \in 1 .. m
  PROVE  from + n \in 1 .. l
  OBVIOUS

\* The batch received last joins the end of the queue.
LEMMA RecordsInOrder == Shape /\ InOrder /\ recording /\ Receive => InOrder'
  <1> SUFFICES ASSUME Shape, InOrder, recording, Receive PROVE InOrder'
    OBVIOUS
  <1>1. PICK R : ShapeOver(R)
    BY DEF Shape
  <1>2. PICK ends : InOrderAt(ends)
    BY DEF InOrder
  <1>b. PICK b : b = Head(channel)
    OBVIOUS
  <1>q. PICK q : q = Len(queue)
    OBVIOUS
  <1>l. PICK l : l = Len(received)
    OBVIOUS
  <1>3. /\ b \in Seq(R) /\ Len(b) \in Nat /\ q \in Nat /\ queue \in Seq(Seq(R))
        /\ received \in Seq(R) /\ l \in Nat
        /\ Len(file) \in Nat /\ Len(rest) \in Nat
    BY <1>1, <1>b, <1>q, <1>l, FirstAndOthers DEF Receive, ShapeOver
  <1>4. /\ queue' = Append(queue, b) /\ UNCHANGED <<rest, file>>
        /\ received' = received \o b
    BY <1>b DEF Receive, Record
  <1>5. /\ Len(queue') = q + 1 /\ queue'[q + 1] = b
        /\ \A k \in 1 .. q : queue'[k] = queue[k] /\ Len(queue[k]) \in Nat
    BY <1>3, <1>4, <1>q, OneMore
  <1>6. /\ Len(received') = l + Len(b)
        /\ \A n \in 1 .. l : received'[n] = received[n]
        /\ \A n \in 1 .. Len(b) : received'[l + n] = b[n]
    BY <1>3, <1>4, <1>l
  <1>7. /\ ends \in [1 .. q + 1 -> Nat] /\ ends[1] = Len(file) + Len(rest) /\ ends[q + 1] = l
        /\ \A k \in 1 .. q : /\ ends[k] + Len(queue[k]) = ends[k + 1]
                             /\ \A n \in 1 .. Len(queue[k]) : queue[k][n] = received[ends[k] + n]
        /\ \A k \in 1 .. q + 1 : ends[k] <= l
        /\ \A n \in 1 .. Len(file) : file[n] = received[n]
        /\ \A n \in 1 .. Len(rest) : rest[n] = received[Len(file) + n]
    BY <1>2, <1>q, <1>l DEF InOrderAt
  <1>8. PICK later : later = [k \in 1 .. q + 2 |-> IF k = q + 2 THEN l + Len(b) ELSE ends[k]]
    OBVIOUS
  <1>9. \A k \in 1 .. q + 1 : later[k] = ends[k] /\ ends[k] \in Nat /\ ends[k] <= l
    BY <1>3, <1>7, <1>8
  <1>10. later[q + 2] = l + Len(b) /\ later \in [1 .. q + 2 -> Nat]
    BY <1>3, <1>7, <1>8
  <1>11. ASSUME NEW k \in 1 .. q + 1
         PROVE  /\ later[k] + Len(queue'[k]) = later[k + 1]
                /\ \A n \in 1 .. Len(queue'[k]) : queue'[k][n] = received'[later[k] + n]
    <2>1. CASE k = q + 1
      <3>1. later[k] = l /\ later[k + 1] = l + Len(b) /\ queue'[k] = b
        BY <2>1, <1>3, <1>5, <1>7, <1>9, <1>10
      <3> QED
        BY <3>1, <1>6
    <2>2. CASE k \in 1 .. q
      <3>1. k \in 1 .. q + 1 /\ k + 1 \in 1 .. q + 1
        BY <2>2, <1>3
      <3>2. later[k] = ends[k] /\ later[k + 1] = ends[k + 1] /\ queue'[k] = queue[k]
        BY <2>2, <3>1, <1>5, <1>9
      <3>3. ends[k] \in Nat /\ ends[k + 1] \in Nat /\ ends[k + 1] <= l
        BY <3>1, <1>9
      <3>4. PICK m : m = Len(queue[k])
        OBVIOUS
      <3>5. m \in Nat /\ ends[k] + m = ends[k + 1]
        BY <2>2, <3>4, <1>5, <1>7
      <3>6. ASSUME NEW n \in 1 .. m
            PROVE  queue[k][n] = received'[ends[k] + n]
        <4>1. ends[k] + n \in 1 .. l
          <5>1. l \in Nat
            BY <1>3
          <5> QED
            BY <5>1, <3>3, <3>5, WithinReceived
        <4>2. queue[k][n] = received[ends[k] + n]
          BY <2>2, <3>4, <1>7
        <4> QED
          BY <4>1, <4>2, <1>6
      <3> QED
        BY <2>2, <3>2, <3>4, <3>6, <1>7
    <2> QED
      BY <2>1, <2>2, <1>3
  <1>12. ASSUME NEW k \in 1 .. q + 2 PROVE later[k] <= l + Len(b)
    <2>1. CASE k = q + 2
      BY <2>1, <1>3, <1>10
    <2>2. CASE k \in 1 .. q + 1
      BY <2>2, <1>3, <1>9
    <2> QED
      BY <2>1, <2>2, <1>3
  <1>13. Len(file) + Len(rest) <= l /\ later[1] = Len(file) + Len(rest)
    BY <1>3, <1>7, <1>9
  <1>14. /\ \A n \in 1 .. Len(file) : n \in 1 .. l
         /\ \A n \in 1 .. Len(rest) : Len(file) + n \in 1 .. l
    BY <1>3, <1>13
  <1>15. /\ \A n \in 1 .. Len(file') : file'[n] = received'[n]
         /\ \A n \in 1 .. Len(rest') : rest'[n] = received'[Len(file') + n]
    BY <1>4, <1>6, <1>7, <1>14
  <1>16. Len(queue') + 1 = q + 2
    BY <1>3, <1>5
  <1>17. /\ later[1] = Len(file') + Len(rest')
         /\ later \in [1 .. Len(queue') + 1 -> Nat]
         /\ later[Len(queue') + 1] = Len(received')
    BY <1>4, <1>6, <1>10, <1>13, <1>16
  <1>18. \A k \in 1 .. Len(queue') + 1 : later[k] <= Len(received')
    BY <1>6, <1>12, <1>16
  <1>19. \A k \in 1 .. Len(queue') : /\ later[k] + Len(queue'[k]) = later[k + 1]
                                     /\ \A n \in 1 .. Len(queue'[k]) :
                                          queue'[k][n] = received'[later[k] + n]
    BY <1>5, <1>11
  <1>20. InOrderAt(later)'
    BY <1>15, <1>17, <1>18, <1>19 DEF InOrderAt
  <1> QED
    BY <1>20 DEF InOrder

\* A recorder that takes a batch is running and has not been closed.
LEMMA ReceiveKeepsInv == LogsInv /\ Receive => LogsInv'
  <1> SUFFICES ASSUME LogsInv, Receive PROVE LogsInv'
    OBVIOUS
  <1>1. /\ UNCHANGED <<command, outcome, recording>>
        /\ UNCHANGED <<open, stopped, failure, writer, rest>>
    BY DEF Receive, Record, recorderVars
  <1>2. ASSUME recording PROVE FlagsAgree'
    BY <1>1, <1>2 DEF LogsInv, FlagsAgree, Receive, Record, RecordRefused
  <1> QED
    BY <1>1, <1>2, ReceiveShape, RecordsInOrder DEF LogsInv, Flags

\* The other steps of the command move no record.
LEMMA CommandKeepsInv ==
  ASSUME LogsInv,
         \/ Interrupt \/ ChannelEnds \/ RecordingFails \/ PrintFails \/ ShutdownFails
         \/ ShutdownEnds \/ RecorderStops \/ Finish
  PROVE  LogsInv'
  <1>1. /\ UNCHANGED recordedVars /\ UNCHANGED <<position, batch, channel, recording>>
        /\ writer' = writer
    BY DEF Interrupt, ChannelEnds, RecordingFails, PrintFails, ShutdownFails, ShutdownEnds,
           RecorderStops, Finish, Abandon, DropRecorder, CloseRecorder, recordedVars,
           recorderVars, sessionVars, captureVars
  <1>2. Shape'
    BY <1>1 DEF LogsInv, Shape, ShapeOver, recordedVars
  <1>3. recording => InOrder'
    BY <1>1, StaysInOrder DEF LogsInv
  <1>4. Flags'
    BY DEF LogsInv, Flags, Interrupt, ChannelEnds, RecordingFails, PrintFails, ShutdownFails,
           ShutdownEnds, RecorderStops, Finish, Abandon, DropRecorder, CloseRecorder,
           recorderVars, RecordOverflows
  <1>5. ASSUME recording PROVE FlagsAgree'
    <2> USE <1>1, <1>5 DEF LogsInv, Flags, FlagsAgree, recordedVars, recorderVars
    <2>1. CASE Interrupt \/ ChannelEnds
      BY <2>1 DEF Interrupt, ChannelEnds
    <2>2. CASE RecordingFails \/ PrintFails \/ ShutdownFails
      BY <2>2 DEF RecordingFails, PrintFails, ShutdownFails, Abandon, DropRecorder
    <2>3. CASE ShutdownEnds
      BY <2>3 DEF ShutdownEnds, CloseRecorder
    <2>4. CASE RecorderStops
      BY <2>4 DEF RecorderStops
    <2>5. CASE Finish
      BY <2>5 DEF Finish
    <2> QED
      BY <2>1, <2>2, <2>3, <2>4, <2>5
  <1> QED
    BY <1>1, <1>2, <1>3, <1>4, <1>5 DEF LogsInv

\* Every step of command, session and thread.
LEMMA NextInv == LogsInv /\ [Next]_vars => LogsInv'
  <1>1. ASSUME LogsInv, UNCHANGED vars PROVE LogsInv'
    <2>1. UNCHANGED recordedVars /\ UNCHANGED <<position, batch, channel, recording>>
          /\ UNCHANGED <<open, stopped, failure, writer, command, outcome>>
      BY <1>1 DEF vars, sessionVars, captureVars, recorderVars, commandVars, recordedVars
    <2>2. InOrder => InOrder'
      BY <2>1, StaysInOrder
    <2> QED
      BY <1>1, <2>1, <2>2 DEF LogsInv, Shape, ShapeOver, Flags, FlagsAgree, recordedVars
  <1>2. ASSUME LogsInv, Next PROVE LogsInv'
    BY <1>2, ReceiveKeepsInv, CommandKeepsInv, SessionStep, WriterKeepsInv DEF Next, CommandStep
  <1> QED
    BY <1>1, <1>2

\* What was received is in the file, in hand or queued, whoever moves.
THEOREM LogsInvariant == Spec => []LogsInv
  BY InitInv, NextInv, PTL DEF Spec

-----------------------------------------------------------------------------
\* A recording that ends well is complete: the thread has ended with nothing in
\* hand and nothing queued.
LEMMA InvIsFaithful == LogsInv => RecordingIsFaithful
  <1> SUFFICES ASSUME LogsInv, recording PROVE RecordingIsFaithful
    BY DEF RecordingIsFaithful
  <1>1. PICK R : ShapeOver(R)
    BY DEF LogsInv, Shape
  <1>2. PICK ends : InOrderAt(ends)
    BY DEF LogsInv, InOrder
  <1>3. /\ file \in Seq(R) /\ received \in Seq(R)
        /\ Len(file) \in Nat /\ Len(rest) \in Nat /\ Len(received) \in Nat /\ Len(queue) \in Nat
    BY <1>1 DEF ShapeOver
  <1>4. /\ Len(file) + Len(rest) <= Len(received)
        /\ \A n \in 1 .. Len(file) : file[n] = received[n]
    BY <1>2, <1>3 DEF InOrderAt
  <1>5. IsPrefix(file, received)
    <2>1. SubSeq(file, 1, Len(file)) = SubSeq(received, 1, Len(file))
      BY <1>3, <1>4
    <2> QED
      BY <2>1, <1>3, <1>4 DEF IsPrefix
  <1>6. ASSUME outcome \in {"cancelled", "success"} PROVE file = received
    <2>1. queue = <<>> /\ rest = <<>>
      BY <1>6 DEF LogsInv, FlagsAgree
    <2>2. Len(queue) = 0 /\ Len(rest) = 0
      BY <2>1
    <2>3. Len(file) = Len(received)
      BY <2>2, <1>2, <1>3 DEF InOrderAt
    <2> QED
      BY <2>3, <1>3, <1>4, SeqEqual
  <1> QED
    BY <1>5, <1>6 DEF RecordingIsFaithful

\* However the device, the session, the interrupt and the writing thread
\* interleave, a recording is a prefix of what run_logs received, and all of it
\* when the command ends without an error.
THEOREM RecordingFaithful == Spec => []RecordingIsFaithful
  BY LogsInvariant, InvIsFaithful, PTL

-----------------------------------------------------------------------------
(***************************************************************************)
(* A reconnect replays lines of the device, and the window of remembered   *)
(* keys has to recognise them.  It does because recent always holds the    *)
(* keys of the last lines accepted (Remembered), the lines are accepted in *)
(* the order of their times (InTime), and adb never resumes behind the     *)
(* time of the last line selected: of the lines that may come again all    *)
(* have one time, so there are no more of them than the window holds.      *)
(***************************************************************************)
Rows == 1 .. Len(Lines)
TimeOf(m) == Lines[accepted[m]].time
KeyOf(m) == Lines[accepted[m]].key

CaptureTypes ==
  /\ capture \in {"connecting", "streaming", "closing", "pausing", "ok", "failed"}
  /\ position \in 1 .. Len(Lines) + 1 /\ lastTime \in Nat
  /\ accepted \in Seq(Rows)
  /\ recent \in Seq({Lines[i].key : i \in Rows})

\* The window holds the keys of the last lines accepted.
Remembered ==
  /\ Len(recent) = IF Len(accepted) <= Window THEN Len(accepted) ELSE Window
  /\ \A k \in 1 .. Len(recent) : recent[k] = KeyOf(Len(accepted) - Len(recent) + k)

\* Lines are accepted in the order of their times, and adb goes on from there.
InTime ==
  /\ \A m, n \in 1 .. Len(accepted) : m <= n => TimeOf(m) <= TimeOf(n)
  /\ \A n \in 1 .. Len(accepted) : TimeOf(n) <= lastTime
  /\ capture = "streaming" => \A j \in position .. Len(Lines) : Lines[j].time >= lastTime

\* Every line adb has passed, or will not write again, is accounted for.
NoGap ==
  scope = "Device" /\ Selector.kind = "none" =>
    \A i \in Rows : i < position \/ Lines[i].time < lastTime =>
      \E n \in 1 .. Len(accepted) : KeyOf(n) = Lines[i].key

CaptureInv == CaptureTypes /\ Remembered /\ InTime /\ NothingTwice /\ NoGap

\* What the assumption says of the lines of the device.
LEMMA LineFacts ==
  /\ Len(Lines) \in Nat
  /\ \A i \in Rows : Lines[i].time \in Nat /\ Lines[i].time > 0
  /\ \A i, j \in Rows : i <= j => Lines[i].time <= Lines[j].time
  /\ \A i, j \in Rows : Lines[i].key = Lines[j].key => Lines[i].time = Lines[j].time
  /\ Window \in Nat /\ Window > 0
  <1>1. Len(Lines) \in Nat
    BY SessionAssumption
  <1>2. ASSUME NEW i \in Rows, NEW j \in Rows, i <= j PROVE Lines[i].time <= Lines[j].time
    <2>1. CASE i = j
      BY <2>1, SessionAssumption DEF Rows
    <2>2. CASE i < j
      BY <2>2, SessionAssumption DEF Rows
    <2> QED
      BY <1>2, <2>1, <2>2, <1>1 DEF Rows
  <1>3. \A i, j \in Rows : Lines[i].key = Lines[j].key => Lines[i].time = Lines[j].time
    BY SessionAssumption DEF Rows
  <1>4. \A i \in Rows : Lines[i].time \in Nat /\ Lines[i].time > 0
    BY SessionAssumption DEF Rows
  <1> QED
    BY <1>1, <1>2, <1>3, <1>4, SessionAssumption

\* adb finds a first line that is not older than -T, or the end of the log.
LEMMA ReplayStart ==
  ASSUME NEW time \in Nat
  PROVE  /\ ReplayFrom(time) \in 1 .. Len(Lines) + 1
         /\ \A j \in Rows : j < ReplayFrom(time) => Lines[j].time < time
         /\ \A j \in Rows : j >= ReplayFrom(time) => Lines[j].time >= time
  <1> DEFINE T == {i \in 1 .. Len(Lines) + 1 : i <= Len(Lines) => Lines[i].time >= time}
             Start(i) == /\ \A j \in 1 .. i - 1 : Lines[j].time < time
                         /\ i <= Len(Lines) => Lines[i].time >= time
  <1>1. Len(Lines) + 1 \in T /\ T \in SUBSET Nat
    BY LineFacts
  <1>2. PICK i \in T : \A y \in T : i <= y
    BY <1>1, LeastNumber
  <1>3. Start(i)
    <2>1. ASSUME NEW j \in 1 .. i - 1 PROVE Lines[j].time < time
      <3>1. j \notin T /\ j \in Rows
        BY <1>2, LineFacts DEF Rows
      <3> QED
        BY <3>1, LineFacts DEF Rows
    <2> QED
      BY <2>1, <1>2
  <1>4. ReplayFrom(time) \in 1 .. Len(Lines) + 1 /\ Start(ReplayFrom(time))
    BY <1>2, <1>3 DEF ReplayFrom
  <1>5. PICK r : r = ReplayFrom(time)
    OBVIOUS
  <1>6. r \in 1 .. Len(Lines) + 1 /\ Start(r)
    BY <1>4, <1>5
  <1> HIDE DEF T
  <1>7. ASSUME NEW j \in Rows, j >= r PROVE Lines[j].time >= time
    <2>1. r \in Rows /\ Lines[r].time >= time
      BY <1>6, <1>7, LineFacts DEF Rows
    <2>2. Lines[r].time <= Lines[j].time
      BY <2>1, <1>7, LineFacts
    <2> QED
      BY <2>1, <2>2, LineFacts
  <1>8. ASSUME NEW j \in Rows, j < r PROVE Lines[j].time < time
    BY <1>6, <1>8, LineFacts DEF Rows
  <1> QED
    BY <1>5, <1>6, <1>7, <1>8

\* A set that is mapped one to one into a finite set has no more elements.
LEMMA NoMoreThan ==
  ASSUME NEW A, NEW B, IsFiniteSet(A), IsFiniteSet(B), NEW f \in [A -> B],
         \A x, y \in A : f[x] = f[y] => x = y
  PROVE  Cardinality(A) <= Cardinality(B)
  <1>1. ~ (Cardinality(B) < Cardinality(A))
    BY FS_PigeonHole
  <1>2. Cardinality(A) \in Nat /\ Cardinality(B) \in Nat
    BY FS_CardinalityType
  <1> QED
    BY <1>1, <1>2

\* A line whose key has been accepted before is still remembered when it comes
\* again.
LEMMA ReplayIsRemembered ==
  ASSUME CaptureInv, capture = "streaming", position \in Rows,
         NEW n \in 1 .. Len(accepted), KeyOf(n) = Lines[position].key
  PROVE  Contains(recent, Lines[position].key)
  <1> DEFINE N == Len(accepted)
             T == SameTime(position)
  <1>1. /\ accepted \in Seq(Rows) /\ N \in Nat /\ lastTime \in Nat
        /\ \A m \in 1 .. N : accepted[m] \in Rows /\ TimeOf(m) \in Nat
    <2>1. accepted \in Seq(Rows) /\ lastTime \in Nat
      BY DEF CaptureInv, CaptureTypes
    <2>2. N \in Nat /\ \A m \in 1 .. N : accepted[m] \in Rows
      BY <2>1
    <2> QED
      BY <2>1, <2>2, LineFacts DEF TimeOf
  <1>2. ASSUME NEW m \in n .. N PROVE accepted[m] \in T
    <2>1. m \in 1 .. N /\ n <= m
      BY <1>1
    <2>2. TimeOf(n) <= TimeOf(m) /\ TimeOf(m) <= lastTime
      BY <2>1 DEF CaptureInv, InTime
    <2>3. lastTime <= Lines[position].time
      BY LineFacts DEF CaptureInv, InTime, Rows
    <2>4. TimeOf(n) = Lines[position].time
      BY <1>1, LineFacts DEF KeyOf, TimeOf
    <2>5. TimeOf(m) = Lines[position].time
      BY <2>1, <2>2, <2>3, <2>4, <1>1, LineFacts
    <2> QED
      BY <2>1, <2>5, <1>1 DEF SameTime, TimeOf, Rows
  <1>3. ASSUME NEW x \in n .. N, NEW y \in n .. N, accepted[x] = accepted[y] PROVE x = y
    <2>1. x \in 1 .. N /\ y \in 1 .. N
      BY <1>1
    <2> QED
      BY <2>1, <1>3 DEF CaptureInv, NothingTwice
  <1>4. IsFiniteSet(T) /\ Cardinality(T) \in Nat /\ Cardinality(T) <= Window
    <2>1. IsFiniteSet(Rows)
      BY LineFacts, FS_Interval DEF Rows
    <2>2. T \subseteq Rows
      BY DEF SameTime, Rows
    <2>3. Cardinality(T) <= Window
      BY SessionAssumption DEF Rows
    <2> QED
      BY <2>1, <2>2, <2>3, FS_Subset, FS_CardinalityType
  <1>5. IsFiniteSet(n .. N) /\ Cardinality(n .. N) = N - n + 1
    BY <1>1, FS_Interval
  <1>6. N - n + 1 <= Cardinality(T)
    <2> DEFINE f == [m \in n .. N |-> accepted[m]]
    <2>1. f \in [n .. N -> T]
      BY <1>2
    <2>2. \A x, y \in n .. N : f[x] = f[y] => x = y
      BY <1>3
    <2> HIDE DEF f, T, N
    <2>3. Cardinality(n .. N) <= Cardinality(T)
      BY <2>1, <2>2, <1>4, <1>5, NoMoreThan
    <2> QED
      BY <2>3, <1>5
  <1>7. PICK k \in 1 .. Len(recent) : N - Len(recent) + k = n
    <2>1. Len(recent) = IF N <= Window THEN N ELSE Window
      BY DEF CaptureInv, Remembered
    <2>2. N \in Nat /\ Window \in Nat /\ n \in 1 .. N /\ N - n + 1 <= Window
      <3>1. N \in Nat /\ Window \in Nat /\ n \in 1 .. N
        BY <1>1, LineFacts
      <3> HIDE DEF T, N
      <3> QED
        BY <3>1, <1>4, <1>6
    <2>3. PICK r : r = Len(recent)
      OBVIOUS
    <2> HIDE DEF N
    <2>4. n - (N - r) \in 1 .. r /\ N - r + (n - (N - r)) = n
      BY <2>1, <2>2, <2>3
    <2> QED
      BY <2>3, <2>4
  <1>8. recent[k] = KeyOf(n)
    BY <1>7 DEF CaptureInv, Remembered
  <1> QED
    BY <1>8 DEF Contains

\* Nothing has been read.
LEMMA InitCapture == Init => CaptureInv
  <1> SUFFICES ASSUME Init PROVE CaptureInv
    OBVIOUS
  <1>1. /\ capture = "connecting" /\ position = 1 /\ lastTime = 0
        /\ recent = <<>> /\ accepted = <<>> /\ Len(recent) = 0 /\ Len(accepted) = 0
    BY DEF Init, SessionInit
  <1>2. CaptureTypes
    BY <1>1, LineFacts DEF CaptureTypes
  <1>3. Remembered /\ InTime /\ NothingTwice
    BY <1>1, LineFacts DEF Remembered, InTime, NothingTwice
  <1>4. NoGap
    BY <1>1, LineFacts DEF NoGap, Rows
  <1> QED
    BY <1>2, <1>3, <1>4 DEF CaptureInv

\* Steps that read nothing.
LEMMA QuietCapture ==
  ASSUME CaptureInv, UNCHANGED <<position, lastTime, recent, accepted, scope>>,
         capture' \in {"connecting", "streaming", "closing", "pausing", "ok", "failed"},
         capture' = "streaming" => capture = "streaming"
  PROVE  CaptureInv'
  BY DEF CaptureInv, CaptureTypes, Remembered, InTime, NothingTwice, NoGap, TimeOf, KeyOf

\* A connection resumes at the time of the last line selected.
LEMMA ConnectCapture == ASSUME CaptureInv, Connect, scope' = scope PROVE CaptureInv'
  <1>1. /\ position' = ReplayFrom(lastTime) /\ capture' = "streaming"
        /\ UNCHANGED <<lastTime, recent, accepted, scope>>
    BY DEF Connect
  <1>2. PICK r : r = ReplayFrom(lastTime)
    OBVIOUS
  <1>3. lastTime \in Nat
    BY DEF CaptureInv, CaptureTypes
  <1>4. /\ r \in 1 .. Len(Lines) + 1
        /\ \A j \in Rows : j < r => Lines[j].time < lastTime
        /\ \A j \in Rows : j >= r => Lines[j].time >= lastTime
    BY <1>2, <1>3, ReplayStart
  <1>5. position' = r
    BY <1>1, <1>2
  <1>6. CaptureTypes'
    BY <1>1, <1>4, <1>5 DEF CaptureInv, CaptureTypes
  <1>7. Remembered' /\ NothingTwice'
    BY <1>1 DEF CaptureInv, Remembered, NothingTwice, KeyOf
  <1>8. InTime'
    <2>1. \A j \in r .. Len(Lines) : Lines[j].time >= lastTime
      BY <1>4, LineFacts DEF Rows
    <2> QED
      BY <2>1, <1>1, <1>5 DEF CaptureInv, InTime, TimeOf
  <1>9. NoGap'
    <2>1. \A i \in Rows :
            i < r \/ Lines[i].time < lastTime => i < position \/ Lines[i].time < lastTime
      BY <1>4
    <2> QED
      BY <2>1, <1>1, <1>5 DEF CaptureInv, NoGap, KeyOf
  <1> QED
    BY <1>6, <1>7, <1>8, <1>9 DEF CaptureInv

\* The window takes the key of the line accepted last, and forgets the oldest.
LEMMA RememberLast ==
  ASSUME NEW K, NEW key \in K, recent \in Seq(K), Remembered, accepted \in Seq(Rows),
         NEW row \in Rows, key = Lines[row].key,
         accepted' = Append(accepted, row), recent' = Remember(key)
  PROVE  recent' \in Seq(K) /\ Remembered'
  <1> DEFINE more == Append(recent, key)
  <1>n. PICK N : N = Len(accepted)
    OBVIOUS
  <1>1. /\ N \in Nat /\ Len(accepted') = N + 1 /\ accepted'[N + 1] = row
        /\ \A m \in 1 .. N : accepted'[m] = accepted[m]
    BY <1>n, OneMore
  <1>2. /\ more \in Seq(K) /\ Len(more) = Len(recent) + 1 /\ more[Len(recent) + 1] = key
        /\ \A k \in 1 .. Len(recent) : more[k] = recent[k]
        /\ Len(recent) \in Nat
    BY OneMore
  <1>3. Len(recent) = IF N <= Window THEN N ELSE Window
    BY <1>n DEF Remembered
  <1>4. Window \in Nat /\ Window > 0
    BY LineFacts
  <1>5. \A k \in 1 .. Len(recent) : recent[k] = Lines[accepted[N - Len(recent) + k]].key
    BY <1>n DEF Remembered, KeyOf
  <1>r. PICK r : r = Len(recent)
    OBVIOUS
  <1>s. r \in Nat
    BY <1>2, <1>r
  <1>6. ASSUME NEW k \in 1 .. r + 1 PROVE more[k] = Lines[accepted'[N + 1 - (r + 1) + k]].key
    <2>1. CASE k = r + 1
      <3>1. N + 1 - (r + 1) + k = N + 1
        BY <2>1, <1>1, <1>2, <1>r
      <3>2. more[k] = Lines[row].key
        BY <2>1, <1>2, <1>r
      <3> QED
        BY <3>1, <3>2, <1>1
    <2>2. CASE k \in 1 .. r
      <3>1. N - r + k \in 1 .. N /\ N + 1 - (r + 1) + k = N - r + k
        <4> QED
          BY <2>2, <1>1, <1>2, <1>3, <1>4, <1>r
      <3>2. more[k] = recent[k] /\ recent[k] = Lines[accepted[N - r + k]].key
        BY <2>2, <1>2, <1>5, <1>r
      <3> QED
        BY <3>1, <3>2, <1>1
    <2>3. r \in Nat
      BY <1>2, <1>r
    <2>4. k = r + 1 \/ k \in 1 .. r
      BY <2>3
    <2> HIDE DEF more
    <2> QED
      BY <2>1, <2>2, <2>4
  <1>7. CASE r + 1 <= Window
    <2>1. recent' = more
      BY <1>2, <1>4, <1>7, <1>r DEF Remember
    <2>2. r = N /\ N + 1 <= Window
      <3> QED
        BY <1>1, <1>2, <1>3, <1>4, <1>7, <1>r
    <2>3. Len(recent') = r + 1 /\ Len(accepted') = N + 1
      BY <2>1, <1>1, <1>2, <1>r
    <2>4. Len(recent') = IF Len(accepted') <= Window THEN Len(accepted') ELSE Window
      BY <2>2, <2>3
    <2>5. \A k \in 1 .. r + 1 : recent'[k] = Lines[accepted'[N + 1 - (r + 1) + k]].key
      BY <2>1, <1>6
    <2>6. \A k \in 1 .. Len(recent') :
            recent'[k] = Lines[accepted'[Len(accepted') - Len(recent') + k]].key
      <3>1. Len(accepted') - Len(recent') = N + 1 - (r + 1)
        BY <2>3, <1>1
      <3>2. 1 .. Len(recent') = 1 .. r + 1
        BY <2>3
      <3> QED
        BY <3>1, <3>2, <2>5, Zenon
    <2> QED
      BY <2>1, <2>4, <2>6, <1>2 DEF Remembered, KeyOf
  <1>8. CASE r + 1 > Window
    <2>1. recent' = Tail(more) /\ more # <<>>
      BY <1>2, <1>4, <1>8, <1>r DEF Remember
    <2>2. r = Window /\ N >= Window
      <3> QED
        BY <1>1, <1>2, <1>3, <1>4, <1>8, <1>r
    <2>3. /\ recent' \in Seq(K) /\ Len(recent') = r
          /\ \A k \in 1 .. r : recent'[k] = more[k + 1]
      BY <2>1, <1>2, <1>r, FirstAndOthers
    <2>4. Len(recent') = IF Len(accepted') <= Window THEN Len(accepted') ELSE Window
      <3>1. N + 1 > Window
        <4> QED
          BY <2>2, <1>1, <1>4
      <3> QED
        BY <3>1, <2>2, <2>3, <1>1, <1>4
    <2>5. ASSUME NEW k \in 1 .. r
          PROVE  recent'[k] = Lines[accepted'[N + 1 - r + k]].key
      <3>1. k + 1 \in 1 .. r + 1 /\ N + 1 - (r + 1) + (k + 1) = N + 1 - r + k
        <4> QED
          BY <1>1, <1>2, <1>r
      <3> QED
        <4>1. recent'[k] = more[k + 1]
          BY <2>3
        <4>2. more[k + 1] = Lines[accepted'[N + 1 - (r + 1) + (k + 1)]].key
          BY <3>1, <1>6
        <4> HIDE DEF more
        <4> QED
          BY <3>1, <4>1, <4>2
    <2>6. \A k \in 1 .. Len(recent') :
            recent'[k] = Lines[accepted'[Len(accepted') - Len(recent') + k]].key
      <3>1. Len(accepted') - Len(recent') = N + 1 - r
        BY <2>3, <1>1
      <3>2. 1 .. Len(recent') = 1 .. r
        BY <2>3
      <3> QED
        BY <3>1, <3>2, <2>5, Zenon
    <2> QED
      BY <2>3, <2>4, <2>6 DEF Remembered, KeyOf
  <1> QED
    BY <1>2, <1>4, <1>7, <1>8, <1>r

\* With the whole device and no process selected, every line is.
LEMMA AllSelected ==
  ASSUME scope = "Device", Selector.kind = "none", NEW line PROVE Selected(line)
  BY DEF Selected

\* A line is passed: not selected, or known, or accepted as the last.
LEMMA ReadCapture == ASSUME CaptureInv, ReadRecord, scope' = scope PROVE CaptureInv'
  <1> DEFINE line == Lines[position]
             N == Len(accepted)
             Keys == {Lines[i].key : i \in Rows}
  <1>0. /\ position \in Rows /\ lastTime \in Nat /\ capture = "streaming" /\ position \in Nat
        /\ line.time \in Nat /\ line.time >= lastTime
    <2>1. position \in Rows /\ lastTime \in Nat /\ capture = "streaming" /\ position \in Nat
      BY LineFacts DEF CaptureInv, CaptureTypes, ReadRecord, Rows
    <2>2. position \in position .. Len(Lines)
      BY <2>1, LineFacts DEF Rows
    <2> QED
      BY <2>1, <2>2, LineFacts DEF CaptureInv, InTime
  <1>1. /\ position' = position + 1 /\ capture' = capture
        /\ position' \in 1 .. Len(Lines) + 1
    BY <1>0, LineFacts DEF ReadRecord, Rows
  <1>2. /\ accepted \in Seq(Rows) /\ N \in Nat /\ recent \in Seq(Keys)
        /\ \A m \in 1 .. N : accepted[m] \in Rows
    BY DEF CaptureInv, CaptureTypes
  <1>3. \A j \in position + 1 .. Len(Lines) :
          Lines[j].time >= line.time /\ Lines[j].time >= lastTime
    <2> SUFFICES ASSUME NEW j \in position + 1 .. Len(Lines)
                 PROVE  Lines[j].time >= line.time /\ Lines[j].time >= lastTime
      OBVIOUS
    <2>1. j \in Rows /\ position <= j
      BY <1>0, LineFacts DEF Rows
    <2>2. line.time <= Lines[j].time /\ Lines[j].time \in Nat
      BY <2>1, <1>0, LineFacts
    <2> QED
      BY <2>2, <1>0
  <1>4. lastTime' \in Nat /\ lastTime' >= lastTime /\ lastTime' \in {lastTime, line.time}
    BY <1>0 DEF ReadRecord
  <1>5. \A j \in position' .. Len(Lines) : Lines[j].time >= lastTime'
    BY <1>1, <1>3, <1>4
  <1>6. \A i \in Rows : i < position' \/ Lines[i].time < lastTime' =>
                          i = position \/ i < position \/ Lines[i].time < lastTime
    <2> SUFFICES ASSUME NEW i \in Rows, i < position' \/ Lines[i].time < lastTime', i > position,
                        ~ (Lines[i].time < lastTime)
                 PROVE  FALSE
      BY <1>0 DEF Rows
    <2>1. Lines[i].time >= line.time /\ Lines[i].time \in Nat
      BY <1>0, <1>3, LineFacts DEF Rows
    <2>2. ~ (i < position')
      BY <1>0, <1>1 DEF Rows
    <2> QED
      BY <2>1, <2>2, <1>0, <1>4
  <1>7. CASE ~ Selected(line) \/ Contains(recent, line.key)
    <2>1. UNCHANGED <<recent, accepted>>
      BY <1>7 DEF ReadRecord
    <2>2. CaptureTypes' /\ Remembered' /\ NothingTwice'
      BY <2>1, <1>1, <1>4 DEF CaptureInv, CaptureTypes, Remembered, NothingTwice, KeyOf
    <2>3. InTime'
      <3>1. \A n \in 1 .. Len(accepted) : TimeOf(n) \in Nat /\ TimeOf(n) <= lastTime
        BY <1>2, LineFacts DEF CaptureInv, InTime, TimeOf
      <3>2. \A n \in 1 .. Len(accepted) : TimeOf(n) <= lastTime'
        BY <3>1, <1>0, <1>4
      <3> QED
        BY <3>2, <2>1, <1>5 DEF CaptureInv, InTime, TimeOf
    <2>4. NoGap'
      <3> SUFFICES ASSUME scope = "Device", Selector.kind = "none"
                   PROVE  \A i \in Rows : i < position' \/ Lines[i].time < lastTime' =>
                            \E n \in 1 .. Len(accepted) : KeyOf(n) = Lines[i].key
        BY <2>1 DEF NoGap, KeyOf
      <3>1. Contains(recent, line.key)
        BY <1>7, AllSelected
      <3>2. \E n \in 1 .. Len(accepted) : KeyOf(n) = line.key
        <4>1. PICK k \in 1 .. Len(recent) : recent[k] = line.key
          BY <3>1 DEF Contains
        <4>2. recent[k] = KeyOf(N - Len(recent) + k)
          BY DEF CaptureInv, Remembered
        <4>3. N - Len(recent) + k \in 1 .. N
          <5>1. PICK r : r = Len(recent)
            OBVIOUS
          <5>2. r = IF N <= Window THEN N ELSE Window
            BY <5>1 DEF CaptureInv, Remembered
          <5>3. r \in Nat /\ k \in 1 .. r /\ Window \in Nat
            BY <5>1, <1>2, LineFacts
          <5> HIDE DEF N
          <5> QED
            BY <5>1, <5>2, <5>3, <1>2
        <4> QED
          BY <4>1, <4>2, <4>3
      <3> QED
        BY <3>2, <1>6 DEF CaptureInv, NoGap
    <2> QED
      BY <2>2, <2>3, <2>4 DEF CaptureInv
  <1>8. CASE Selected(line) /\ ~ Contains(recent, line.key)
    <2>1. /\ recent' = Remember(line.key) /\ accepted' = Append(accepted, position)
          /\ lastTime' = line.time
      BY <1>8 DEF ReadRecord
    <2>2. /\ accepted' \in Seq(Rows) /\ Len(accepted') = N + 1 /\ accepted'[N + 1] = position
          /\ \A m \in 1 .. N : accepted'[m] = accepted[m]
      BY <2>1, <1>0, <1>2, OneMore
    <2>3. recent' \in Seq(Keys) /\ Remembered'
      <3>1. line.key \in Keys
        BY <1>0
      <3> HIDE DEF Keys
      <3> QED
        BY <3>1, <2>1, <1>0, <1>2, RememberLast DEF CaptureInv
    <2>4. CaptureTypes'
      BY <2>2, <2>3, <1>1, <1>4, <1>0 DEF CaptureInv, CaptureTypes
    <2>5. NothingTwice'
      <3>1. \A n \in 1 .. N : Lines[accepted[n]].key # line.key
        BY <1>8, <1>0, ReplayIsRemembered DEF KeyOf
      <3> SUFFICES ASSUME NEW m \in 1 .. N + 1, NEW n \in 1 .. N + 1, m # n
                   PROVE  Lines[accepted'[m]].key # Lines[accepted'[n]].key
        BY <2>2 DEF NothingTwice
      <3>2. CASE m \in 1 .. N /\ n \in 1 .. N
        BY <3>2, <2>2 DEF CaptureInv, NothingTwice
      <3>3. CASE m = N + 1 /\ n \in 1 .. N
        BY <3>1, <3>3, <2>2
      <3>4. CASE m \in 1 .. N /\ n = N + 1
        BY <3>1, <3>4, <2>2
      <3> QED
        BY <3>2, <3>3, <3>4, <1>2
    <2>6. InTime'
      <3>1. \A n \in 1 .. N : TimeOf(n) \in Nat /\ TimeOf(n) <= line.time
        <4>1. \A n \in 1 .. N : TimeOf(n) \in Nat /\ TimeOf(n) <= lastTime
          BY <1>2, LineFacts DEF CaptureInv, InTime, TimeOf
        <4> QED
          BY <4>1, <1>0
      <3>2. ASSUME NEW n \in 1 .. N + 1
            PROVE  Lines[accepted'[n]].time <= line.time
        <4>1. CASE n \in 1 .. N
          BY <4>1, <3>1, <2>2 DEF TimeOf
        <4>2. CASE n = N + 1
          BY <4>2, <2>2, <1>0
        <4> QED
          BY <4>1, <4>2, <1>2
      <3>3. ASSUME NEW m \in 1 .. N + 1, NEW n \in 1 .. N + 1, m <= n
            PROVE  Lines[accepted'[m]].time <= Lines[accepted'[n]].time
        <4>1. CASE n = N + 1
          BY <4>1, <3>2, <2>2
        <4>2. CASE n \in 1 .. N
          <5>1. m \in 1 .. N
            BY <4>2, <3>3, <1>2
          <5> QED
            BY <4>2, <5>1, <3>3, <2>2 DEF CaptureInv, InTime, TimeOf
        <4> QED
          BY <4>1, <4>2, <1>2
      <3> QED
        BY <3>2, <3>3, <2>1, <2>2, <1>5 DEF InTime, TimeOf
    <2>7. NoGap'
      <3> SUFFICES ASSUME scope = "Device", Selector.kind = "none", NEW i \in Rows,
                          i < position' \/ Lines[i].time < lastTime'
                   PROVE  \E n \in 1 .. N + 1 : Lines[accepted'[n]].key = Lines[i].key
        BY <2>2 DEF NoGap, KeyOf
      <3>1. CASE i = position
        BY <3>1, <2>2, <1>2
      <3>2. CASE i < position \/ Lines[i].time < lastTime
        <4>1. PICK n \in 1 .. N : Lines[accepted[n]].key = Lines[i].key
          BY <3>2 DEF CaptureInv, NoGap, KeyOf
        <4> QED
          BY <4>1, <2>2, <1>2
      <3> QED
        BY <3>1, <3>2, <1>6
    <2> QED
      BY <2>3, <2>4, <2>5, <2>6, <2>7 DEF CaptureInv
  <1> QED
    BY <1>7, <1>8

\* Every step of the session.
LEMMA SessionCapture == ASSUME CaptureInv, SessionNext PROVE CaptureInv'
  <1>1. scope' = scope
    BY DEF SessionNext
  <1>2. CASE Connect
    BY <1>1, <1>2, ConnectCapture
  <1>3. CASE ReadRecord
    BY <1>1, <1>3, ReadCapture
  <1>4. CASE \/ LoopEnds \/ SpawnFails \/ FlushTick
             \/ StreamEnds \/ ChildEnds \/ PauseEnds \/ CaptureFails
    <2>1. /\ UNCHANGED <<position, lastTime, recent, accepted>>
          /\ capture' \in {"connecting", "streaming", "closing", "pausing", "ok", "failed"}
          /\ capture' = "streaming" => capture = "streaming"
      BY <1>4 DEF LoopEnds, SpawnFails, FlushTick, StreamEnds, ChildEnds, PauseEnds, CaptureFails,
                  captureVars
    <2> QED
      BY <2>1, <1>1, QuietCapture
  <1>5. CASE UNCHANGED <<capture, captureVars>>
    BY <1>1, <1>5, QuietCapture DEF captureVars, CaptureInv, CaptureTypes
  <1> QED
    BY <1>2, <1>3, <1>4, <1>5 DEF SessionNext, CaptureStep

\* Every step of the command.
LEMMA NextCapture == CaptureInv /\ [Next]_vars => CaptureInv'
  <1> SUFFICES ASSUME CaptureInv, [Next]_vars PROVE CaptureInv'
    OBVIOUS
  <1>1. CASE SessionNext
    BY <1>1, SessionCapture
  <1>2. CASE ~ SessionNext
    <2>1. /\ UNCHANGED <<position, lastTime, recent, accepted, scope>>
          /\ capture' \in {capture, "failed"}
      BY <1>2 DEF Next, CommandStep, Receive, ChannelEnds, RecordingFails, ShutdownFails,
                  ShutdownEnds, RecorderStops, Finish, Interrupt, PrintFails, Abandon, vars,
                  sessionVars, captureVars
    <2> QED
      BY <2>1, QuietCapture DEF CaptureInv, CaptureTypes
  <1> QED
    BY <1>1, <1>2

\* What is remembered, the order of times and the absence of gaps, always.
THEOREM CaptureInvariant == Spec => []CaptureInv
  BY InitCapture, NextCapture, PTL DEF Spec

\* However often adb ends and is started again, dexdeck never hands a record on
\* twice: dedup_key and the window of remembered keys in logcat.rs.
THEOREM NoRecordTwice == Spec => []NothingTwice
  <1>1. CaptureInv => NothingTwice
    BY DEF CaptureInv
  <1> QED
    BY <1>1, CaptureInvariant, PTL

\* With the whole device selected a reconnect at last_timestamp leaves no gap.
THEOREM NoRecordSkipped == Spec => []NothingSkipped
  <1>1. CaptureInv => NothingSkipped
    <2> SUFFICES ASSUME CaptureInv, scope = "Device", Selector.kind = "none",
                        NEW i \in 1 .. position - 1
                 PROVE  \E n \in 1 .. Len(accepted) : Lines[accepted[n]].key = Lines[i].key
      BY DEF NothingSkipped
    <2>1. i \in Rows /\ i < position
      BY LineFacts DEF CaptureInv, CaptureTypes, Rows
    <2> QED
      BY <2>1 DEF CaptureInv, NoGap, KeyOf
  <1> QED
    BY <1>1, CaptureInvariant, PTL

-----------------------------------------------------------------------------
\* No queue outgrows its limit, and the command has an outcome once it is done.
Limits == /\ Len(channel) <= ChannelBatches /\ Len(batch) < BatchRecords
          /\ Len(queue) <= RecordingQueueBatches
          /\ writer \in {"checking", "receiving", "writing", "flushing", "ended"}

Places == /\ command \in {"receiving", "shutting", "stopping", "exporting", "done"}
          /\ outcome \in {"none", "cancelled", "success", "failed"}
          /\ (command = "done") = (outcome # "none")

\* A batch is sent only where there is room, and leaves none behind.
LEMMA FlushLimits ==
  ASSUME NEW R, channel \in Seq(Seq(R)), NEW records \in Seq(R), Flush(records),
         Len(channel) <= ChannelBatches
  PROVE  Len(channel') <= ChannelBatches /\ Len(batch') < BatchRecords
  <1>1. ChannelBatches \in Nat /\ BatchRecords \in Nat /\ BatchRecords > 0
    BY SessionAssumption
  <1>2. batch' = <<>> /\ Len(batch') = 0
    BY DEF Flush
  <1>3. CASE channel' = channel
    BY <1>1, <1>2, <1>3
  <1>4. CASE Len(channel) < ChannelBatches /\ channel' = Append(channel, records)
    <2>1. Len(channel') = Len(channel) + 1 /\ Len(channel) \in Nat
      BY <1>4, OneMore
    <2> QED
      BY <1>1, <1>2, <1>4, <2>1
  <1> QED
    BY <1>3, <1>4 DEF Flush

\* The session's steps.
LEMMA SessionLimits ==
  ASSUME Shape, Limits, SessionNext, UNCHANGED <<recorderVars, commandVars>> PROVE Limits'
  <1>1. PICK R : ShapeOver(R)
    BY DEF Shape
  <1>2. Len(channel') <= ChannelBatches /\ Len(batch') < BatchRecords
    <2>1. CASE UNCHANGED <<batch, channel>>
      BY <2>1 DEF Limits
    <2>2. CASE ReadRecord
      <3>1. /\ Append(batch, position) \in Seq(R) /\ Len(Append(batch, position)) = Len(batch) + 1
            /\ Len(batch) \in Nat
        BY <1>1, OneMore DEF ShapeOver
      <3>2. CASE Flush(Append(batch, position))
        BY <3>1, <3>2, <1>1, FlushLimits DEF ShapeOver, Limits
      <3>3. CASE /\ ~ (Len(batch) + 1 >= BatchRecords)
                 /\ batch' = Append(batch, position) /\ channel' = channel
        <4>1. BatchRecords \in Nat
          BY SessionAssumption
        <4> QED
          BY <3>1, <3>3, <4>1 DEF Limits
      <3> QED
        BY <2>1, <2>2, <3>2, <3>3 DEF ReadRecord
    <2>3. CASE FlushTick \/ StreamEnds
      BY <2>3, <1>1, FlushLimits DEF FlushTick, StreamEnds, ShapeOver, Limits
    <2> QED
      BY <2>1, <2>2, <2>3 DEF SessionNext, CaptureStep, CaptureFails, LoopEnds, Connect,
         SpawnFails, ChildEnds, PauseEnds, captureVars
  <1> QED
    BY <1>2 DEF Limits, recorderVars

\* The recorder's queue takes a batch only where there is room.
LEMMA ReceiveLimits == ASSUME Shape, Limits, Receive PROVE Limits'
  <1>1. PICK R : ShapeOver(R)
    BY DEF Shape
  <1>2. channel # <<>> /\ channel' = Tail(channel) /\ batch' = batch /\ writer' = writer
    BY DEF Receive, Record, recorderVars
  <1>3. Len(channel') <= ChannelBatches
    <2>1. Len(Tail(channel)) = Len(channel) - 1 /\ Len(channel) \in Nat
      BY <1>1, <1>2, FirstAndOthers DEF ShapeOver
    <2>2. ChannelBatches \in Nat
      BY SessionAssumption
    <2> QED
      BY <1>2, <2>1, <2>2 DEF Limits
  <1>4. Len(queue') <= RecordingQueueBatches
    <2>1. CASE queue' = queue
      BY <2>1 DEF Limits
    <2>2. CASE queue' = Append(queue, Head(channel)) /\ Len(queue) # RecordingQueueBatches
      <3>1. Head(channel) \in Seq(R) /\ queue \in Seq(Seq(R))
        BY <1>1, <1>2, FirstAndOthers DEF ShapeOver
      <3>2. Len(queue') = Len(queue) + 1 /\ Len(queue) \in Nat
        BY <2>2, <3>1, OneMore
      <3>3. RecordingQueueBatches \in Nat
        BY RecorderAssumption
      <3> QED
        BY <2>2, <3>2, <3>3 DEF Limits
    <2> QED
      BY <2>1, <2>2 DEF Receive, Record, RecordOverflows, recorderVars
  <1> QED
    BY <1>2, <1>3, <1>4 DEF Limits

\* The writing thread only takes from the queue.
LEMMA WriterLimits ==
  ASSUME Shape, Limits, WriterNext, UNCHANGED <<sessionVars, commandVars>> PROVE Limits'
  <1>1. PICK R : ShapeOver(R)
    BY DEF Shape
  <1>2. Len(queue') <= RecordingQueueBatches
    <2>1. CASE queue' = queue
      BY <2>1 DEF Limits
    <2>2. CASE queue # <<>> /\ queue' = Tail(queue)
      <3>1. Len(queue') = Len(queue) - 1 /\ Len(queue) \in Nat
        BY <2>2, <1>1, FirstAndOthers DEF ShapeOver
      <3> QED
        BY <3>1, RecorderAssumption DEF Limits
    <2> QED
      BY <2>1, <2>2 DEF WriterNext, WriterStep, WriterChecks, WriterReceives,
         WriterReceivesNothing, WriterWrites, WriterFlushes, WriterFails
  <1>3. writer' \in {"checking", "receiving", "writing", "flushing", "ended"}
    BY DEF Limits, WriterNext, WriterStep, WriterChecks, WriterReceives,
       WriterReceivesNothing, WriterWrites, WriterFlushes, WriterFails
  <1> QED
    BY <1>2, <1>3 DEF Limits, sessionVars, captureVars

\* Every step keeps the limits and the places.
LEMMA NextLimits == LogsInv /\ Limits /\ Places /\ [Next]_vars => Limits' /\ Places'
  <1> SUFFICES ASSUME LogsInv, Limits, Places, [Next]_vars PROVE Limits' /\ Places'
    OBVIOUS
  <1>0. Shape
    BY DEF LogsInv
  <1>1. CASE UNCHANGED vars
    BY <1>1 DEF vars, sessionVars, captureVars, recorderVars, commandVars, Limits, Places
  <1>2. CASE SessionNext /\ UNCHANGED <<recorderVars, commandVars>>
    BY <1>0, <1>2, SessionLimits DEF commandVars, Places
  <1>3. CASE WriterNext /\ UNCHANGED <<sessionVars, commandVars>>
    BY <1>0, <1>3, WriterLimits DEF commandVars, Places
  <1>4. CASE Receive
    <2>1. UNCHANGED <<command, outcome>>
      BY <1>4 DEF Receive
    <2> QED
      BY <1>0, <1>4, <2>1, ReceiveLimits DEF Places
  <1>5. CASE \/ Interrupt \/ ChannelEnds \/ RecordingFails \/ PrintFails \/ ShutdownFails
             \/ ShutdownEnds \/ RecorderStops \/ Finish
    <2>1. UNCHANGED <<channel, batch, queue, writer>>
      BY <1>5 DEF Interrupt, ChannelEnds, RecordingFails, PrintFails, ShutdownFails, ShutdownEnds,
         RecorderStops, Finish, Abandon, DropRecorder, CloseRecorder, recorderVars, sessionVars,
         captureVars
    <2>2. Places'
      BY <1>5 DEF Interrupt, ChannelEnds, RecordingFails, PrintFails, ShutdownFails, ShutdownEnds,
         RecorderStops, Finish, Abandon, Places
    <2> QED
      BY <2>1, <2>2 DEF Limits
  <1> QED
    BY <1>1, <1>2, <1>3, <1>4, <1>5 DEF Next, CommandStep

\* The types of run_logs, of the session's and of the recorder's state, with the
\* limits of every channel, queue and window.
THEOREM LogsTypes == Spec => []TypeOK
  <1>1. Init => Limits /\ Places
    BY SessionAssumption, RecorderAssumption
       DEF Init, SessionInit, Started, Off, Limits, Places
  <1>2. Spec => [](Limits /\ Places)
    BY <1>1, NextLimits, LogsInvariant, PTL DEF Spec
  <1>3. LogsInv /\ CaptureInv /\ Limits /\ Places => TypeOK
    <2> SUFFICES ASSUME LogsInv, CaptureInv, Limits, Places PROVE TypeOK
      OBVIOUS
    <2>1. Len(recent) <= Window
      <3>1. Len(accepted) \in Nat /\ Window \in Nat
        BY LineFacts DEF CaptureInv, CaptureTypes
      <3> QED
        BY <3>1 DEF CaptureInv, Remembered
    <2> QED
      BY <2>1 DEF LogsInv, Flags, CaptureInv, CaptureTypes, Limits, Places, TypeOK,
         SessionTypeOK, RecorderTypeOK
  <1> QED
    BY <1>2, <1>3, LogsInvariant, CaptureInvariant, PTL

-----------------------------------------------------------------------------
(***************************************************************************)
(* The buffer.  Its size is a fold over its entries, and a batch is pushed *)
(* by another: both are taken apart one element at a time (FoldInTurn).    *)
(* A push keeps the buffer within its limit and exact (PushIs, PushExact), *)
(* so a batch does, whatever its length (BatchExact).                      *)
(***************************************************************************)
Entry == [sequence : Nat, record : Rows, bytes : Nat]

\* sum[k] is the size of the first k entries of s.
Sums(sum, s) ==
  /\ sum \in [0 .. Len(s) -> Nat]
  /\ sum[0] = 0
  /\ \A k \in 1 .. Len(s) : sum[k] = sum[k - 1] + s[k].bytes

LEMMA SameMax == ASSUME NEW t PROVE Buffer!Max(t) = Max(t)
  BY DEF Buffer!Max, Max

\* Bytes adds the sizes up from the first entry to the last.
LEMMA BytesInTurn ==
  ASSUME NEW s \in Seq(Entry) PROVE \E sum : Sums(sum, s) /\ Buffer!Bytes(s) = sum[Len(s)]
<1> DEFINE n == Len(s)
           f == [x \in Nat |-> [e \in Entry |-> x + e.bytes]]
           it == CHOOSE it : it = [t \in SUBSET DOMAIN s |->
                   IF t = {} THEN 0 ELSE it[t \ {Buffer!Max(t)}] + s[Buffer!Max(t)].bytes]
<1>1. n \in Nat /\ DOMAIN s = 1 .. n /\ \A k \in 1 .. n : s[k] \in Entry
  OBVIOUS
<1>2. Buffer!Bytes(s) = it[DOMAIN s]
  BY DEF Buffer!Bytes, Buffer!FoldLeft, Buffer!MapThenFoldSet
<1>3. it = [t \in SUBSET (1 .. n) |->
              IF t = {} THEN 0 ELSE it[t \ {Max(t)}] + s[Max(t)].bytes]
  <2> HIDE DEF n
  <2>1. f \in [Nat -> [Entry -> Nat]]
    BY DEF Entry
  <2> HIDE DEF f
  <2>2. PICK some \in [SUBSET (1 .. n) -> Nat] : Folding(f, 0, s, n, some)
    <3>1. Foldable(Nat, f, 0, s, n)
      BY <1>1, <2>1, FoldExists
    <3> QED
      BY <3>1 DEF Foldable
  <2>3. ASSUME NEW t \in SUBSET (1 .. n)
        PROVE  some[t] = IF t = {} THEN 0 ELSE some[t \ {Max(t)}] + s[Max(t)].bytes
    <3>1. CASE t = {}
      BY <2>2, <3>1 DEF Folding
    <3>2. CASE t # {}
      <4>1. Max(t) \in 1 .. n
        BY <1>1, <3>2, LastPlace
      <4>2. s[Max(t)] \in Entry /\ some[t \ {Max(t)}] \in Nat
        BY <1>1, <4>1
      <4>3. some[t] = f[some[t \ {Max(t)}]][s[Max(t)]]
        BY <2>2, <3>2 DEF Folding
      <4> QED
        BY <3>2, <4>2, <4>3 DEF f
    <3> QED
      BY <3>1, <3>2
  <2>4. some = [t \in SUBSET DOMAIN s |->
                  IF t = {} THEN 0 ELSE some[t \ {Buffer!Max(t)}] + s[Buffer!Max(t)].bytes]
    BY <1>1, <2>3, SameMax
  <2>5. it = [t \in SUBSET DOMAIN s |->
                  IF t = {} THEN 0 ELSE it[t \ {Buffer!Max(t)}] + s[Buffer!Max(t)].bytes]
    BY <2>4
  <2> HIDE DEF it
  <2> QED
    BY <1>1, <2>5, SameMax
<1>4. Solves(Nat, f, 0, s, n, it)
  <2>1. it[{}] = 0
    <3> HIDE DEF it
    <3> QED
      BY <1>3
  <2>2. ASSUME NEW t \in SUBSET (1 .. n), t # {}, it[t \ {Max(t)}] \in Nat
        PROVE  it[t] = f[it[t \ {Max(t)}]][s[Max(t)]]
    <3> HIDE DEF it, n
    <3>1. s[Max(t)] \in Entry
      BY <1>1, <2>2, LastPlace
    <3>2. it[t] = it[t \ {Max(t)}] + s[Max(t)].bytes
      BY <1>3, <2>2
    <3> QED
      BY <2>2, <3>1, <3>2
  <2> HIDE DEF it, f, n
  <2> QED
    BY <2>1, <2>2 DEF Solves
<1> HIDE DEF it, n
<1>5. PICK a \in [0 .. n -> Nat] : /\ a[0] = 0 /\ a[n] = it[1 .. n]
                                   /\ \A k \in 1 .. n : a[k] = f[a[k - 1]][s[k]]
  <2>1. f \in [Nat -> [Entry -> Nat]]
    BY DEF Entry
  <2> HIDE DEF f
  <2>2. FoldsTo(Nat, f, 0, s, n, it[1 .. n])
    <3>1. \A k \in 1 .. n : s[k] \in Entry
      BY <1>1
    <3> QED
      BY <1>1, <1>4, <2>1, <3>1, FoldInTurn
  <2> QED
    BY <2>2 DEF FoldsTo
<1>6. ASSUME NEW k \in 1 .. n PROVE a[k] = a[k - 1] + s[k].bytes
  <2>1. a[k - 1] \in Nat /\ s[k] \in Entry
    BY <1>1
  <2> QED
    BY <1>5, <2>1
<1>7. Sums(a, s)
  BY <1>5, <1>6 DEF Sums, n
<1> QED
  BY <1>1, <1>2, <1>5, <1>7 DEF n

\* t is what s holds after its first n elements.
After(t, s, n) == n + Len(t) <= Len(s) /\ \A k \in 1 .. Len(t) : t[k] = s[n + k]

\* Sums over entries that are the same agree.
LEMMA SumsAgree ==
  ASSUME NEW s \in Seq(Entry), NEW t \in Seq(Entry), NEW a, NEW b, Sums(a, s), Sums(b, t),
         NEW n \in Nat, After(t, s, n)
  PROVE  a[n + Len(t)] = a[n] + b[Len(t)] /\ a[n] \in Nat /\ b[Len(t)] \in Nat
<1> DEFINE m == Len(t)
           K == {k \in Nat : k <= m => a[n + k] = a[n] + b[k]}
<1>0. /\ Len(s) \in Nat /\ m = Len(t) /\ m \in Nat /\ n + m <= Len(s) /\ n \in 0 .. Len(s)
      /\ \A k \in 1 .. m : t[k] = s[n + k]
      /\ a \in [0 .. Len(s) -> Nat] /\ b \in [0 .. m -> Nat] /\ b[0] = 0
      /\ \A k \in 1 .. Len(s) : a[k] = a[k - 1] + s[k].bytes
      /\ \A k \in 1 .. m : b[k] = b[k - 1] + t[k].bytes
  BY DEF Sums, After
<1> HIDE DEF m
<1>1. 0 \in K
  <2>1. a[n] \in Nat /\ n + 0 = n
    BY <1>0
  <2> QED
    BY <1>0, <2>1
<1>2. ASSUME NEW k \in Nat, k \in K PROVE k + 1 \in K
  <2> SUFFICES ASSUME k + 1 <= m PROVE a[n + (k + 1)] = a[n] + b[k + 1]
    OBVIOUS
  <2>1. a[n + k] = a[n] + b[k]
    BY <1>0, <1>2
  <2>2. /\ k + 1 \in 1 .. m /\ (k + 1) - 1 = k
        /\ n + (k + 1) \in 1 .. Len(s) /\ (n + (k + 1)) - 1 = n + k
        /\ k \in 0 .. m /\ n + k \in 0 .. Len(s)
    BY <1>0
  <2>3. b[k + 1] = b[k] + t[k + 1].bytes /\ a[n + (k + 1)] = a[n + k] + s[n + (k + 1)].bytes
    BY <1>0, <2>2
  <2>4. t[k + 1] = s[n + (k + 1)] /\ t[k + 1].bytes \in Nat
    <3>1. t[k + 1] \in Entry /\ t[k + 1] = s[n + (k + 1)]
      BY <1>0, <2>2
    <3> QED
      BY <3>1 DEF Entry
  <2>5. a[n] \in Nat /\ b[k] \in Nat /\ a[n + k] \in Nat
    BY <1>0, <2>2
  <2> QED
    BY <2>1, <2>3, <2>4, <2>5
<1>3. Nat \subseteq K
  <2> HIDE DEF K
  <2> QED
    BY <1>1, <1>2, SetInduction
<1>4. a[n + m] = a[n] + b[m]
  <2>1. m \in K
    <3> HIDE DEF K
    <3> QED
      BY <1>0, <1>3
  <2> QED
    BY <1>0, <2>1
<1>5. a[n] \in Nat /\ b[m] \in Nat
  BY <1>0
<1> QED
  BY <1>4, <1>5 DEF m

Buffers == [entries : Seq(Entry), buffered : Nat, next : Nat, dropped : Nat,
            droppedSinceClear : Nat]

Small == {i \in 1 .. Len(Lines) : Lines[i].bytes <= BufferBytes}

\* What BufferIsExact says of a buffer b after the lines got.
InBounds(b) == b.buffered = Buffer!Bytes(b.entries) /\ b.buffered <= BufferBytes

Exact(b, got) ==
  LET fit == Picked(got, Small)
      n   == Len(b.entries)
  IN  /\ n <= Len(fit) /\ b.next = Len(fit) + 1
      /\ \A k \in 1 .. n : /\ b.entries[k].sequence = Len(fit) - n + k
                           /\ b.entries[k].record = fit[Len(fit) - n + k]
      /\ b.dropped + n = Len(got)

\* A part of the entries at the front, the rest, and what both weigh.
LEMMA Halves ==
  ASSUME NEW s \in Seq(Entry), NEW n \in 0 .. Len(s)
  PROVE  /\ SubSeq(s, 1, n) \in Seq(Entry) /\ Len(SubSeq(s, 1, n)) = n
         /\ SubSeq(s, n + 1, Len(s)) \in Seq(Entry)
         /\ Len(SubSeq(s, n + 1, Len(s))) = Len(s) - n
         /\ \A k \in 1 .. Len(s) - n : SubSeq(s, n + 1, Len(s))[k] = s[n + k]
         /\ Buffer!Bytes(SubSeq(s, 1, n)) \in Nat
         /\ Buffer!Bytes(SubSeq(s, n + 1, Len(s))) \in Nat
         /\ Buffer!Bytes(s) = Buffer!Bytes(SubSeq(s, 1, n))
                                + Buffer!Bytes(SubSeq(s, n + 1, Len(s)))
<1> DEFINE p == SubSeq(s, 1, n)
           q == SubSeq(s, n + 1, Len(s))
<1>1. /\ Len(s) \in Nat /\ n \in Nat /\ n <= Len(s)
      /\ p \in Seq(Entry) /\ Len(p) = n /\ \A k \in 1 .. n : p[k] = s[k]
      /\ q \in Seq(Entry) /\ Len(q) = Len(s) - n /\ \A k \in 1 .. Len(s) - n : q[k] = s[n + k]
  OBVIOUS
<1> HIDE DEF p, q
<1>2. PICK a : Sums(a, s) /\ Buffer!Bytes(s) = a[Len(s)]
  BY BytesInTurn
<1>3. PICK b : Sums(b, p) /\ Buffer!Bytes(p) = b[Len(p)]
  BY <1>1, BytesInTurn
<1>4. PICK c : Sums(c, q) /\ Buffer!Bytes(q) = c[Len(q)]
  BY <1>1, BytesInTurn
<1>5. a[n] = b[Len(p)] /\ b[Len(p)] \in Nat
  <2>1. 0 \in Nat /\ After(p, s, 0)
    BY <1>1 DEF After
  <2>2. a[0 + Len(p)] = a[0] + b[Len(p)] /\ b[Len(p)] \in Nat
    BY <1>1, <1>2, <1>3, <2>1, SumsAgree
  <2>3. a[0] = 0
    BY <1>2 DEF Sums
  <2> QED
    BY <1>1, <2>2, <2>3
<1>6. a[Len(s)] = a[n] + c[Len(q)] /\ c[Len(q)] \in Nat
  <2>1. After(q, s, n) /\ n + Len(q) = Len(s)
    BY <1>1 DEF After
  <2>2. a[n + Len(q)] = a[n] + c[Len(q)] /\ c[Len(q)] \in Nat
    <3>1. n \in Nat /\ q \in Seq(Entry) /\ Sums(a, s) /\ Sums(c, q)
      BY <1>1, <1>2, <1>4
    <3> QED
      BY <2>1, <3>1, SumsAgree
  <2> QED
    BY <2>1, <2>2
<1> QED
  BY <1>1, <1>2, <1>3, <1>4, <1>5, <1>6 DEF p, q

\* One entry more weighs its size more.
LEMMA BytesOfMore ==
  ASSUME NEW s \in Seq(Entry), NEW e \in Entry
  PROVE  Buffer!Bytes(Append(s, e)) = Buffer!Bytes(s) + e.bytes
<1> DEFINE t == Append(s, e)
           n == Len(s)
<1>1. /\ n \in Nat /\ t \in Seq(Entry) /\ Len(t) = n + 1 /\ Len(s) = n
      /\ t[n + 1] = e /\ \A k \in 1 .. n : s[k] = t[k]
  OBVIOUS
<1> HIDE DEF t, n
<1>2. PICK a : Sums(a, t) /\ Buffer!Bytes(t) = a[Len(t)]
  BY <1>1, BytesInTurn
<1>3. PICK b : Sums(b, s) /\ Buffer!Bytes(s) = b[Len(s)]
  BY BytesInTurn
<1>4. a[0 + Len(s)] = a[0] + b[Len(s)] /\ b[Len(s)] \in Nat
  <2>1. 0 \in Nat /\ After(s, t, 0)
    BY <1>1 DEF After
  <2> QED
    BY <1>1, <1>2, <1>3, <2>1, SumsAgree
<1>5. /\ a[0] = 0 /\ n + 1 \in 1 .. Len(t) /\ (n + 1) - 1 = n
  BY <1>1, <1>2 DEF Sums
<1>6. a[n + 1] = a[n] + e.bytes
  BY <1>1, <1>2, <1>5 DEF Sums
<1>7. Buffer!Bytes(t) = Buffer!Bytes(s) + e.bytes
  BY <1>1, <1>2, <1>3, <1>4, <1>5, <1>6
<1> QED
  BY <1>7 DEF t

\* A buffer of nothing weighs nothing.
LEMMA BytesOfNothing == Buffer!Bytes(<<>>) = 0
<1>1. <<>> \in Seq(Entry) /\ Len(<<>>) = 0
  OBVIOUS
<1>2. PICK a : Sums(a, <<>>) /\ Buffer!Bytes(<<>>) = a[Len(<<>>)]
  BY <1>1, BytesInTurn
<1> QED
  BY <1>1, <1>2 DEF Sums

\* So many entries have to go, and then the record fits.
LEMMA EvictedFits ==
  ASSUME NEW b \in Buffers, InBounds(b), NEW bytes \in Nat, bytes <= BufferBytes
  PROVE  /\ Buffer!Evicted(b, bytes) \in 0 .. Len(b.entries)
         /\ b.buffered - Buffer!Bytes(SubSeq(b.entries, 1, Buffer!Evicted(b, bytes))) + bytes
              <= BufferBytes
<1> DEFINE s == b.entries
           Weight(n) == b.buffered - Buffer!Bytes(SubSeq(s, 1, n)) + bytes
           Fits(n) == Weight(n) <= BufferBytes
           First(n) == Fits(n) /\ \A m \in 0 .. n - 1 : Weight(m) > BufferBytes
<1>1. s \in Seq(Entry) /\ Len(s) \in Nat /\ BufferBytes \in Nat /\ b.buffered \in Nat
  BY LogsAssumption DEF Buffers, LogsAssumption
<1>2. \A n \in 0 .. Len(s) : Weight(n) \in Int
  <2> SUFFICES ASSUME NEW n \in 0 .. Len(s) PROVE Weight(n) \in Int
    OBVIOUS
  <2>1. Buffer!Bytes(SubSeq(s, 1, n)) \in Nat
    BY <1>1, Halves
  <2> QED
    BY <1>1, <2>1
<1>3. Fits(Len(s))
  <2>1. SubSeq(s, 1, Len(s)) = s
    BY <1>1
  <2>2. b.buffered = Buffer!Bytes(s)
    BY DEF InBounds
  <2>3. Weight(Len(s)) = b.buffered - b.buffered + bytes
    BY <2>1, <2>2
  <2> HIDE DEF Weight, s
  <2> QED
    BY <1>1, <2>3
<1> HIDE DEF s, Weight
<1>4. \E n \in 0 .. Len(s) : First(n)
  <2> DEFINE N == {n \in 0 .. Len(s) : Fits(n)}
  <2>1. N \in SUBSET Nat /\ N # {}
    BY <1>1, <1>3
  <2>2. PICK n \in N : \A m \in N : n <= m
    <3> HIDE DEF N
    <3> QED
      BY <2>1, LeastNumber
  <2>3. ASSUME NEW m \in 0 .. n - 1 PROVE Weight(m) > BufferBytes
    <3>1. m \in 0 .. Len(s) /\ ~ (n <= m)
      BY <1>1
    <3>2. ~ Fits(m)
      BY <2>2, <3>1
    <3> QED
      BY <1>1, <1>2, <3>1, <3>2
  <2> QED
    BY <2>2, <2>3
<1>5. Buffer!Evicted(b, bytes) = CHOOSE n \in 0 .. Len(s) : First(n)
  BY DEF Buffer!Evicted, Weight, s
<1> DEFINE e == Buffer!Evicted(b, bytes)
<1>6. e \in 0 .. Len(s) /\ First(e)
  <2> HIDE DEF First
  <2>1. e = CHOOSE n \in 0 .. Len(s) : First(n)
    BY <1>5
  <2> HIDE DEF e
  <2> QED
    BY <1>4, <2>1
<1> QED
  BY <1>6 DEF Weight, s

Kept == {b \in Buffers : InBounds(b)}

EntryOf(b, i) == [sequence |-> b.next, record |-> i, bytes |-> Lines[i].bytes]

\* What a push leaves of a buffer: it stays within its limit, and either the record
\* is too large, or some entries at the front give way to it.
LEMMA PushIs ==
  ASSUME NEW b \in Kept, NEW i \in Rows, NEW r, r = Buffer!Push(b, i)
  PROVE  /\ r \in Kept
         /\ i \notin Small => r.entries = b.entries /\ r.next = b.next /\ r.dropped = b.dropped + 1
         /\ i \in Small => \E n \in 0 .. Len(b.entries) :
              /\ r.entries = Append(SubSeq(b.entries, n + 1, Len(b.entries)), EntryOf(b, i))
              /\ r.next = b.next + 1 /\ r.dropped = b.dropped + n
<1>1. /\ b \in Buffers /\ InBounds(b) /\ BufferBytes \in Nat /\ Lines[i].bytes \in Nat
      /\ i \in Rows /\ LineSize(i) = Lines[i].bytes
      /\ b.entries \in Seq(Entry) /\ b.buffered \in Nat /\ b.next \in Nat /\ b.dropped \in Nat
      /\ b.droppedSinceClear \in Nat
  BY LogsAssumption DEF Kept, LogsAssumption, Rows, LineSize, Buffers
<1>2. CASE i \notin Small
  <2>1. LineSize(i) > BufferBytes
    BY <1>1, <1>2 DEF Small, Rows
  <2>2. r = Buffer!CountDrops(b, 1)
    BY <2>1 DEF Buffer!Push
  <2>3. r = [b EXCEPT !.dropped = b.dropped + 1,
                      !.droppedSinceClear = b.droppedSinceClear + 1]
    BY <2>2 DEF Buffer!CountDrops
  <2>4. /\ r \in Buffers /\ r.entries = b.entries /\ r.buffered = b.buffered
        /\ r.next = b.next /\ r.dropped = b.dropped + 1
    <3>1. /\ r.entries = b.entries /\ r.buffered = b.buffered
          /\ r.next = b.next /\ r.dropped = b.dropped + 1
      BY <1>1, <2>3 DEF Buffers
    <3>2. b.dropped + 1 \in Nat /\ b.droppedSinceClear + 1 \in Nat
      BY <1>1
    <3>3. r \in Buffers
      BY <1>1, <2>3, <3>2 DEF Buffers
    <3> QED
      BY <3>1, <3>3
  <2>5. InBounds(r)
    BY <1>1, <2>4 DEF InBounds
  <2> QED
    BY <1>2, <2>4, <2>5 DEF Kept
<1>3. CASE i \in Small
  <2>1. ~ (LineSize(i) > BufferBytes) /\ Lines[i].bytes <= BufferBytes
    BY <1>1, <1>3 DEF Small
  <2> DEFINE n == Buffer!Evicted(b, Lines[i].bytes)
             gone == Buffer!Bytes(SubSeq(b.entries, 1, n))
             rest1 == SubSeq(b.entries, n + 1, Len(b.entries))
             e == EntryOf(b, i)
  <2>2. n \in 0 .. Len(b.entries) /\ b.buffered - gone + Lines[i].bytes <= BufferBytes
    BY <1>1, <2>1, EvictedFits
  <2>3. r = [b EXCEPT !.dropped = b.dropped + n,
                      !.droppedSinceClear = b.droppedSinceClear + n,
                      !.entries = Append(rest1, e),
                      !.buffered = b.buffered - gone + Lines[i].bytes,
                      !.next = b.next + 1]
    <3> HIDE DEF Small
    <3> QED
      BY <1>1, <2>1 DEF Buffer!Push, Buffer!CountDrops, EntryOf, Buffers
  <2> HIDE DEF n
  <2>4. /\ rest1 \in Seq(Entry) /\ Buffer!Bytes(rest1) \in Nat /\ gone \in Nat
        /\ Buffer!Bytes(b.entries) = gone + Buffer!Bytes(rest1)
    BY <1>1, <2>2, Halves
  <2>5. e \in Entry /\ e.bytes = Lines[i].bytes
    BY <1>1 DEF Entry, EntryOf
  <2> HIDE DEF gone, rest1, e
  <2>6. Buffer!Bytes(Append(rest1, e)) = Buffer!Bytes(rest1) + Lines[i].bytes
    BY <2>4, <2>5, BytesOfMore
  <2>7. b.buffered = gone + Buffer!Bytes(rest1)
    BY <1>1, <2>4 DEF InBounds
  <2>8. /\ b.buffered - gone + Lines[i].bytes = Buffer!Bytes(Append(rest1, e))
        /\ b.buffered - gone + Lines[i].bytes \in Nat
    BY <1>1, <2>4, <2>6, <2>7
  <2>9. /\ r.entries = Append(rest1, e) /\ r.buffered = b.buffered - gone + Lines[i].bytes
        /\ r.next = b.next + 1 /\ r.dropped = b.dropped + n
    BY <1>1, <2>3 DEF Buffers
  <2>10. r \in Buffers
    <3>1. Append(rest1, e) \in Seq(Entry)
      BY <2>4, <2>5
    <3>2. b.dropped + n \in Nat /\ b.droppedSinceClear + n \in Nat /\ b.next + 1 \in Nat
      <4>1. n \in Nat
        BY <2>2
      <4>2. b.dropped \in Nat /\ b.droppedSinceClear \in Nat /\ b.next \in Nat
        BY <1>1
      <4> QED
        BY <4>1, <4>2
    <3> QED
      BY <1>1, <2>3, <2>8, <3>1, <3>2 DEF Buffers
  <2>11. InBounds(r)
    BY <2>2, <2>8, <2>9 DEF InBounds
  <2> QED
    BY <1>3, <2>2, <2>9, <2>10, <2>11 DEF Kept, rest1, e
<1> QED
  BY <1>2, <1>3

\* Another record, another line received.
LEMMA PushExact ==
  ASSUME NEW b \in Kept, NEW i \in Rows, NEW got \in Seq(Rows), Exact(b, got)
  PROVE  Exact(Buffer!Push(b, i), Append(got, i))
<1> DEFINE r == Buffer!Push(b, i)
           n == Len(b.entries)
           fit == Picked(got, Small)
           next == Picked(Append(got, i), Small)
           m == Len(r.entries)
<1>1. /\ n \in Nat /\ n <= Len(fit) /\ b.next = Len(fit) + 1 /\ b.dropped + n = Len(got)
      /\ \A k \in 1 .. n : /\ b.entries[k].sequence = Len(fit) - n + k
                           /\ b.entries[k].record = fit[Len(fit) - n + k]
      /\ b.entries \in Seq(Entry) /\ b.dropped \in Nat /\ b.next \in Nat
  BY DEF Exact, Kept, Buffers
<1>2. fit \in Seq(Small) /\ next = IF i \in Small THEN Append(fit, i) ELSE fit
  <2>1. fit \in Seq(Small)
    BY PickedPlaces DEF StandsAt
  <2> QED
    BY <2>1, PickedGrows
<1>3. Len(Append(got, i)) = Len(got) + 1
  OBVIOUS
<1>4. /\ r \in Kept
      /\ i \notin Small => r.entries = b.entries /\ r.next = b.next /\ r.dropped = b.dropped + 1
      /\ i \in Small => \E k \in 0 .. Len(b.entries) :
           /\ r.entries = Append(SubSeq(b.entries, k + 1, Len(b.entries)), EntryOf(b, i))
           /\ r.next = b.next + 1 /\ r.dropped = b.dropped + k
  BY PushIs
<1> HIDE DEF r, fit, next
<1>5. b.entries \in Seq(Entry) /\ n = Len(b.entries) /\ Len(got) \in Nat
      /\ m = Len(r.entries) /\ Len(fit) \in Nat
  BY <1>1, <1>2
<1>6. ASSUME m <= Len(next), r.next = Len(next) + 1, r.dropped + m = Len(got) + 1,
             \A k \in 1 .. m : /\ r.entries[k].sequence = Len(next) - m + k
                               /\ r.entries[k].record = next[Len(next) - m + k]
      PROVE  Exact(r, Append(got, i))
  BY <1>3, <1>6 DEF Exact, next
<1> SUFFICES Exact(r, Append(got, i))
  BY DEF r
<1> HIDE DEF n, m
<1>7. /\ n \in Nat /\ n <= Len(fit) /\ Len(fit) \in Nat /\ Len(got) \in Nat
      /\ b.next = Len(fit) + 1 /\ b.dropped + n = Len(got) /\ b.dropped \in Nat
  BY <1>1, <1>5
<1>8. CASE i \notin Small
  <2>1. next = fit /\ r.entries = b.entries /\ m = n /\ r.next = b.next /\ r.dropped = b.dropped + 1
    BY <1>2, <1>4, <1>5, <1>8
  <2>2. r.dropped + m = Len(got) + 1
    BY <1>7, <2>1
  <2> QED
    BY <1>1, <1>6, <2>1, <2>2
<1>9. CASE i \in Small
  <2>1. PICK k \in 0 .. n :
           /\ r.entries = Append(SubSeq(b.entries, k + 1, n), EntryOf(b, i))
           /\ r.next = b.next + 1 /\ r.dropped = b.dropped + k
    BY <1>4, <1>5, <1>9
  <2> DEFINE left == SubSeq(b.entries, k + 1, n)
  <2>2. /\ left \in Seq(Entry) /\ Len(left) = n - k
        /\ \A x \in 1 .. n - k : left[x] = b.entries[k + x]
    BY <1>1, <1>5, Halves
  <2>3. EntryOf(b, i).sequence = b.next /\ EntryOf(b, i).record = i
    BY DEF EntryOf
  <2> HIDE DEF left
  <2>4. /\ m = n - k + 1 /\ r.entries[m] = EntryOf(b, i)
        /\ \A x \in 1 .. n - k : r.entries[x] = b.entries[k + x]
    <3>1. r.entries = Append(left, EntryOf(b, i))
      BY <2>1 DEF left
    <3>2. Len(left) = n - k /\ n - k \in Nat /\ m = Len(r.entries)
      BY <1>7, <1>5, <2>2
    <3>3. m = n - k + 1 /\ r.entries[m] = EntryOf(b, i)
      BY <2>2, <3>1, <3>2
    <3>4. \A x \in 1 .. n - k : r.entries[x] = left[x]
      BY <2>2, <3>1, <3>2
    <3> QED
      BY <2>2, <3>3, <3>4
  <2>5. /\ Len(next) = Len(fit) + 1 /\ next[Len(fit) + 1] = i
        /\ \A x \in 1 .. Len(fit) : next[x] = fit[x]
    <3>1. next = Append(fit, i)
      BY <1>2, <1>9
    <3> QED
      BY <1>2, <1>9, <3>1
  <2>m. m = n - k + 1 /\ Len(next) = Len(fit) + 1 /\ k \in Nat /\ k <= n
    BY <1>7, <2>4, <2>5
  <2>6. m <= Len(next) /\ r.next = Len(next) + 1 /\ r.dropped + m = Len(got) + 1
    <3>1. r.next = b.next + 1 /\ r.dropped = b.dropped + k
      BY <2>1
    <3> QED
      BY <1>7, <2>m, <3>1
  <2>7. ASSUME NEW x \in 1 .. m
        PROVE  /\ r.entries[x].sequence = Len(next) - m + x
               /\ r.entries[x].record = next[Len(next) - m + x]
    <3>1. CASE x = m
      <4>1. Len(next) - m + x = Len(fit) + 1
        BY <1>7, <2>m, <3>1
      <4>2. r.entries[x].sequence = Len(fit) + 1 /\ r.entries[x].record = i
        BY <1>7, <2>3, <2>4, <3>1
      <4> QED
        BY <2>5, <4>1, <4>2
    <3>2. CASE x # m
      <4>1. /\ x \in 1 .. n - k /\ k + x \in 1 .. n
            /\ Len(next) - m + x = Len(fit) - n + (k + x)
            /\ Len(fit) - n + (k + x) \in 1 .. Len(fit)
        BY <1>7, <2>m, <3>2
      <4>2. /\ b.entries[k + x].sequence = Len(fit) - n + (k + x)
            /\ b.entries[k + x].record = fit[Len(fit) - n + (k + x)]
        BY <1>1, <4>1
      <4>3. r.entries[x] = b.entries[k + x]
        BY <2>4, <4>1
      <4>4. next[Len(fit) - n + (k + x)] = fit[Len(fit) - n + (k + x)]
        BY <2>5, <4>1
      <4> QED
        BY <4>1, <4>2, <4>3, <4>4
    <3> QED
      BY <3>1, <3>2
  <2> QED
    BY <1>6, <2>6, <2>7
<1> QED
  BY <1>8, <1>9

\* A batch is pushed record by record.
LEMMA PushedInTurn ==
  ASSUME NEW b \in Kept, NEW s \in Seq(Rows)
  PROVE  \E a \in [0 .. Len(s) -> Kept] :
           /\ a[0] = b /\ a[Len(s)] = Buffer!PushAll(b, s)
           /\ \A k \in 1 .. Len(s) : a[k] = Buffer!Push(a[k - 1], s[k])
<1> DEFINE n == Len(s)
           f == [x \in Kept |-> [i \in Rows |-> Buffer!Push(x, i)]]
           it == CHOOSE it : it = [t \in SUBSET DOMAIN s |->
                   IF t = {} THEN b
                   ELSE Buffer!Push(it[t \ {Buffer!Max(t)}], s[Buffer!Max(t)])]
<1>1. n \in Nat /\ DOMAIN s = 1 .. n /\ \A k \in 1 .. n : s[k] \in Rows
  OBVIOUS
<1>2. Buffer!PushAll(b, s) = it[DOMAIN s]
  BY DEF Buffer!PushAll, Buffer!FoldLeft, Buffer!MapThenFoldSet
<1>3. f \in [Kept -> [Rows -> Kept]]
  <2>1. \A x \in Kept, i \in Rows : Buffer!Push(x, i) \in Kept
    BY PushIs
  <2> QED
    BY <2>1
<1>4. it = [t \in SUBSET (1 .. n) |->
              IF t = {} THEN b ELSE Buffer!Push(it[t \ {Max(t)}], s[Max(t)])]
  <2> HIDE DEF n, f
  <2>2. PICK some \in [SUBSET (1 .. n) -> Kept] : Folding(f, b, s, n, some)
    <3>1. Foldable(Kept, f, b, s, n)
      BY <1>1, <1>3, FoldExists
    <3> QED
      BY <3>1 DEF Foldable
  <2>3. ASSUME NEW t \in SUBSET (1 .. n)
        PROVE  some[t] = IF t = {} THEN b ELSE Buffer!Push(some[t \ {Max(t)}], s[Max(t)])
    <3>1. CASE t = {}
      BY <2>2, <3>1 DEF Folding
    <3>2. CASE t # {}
      <4>1. Max(t) \in 1 .. n
        BY <1>1, <3>2, LastPlace
      <4>2. s[Max(t)] \in Rows /\ some[t \ {Max(t)}] \in Kept
        BY <1>1, <4>1
      <4>3. some[t] = f[some[t \ {Max(t)}]][s[Max(t)]]
        BY <2>2, <3>2 DEF Folding
      <4> QED
        BY <3>2, <4>2, <4>3 DEF f
    <3> QED
      BY <3>1, <3>2
  <2>4. some = [t \in SUBSET DOMAIN s |->
                  IF t = {} THEN b
                  ELSE Buffer!Push(some[t \ {Buffer!Max(t)}], s[Buffer!Max(t)])]
    BY <1>1, <2>3, SameMax
  <2>5. it = [t \in SUBSET DOMAIN s |->
                  IF t = {} THEN b
                  ELSE Buffer!Push(it[t \ {Buffer!Max(t)}], s[Buffer!Max(t)])]
    BY <2>4
  <2> HIDE DEF it
  <2> QED
    BY <1>1, <2>5, SameMax
<1> HIDE DEF it
<1>5. Solves(Kept, f, b, s, n, it)
  <2>1. it[{}] = b
    BY <1>4
  <2>2. ASSUME NEW t \in SUBSET (1 .. n), t # {}, it[t \ {Max(t)}] \in Kept
        PROVE  it[t] = f[it[t \ {Max(t)}]][s[Max(t)]]
    <3> HIDE DEF n
    <3>1. s[Max(t)] \in Rows
      BY <1>1, <2>2, LastPlace
    <3>2. it[t] = Buffer!Push(it[t \ {Max(t)}], s[Max(t)])
      BY <1>4, <2>2
    <3> QED
      BY <2>2, <3>1, <3>2
  <2> HIDE DEF f, n
  <2> QED
    BY <2>1, <2>2 DEF Solves
<1> HIDE DEF n
<1>6. PICK a \in [0 .. n -> Kept] : /\ a[0] = b /\ a[n] = it[1 .. n]
                                    /\ \A k \in 1 .. n : a[k] = f[a[k - 1]][s[k]]
  <2> HIDE DEF f
  <2>1. FoldsTo(Kept, f, b, s, n, it[1 .. n])
    <3>1. \A k \in 1 .. n : s[k] \in Rows
      BY <1>1
    <3> QED
      BY <1>1, <1>5, <1>3, <3>1, FoldInTurn
  <2> QED
    BY <2>1 DEF FoldsTo
<1>7. ASSUME NEW k \in 1 .. n PROVE a[k] = Buffer!Push(a[k - 1], s[k])
  <2>1. a[k - 1] \in Kept /\ s[k] \in Rows
    BY <1>1
  <2> QED
    BY <1>6, <2>1
<1> QED
  BY <1>1, <1>2, <1>6, <1>7 DEF n

\* The buffer stays exact however long the batch is.
LEMMA BatchExact ==
  ASSUME NEW b \in Kept, NEW got \in Seq(Rows), NEW s \in Seq(Rows), Exact(b, got)
  PROVE  Buffer!PushAll(b, s) \in Kept /\ Exact(Buffer!PushAll(b, s), got \o s)
<1> DEFINE n == Len(s)
<1>1. n \in Nat /\ n = Len(s) /\ \A k \in 1 .. n : s[k] \in Rows
  OBVIOUS
<1> HIDE DEF n
<1>2. PICK a \in [0 .. n -> Kept] : /\ a[0] = b /\ a[n] = Buffer!PushAll(b, s)
                                    /\ \A k \in 1 .. n : a[k] = Buffer!Push(a[k - 1], s[k])
  BY <1>1, PushedInTurn
<1> DEFINE Got(k) == got \o SubSeq(s, 1, k)
           K == {k \in Nat : k <= n => Exact(a[k], Got(k))}
<1>3. 0 \in K
  <2>1. Got(0) = got
    OBVIOUS
  <2> HIDE DEF Got
  <2> QED
    BY <1>2, <2>1
<1>4. ASSUME NEW k \in Nat, k \in K PROVE k + 1 \in K
  <2> SUFFICES ASSUME k + 1 <= n PROVE Exact(a[k + 1], Got(k + 1))
    OBVIOUS
  <2>1. /\ k + 1 \in 1 .. n /\ (k + 1) - 1 = k /\ k \in 0 .. n /\ k < Len(s) /\ k <= n
    BY <1>1
  <2>2. a[k + 1] = Buffer!Push(a[k], s[k + 1]) /\ a[k] \in Kept /\ s[k + 1] \in Rows
    BY <1>1, <1>2, <2>1
  <2>3. Exact(a[k], Got(k))
    BY <1>4, <2>1
  <2>4. Got(k) \in Seq(Rows)
    BY <1>1, <2>1
  <2>5. Got(k + 1) = Append(Got(k), s[k + 1])
    BY <2>1, OneMoreOf
  <2> HIDE DEF Got
  <2> QED
    BY <2>2, <2>3, <2>4, <2>5, PushExact
<1>5. Nat \subseteq K
  <2> HIDE DEF K
  <2> QED
    BY <1>3, <1>4, SetInduction
<1>6. Exact(a[n], Got(n))
  <2> HIDE DEF Got
  <2> QED
    BY <1>1, <1>5
<1>7. Got(n) = got \o s
  <2>1. SubSeq(s, 1, n) = s
    BY <1>1
  <2> QED
    BY <2>1
<1> HIDE DEF Got
<1> QED
  <2>1. n \in 0 .. n /\ a[n] = Buffer!PushAll(b, s)
    BY <1>1, <1>2
  <2>2. a[n] \in Kept
    BY <1>2, <2>1
  <2> QED
    BY <2>1, <2>2, <1>6, <1>7

\* Nothing has been received.
LEMMA EmptyExact == Buffer!EmptyBuffer \in Kept /\ Exact(Buffer!EmptyBuffer, <<>>)
<1> DEFINE b == Buffer!EmptyBuffer
<1>1. /\ b.entries = <<>> /\ b.buffered = 0 /\ b.next = 1 /\ b.dropped = 0
      /\ b \in Buffers
  BY DEF Buffer!EmptyBuffer, Buffers
<1> HIDE DEF b
<1>2. b \in Kept
  BY <1>1, BytesOfNothing, LogsAssumption DEF Kept, InBounds, LogsAssumption
<1>3. Picked(<<>>, Small) = <<>>
  <2>1. PICK at : StandsAt(at, Picked(<<>>, Small), <<>>, Small)
    <3>1. <<>> \in Seq(Small)
      OBVIOUS
    <3> QED
      BY <3>1, PickedPlaces
  <2> DEFINE w == Picked(<<>>, Small)
  <2> HIDE DEF w
  <2>2. w \in Seq(Small) /\ \A k \in DOMAIN w : at[k] \in DOMAIN <<>>
    BY <2>1 DEF StandsAt, w
  <2>3. w = <<>>
    <3>1. DOMAIN w = 1 .. Len(w) /\ Len(w) \in Nat
      BY <2>2
    <3>2. ~ \E k \in DOMAIN w : TRUE
      <4>1. DOMAIN <<>> = {}
        OBVIOUS
      <4> QED
        BY <2>2, <4>1
    <3>3. Len(w) = 0
      BY <3>1, <3>2
    <3> QED
      BY <2>2, <3>3
  <2> QED
    BY <2>3 DEF w
<1>4. Exact(b, <<>>)
  BY <1>1, <1>3 DEF Exact
<1> QED
  BY <1>2, <1>4 DEF b

\* Only lines of the device travel, and the buffer is exact.
Carried == batch \in Seq(Rows) /\ channel \in Seq(Seq(Rows)) /\ received \in Seq(Rows)

BufferInv == Carried /\ buffer \in Kept /\ Exact(buffer, received)

\* The session accepts lines it reads, and sends what it accepted.
LEMMA SessionCarried ==
  ASSUME CaptureTypes, Carried, SessionNext, received' = received PROVE Carried'
<1>1. CASE UNCHANGED <<batch, channel>>
  BY <1>1 DEF Carried
<1>2. CASE ReadRecord
  <2>1. position \in Rows
    BY <1>2, LineFacts DEF ReadRecord, CaptureTypes, Rows
  <2>2. Append(batch, position) \in Seq(Rows)
    BY <2>1 DEF Carried
  <2>3. \/ UNCHANGED <<batch, channel>>
        \/ Flush(Append(batch, position))
        \/ batch' = Append(batch, position) /\ channel' = channel
    BY <1>2 DEF ReadRecord
  <2> QED
    BY <2>2, <2>3, FlushShape DEF Carried
<1>3. CASE FlushTick \/ StreamEnds
  BY <1>3, FlushShape DEF FlushTick, StreamEnds, Carried
<1>4. \/ UNCHANGED <<batch, channel>>
      \/ ReadRecord \/ FlushTick \/ StreamEnds
  BY DEF SessionNext, CaptureStep, CaptureFails, LoopEnds, Connect, SpawnFails, ChildEnds,
         PauseEnds, captureVars
<1> QED
  BY <1>1, <1>2, <1>3, <1>4

\* The batch received is what is pushed.
LEMMA ReceiveBuffer == ASSUME BufferInv, Receive PROVE BufferInv'
<1>1. /\ channel # <<>> /\ channel' = Tail(channel) /\ batch' = batch
      /\ received' = received \o Head(channel)
      /\ buffer' = Buffer!PushAll(buffer, Head(channel))
  BY DEF Receive
<1>2. Head(channel) \in Seq(Rows) /\ Tail(channel) \in Seq(Seq(Rows))
  BY <1>1, FirstAndOthers DEF BufferInv, Carried
<1> DEFINE s == Head(channel)
<1> HIDE DEF s
<1>3. s \in Seq(Rows) /\ received' = received \o s /\ buffer' = Buffer!PushAll(buffer, s)
  BY <1>1, <1>2 DEF s
<1>4. Carried'
  BY <1>1, <1>2, <1>3 DEF BufferInv, Carried
<1>5. buffer' \in Kept /\ Exact(buffer', received')
  BY <1>3, BatchExact DEF BufferInv, Carried
<1> QED
  BY <1>4, <1>5 DEF BufferInv, Kept, Buffers, InBounds, Exact

\* No other step touches the buffer.
LEMMA NextBuffer == CaptureInv /\ BufferInv /\ [Next]_vars => BufferInv'
<1> SUFFICES ASSUME CaptureInv, BufferInv, [Next]_vars PROVE BufferInv'
  OBVIOUS
<1>1. CASE Receive
  BY <1>1, ReceiveBuffer
<1>2. ASSUME Carried', UNCHANGED <<buffer, received>> PROVE BufferInv'
  BY <1>2 DEF BufferInv
<1>3. CASE SessionNext /\ UNCHANGED <<recorderVars, commandVars>>
  BY <1>2, <1>3, SessionCarried DEF BufferInv, CaptureInv, commandVars
<1>4. CASE UNCHANGED <<batch, channel, buffer, received>>
  BY <1>2, <1>4 DEF BufferInv, Carried
<1>5. \/ Receive
      \/ SessionNext /\ UNCHANGED <<recorderVars, commandVars>>
      \/ UNCHANGED <<batch, channel, buffer, received>>
  BY DEF Next, CommandStep, ChannelEnds, RecordingFails, ShutdownFails, ShutdownEnds, RecorderStops,
         Finish, Interrupt, PrintFails, Abandon, vars, sessionVars, captureVars, commandVars
<1> QED
  BY <1>1, <1>3, <1>4, <1>5

\* For any device log, any sizes of the records and any limit, the buffer holds
\* the newest records received that fit in it at all, numbered in a row, stays
\* within its limit and counts every other one: push and push_all of
\* log_buffer.rs, as run_logs calls them.
THEOREM BufferExact == Spec => []BufferIsExact
<1>1. Init => BufferInv
  <2> SUFFICES ASSUME Init PROVE BufferInv
    OBVIOUS
  <2>1. batch = <<>> /\ channel = <<>> /\ received = <<>> /\ buffer = Buffer!EmptyBuffer
    BY DEF Init, SessionInit
  <2> QED
    BY <2>1, EmptyExact DEF BufferInv, Carried
<1>2. Spec => []BufferInv
  BY <1>1, NextBuffer, CaptureInvariant, PTL DEF Spec
<1>3. BufferInv => BufferIsExact
  BY DEF BufferInv, Kept, InBounds, Exact, BufferIsExact, Small
<1> QED
  BY <1>2, <1>3, PTL
=============================================================================
