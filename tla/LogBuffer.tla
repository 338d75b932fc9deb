------------------------------ MODULE LogBuffer -----------------------------
(***************************************************************************)
(* The byte-bounded buffer of log records (dexdeck-core, log_buffer.rs) as *)
(* operators on its value: entries in the order of their arrival, each     *)
(* with its sequence number and its size, and the counters the interface   *)
(* shows.  The command line and the terminal interface each own one.       *)
(***************************************************************************)
EXTENDS Naturals, Sequences, SequencesExt

CONSTANTS Capacity,  \* capacity_bytes, 8 MiB to 1 GiB in the code
          Size(_)    \* record_size

Bytes(entries) == FoldLeft(LAMBDA sum, e : sum + e.bytes, 0, entries)

EmptyBuffer == [entries |-> <<>>, buffered |-> 0, next |-> 1,
                dropped |-> 0, droppedSinceClear |-> 0]

\* The oldest entries that have to go before so many bytes fit: pop_front until
\* they do.
Evicted(b, bytes) ==
  CHOOSE n \in 0 .. Len(b.entries) :
    /\ b.buffered - Bytes(SubSeq(b.entries, 1, n)) + bytes <= Capacity
    /\ \A m \in 0 .. n - 1 : b.buffered - Bytes(SubSeq(b.entries, 1, m)) + bytes > Capacity

\* Variant of CountDrops: one per push, however many entries went.
CountDropsOnce(b, n) ==
  LET one == IF n = 0 THEN 0 ELSE 1
  IN [b EXCEPT !.dropped = @ + one, !.droppedSinceClear = @ + one]

CountDrops(b, n) == [b EXCEPT !.dropped = @ + n, !.droppedSinceClear = @ + n]

\* A record larger than the whole buffer is counted and takes no number.
Push(b, record) ==
  IF Size(record) > Capacity THEN CountDrops(b, 1)
  ELSE LET n    == Evicted(b, Size(record))
           left == CountDrops(b, n)
       IN [left EXCEPT
             !.entries  = Append(SubSeq(@, n + 1, Len(@)),
                                 [sequence |-> b.next, record |-> record, bytes |-> Size(record)]),
             !.buffered = @ - Bytes(SubSeq(b.entries, 1, n)) + Size(record),
             !.next     = @ + 1]

PushAll(b, records) == FoldLeft(Push, b, records)

\* The numbering and the total of the drops go on.
Clear(b) == [b EXCEPT !.entries = <<>>, !.buffered = 0, !.droppedSinceClear = 0]

Newest(b) == IF b.entries = <<>> THEN 0 ELSE Last(b.entries).sequence
=============================================================================
