--------------------------- MODULE MCLogsCommand ---------------------------
EXTENDS LogsCommand

Line(time, key, process, priority, bytes) ==
  [time |-> time, key |-> key, process |-> process, priority |-> priority, bytes |-> bytes,
   crash |-> FALSE, marker |-> FALSE, tag |-> "App", package |-> "", text |-> key]

\* Two lines of one time, the second of another process; one that fills the buffer, and
\* one equal to it; one that is larger than the buffer.
MCLines == <<Line(1, "a", "main", 2, 1), Line(1, "b", "other", 4, 1),
             Line(2, "c", "main", 4, 2), Line(2, "c", "main", 4, 2), Line(3, "d", "main", 4, 3)>>
MCSelector == [kind |-> "none", process |-> "main"]
MCFilter == [Filters!NoFilter EXCEPT !.minimum = 3]
=============================================================================
