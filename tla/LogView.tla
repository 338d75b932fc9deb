------------------------------- MODULE LogView ------------------------------
(***************************************************************************)
(* The Logcat workspace of the terminal interface (logcat_workspace.rs     *)
(* with LogViewState of log_actions.rs) as operators on its value: the     *)
(* buffer, what is paused, searched, scrolled and selected, and the rows   *)
(* it draws.  The interface thread owns it; no other thread sees it.       *)
(***************************************************************************)
EXTENDS Integers, Sequences, SequencesExt, FiniteSetsExt

CONSTANTS Lines,        \* the lines Logcat will print, in this order
          BufferBytes,  \* capacity of the workspace's buffer
          Height        \* rows of the list on the screen

LineSize(i) == Lines[i].bytes
Buffer == INSTANCE LogBuffer WITH Capacity <- BufferBytes, Size <- LineSize
Filters == INSTANCE LogFilter

\* Sequence numbers start at 1: 0 is no pause point, and no selection.
NewView == [buffer |-> Buffer!EmptyBuffer, query |-> <<>>, paused |-> FALSE, pausedAt |-> 0,
            scroll |-> 0, follow |-> TRUE, selected |-> 0, device |-> FALSE]

Ingest(v, lines) == [v EXCEPT !.buffer = Buffer!PushAll(@, lines)]

\* set_text_search; a line's text is one letter, so a longer query finds none.
SetSearch(v, query) == [v EXCEPT !.query = query, !.scroll = 0]

SearchFor(query) ==
  [Filters!NoFilter EXCEPT
     !.search = IF query = <<>> THEN [any |-> TRUE]
                ELSE [any |-> FALSE, texts |-> IF Len(query) = 1 THEN {query[1]} ELSE {}]]

\* The rows the list consists of, and those of them on the screen.
Rows(v) == SelectSeq(v.buffer.entries,
                     LAMBDA e : /\ v.pausedAt # 0 => e.sequence <= v.pausedAt
                                /\ Filters!Matches(SearchFor(v.query), Lines[e.record]))

Page(v) == LET end == Max({0, Len(Rows(v)) - v.scroll})
           IN SubSeq(Rows(v), Max({0, end - Height}) + 1, end)

\* Variant of TogglePause: the number the next line will get.
TogglePauseBeforeNext(v) ==
  [v EXCEPT !.paused = ~@, !.pausedAt = IF v.paused THEN 0 ELSE v.buffer.next]

\* The newest line is the last one shown; with an empty buffer nothing is.
TogglePause(v) ==
  [v EXCEPT !.paused = ~@, !.pausedAt = IF v.paused THEN 0 ELSE Buffer!Newest(v.buffer)]

\* Clearing forgets the pause point and stays paused.
ClearView(v) == [v EXCEPT !.buffer = Buffer!Clear(@), !.pausedAt = 0, !.scroll = 0,
                          !.selected = 0, !.follow = TRUE]

IsErrorLine(i) == Filters!IsMarked(Lines[i]) \/ Lines[i].priority >= Filters!Error

\* navigate_error looks at the whole buffer, also at lines the search or the
\* pause hides, and counts the distance to the end over all of them.
SelectError(v, reverse) ==
  LET entries == v.buffer.entries
      ahead   == {i \in DOMAIN entries :
                    /\ IsErrorLine(entries[i].record)
                    /\ v.selected # 0 => IF reverse THEN entries[i].sequence < v.selected
                                         ELSE entries[i].sequence > v.selected}
      found   == IF reverse THEN Max(ahead) ELSE Min(ahead)
      left    == [v EXCEPT !.follow = FALSE]
  IN IF ahead = {} THEN [left EXCEPT !.selected = 0]
     ELSE [left EXCEPT !.selected = entries[found].sequence,
                       !.scroll = Len(entries) - found]

ToEnd(v) == [v EXCEPT !.follow = TRUE, !.scroll = 0]
ScrollUp(v) == [v EXCEPT !.follow = FALSE, !.scroll = @ + 1]
ScrollDown(v) == [v EXCEPT !.scroll = Max({0, @ - 1})]
ChangeScope(v) == [v EXCEPT !.device = ~@]

\* handle_key without the scope, whose change the backend has to be told.
ViewKeys == {"pause", "clear", "nextError", "previousError", "end", "up", "down"}
HandleKey(v, key) == CASE key = "pause"         -> TogglePause(v)
                       [] key = "clear"         -> ClearView(v)
                       [] key = "nextError"     -> SelectError(v, FALSE)
                       [] key = "previousError" -> SelectError(v, TRUE)
                       [] key = "end"           -> ToEnd(v)
                       [] key = "up"            -> ScrollUp(v)
                       [] key = "down"          -> ScrollDown(v)
=============================================================================
