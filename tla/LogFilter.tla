------------------------------ MODULE LogFilter -----------------------------
(***************************************************************************)
(* CompiledLogFilter::matches (dexdeck-core, log_filter.rs) over the       *)
(* fields of a record it reads.  Case folding is done once by compile, on  *)
(* both sides, so names are compared as they are here; a text or regular   *)
(* expression search is the set of records it finds.                       *)
(***************************************************************************)
EXTENDS Naturals

Error == 4   \* LogPriority: Verbose 0, Debug 1, Info 2, Warning 3, Error 4, Fatal 5

\* LogFilterSpec::default lets everything through.
NoFilter == [minimum |-> 0, crashOnly |-> FALSE, errors |-> FALSE,
             include |-> [tag |-> {}, package |-> {}, process |-> {}],
             exclude |-> [tag |-> {}, package |-> {}, process |-> {}],
             search |-> [any |-> TRUE]]

IsMarked(r) == r.crash \/ r.marker

Relevant(f, r) == /\ r.priority >= f.minimum
                  /\ f.crashOnly => IsMarked(r)
                  /\ f.errors => (r.priority >= Error \/ IsMarked(r))

\* A record of no known package or process is in no set of them.
Named(set, name) == name # "" /\ name \in set

Included(f, r) == \A field \in {"tag", "package", "process"} :
                    /\ ~Named(f.exclude[field], r[field])
                    /\ f.include[field] # {} => Named(f.include[field], r[field])

Found(f, r) == f.search.any \/ r.text \in f.search.texts

Matches(f, r) == Relevant(f, r) /\ Included(f, r) /\ Found(f, r)
=============================================================================
