---------------------------- MODULE AtomicStorage ---------------------------
(***************************************************************************)
(* Files that are replaced atomically (dexdeck-config, atomic.rs): a       *)
(* temporary file is written, synced and renamed over the old one, and     *)
(* then the directory is synced.  All files of a project share one         *)
(* directory.  Until it is synced a power loss may bring back any state    *)
(* the directory had since the last sync; that is the set possible.        *)
(*                                                                         *)
(* A damaged file, or one of another schema version, is moved aside by     *)
(* name when it is read.                                                   *)
(***************************************************************************)
EXTENDS Naturals, FiniteSets

CONSTANT Files

VARIABLES directory,  \* [at: what each path holds, aside: the files moved aside]
          possible,   \* the directories a power loss may leave
          writes,     \* how often each path was written
          safe,       \* history: the newest write of each path that was acknowledged, 0 for none
          spoiled     \* history: the newest write of each path that somebody else damaged

storageVars == <<directory, possible, writes, safe, spoiled>>

Missing == [kind |-> "missing", n |-> 0]
Damaged(n) == [kind |-> "damaged", n |-> n]
Written(n, data) == [kind |-> "ok", n |-> n, data |-> data]

IsLoaded(content) == content.kind = "ok"

StorageInit(initial) ==
  /\ directory = [at |-> initial, aside |-> {}]
  /\ possible = {directory}
  /\ writes = [f \in Files |-> 1]
  /\ safe = [f \in Files |-> 0] /\ spoiled = [f \in Files |-> 0]

Becomes(d) == directory' = d /\ possible' = possible \cup {d}

\* The rename.  Of a file that was not synced a power loss may leave the name
\* and not the bytes.
Persist(f, data, synced) ==
  LET put(content) == [directory EXCEPT !.at[f] = content]
      new == put(Written(writes[f] + 1, data))
  IN /\ directory' = new
     /\ possible' = possible \cup {new} \cup (IF synced THEN {} ELSE {put(Damaged(0))})
     /\ writes' = [writes EXCEPT ![f] = @ + 1]
     /\ UNCHANGED <<safe, spoiled>>

\* The directory is synced, and with it the n-th write of f acknowledged.
Acknowledge(f, n) == /\ possible' = {directory}
                     /\ safe' = [safe EXCEPT ![f] = IF @ > n \/ spoiled[f] >= n THEN @ ELSE n]
                     /\ UNCHANGED <<directory, writes, spoiled>>

\* Variant of SetAside: the file is removed.
SetAsideByRemoval(f) ==
  /\ directory.at[f] # Missing
  /\ Becomes([directory EXCEPT !.at[f] = Missing])
  /\ UNCHANGED <<writes, safe, spoiled>>

\* Whatever the path holds by now is moved; names aside differ by their time.
SetAside(f) ==
  /\ directory.at[f] # Missing
  /\ Becomes([directory EXCEPT !.at[f] = Missing, !.aside = @ \cup {<<f, directory.at[f]>>}])
  /\ UNCHANGED <<writes, safe, spoiled>>

\* Somebody else spoils the file, or leaves one of another version.
Spoil(f) == /\ directory.at[f].kind = "ok"
            /\ directory' = [directory EXCEPT !.at[f] = Damaged(directory.at[f].n)]
            /\ possible' = {directory'}
            /\ safe' = [safe EXCEPT ![f] = 0]
            /\ spoiled' = [spoiled EXCEPT ![f] = directory.at[f].n]
            /\ UNCHANGED writes

PowerLoss == /\ directory' \in possible
             /\ possible' = {directory'}
             /\ UNCHANGED <<writes, safe, spoiled>>

StorageTypeOK == /\ directory \in possible
                 /\ \A f \in Files : /\ directory.at[f].n <= writes[f]
                                     /\ safe[f] <= writes[f]

\* The acknowledged write of f, or one that replaced it, is in the directory d.
Keeps(d, f) ==
  \/ safe[f] = 0
  \/ IsLoaded(d.at[f]) /\ d.at[f].n >= safe[f]
  \/ \E entry \in d.aside : entry[1] = f /\ IsLoaded(entry[2]) /\ entry[2].n >= safe[f]
=============================================================================
