------------------------------ MODULE Discovery -----------------------------
(***************************************************************************)
(* discover_project (dexdeck-gradle, discovery.rs): the Gradle root a      *)
(* command works on.  A place is the sequence of the directories from      *)
(* where the command starts up to the root of the file system, <<>> when   *)
(* there is no such place; a directory is the set of what it holds:        *)
(* "settings", "wrapper", a "build script", a "gradle" directory, and      *)
(* "android" for a manifest or an Android plugin in it or below.           *)
(***************************************************************************)
EXTENDS Sequences

IsGradleRoot(directory) == \/ directory \cap {"settings", "wrapper"} # {}
                           \/ {"build script", "gradle"} \subseteq directory

\* With --project only the place itself is looked at.
Roots(place, explicit) ==
  SelectSeq(IF explicit /\ place # <<>> THEN <<Head(place)>> ELSE place, IsGradleRoot)

IsAndroid(directory) == "android" \in directory

\* The nearest root is taken; the others are only reported, also when it will not do.
IsDiscovered(place, explicit) ==
  LET roots == Roots(place, explicit) IN roots # <<>> /\ IsAndroid(Head(roots))
=============================================================================
