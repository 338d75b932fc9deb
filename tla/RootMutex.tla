------------------------------ MODULE RootMutex ------------------------------
(***************************************************************************)
(* The promise shared by the two places that serialise Gradle work: for    *)
(* each Gradle root at most one client holds the root, the others wait in  *)
(* arrival order, and a root is never left free while a client waits for   *)
(* it.  JobScheduler (dexdeck-core, job.rs) implements this specification  *)
(* with one shared queue for all the roots.                                *)
(***************************************************************************)
EXTENDS Naturals, Sequences, SequencesExt

CONSTANTS Clients,  \* who may want a root
          Roots,    \* the Gradle roots
          NoClient  \* the holder of a free root

VARIABLES holder,   \* holder[r]: the client working on root r, or NoClient
          waiting   \* waiting[r]: the clients waiting for root r, oldest first

mutexVars == <<holder, waiting>>

Involved(c) == \E r \in Roots : holder[r] = c \/ Contains(waiting[r], c)

Init == /\ holder = [r \in Roots |-> NoClient]
        /\ waiting = [r \in Roots |-> <<>>]

\* A client takes a free root at once, and otherwise goes to the back.
Ask(c, r) ==
  /\ ~ Involved(c)
  /\ \/ /\ holder[r] = NoClient
        /\ holder' = [holder EXCEPT ![r] = c]
        /\ UNCHANGED waiting
     \/ /\ holder[r] # NoClient
        /\ waiting' = [waiting EXCEPT ![r] = Append(@, c)]
        /\ UNCHANGED holder

\* The holder leaves and the oldest waiting client, if any, takes over.
Release(r) ==
  /\ holder[r] # NoClient
  /\ \/ /\ waiting[r] = <<>>
        /\ holder' = [holder EXCEPT ![r] = NoClient]
        /\ UNCHANGED waiting
     \/ /\ waiting[r] # <<>>
        /\ holder' = [holder EXCEPT ![r] = Head(waiting[r])]
        /\ waiting' = [waiting EXCEPT ![r] = Tail(@)]

\* A waiting client gives up.
GiveUp(c, r) ==
  /\ \E i \in DOMAIN waiting[r] :
       /\ waiting[r][i] = c
       /\ waiting' = [waiting EXCEPT ![r] = RemoveAt(@, i)]
  /\ UNCHANGED holder

Next == \E r \in Roots :
          \/ Release(r)
          \/ \E c \in Clients : Ask(c, r) \/ GiveUp(c, r)

Spec == Init /\ [][Next]_mutexVars
=============================================================================
