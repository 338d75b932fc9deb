----------------------- MODULE ProcessSupervisorProofs -----------------------
(***************************************************************************)
(* What ProcessSupervisor guarantees for any processes and any daemons.    *)
(*                                                                         *)
(* NoOrphans is not inductive: a group is also emptied by the kill that    *)
(* precedes the child's reaping, and a descendant that left the group may  *)
(* go on forking afterwards.  GroupKilled says that a killed group stays   *)
(* empty, because only a member can add a member.  The child counts as     *)
(* started, so that no other process takes its place.                      *)
(***************************************************************************)
EXTENDS ProcessSupervisor, TLAPS

GroupKilled ==
  at \in {"killing", "over"} \/ reason = "ForcedCancellation"
    => alive \cap group = {}

SupervisorInv == TypeOK /\ GroupKilled /\ Child \in started

-----------------------------------------------------------------------------
\* The spawned child is alone and nothing was killed yet (run, spawn).
LEMMA InitInv == Init => SupervisorInv
  BY SupervisorAssumption
  DEF Init, SupervisorInv, TypeOK, GroupKilled, Places, Reasons

\* A new process joins the group only if its parent is a living member.
LEMMA ForkInv ==
  ASSUME SupervisorInv, NEW p \in Processes, NEW q \in Processes, Fork(p, q)
  PROVE  SupervisorInv'
  <1>1. TypeOK'
    <2>1. UNCHANGED <<cancel, force, streaming, at, reason>>
      BY DEF Fork, tokenVars
    <2>2. /\ q # Child
          /\ alive' = alive \cup {q} /\ started' = started \cup {q}
      BY DEF Fork, SupervisorInv
    <2>3. group' \subseteq started'
      <3>1. group' \subseteq group \cup {q}
        BY DEF Fork
      <3> QED
        BY <2>2, <3>1 DEF SupervisorInv, TypeOK
    <2>4. piped' \subseteq started'
      <3>1. piped' \subseteq piped \cup {q}
        BY DEF Fork
      <3> QED
        BY <2>2, <3>1 DEF SupervisorInv, TypeOK
    <2>5. at' = "draining" => reason' # "None" /\ Child \notin alive'
      BY <2>1, <2>2 DEF SupervisorInv, TypeOK
    <2> QED
      BY <2>1, <2>2, <2>3, <2>4, <2>5 DEF SupervisorInv, TypeOK
  <1>2. GroupKilled'
    <2>1. SUFFICES ASSUME alive \cap group = {}
                   PROVE  alive' \cap group' = {}
      BY DEF SupervisorInv, GroupKilled, Fork
    <2>2. p \notin group /\ group' = group
      BY <2>1 DEF Fork
    <2>3. q \notin group
      BY DEF SupervisorInv, TypeOK, Fork
    <2> QED
      BY <2>1, <2>2, <2>3 DEF Fork
  <1> QED
    BY <1>1, <1>2 DEF SupervisorInv, Fork

\* The steps of the world that end a process or set a token.
LEMMA WorldInv ==
  ASSUME SupervisorInv,
         (\E p \in Processes : Exit(p)) \/ Cancel \/ ForceCancel
  PROVE  SupervisorInv'
  <1>1. CASE \E p \in Processes : Exit(p)
    BY <1>1 DEF Exit, SupervisorInv, TypeOK, GroupKilled, tokenVars
  <1>2. CASE Cancel
    BY <1>2 DEF Cancel, SupervisorInv, TypeOK, GroupKilled
  <1>3. CASE ForceCancel
    BY <1>3 DEF ForceCancel, SupervisorInv, TypeOK, GroupKilled
  <1> QED
    BY <1>1, <1>2, <1>3

\* The supervisor reaches "killing" and "over" by killing the group, and calls
\* an end forced only from "killing".
LEMMA SuperviseInv ==
  ASSUME SupervisorInv, Supervise \/ Dropped
  PROVE  SupervisorInv'
  <1> USE DEF SupervisorInv, TypeOK, GroupKilled, tokenVars, KillGroup, Places
  <1>1. CASE Interrupt
    BY <1>1 DEF Interrupt
  <1>2. CASE ForceNow
    BY <1>2 DEF ForceNow
  <1>3. CASE GraceEnds
    BY <1>3 DEF GraceEnds
  <1>4. CASE Reap
    <2>1. /\ reason' = ReasonAt
          /\ reason' \in Reasons \ {"None"}
          /\ reason' = "ForcedCancellation" => at = "killing"
      BY <1>4 DEF Reap, ReasonAt, Reasons
    <2>2. CASE at' = "draining" /\ UNCHANGED alive
      BY <1>4, <2>1, <2>2 DEF Reap
    <2>3. CASE at' = "over" /\ KillGroup
      BY <1>4, <2>1, <2>3 DEF Reap
    <2> QED
      BY <1>4, <2>2, <2>3 DEF Reap
  <1>5. CASE Drained
    BY <1>5 DEF Drained
  <1>6. CASE Dropped
    BY <1>6 DEF Dropped
  <1> QED
    BY <1>1, <1>2, <1>3, <1>4, <1>5, <1>6 DEF Supervise

\* Every step of the supervisor and of the processes.
LEMMA StepInv == SupervisorInv /\ [Next]_vars => SupervisorInv'
  <1> SUFFICES ASSUME SupervisorInv, [Next]_vars
               PROVE  SupervisorInv'
    OBVIOUS
  <1>1. CASE UNCHANGED vars
    BY <1>1 DEF vars, SupervisorInv, TypeOK, GroupKilled
  <1>2. CASE Next
    BY <1>2, ForkInv, WorldInv, SuperviseInv DEF Next
  <1> QED
    BY <1>1, <1>2

\* A killed group stays empty however the supervision goes on.
THEOREM SupervisorInvariant == Spec => []SupervisorInv
  BY InitInv, StepInv, PTL DEF Spec

-----------------------------------------------------------------------------
\* The sets and the places of the supervision keep their types, and a child
\* whose output is being drained has ended and has a reason.
THEOREM SupervisorTypes == Spec => []TypeOK
  <1>1. SupervisorInv => TypeOK
    BY DEF SupervisorInv
  <1> QED
    BY <1>1, SupervisorInvariant, PTL

\* However the supervision ends, no process of the child's group is left.
THEOREM NothingIsOrphaned == Spec => []NoOrphans
  <1>1. SupervisorInv => NoOrphans
    BY DEF SupervisorInv, GroupKilled, NoOrphans
  <1> QED
    BY <1>1, SupervisorInvariant, PTL

\* A result that says ForcedCancellation is the truth: the group is gone.
THEOREM ForcedMeansGone == Spec => []ForcedEndIsComplete
  <1>1. SupervisorInv => ForcedEndIsComplete
    BY DEF SupervisorInv, GroupKilled, ForcedEndIsComplete
  <1> QED
    BY <1>1, SupervisorInvariant, PTL
=============================================================================
