-------------------------- MODULE ProcessSupervisor --------------------------
(***************************************************************************)
(* One supervised command of dexdeck-core (process.rs) on Unix: the child  *)
(* leads a process group of its own, its descendants stay in that group or *)
(* leave it, and whoever inherited the output pipes keeps them open.  run  *)
(* waits for the child, the two cancellation tokens and the grace period,  *)
(* then reads the output to its end; wait, of a streaming child, leaves    *)
(* the pipes to its owner.  The Windows half and the output are left out.  *)
(*                                                                         *)
(* The unreaped child is a member of its group, so signalling the group    *)
(* before the child was waited for never fails.                            *)
(***************************************************************************)
EXTENDS Naturals, FiniteSets

CONSTANTS Processes,  \* the processes there may be
          Child,      \* the one that is spawned
          Daemons     \* those that start a session of their own

ASSUME SupervisorAssumption ==
  /\ Child \in Processes
  /\ Daemons \subseteq Processes \ {Child}

VARIABLES alive,      \* the processes that run
          started,    \* the processes that were ever started
          group,      \* the members of the child's process group
          piped,      \* the processes that hold a write end of the pipes
          cancel,     \* the cancellation token
          force,      \* the forced cancellation token
          streaming,  \* the child is waited for by wait, not by run
          at,         \* where the supervisor is
          reason      \* the TerminationReason once the child is reaped

vars == <<alive, started, group, piped, cancel, force, streaming, at, reason>>
tokenVars == <<cancel, force, streaming>>

Places  == {"waiting", "grace", "killing", "draining", "over"}
Reasons == {"None", "Exited", "GracefulCancellation", "ForcedCancellation"}

\* The child was spawned and attached to.
Init == /\ alive = {Child}
        /\ started = {Child}
        /\ group = {Child}
        /\ piped = {Child}
        /\ cancel = FALSE
        /\ force = FALSE
        /\ streaming \in BOOLEAN
        /\ at = "waiting"
        /\ reason = "None"

-----------------------------------------------------------------------------
\* The processes: a process starts another, which keeps the pipes or not, and
\* ends whenever it likes, interrupted or not.
Fork(p, q) ==
  /\ p \in alive
  /\ q \notin started
  /\ alive' = alive \cup {q}
  /\ started' = started \cup {q}
  /\ group' = IF p \in group /\ q \notin Daemons THEN group \cup {q} ELSE group
  /\ \/ p \in piped /\ piped' = piped \cup {q}
     \/ UNCHANGED piped
  /\ UNCHANGED <<tokenVars, at, reason>>

Exit(p) ==
  /\ p \in alive
  /\ alive' = alive \ {p}
  /\ UNCHANGED <<started, group, piped, tokenVars, at, reason>>

\* The owner of the tokens cancels; a second cancellation forces.
Cancel ==
  /\ cancel' = TRUE
  /\ UNCHANGED <<alive, started, group, piped, force, streaming, at, reason>>

ForceCancel ==
  /\ force' = TRUE
  /\ UNCHANGED <<alive, started, group, piped, cancel, streaming, at, reason>>

-----------------------------------------------------------------------------
\* kill_process_group with SIGKILL: force, and the drop of the ProcessTree.
KillGroup == alive' = alive \ group

\* The select takes the cancellation: the group is interrupted, the grace
\* period begins.  What a process makes of the signal is up to it.
Interrupt ==
  /\ at = "waiting"
  /\ cancel
  /\ at' = "grace"
  /\ UNCHANGED <<alive, started, group, piped, tokenVars, reason>>

\* The select takes the forced cancellation.
ForceNow ==
  /\ at \in {"waiting", "grace"}
  /\ force
  /\ KillGroup
  /\ at' = "killing"
  /\ UNCHANGED <<started, group, piped, tokenVars, reason>>

\* Variant of GraceEnds: only the child is killed.
GraceEndsChildOnly ==
  /\ at = "grace"
  /\ alive' = alive \ {Child}
  /\ at' = "killing"
  /\ UNCHANGED <<started, group, piped, tokenVars, reason>>

\* Variant of GraceEnds: the child is interrupted once more.
GraceStartsAnew ==
  /\ at = "grace"
  /\ at' = "waiting"
  /\ UNCHANGED <<alive, started, group, piped, tokenVars, reason>>

\* The grace period is over.
GraceEnds ==
  /\ at = "grace"
  /\ KillGroup
  /\ at' = "killing"
  /\ UNCHANGED <<started, group, piped, tokenVars, reason>>

ReasonAt == CASE at = "waiting" -> "Exited"
              [] at = "grace"   -> "GracefulCancellation"
              [] at = "killing" -> "ForcedCancellation"

\* Variant of Reap: the child was signalled and is not waited for.
ReapUnwaited ==
  /\ at \in {"waiting", "grace", "killing"}
  /\ at = "waiting" => Child \notin alive
  /\ reason' = ReasonAt
  /\ \/ ~ streaming /\ at' = "draining" /\ UNCHANGED alive
     \/ streaming /\ at' = "over" /\ KillGroup
  /\ UNCHANGED <<started, group, piped, tokenVars>>

\* child.wait returns.  run goes on to read the output; wait returns and drops
\* the process tree.
Reap ==
  /\ at \in {"waiting", "grace", "killing"}
  /\ Child \notin alive
  /\ reason' = ReasonAt
  /\ \/ ~ streaming /\ at' = "draining" /\ UNCHANGED alive
     \/ streaming /\ at' = "over" /\ KillGroup
  /\ UNCHANGED <<started, group, piped, tokenVars>>

\* Variant of Drained: the output has ended, and nothing is killed.
DrainedKeepsTree ==
  /\ at = "draining"
  /\ piped \cap alive = {}
  /\ at' = "over"
  /\ UNCHANGED <<alive, started, group, piped, tokenVars, reason>>

\* join_capture returns for both pipes, run returns and drops the process tree.
Drained ==
  /\ at = "draining"
  /\ piped \cap alive = {}
  /\ at' = "over"
  /\ KillGroup
  /\ UNCHANGED <<started, group, piped, tokenVars, reason>>

\* The future is dropped at an await, and the process tree with it.
Dropped ==
  /\ at # "over"
  /\ at' = "over"
  /\ KillGroup
  /\ UNCHANGED <<started, group, piped, tokenVars, reason>>

-----------------------------------------------------------------------------
Supervise == Interrupt \/ ForceNow \/ GraceEnds \/ Reap \/ Drained

Next == \/ \E p, q \in Processes : Fork(p, q)
        \/ \E p \in Processes : Exit(p)
        \/ Cancel
        \/ ForceCancel
        \/ Supervise
        \/ Dropped

\* tokio polls the supervisor and time passes.  No process has to end.
Spec == Init /\ [][Next]_vars /\ WF_vars(Supervise)
-----------------------------------------------------------------------------
\* Every variable keeps its type; a reason is there once the child is reaped,
\* and the child has ended by then.
TypeOK ==
  /\ alive \subseteq started
  /\ started \subseteq Processes
  /\ group \subseteq started
  /\ piped \subseteq started
  /\ cancel \in BOOLEAN /\ force \in BOOLEAN /\ streaming \in BOOLEAN
  /\ at \in Places
  /\ reason \in Reasons
  /\ at = "draining" => reason # "None" /\ Child \notin alive

\* Whatever way a command ends, by its own exit, a cancellation or a dropped
\* future, no process of its group outlives the supervision (SPECS.md 24.1:
\* avoid orphaned processes), also none that was forked while it was ending.
NoOrphans == at = "over" => alive \cap group = {}

\* A forced end leaves nothing of the group behind while the output is still
\* being read: what the kill did not reach was never in the group.
ForcedEndIsComplete ==
  reason = "ForcedCancellation" => alive \cap group = {}

\* A cancelled command's child is reaped although it need not end by itself.
CancelledChildIsReaped == cancel \/ force ~> at \in {"draining", "over"}

\* A cancelled command ends, unless another process keeps the pipes open.
PipeHeldOpen == (piped \ {Child}) \cap alive # {}
CancelledCommandEnds == [](cancel \/ force => <>(at = "over" \/ []PipeHeldOpen))

\* The second cancellation terminates the complete process tree (SPECS.md 24.2).
ForceTerminatesTree == force ~> alive \cap group = {}
=============================================================================
