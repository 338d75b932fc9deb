---------------------------- MODULE ModelRefresh ----------------------------
(***************************************************************************)
(* What the project model promises its readers, as the small generation    *)
(* machine of dexdeck-gradle (refresh.rs) states it: every operation that  *)
(* changes what the model is takes a new generation, and the answer to a   *)
(* refresh counts only while the generation it began with is the newest.   *)
(* Load and Abandon are what the owner of such a machine does besides: it  *)
(* puts a stored model in place when a project is opened, and it may never *)
(* answer.  ProjectModelService implements this specification.             *)
(***************************************************************************)
EXTENDS Naturals

CONSTANTS Models,    \* the project models there may be
          NoModel,   \* no model yet
          Tokens     \* the generations begin may return

VARIABLES model,       \* the model readers see, or NoModel
          freshness,   \* how it is labelled
          generation,  \* the newest generation
          due          \* the generations begin returned that await an answer

refreshVars == <<model, freshness, generation, due>>

Freshness == {"Current", "Stale", "Refreshing", "Provisional", "Degraded"}

\* The label of a model nobody is refreshing.
Unrefreshed(m) == IF m = NoModel THEN "Provisional" ELSE "Stale"

\* new
Init == /\ model = NoModel
        /\ freshness = Unrefreshed(model)
        /\ generation = 0
        /\ due = {}

\* begin
Begin == /\ generation' = generation + 1
         /\ freshness' = "Refreshing"
         /\ due' = due \cup {generation + 1}
         /\ UNCHANGED model

\* complete
Complete(g, m) ==
  /\ g \in due
  /\ due' = due \ {g}
  /\ \/ g = generation /\ model' = m /\ freshness' = "Current"
     \/ g # generation /\ UNCHANGED <<model, freshness>>
  /\ UNCHANGED generation

\* fail
Fail(g) ==
  /\ g \in due
  /\ due' = due \ {g}
  /\ \/ g = generation /\ freshness' \in {"Degraded", "Stale"}
     \/ g # generation /\ UNCHANGED freshness
  /\ UNCHANGED <<model, generation>>

\* cancel
Cancel == /\ generation' = generation + 1
          /\ freshness' = Unrefreshed(model)
          /\ UNCHANGED <<model, due>>

\* A project is opened with the model stored for it, if there is one.
Load(m) == /\ generation' = generation + 1
           /\ model' = m
           /\ freshness' \in IF m = NoModel THEN {"Provisional"} ELSE {"Current", "Stale"}
           /\ UNCHANGED due

\* A refresh ends without an answer.
Abandon(g) == /\ g \in due
              /\ due' = due \ {g}
              /\ UNCHANGED <<model, freshness, generation>>

Next == \/ Begin
        \/ Cancel
        \/ \E m \in Models \cup {NoModel} : Load(m)
        \/ \E g \in Tokens : \/ \E m \in Models : Complete(g, m)
                             \/ Fail(g)
                             \/ Abandon(g)

Spec == Init /\ [][Next]_refreshVars
=============================================================================
