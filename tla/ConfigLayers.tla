---------------------------- MODULE ConfigLayers ----------------------------
(***************************************************************************)
(* The configuration a command works with (dexdeck-config, loader.rs and   *)
(* resolve.rs): the shared, the user's and the explicitly named file,      *)
(* applied in that order over the defaults.  A layer is                    *)
(* [state, sdk, settings, profiles, commands]; settings, profiles and      *)
(* commands are functions over the names the layer mentions.               *)
(***************************************************************************)
EXTENDS Naturals, Sequences, SequencesExt, Functions

\* A choice that is not made.
Unnamed == ""

NoNames == [x \in {} |-> x]
Defaults == [settings |-> NoNames, profiles |-> NoNames, commands |-> NoNames]

\* The names of the layer replace those below it: a profile or a command whole,
\* never field by field.
Over(layer, below) ==
  [x \in DOMAIN layer \cup DOMAIN below |-> IF x \in DOMAIN layer THEN layer[x] ELSE below[x]]

Applied(resolved, layer) ==
  [settings |-> Over(layer.settings, resolved.settings),
   profiles |-> Over(layer.profiles, resolved.profiles),
   commands |-> Over(layer.commands, resolved.commands)]

\* A file that is absent is passed over unless it was named on the command line;
\* one that does not parse or validate is an error, as is a path of the SDK in the
\* shared file.
Loads(shared, user, explicit, named) ==
  /\ "invalid" \notin {shared.state, user.state}
  /\ ~shared.sdk
  /\ named => explicit.state = "present"

Resolved(shared, user, explicit, named) ==
  FoldLeft(Applied, Defaults,
           SelectSeq(<<shared, user>> \o (IF named THEN <<explicit>> ELSE <<>>),
                     LAMBDA layer : layer.state = "present"))

\* A setting of the resolved configuration, or none.
Setting(config, name) == IF name \in DOMAIN config.settings THEN config.settings[name] ELSE Unnamed
=============================================================================
