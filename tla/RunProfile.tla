----------------------------- MODULE RunProfile -----------------------------
(***************************************************************************)
(* Which module, variant and device a command works on (dexdeck-core,      *)
(* run_profile.rs; DeviceSelector in dexdeck-android, device.rs).  Modules *)
(* are [path, kind, variants], variants [name, enabled, release, id],      *)
(* devices [serial, names, online].                                        *)
(***************************************************************************)
EXTENDS Naturals, FiniteSets, FiniteSetsExt, ConfigLayers

\* Variant of FirstChoice: the project's default comes before the profile's choice.
FirstChoiceOfProject(chosen, profile, default) ==
  IF chosen # Unnamed THEN chosen ELSE IF default # Unnamed THEN default ELSE profile

\* The command line, then the profile, then the project's default.
FirstChoice(chosen, profile, default) ==
  IF chosen # Unnamed THEN chosen ELSE IF profile # Unnamed THEN profile ELSE default

\* A serial comes before every other name of a device; a name must be one device's.
Selects(devices, choice) ==
  LET serial == {d \in devices : d.serial = choice}
  IN IF serial # {} THEN serial ELSE {d \in devices : choice \in d.names}

NoProfile == [module |-> Unnamed, variant |-> Unnamed, device |-> Unnamed, launches |-> TRUE]

ProfileOf(config, r) == IF r.profile = Unnamed THEN NoProfile ELSE config.profiles[r.profile]

\* Those a choice stands for; without one, all that qualify.
ModulesFor(model, config, r) ==
  LET choice == FirstChoice(r.module, ProfileOf(config, r).module, Setting(config, "module"))
  IN {m \in model : IF choice # Unnamed THEN m.path = choice ELSE m.kind = "application"}

VariantsFor(module, config, r) ==
  LET choice == FirstChoice(r.variant, ProfileOf(config, r).variant, Setting(config, "variant"))
  IN {v \in module.variants : IF choice # Unnamed THEN v.name = choice ELSE v.enabled}

\* There is no default for a device.
DevicesFor(devices, config, r) ==
  LET choice == FirstChoice(r.device, ProfileOf(config, r).device, Unnamed)
  IN IF choice = Unnamed THEN {} ELSE Selects(devices, choice)

NamesDevice(config, r) == r.device # Unnamed \/ ProfileOf(config, r).device # Unnamed

\* RunProfileResolver::resolve succeeds: one application, one variant of it that is
\* enabled and has an application ID, and one online device where one is needed.
Resolves(model, config, devices, r, requireDevice) ==
  /\ r.profile # Unnamed => r.profile \in DOMAIN config.profiles
  /\ \E module \in model :
       /\ ModulesFor(model, config, r) = {module}
       /\ module.kind = "application"
       /\ \E variant \in module.variants :
            /\ VariantsFor(module, config, r) = {variant}
            /\ variant.enabled /\ variant.id # Unnamed
  /\ (requireDevice \/ NamesDevice(config, r)) =>
       \E d \in devices : DevicesFor(devices, config, r) = {d} /\ d.online
  /\ ProfileOf(config, r).launches

Chosen(model, config, devices, r) ==
  LET module == CHOOSE m \in model : ModulesFor(model, config, r) = {m}
  IN [module  |-> module,
      variant |-> CHOOSE v \in module.variants : VariantsFor(module, config, r) = {v},
      device  |-> DevicesFor(devices, config, r)]

\* A release or non-debuggable variant is confirmed, unless a profile was named.
NeedsConfirmation(chosen, r) == chosen.variant.release /\ r.profile = Unnamed
=============================================================================
