----------------------------- MODULE Playbooks -----------------------------
(***************************************************************************)
(* Skills, and which of them a case is run with: packages on disk, the     *)
(* overlay of roles, enabled flags and the default that each process keeps  *)
(* in memory, its copy in the settings, and the handlers of the Admin and   *)
(* of the gateway that change them (rootseeker/skill_system/playbook.py,    *)
(* installer.py, registry.py; apps/admin/main.py; gateway/methods).         *)
(*                                                                         *)
(* What a handler does to the memory of its process is one step; copying    *)
(* and removing packages, saving the overlay and reloading are steps of     *)
(* their own.                                                               *)
(***************************************************************************)
EXTENDS Integers, FiniteSets

CONSTANTS
    Process,     \* the Admin and the API, each with its own registry and overlay
    External,    \* names of packages that are installed and deleted
    MaxChanges   \* operations on skills

Builtin == "default-log-triage"
Slug == External \cup {Builtin}

PlaybooksAssumption == External \cap {Builtin, "none", "save", "reload"} = {} /\ MaxChanges \in Nat

ASSUME PlaybooksAssumption

VARIABLES
    disk,     \* packages below skills/: slug -> what the package declares
    stored,   \* overlay in the settings of the configuration document
    overlay,  \* overlay of each process
    registry, \* skills loaded by each process
    job,      \* what a handler of each process still has to do: copy a package, save, reload
    changes

playbookVars == <<disk, stored, overlay, registry, job, changes>>

-----------------------------------------------------------------------------
(* A package declares a role and whether it is enabled; the overlay of a slug  *)
(* replaces either.                                                            *)

Role == {"playbook", "helper"}
Package == [role : Role, enabled : BOOLEAN]
NoPackage == [role |-> "none", enabled |-> FALSE]
BuiltinPackage == [role |-> "playbook", enabled |-> TRUE]
Overlay == [default : Slug, role : [Slug -> Role \cup {"-"}], enabled : [Slug -> {"yes", "no", "-"}]]

FreshOverlay == [default |-> Builtin, role |-> [s \in Slug |-> "-"], enabled |-> [s \in Slug |-> "-"]]

Loaded(reg, s) == reg[s] # NoPackage
EffectiveRole(reg, ov, s) == IF ov.role[s] = "-" THEN reg[s].role ELSE ov.role[s]
IsEnabled(reg, ov, s) == IF ov.enabled[s] = "-" THEN reg[s].enabled ELSE ov.enabled[s] = "yes"

Usable(reg, ov, s) ==
    Loaded(reg, s) /\ IsEnabled(reg, ov, s) /\ EffectiveRole(reg, ov, s) = "playbook"

\* PlaybookResolver.resolve for a case that names no skill: the default, then the builtin one.
Resolves(reg, ov) == Usable(reg, ov, ov.default) \/ Usable(reg, ov, Builtin)

\* Faulty: the default is handed to the builtin playbook without looking at it.
FallsBack_Always(reg, ov, s) == s # Builtin

\* _require_builtin_fallback: the default may go only if the builtin playbook can take over.
FallsBack(reg, ov, s) == s # Builtin /\ Usable(reg, ov, Builtin)

-----------------------------------------------------------------------------
Free(p) == job[p] = "none"
Counted == changes < MaxChanges /\ changes' = changes + 1
Then(p, next) == job' = [job EXCEPT ![p] = next]
Overlaid(p, ov) == overlay' = [overlay EXCEPT ![p] = ov]

\* set_role takes any skill, the default playbook too.
SetRole(p, s, r) ==
    /\ Free(p) /\ Counted /\ Loaded(registry[p], s)
    /\ Overlaid(p, [overlay[p] EXCEPT !.role[s] = r])
    /\ Then(p, "save") /\ UNCHANGED <<disk, stored, registry>>

SetDefault(p, s) ==
    /\ Free(p) /\ Counted /\ Usable(registry[p], overlay[p], s)
    /\ Overlaid(p, [overlay[p] EXCEPT !.default = s])
    /\ Then(p, "save") /\ UNCHANGED <<disk, stored, registry>>

Enable(p, s) ==
    /\ Free(p) /\ Counted /\ Loaded(registry[p], s)
    /\ Overlaid(p, [overlay[p] EXCEPT !.enabled[s] = "yes"])
    /\ Then(p, "save") /\ UNCHANGED <<disk, stored, registry>>

\* Disabling the default hands it to the builtin playbook, or is refused.
Disable(p, s) ==
    /\ Free(p) /\ Counted /\ Loaded(registry[p], s)
    /\ \/ /\ s # overlay[p].default
          /\ Overlaid(p, [overlay[p] EXCEPT !.enabled[s] = "no"])
       \/ /\ s = overlay[p].default /\ FallsBack(registry[p], overlay[p], s)
          /\ Overlaid(p, [overlay[p] EXCEPT !.enabled[s] = "no", !.default = Builtin])
    /\ Then(p, "save") /\ UNCHANGED <<disk, stored, registry>>

\* Builtin skills are protected; the package is removed from disk after the memory was changed.
DeleteSkill(p, s) ==
    /\ Free(p) /\ Counted /\ s \in External /\ Loaded(registry[p], s)
    /\ s = overlay[p].default => FallsBack(registry[p], overlay[p], s)
    /\ Overlaid(p, [default |-> IF s = overlay[p].default THEN Builtin ELSE overlay[p].default,
                    role |-> [overlay[p].role EXCEPT ![s] = "-"],
                    enabled |-> [overlay[p].enabled EXCEPT ![s] = "-"]])
    /\ registry' = [registry EXCEPT ![p][s] = NoPackage]
    /\ disk' = [disk EXCEPT ![s] = NoPackage]
    /\ Then(p, "save") /\ UNCHANGED stored

\* A package replaces one of the same name only when asked to; the old one is removed first.
Install(p, s) ==
    /\ Free(p) /\ Counted /\ s \in External
    /\ \E overwrite \in BOOLEAN :
          /\ Loaded(registry[p], s) \/ disk[s] # NoPackage => overwrite
          /\ disk' = [disk EXCEPT ![s] = NoPackage]
    /\ Then(p, s) /\ UNCHANGED <<stored, overlay, registry>>

\* A copy that fails leaves no package at all, and the registry is not loaded again.
Copy(p, s) ==
    /\ job[p] = s /\ s \in External /\ disk[s] = NoPackage
    /\ \/ /\ \E package \in Package : disk' = [disk EXCEPT ![s] = package]
          /\ Then(p, "reload")
       \/ Then(p, "none") /\ UNCHANGED disk
    /\ UNCHANGED <<stored, overlay, registry, changes>>

\* The whole overlay of this process replaces the one in the settings.
SaveOverlay(p) ==
    /\ job[p] = "save"
    /\ stored' = overlay[p]
    /\ Then(p, "reload") /\ UNCHANGED <<disk, overlay, registry, changes>>

\* reload_skill_registry: the packages on disk, under the overlay of this process.
Reload(p) ==
    /\ job[p] = "reload"
    /\ registry' = [registry EXCEPT ![p] = disk]
    /\ Then(p, "none") /\ UNCHANGED <<disk, stored, overlay, changes>>

\* Only a start reads the overlay of the settings.
RestartProcess(p) ==
    /\ overlay' = [overlay EXCEPT ![p] = stored]
    /\ registry' = [registry EXCEPT ![p] = disk]
    /\ Then(p, "none") /\ UNCHANGED <<disk, stored, changes>>

-----------------------------------------------------------------------------
PlaybooksInit ==
    /\ disk \in {d \in [Slug -> Package \cup {NoPackage}] : d[Builtin] = BuiltinPackage}
    /\ stored = FreshOverlay
    /\ overlay = [p \in Process |-> FreshOverlay]
    /\ registry = [p \in Process |-> disk]
    /\ job = [p \in Process |-> "none"]
    /\ changes = 0

Change(p, s) ==
    \/ \E r \in Role : SetRole(p, s, r)
    \/ SetDefault(p, s) \/ Enable(p, s) \/ Disable(p, s) \/ DeleteSkill(p, s)
    \/ Install(p, s) \/ Copy(p, s)

PlaybooksNext ==
    \E p \in Process :
       \/ \E s \in Slug : Change(p, s)
       \/ SaveOverlay(p) \/ Reload(p) \/ RestartProcess(p)

PlaybooksSpec == PlaybooksInit /\ [][PlaybooksNext]_playbookVars

-----------------------------------------------------------------------------
\* Packages, overlays and handlers have their types.
PlaybooksTypeOK ==
    /\ disk \in [Slug -> Package \cup {NoPackage}]
    /\ stored \in Overlay /\ overlay \in [Process -> Overlay]
    /\ registry \in [Process -> [Slug -> Package \cup {NoPackage}]]
    /\ job \in [Process -> {"none", "save", "reload"} \cup External]
    /\ changes \in 0 .. MaxChanges

\* A process finds a playbook for every case, whatever sequence of defaults, flags, deletions,
\* crashes and overlays of other processes it has been through, unless its default is a skill
\* that was made a helper, has lost its package, or whose package says it is disabled
\* (playbook.py:38-90, SKILL_DEFAULT_REQUIRED).
PlaybookAvailable ==
    \A p \in Process :
       LET default == overlay[p].default IN
       \/ Resolves(registry[p], overlay[p])
       \/ EffectiveRole(registry[p], overlay[p], default) = "helper"
       \/ ~Loaded(registry[p], default)
       \/ overlay[p].enabled[default] = "-" /\ ~registry[p][default].enabled

=============================================================================
