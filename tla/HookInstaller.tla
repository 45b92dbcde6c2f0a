--------------------------- MODULE HookInstaller ---------------------------
(***************************************************************************)
(* hook install and hook uninstall (internal/git/hook.go and cli/hook.go): *)
(* ai-prov's commit-msg hook in the place of whatever was there.  A step   *)
(* is one system call; os.WriteFile is two, for it empties the file before *)
(* it fills it.  A command may die between any two steps and any step may  *)
(* fail; other tools and the user write, edit and remove hooks whenever    *)
(* they like.  MaxCommands and MaxOthers bound how often.                  *)
(*                                                                         *)
(* origin is the hook the others put there last, or NoHook when they took  *)
(* it away; raced says that they touched it while a command ran.           *)
(***************************************************************************)
EXTENDS Integers

CONSTANTS Foreign,           \* the hooks other tools write
          MaxCommands, MaxOthers

NoHook == "none"
Empty == "empty"             \* a file that was emptied and never filled
Ours == "ours"
Edited == "edited"           \* ai-prov's hook with additions of the user's

ASSUME ForeignAssumption == Foreign \cap {NoHook, Empty, Ours, Edited} = {}
ASSUME HookBoundsAssumption == MaxCommands \in Nat /\ MaxOthers \in Nat

VARIABLES hook, backup,      \* commit-msg and commit-msg.pre-ai-prov
          command, pc,       \* the command that runs, and its next step
          existing,          \* the hook as the command read it
          result,            \* how the last command ended, until others act
          commands, others,  \* how many there were
          origin, raced

vars == <<hook, backup, command, pc, existing, result, commands, others, origin, raced>>

Contents == Foreign \cup {NoHook, Empty, Ours, Edited}

Steps == {"idle", "backup", "fillBackup", "write", "fill", "save", "rollback",
          "remove", "restore"}

Results == {"none", "installed", "refused", "failed", "restored", "removed",
            "nothing", "untouched", "stopped"}

\* Types; a hook of ai-prov's is never taken for one to back up.
TypeOK ==
    /\ hook \in Contents
    /\ backup \in Contents \ {Ours, Edited}
    /\ command \in {"install", "uninstall"}
    /\ pc \in Steps
    /\ existing \in Contents
    /\ result \in Results
    /\ commands \in 0..MaxCommands
    /\ others \in 0..MaxOthers
    /\ origin \in Foreign \cup {NoHook}
    /\ raced \in BOOLEAN

Init ==
    /\ hook \in Foreign \cup {NoHook}
    /\ backup = NoHook
    /\ command = "uninstall" /\ pc = "idle"
    /\ existing = NoHook /\ result = "none"
    /\ commands = 0 /\ others = 0
    /\ origin = hook /\ raced = FALSE

Goto(step) == pc' = step /\ UNCHANGED result

Return(answer) == pc' = "idle" /\ result' = answer

\* A command begins by reading the hook.
Begin(name) ==
    /\ pc = "idle"
    /\ commands < MaxCommands
    /\ commands' = commands + 1
    /\ command' = name
    /\ existing' = hook
    /\ UNCHANGED <<hook, backup, others, origin, raced>>

\* The further steps of a command.
During(step) ==
    /\ pc = step
    /\ UNCHANGED <<command, existing, commands, others, origin, raced>>

\* Fault: the marker is not looked for.
ManagedNever(content) == FALSE

\* isManagedHook: the marker is somewhere in the file.
Managed(content) == content \in {Ours, Edited}

\* Fault: an empty file is a hook, too.
DisplacesEmpty(content) == content # NoHook

\* The file has bytes.
Displaces(content) == content \notin {NoHook, Empty}

-----------------------------------------------------------------------------

ReadForInstall(force) ==
    /\ Begin("install")
    /\ \/ Managed(hook) /\ Goto("save")
       \/ ~Managed(hook) /\ Displaces(hook) /\ ~force /\ Return("refused")
       \/ ~Managed(hook) /\ Displaces(hook) /\ force /\ Goto("backup")
       \/ ~Managed(hook) /\ ~Displaces(hook) /\ Goto("write")

\* Fault: a backup that is there is kept.
EmptyBackupOnce ==
    /\ During("backup")
    /\ backup' = IF backup = NoHook THEN Empty ELSE backup
    /\ Goto(IF backup = NoHook THEN "fillBackup" ELSE "write")
    /\ UNCHANGED hook

EmptyBackup ==
    /\ During("backup")
    /\ backup' = Empty
    /\ Goto("fillBackup")
    /\ UNCHANGED hook

FillBackup ==
    /\ During("fillBackup")
    /\ backup' = existing
    /\ Goto("write")
    /\ UNCHANGED hook

EmptyHook ==
    /\ During("write")
    /\ hook' = Empty
    /\ Goto("fill")
    /\ UNCHANGED backup

FillHook ==
    /\ During("fill")
    /\ hook' = Ours
    /\ Goto("save")
    /\ UNCHANGED backup

SaveDefaults ==
    /\ During("save")
    /\ Return("installed")
    /\ UNCHANGED <<hook, backup>>

\* The configuration cannot be loaded or saved: what was just installed goes.
SaveFails ==
    /\ During("save")
    /\ \/ Managed(existing) /\ Return("failed")
       \/ ~Managed(existing) /\ Goto("rollback")
    /\ UNCHANGED <<hook, backup>>

ReadForUninstall ==
    /\ Begin("uninstall")
    /\ \/ hook = NoHook /\ Return("nothing")
       \/ hook # NoHook /\ ~Managed(hook) /\ Return("untouched")
       \/ Managed(hook) /\ Goto("remove")

ReadForRollback ==
    /\ During("rollback")
    /\ \/ ~Managed(hook) /\ Return("failed")
       \/ Managed(hook) /\ Goto("remove")
    /\ UNCHANGED <<hook, backup>>

Remove ==
    /\ During("remove")
    /\ hook # NoHook
    /\ hook' = NoHook
    /\ Goto("restore")
    /\ UNCHANGED backup

\* The backup is renamed over the hook.  Without one, and when looking for it
\* or renaming it fails, the command ends well all the same.
Restore ==
    /\ During("restore")
    /\ \/ /\ backup # NoHook
          /\ hook' = backup
          /\ backup' = NoHook
          /\ Return("restored")
       \/ Return("removed") /\ UNCHANGED <<hook, backup>>

\* The process dies, or another step fails and the command gives up.
Stop ==
    /\ pc # "idle"
    /\ During(pc)
    /\ Return("stopped")
    /\ UNCHANGED <<hook, backup>>

-----------------------------------------------------------------------------

Act(content) ==
    /\ others < MaxOthers
    /\ others' = others + 1
    /\ hook' = content
    /\ raced' = (raced \/ pc # "idle")
    /\ result' = "none"
    /\ UNCHANGED <<backup, command, pc, existing, commands>>

\* Another tool or the user writes or removes the hook.
OthersWrite(content) == Act(content) /\ origin' = content

\* The user adds to ai-prov's hook.
OthersEdit == Managed(hook) /\ Act(Edited) /\ UNCHANGED origin

Next ==
    \/ \E force \in BOOLEAN : ReadForInstall(force)
    \/ EmptyBackup
    \/ FillBackup
    \/ EmptyHook
    \/ FillHook
    \/ SaveDefaults
    \/ SaveFails
    \/ ReadForUninstall
    \/ ReadForRollback
    \/ Remove
    \/ Restore
    \/ Stop
    \/ \E content \in Foreign \cup {NoHook} : OthersWrite(content)
    \/ OthersEdit

Spec == Init /\ [][Next]_vars
-----------------------------------------------------------------------------

\* Unless others touched the hook while a command ran, the hook they put there
\* last is still there or in the backup, whatever was installed, forced,
\* undone, interrupted and installed again.
NothingIsLost == ~raced => origin \in {NoHook, hook, backup}

\* The command says what it did: when an uninstall, or an install that could not
\* save its configuration, answers that the previous hook is restored, the hook
\* the others put there last is in place, or they had taken it away; when it
\* answers that ai-prov's hook is removed, none is in place and theirs is in the
\* backup, or they had taken it away (hook.go:118-132).
UndoRestores ==
    (pc = "idle" /\ ~raced) =>
        /\ result = "restored" => ~Managed(hook) /\ origin \in {NoHook, hook}
        /\ result = "removed" => hook = NoHook /\ origin \in {NoHook, backup}

\* What is brought back is the hook that was there before ai-prov's, and no
\* older one (hook.go:128 "restored previous hook from"; cli/hook.go:130
\* "Restore the prior hook (when --force made a backup) or remove the new one").
RestoredIsPrevious ==
    (pc = "idle" /\ ~raced /\ result = "restored") => hook = origin
=============================================================================
