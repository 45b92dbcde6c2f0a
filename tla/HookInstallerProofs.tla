------------------------ MODULE HookInstallerProofs ------------------------
(***************************************************************************)
(* HookInstaller's invariants for every set of foreign hooks and any       *)
(* number of commands.  NothingIsLost is not inductive: why the backup     *)
(* holds what a step is about to overwrite depends on where the command is *)
(* and on what it has read, which InHand says.                             *)
(***************************************************************************)
EXTENDS HookInstaller, TLAPS

\* A hook of the others that is in place is the one they put there last.
InPlace == hook \in Foreign => origin \in {NoHook, hook}

\* What each step of a command finds, when nobody interferes.
InHand ==
    /\ pc \in {"backup", "fillBackup"} => hook \in Foreign /\ existing = hook
    /\ pc = "write" => hook \in {NoHook, Empty} \/ backup = hook
    /\ pc = "fill" => hook = Empty
    /\ pc = "save" => Managed(hook)
    /\ pc = "rollback" => Managed(hook)
    /\ pc = "remove" => Managed(hook)
    /\ pc = "restore" => hook = NoHook

\* What survives others that interfere: only a foreign hook is read to be
\* backed up.
ReadIsForeign == pc \in {"backup", "fillBackup"} => existing \in Foreign

Quiet == NothingIsLost /\ UndoRestores /\ (~raced => InPlace /\ InHand)

IInv == TypeOK /\ ReadIsForeign /\ Quiet

\* The names of the contents are different.
LEMMA Distinct ==
    /\ NoHook \notin Foreign /\ Empty \notin Foreign /\ Ours \notin Foreign
    /\ Edited \notin Foreign
    /\ NoHook # Empty /\ NoHook # Ours /\ Empty # Ours
    /\ Edited \notin {NoHook, Empty, Ours}
BY ForeignAssumption DEF NoHook, Empty, Ours, Edited

\* Every initial state satisfies the inductive invariant.
LEMMA InitIInv == Init => IInv
<1> SUFFICES ASSUME Init PROVE IInv
    OBVIOUS
<1>1. TypeOK
    <2>1. hook \in Contents /\ existing \in Contents /\ backup \in Contents \ {Ours, Edited}
        BY Distinct DEF Init, Contents
    <2>2. commands \in 0..MaxCommands /\ others \in 0..MaxOthers
        BY HookBoundsAssumption DEF Init
    <2> QED
        BY <2>1, <2>2 DEF Init, TypeOK, Steps, Results
<1>2. ReadIsForeign /\ Quiet
    BY DEF Init, ReadIsForeign, Quiet, NothingIsLost, UndoRestores, InPlace, InHand, Managed
<1> QED
    BY <1>1, <1>2 DEF IInv

\* A command's first steps, which read the hook.
LEMMA ReadIInv ==
    IInv /\ ((\E force \in BOOLEAN : ReadForInstall(force)) \/ ReadForUninstall) => IInv'
<1> SUFFICES ASSUME IInv,
                    (\E force \in BOOLEAN : ReadForInstall(force)) \/ ReadForUninstall
             PROVE  IInv'
    OBVIOUS
<1> USE Distinct, HookBoundsAssumption
<1>1. TypeOK'
    BY DEF IInv, TypeOK, ReadForInstall, ReadForUninstall, Begin, Goto, Return, Contents,
           Steps, Results
<1>2. ReadIsForeign'
    BY DEF IInv, TypeOK, ReadIsForeign, ReadForInstall, ReadForUninstall, Begin, Goto, Return,
           Displaces, Managed, Contents
<1>3. Quiet'
    BY DEF IInv, TypeOK, Quiet, NothingIsLost, UndoRestores, InPlace, InHand, ReadForInstall,
           ReadForUninstall, Begin, Goto, Return, Displaces, Managed, Contents
<1> QED
    BY <1>1, <1>2, <1>3 DEF IInv

\* The steps that write the backup and the hook.
LEMMA WriteIInv == IInv /\ (EmptyBackup \/ FillBackup \/ EmptyHook \/ FillHook) => IInv'
<1> SUFFICES ASSUME IInv, EmptyBackup \/ FillBackup \/ EmptyHook \/ FillHook
             PROVE  IInv'
    OBVIOUS
<1> USE Distinct
<1>1. TypeOK'
    BY DEF IInv, TypeOK, ReadIsForeign, EmptyBackup, FillBackup, EmptyHook, FillHook, During,
           Goto, Contents, Steps
<1>2. ReadIsForeign'
    BY DEF IInv, ReadIsForeign, EmptyBackup, FillBackup, EmptyHook, FillHook, During, Goto
<1>3. CASE EmptyBackup
    BY <1>1, <1>2, <1>3 DEF IInv, TypeOK, ReadIsForeign, Quiet, NothingIsLost, UndoRestores,
       InPlace, InHand, EmptyBackup, During, Goto, Contents
<1>4. CASE FillBackup
    BY <1>1, <1>2, <1>4 DEF IInv, TypeOK, ReadIsForeign, Quiet, NothingIsLost, UndoRestores,
       InPlace, InHand, FillBackup, During, Goto, Contents
<1>5. CASE EmptyHook
    BY <1>1, <1>2, <1>5 DEF IInv, TypeOK, ReadIsForeign, Quiet, NothingIsLost, UndoRestores,
       InPlace, InHand, EmptyHook, During, Goto, Contents
<1>6. CASE FillHook
    BY <1>1, <1>2, <1>6 DEF IInv, TypeOK, ReadIsForeign, Quiet, NothingIsLost, UndoRestores,
       InPlace, InHand, FillHook, During, Goto, Contents, Managed
<1> QED
    BY <1>3, <1>4, <1>5, <1>6

\* The steps that end a command, take the hook away and bring the backup back.
LEMMA UndoIInv ==
    IInv /\ (SaveDefaults \/ SaveFails \/ ReadForRollback \/ Remove \/ Restore \/ Stop) => IInv'
<1> SUFFICES ASSUME IInv,
                    SaveDefaults \/ SaveFails \/ ReadForRollback \/ Remove \/ Restore \/ Stop
             PROVE  IInv'
    OBVIOUS
<1> USE Distinct
<1>1. TypeOK'
    BY DEF IInv, TypeOK, SaveDefaults, SaveFails, ReadForRollback, Remove, Restore, Stop,
           During, Goto, Return, Contents, Steps, Results
<1>2. ReadIsForeign'
    BY DEF IInv, ReadIsForeign, SaveDefaults, SaveFails, ReadForRollback, Remove, Restore, Stop,
           During, Goto, Return
<1>3. CASE SaveDefaults \/ SaveFails \/ ReadForRollback \/ Stop
    <2>1. UNCHANGED <<hook, backup, origin, raced>>
        BY <1>3 DEF SaveDefaults, SaveFails, ReadForRollback, Stop, During
    <2>2. pc' = "idle" => result' \notin {"restored", "removed"}
        BY <1>3 DEF SaveDefaults, SaveFails, ReadForRollback, Stop, Goto, Return
    <2>3. NothingIsLost' /\ (~raced => InPlace)'
        BY <2>1 DEF IInv, Quiet, NothingIsLost, InPlace
    <2>4. pc' # "idle" => /\ pc \in {"save", "rollback"} /\ pc' \in {"rollback", "remove"}
                          /\ pc = "save" => pc' = "rollback" /\ ~Managed(existing)
                          /\ pc = "rollback" => pc' = "remove" /\ Managed(hook)
        BY <1>3 DEF SaveDefaults, SaveFails, ReadForRollback, Stop, During, Goto, Return
    <2>5. (~raced => InHand)'
        BY <2>1, <2>4 DEF IInv, Quiet, InHand, Managed
    <2>6. UndoRestores'
        BY <2>2 DEF UndoRestores
    <2> QED
        BY <1>1, <1>2, <2>3, <2>5, <2>6 DEF IInv, Quiet
<1>4. CASE Remove
    BY <1>1, <1>2, <1>4 DEF IInv, TypeOK, Quiet, NothingIsLost, UndoRestores, InPlace, InHand,
       Remove, During, Goto, Contents, Managed
<1>5. CASE Restore
    BY <1>1, <1>2, <1>5 DEF IInv, TypeOK, Quiet, NothingIsLost, UndoRestores, InPlace, InHand,
       Restore, During, Return, Contents, Managed
<1> QED
    BY <1>3, <1>4, <1>5

\* The others, who leave no command undisturbed.
LEMMA OthersIInv ==
    IInv /\ ((\E content \in Foreign \cup {NoHook} : OthersWrite(content)) \/ OthersEdit)
    => IInv'
<1> SUFFICES ASSUME IInv,
                    (\E content \in Foreign \cup {NoHook} : OthersWrite(content)) \/ OthersEdit
             PROVE  IInv'
    OBVIOUS
<1> USE Distinct, HookBoundsAssumption
<1>1. PICK content \in Foreign \cup {NoHook, Edited} :
        /\ Act(content)
        /\ \/ content # Edited /\ origin' = content
           \/ Managed(hook) /\ content = Edited /\ origin' = origin
    BY DEF OthersWrite, OthersEdit
<1>2. TypeOK' /\ ReadIsForeign'
    BY <1>1 DEF IInv, TypeOK, ReadIsForeign, Act, Contents, Steps, Results
<1>3. Quiet'
    <2>1. CASE raced'
        BY <2>1 DEF Quiet, NothingIsLost, UndoRestores
    <2>2. CASE ~raced'
        <3>1. ~raced /\ pc = "idle" /\ pc' = pc /\ hook' = content /\ result' = "none"
              /\ backup' = backup
            BY <1>1, <2>2 DEF Act, IInv, TypeOK
        <3>2. NothingIsLost'
            BY <1>1, <3>1 DEF IInv, TypeOK, Quiet, NothingIsLost, Managed
        <3> QED
            BY <1>1, <3>1, <3>2 DEF Quiet, UndoRestores, InPlace, InHand
    <2> QED
        BY <2>1, <2>2
<1> QED
    BY <1>2, <1>3 DEF IInv

\* A stuttering step.
LEMMA StutterIInv == IInv /\ UNCHANGED vars => IInv'
BY DEF IInv, TypeOK, ReadIsForeign, Quiet, NothingIsLost, UndoRestores, InPlace, InHand, Managed,
       vars

\* The inductive invariant holds in every reachable state.
THEOREM HookInvariant == Spec => []IInv
<1>1. IInv /\ [Next]_vars => IInv'
    BY ReadIInv, WriteIInv, UndoIInv, OthersIInv, StutterIInv DEF Next
<1> QED
    BY InitIInv, <1>1, PTL DEF Spec

\* Types are kept, and no hook of ai-prov's is ever what the backup holds, so
\* that no restore brings one back.
THEOREM HookTypeCorrect == Spec => []TypeOK
<1>1. IInv => TypeOK
    BY DEF IInv
<1> QED
    BY HookInvariant, <1>1, PTL

\* However commands are interrupted, fail and are tried again, the hook that
\* others put there last is in place or in the backup.
THEOREM HookNeverLost == Spec => []NothingIsLost
<1>1. IInv => NothingIsLost
    BY DEF IInv, Quiet
<1> QED
    BY HookInvariant, <1>1, PTL

\* An uninstall, and an install that undoes itself, leave what they say: the
\* others' last hook in place, or in the backup when the backup was not brought
\* back; nothing is promised of what a stale backup holds once the others have
\* taken their hook away (HookStaleBackup.cfg).
THEOREM HookUndoRestores == Spec => []UndoRestores
<1>1. IInv => UndoRestores
    BY DEF IInv, Quiet
<1> QED
    BY HookInvariant, <1>1, PTL
=============================================================================
