---------------------------- MODULE UserInstall ----------------------------
(***************************************************************************)
(* install and uninstall on macOS and Linux (internal/install and          *)
(* cli/install.go, cli/uninstall.go): two binaries, the PATH entry in a    *)
(* shell profile, and the receipt, the only authority of an uninstall.  A  *)
(* step looks at one file or changes one; a binary and the receipt are     *)
(* renamed into place, a profile is emptied and then filled.  A command    *)
(* may die between any two steps and any step may fail.  The user changes  *)
(* binaries and profiles in between.  A binary's bytes are the release     *)
(* they come from.                                                         *)
(*                                                                         *)
(* lines counts the lines of their own the user has put into each profile, *)
(* lost has the profiles that a command left emptied or wrote over an edit *)
(* made after it read them, touched says that the user did something since *)
(* the last command began, and unseen that they changed the file it is     *)
(* about to replace or remove after it looked there: history, read by      *)
(* properties only.                                                        *)
(***************************************************************************)
EXTENDS Integers, Sequences, FiniteSets

CONSTANTS Dirs,              \* directories to install into
          Releases,          \* what the two binaries may be copied from
          Shells,            \* what SHELL may be, each with its profile
          MaxCommands, MaxActs

Absent == "absent"
Other == "other"             \* a file of the user's own
Names == {"ai-prov", "ai-prov-mcp"}
Targets == <<"ai-prov", "ai-prov-mcp">>

Begin == "begin"
End == "end"
Text == "text"

ASSUME ReleasesAssumption == Releases \cap {Absent, Other} = {}
ASSUME DirsAssumption == Dirs \cap {Begin, End, Text} = {}
ASSUME InstallBoundsAssumption == MaxCommands \in Nat /\ MaxActs \in Nat

VARIABLES bin,               \* bin[d][n]: the file of that name
          receipt,           \* the receipts that are there, at most one
          profile,           \* the lines of each profile
          command, opts, pc, \* the command that runs and its next step
          todo,              \* the binaries it has not dealt with
          updated,           \* the profile it is about to write
          result,            \* how the last command ended
          commands, acts,    \* how many there were
          lines, lost, touched, unseen

disk == <<bin, receipt, profile>>
call == <<command, opts, pc, todo, updated, result>>
vars == <<disk, call, commands, acts, lines, lost, touched, unseen>>

Receipts == [root : Dirs, hash : [Names -> Releases], method : {"none", "shell"}]

Options == [dir : Dirs, release : Releases, force : BOOLEAN, path : BOOLEAN, shell : Shells]

Line == {Begin, End, Text} \cup Dirs

Steps == {"idle", "copy", "place", "profile", "emptyProfile", "fillProfile", "receipt",
          "remove", "unlink", "dropReceipt"}

Results == {"none", "installed", "refused", "malformed", "nothing", "uninstalled", "stopped"}

\* Types, and never more than one receipt.
TypeOK ==
    /\ bin \in [Dirs -> [Names -> Releases \cup {Absent, Other}]]
    /\ receipt \subseteq Receipts
    /\ \A r, s \in receipt : r = s
    /\ profile \in [Shells -> Seq(Line)]
    /\ command \in {"install", "uninstall"}
    /\ opts \in Options
    /\ pc \in Steps
    /\ todo \in Seq(Names)
    /\ updated \in Seq(Line)
    /\ result \in Results
    /\ commands \in 0..MaxCommands
    /\ acts \in 0..MaxActs
    /\ lines \in [Shells -> Nat]
    /\ lost \subseteq Shells
    /\ touched \in BOOLEAN /\ unseen \in BOOLEAN

Init ==
    /\ bin = [d \in Dirs |-> [n \in Names |-> Absent]]
    /\ receipt = {}
    /\ profile = [s \in Shells |-> <<Text>>]
    /\ command = "uninstall" /\ opts \in Options /\ pc = "idle"
    /\ opts.force = FALSE /\ opts.path = FALSE
    /\ todo = <<>> /\ updated = <<>> /\ result = "none"
    /\ commands = 0 /\ acts = 0
    /\ lines = [s \in Shells |-> 1] /\ lost = {}
    /\ touched = FALSE /\ unseen = FALSE

-----------------------------------------------------------------------------
\* The PATH block in a profile (path.go).

IndexOf(text, mark) ==
    LET at == {i \in DOMAIN text : text[i] = mark}
    IN  IF at = {} THEN 0 ELSE CHOOSE i \in at : \A j \in at : i <= j

Malformed(text) ==
    LET start == IndexOf(text, Begin) end == IndexOf(text, End)
    IN  (start = 0) # (end = 0) \/ end < start

\* Fault: a block that is there stays, and one more is added.
ShellFragmentAppends(text, entry) == text \o <<Begin, entry, End>>

\* The block replaces the one that is there, or follows the text.
ShellFragment(text, entry) ==
    LET start == IndexOf(text, Begin)
        block == <<Begin, entry, End>>
    IN  IF start = 0 THEN text \o block
        ELSE SubSeq(text, 1, start - 1) \o block
             \o SubSeq(text, IndexOf(text, End) + 1, Len(text))

RemoveShellFragment(text) ==
    LET start == IndexOf(text, Begin)
    IN  IF start = 0 THEN text
        ELSE SubSeq(text, 1, start - 1) \o SubSeq(text, IndexOf(text, End) + 1, Len(text))

-----------------------------------------------------------------------------

Goto(step) == pc' = step /\ UNCHANGED result

Return(answer) == pc' = "idle" /\ result' = answer

Start(name, options) ==
    /\ pc = "idle"
    /\ commands < MaxCommands
    /\ commands' = commands + 1
    /\ command' = name
    /\ opts' = options
    /\ todo' = Targets
    /\ touched' = FALSE
    /\ UNCHANGED <<disk, updated, acts, lines, lost, unseen>>

During(step) ==
    /\ pc = step
    /\ UNCHANGED <<command, opts, commands, acts, lines, touched>>

StartInstall(options) == Start("install", options) /\ Goto("copy")

\* Fault: a file that is there is taken for the one to copy.
UpToDateWhenThere(name) == bin[opts.dir][name] # Absent

UpToDate(name) == bin[opts.dir][name] = opts.release

AfterCopy == IF Len(todo) > 1 THEN "copy" ELSE IF opts.path THEN "profile" ELSE "receipt"

\* copyAtomic looks at what is in the place of the next binary.
CheckTarget ==
    /\ During("copy")
    /\ LET n == Head(todo) IN
       \/ UpToDate(n) /\ Goto(AfterCopy) /\ todo' = Tail(todo)
       \/ /\ ~UpToDate(n) /\ (bin[opts.dir][n] = Absent \/ opts.force)
          /\ Goto("place") /\ UNCHANGED todo
       \/ /\ ~UpToDate(n) /\ bin[opts.dir][n] # Absent /\ ~opts.force
          /\ Return("refused") /\ todo' = Tail(todo)
    /\ unseen' = FALSE
    /\ UNCHANGED <<disk, updated, lost>>

\* And renames the copy over whatever is there by now.
PlaceBinary ==
    /\ During("place")
    /\ bin' = [bin EXCEPT ![opts.dir][Head(todo)] = opts.release]
    /\ Goto(AfterCopy)
    /\ todo' = Tail(todo)
    /\ UNCHANGED <<receipt, profile, updated, lost, unseen>>

\* The profile of the shell in SHELL is read, and what to write is made up; an
\* uninstall that would write the same goes on.
ReadProfile ==
    /\ During("profile")
    /\ LET text == profile[opts.shell]
           new == IF command = "install" THEN ShellFragment(text, opts.dir)
                  ELSE RemoveShellFragment(text)
       IN  \/ Malformed(text) /\ Return("malformed") /\ UNCHANGED updated
           \/ ~Malformed(text) /\ command = "uninstall" /\ new = text
              /\ Goto("remove") /\ UNCHANGED updated
           \/ ~Malformed(text) /\ (command = "uninstall" => new # text)
              /\ Goto("emptyProfile") /\ updated' = new
    /\ UNCHANGED <<disk, todo, lost, unseen>>

EmptyProfile ==
    /\ During("emptyProfile")
    /\ profile' = [profile EXCEPT ![opts.shell] = <<>>]
    /\ Goto("fillProfile")
    /\ UNCHANGED <<bin, receipt, todo, updated, lost, unseen>>

FillProfile ==
    /\ During("fillProfile")
    /\ profile' = [profile EXCEPT ![opts.shell] = updated]
    /\ Goto(IF command = "install" THEN "receipt" ELSE "remove")
    /\ updated' = <<>>
    /\ UNCHANGED <<bin, receipt, todo, lost, unseen>>

\* There is one place for a receipt.
Replaced(new) == {new}

WriteReceipt ==
    /\ During("receipt")
    /\ receipt' = Replaced([root |-> opts.dir, hash |-> [n \in Names |-> opts.release],
                            method |-> IF opts.path THEN "shell" ELSE "none"])
    /\ Return("installed")
    /\ UNCHANGED <<bin, profile, todo, updated, lost, unseen>>

\* path is the negation of --keep-path.
StartUninstall(shell, path) ==
    /\ Start("uninstall", [opts EXCEPT !.shell = shell, !.path = path, !.force = FALSE])
    /\ \/ receipt = {} /\ Return("nothing")
       \/ \E r \in receipt : Goto(IF path /\ r.method = "shell" THEN "profile" ELSE "remove")

\* Fault: the hash that was recorded is not looked at.
OwnedByName(r, name) == bin[r.root][name] # Absent

\* The file's bytes are those the receipt has.
Owned(r, name) == bin[r.root][name] = r.hash[name]

\* Fault: the receipt goes when there is a binary left to deal with.
LastEarly == Len(todo) <= 2

Last == Len(todo) = 1

AfterRemove == IF Last THEN "dropReceipt" ELSE "remove"

\* Uninstall looks at the next binary; one that is not the receipt's stays.
CheckBinary ==
    /\ During("remove")
    /\ \E r \in receipt :
         \/ Owned(r, Head(todo)) /\ Goto("unlink") /\ UNCHANGED todo
         \/ ~Owned(r, Head(todo)) /\ Goto(AfterRemove) /\ todo' = Tail(todo)
    /\ unseen' = FALSE
    /\ UNCHANGED <<disk, updated, lost>>

\* And removes whatever is there by now; when nothing is, the step fails.
UnlinkBinary ==
    /\ During("unlink")
    /\ \E r \in receipt : /\ bin[r.root][Head(todo)] # Absent
                         /\ bin' = [bin EXCEPT ![r.root][Head(todo)] = Absent]
    /\ Goto(AfterRemove)
    /\ todo' = Tail(todo)
    /\ UNCHANGED <<receipt, profile, updated, lost, unseen>>

DropReceipt ==
    /\ During("dropReceipt")
    /\ receipt' = {}
    /\ Return("uninstalled")
    /\ UNCHANGED <<bin, profile, todo, updated, lost, unseen>>

\* The process dies, or the step fails and the command gives up.
Stop ==
    /\ pc # "idle"
    /\ During(pc)
    /\ Return("stopped")
    /\ lost' = IF pc = "fillProfile" THEN lost \cup {opts.shell} ELSE lost
    /\ todo' = <<>> /\ updated' = <<>>
    /\ UNCHANGED <<disk, unseen>>

-----------------------------------------------------------------------------

Act ==
    /\ acts < MaxActs
    /\ acts' = acts + 1
    /\ touched' = TRUE
    /\ UNCHANGED <<receipt, call, commands>>

\* The command is about to write over, or to remove, this file.
Threatened(d, n) ==
    /\ todo # <<>> /\ n = Head(todo)
    /\ \/ pc = "place" /\ d = opts.dir
       \/ pc = "unlink" /\ \E r \in receipt : d = r.root

\* The user removes a binary or puts a file of their own in its place.
UserChanges(d, n, content) ==
    /\ Act
    /\ bin' = [bin EXCEPT ![d][n] = content]
    /\ unseen' = (unseen \/ Threatened(d, n))
    /\ UNCHANGED <<profile, lines, lost>>

\* The user edits a profile.
EditProfile(s, text) ==
    /\ Act
    /\ profile' = [profile EXCEPT ![s] = text]
    /\ lost' = IF pc \in {"emptyProfile", "fillProfile"} /\ opts.shell = s
               THEN lost \cup {s} ELSE lost
    /\ UNCHANGED <<bin, unseen>>

UserAppends(s) ==
    /\ EditProfile(s, Append(profile[s], Text))
    /\ lines' = [lines EXCEPT ![s] = @ + 1]

\* One of the marks goes.
UserBreaks(s) ==
    /\ \E i \in DOMAIN profile[s] :
         /\ profile[s][i] \in {Begin, End}
         /\ EditProfile(s, SubSeq(profile[s], 1, i - 1)
                           \o SubSeq(profile[s], i + 1, Len(profile[s])))
    /\ UNCHANGED lines

Next ==
    \/ \E options \in Options : StartInstall(options)
    \/ CheckTarget
    \/ PlaceBinary
    \/ ReadProfile
    \/ EmptyProfile
    \/ FillProfile
    \/ WriteReceipt
    \/ \E shell \in Shells, path \in BOOLEAN : StartUninstall(shell, path)
    \/ CheckBinary
    \/ UnlinkBinary
    \/ DropReceipt
    \/ Stop
    \/ \E d \in Dirs, n \in Names, content \in {Absent, Other} : UserChanges(d, n, content)
    \/ \E s \in Shells : UserAppends(s) \/ UserBreaks(s)

Spec == Init /\ [][Next]_vars
-----------------------------------------------------------------------------

Count(text, item) == Cardinality({i \in DOMAIN text : text[i] = item})

\* A profile keeps the user's own lines, all of them, and has at most one of
\* ai-prov's blocks, through installs into other directories, marks the user
\* broke, uninstalls and commands that died; while it is being written, and
\* when the writing was cut short or raced, it may not.
ProfileIsUsers ==
    \A s \in Shells \ lost :
        (pc = "fillProfile" /\ opts.shell = s)
        \/ (Count(profile[s], Text) = lines[s] /\ Count(profile[s], Begin) <= 1)

\* An install that ends well, whatever installs, refusals and interruptions
\* came before it, leaves a receipt that describes what is on disk, and the
\* block for its directory in the profile.
InstalledIsRecorded ==
    (pc = "idle" /\ result = "installed" /\ ~touched) =>
        \E r \in receipt :
            /\ bin[r.root] = r.hash
            /\ r.root = opts.dir
            /\ r.method = "shell" =>
                 LET text == profile[opts.shell] IN SubSeq(text, IndexOf(text, Begin),
                                                     IndexOf(text, End)) = <<Begin, r.root, End>>

\* A file of the user's own is never removed, and never replaced but by an
\* install with --force, unless the user put it there between the command's look
\* at that very name and its next step (installer.go:105-139, 222-235).
ForeignIsKept ==
    [][\A d \in Dirs, n \in Names :
         (bin[d][n] = Other /\ bin'[d][n] # Other) =>
            acts' # acts \/ unseen \/ (command = "install" /\ opts.force)]_vars

\* A command removes nothing but binaries the receipt lists with these bytes
\* (installer.go:214-215 "Uninstall removes only receipt-listed binaries whose
\* bytes still match the recorded hash").
OnlyMatchingIsRemoved ==
    [][\A d \in Dirs, n \in Names :
         (bin[d][n] # Absent /\ bin'[d][n] = Absent /\ acts' = acts) =>
            \E r \in receipt : r.root = d /\ r.hash[n] = bin[d][n]]_vars

\* The receipt goes last, so that an uninstall that died can be run again:
\* none of its binaries is left, nor the block in the profile it looked into,
\* unless it was told to keep that.
ReceiptGoesLast ==
    [][\A r \in receipt \ receipt' :
         receipt' = {} =>
            /\ \A n \in Names : bin[r.root][n] # r.hash[n]
            /\ (r.method = "shell" /\ opts.path) => Count(profile[opts.shell], Begin) = 0]_vars
=============================================================================
