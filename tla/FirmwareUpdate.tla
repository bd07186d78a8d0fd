--------------------------- MODULE FirmwareUpdate ---------------------------
(* iotkit-impl/firmware/firmware-impl.c: a new program is collected in a    *)
(* file of its own; when the running program was told to restart, it backs  *)
(* itself up, moves the new program over itself, executes it, and restores  *)
(* the backup when that fails. A file is the sequence of its chunks. The    *)
(* shell commands run by system() are the environment: they may fail, which *)
(* the code notices only if system() itself does; so may remove() and the   *)
(* flush in fclose(), which it ignores. The process may be killed between   *)
(* any two steps, and a power cut loses of a file what the kernel has not   *)
(* written yet, since nothing is synced. (Renames and removals keep their   *)
(* order: to lose the last of them is to be cut off before it.) No program  *)
(* of the repository calls these functions: their caller is taken to        *)
(* restart only after every append of the last transfer returned            *)
(* VS_CODE_OK.                                                              *)
EXTENDS Naturals, Sequences

CONSTANTS
  Chunks,       \* of how many chunks a program consists
  MaxUpdates    \* bound: how many programs are sent

ASSUME FuAssumption == Chunks \in Nat \ {0} /\ MaxUpdates \in Nat

\* A program works, or cannot be executed, or starts and ends: it crashes, or
\* finds that its footer is of another device.
Kind == {"works", "noexec", "aborts"}
Program == [v : 0..MaxUpdates, kind : Kind]
FirstProgram == [v |-> 0, kind |-> "works"]

Image(p) == [i \in 1..Chunks |-> <<p, i>>]    \* no file: <<>>
Works(file) == \E p \in Program : p.kind = "works" /\ file = Image(p)
Whole(file) == \E p \in Program : file = Image(p)

VARIABLES
  fuAt,        \* "run"; in vs_firmware_nix_update: "backup", "move", "exec",
               \* "restore"; "start": the file of the program is to be started
  fuApp,       \* _self_path
  fuOld,       \* with .old
  fuNew,       \* with .new
  fuSent,      \* the program that is or was sent last
  fuCount,     \* how many of its chunks were appended, in a transfer that goes on
  fuOpen,      \* the transfer goes on
  fuDirty,     \* the files that the kernel has not written yet
  fuMissed     \* history: what went wrong unnoticed since a program was started
               \* that works, in the last transfer and in the update

fuVars == <<fuAt, fuApp, fuOld, fuNew, fuSent, fuCount, fuOpen, fuDirty, fuMissed>>
fuFiles == <<fuApp, fuOld, fuNew>>
fuSending == <<fuSent, fuCount, fuOpen>>

FuInit ==
  /\ fuAt = "start"
  /\ fuApp = Image(FirstProgram) /\ fuOld = <<>> /\ fuNew = <<>>
  /\ fuSent = FirstProgram /\ fuCount = 0 /\ fuOpen = FALSE
  /\ fuDirty = {} /\ fuMissed = {}

\* The file of the program is started: by execv, by bash, or at boot.
FuStarts ==
  /\ fuAt = "start" /\ Works(fuApp)
  /\ fuAt' = "run"
  /\ fuMissed' = {}
  /\ UNCHANGED <<fuFiles, fuSending, fuDirty>>

(***************************************************************************)
(* The transfer                                                            *)
(***************************************************************************)

\* What can go wrong in a transfer although every call returns VS_CODE_OK.
InTransfer == {"prepare", "append"}

\* vs_firmware_install_prepare_space_hal; when remove() fails, what is left of
\* an earlier transfer stays.
FuPrepare ==
  /\ fuAt = "run" /\ fuSent.v < MaxUpdates
  /\ \E k \in Kind : fuSent' = [v |-> fuSent.v + 1, kind |-> k]
  /\ fuCount' = 0 /\ fuOpen' = TRUE
  /\ \/ fuNew' = <<>> /\ fuMissed' = fuMissed \ InTransfer
     \/ fuNew # <<>> /\ fuNew' = fuNew /\ fuMissed' = (fuMissed \ InTransfer) \cup {"prepare"}
  /\ UNCHANGED <<fuAt, fuApp, fuOld, fuDirty>>

\* vs_firmware_install_append_data_hal: fclose writes the chunk, or fails
\* unnoticed with a part of it written or nothing; and an append that fails
\* ends the transfer.
FuAppend ==
  LET part == {fuNew, Append(fuNew, <<fuSent, 0>>)}
  IN /\ fuAt = "run" /\ fuOpen /\ fuCount < Chunks
     /\ \/ /\ fuNew' = Append(fuNew, <<fuSent, fuCount + 1>>)
           /\ fuCount' = fuCount + 1
           /\ UNCHANGED <<fuOpen, fuMissed>>
        \/ /\ fuNew' \in part
           /\ fuCount' = fuCount + 1
           /\ fuMissed' = fuMissed \cup {"append"}
           /\ UNCHANGED fuOpen
        \/ /\ fuNew' \in part
           /\ fuOpen' = FALSE /\ fuCount' = 0
           /\ UNCHANGED fuMissed
     /\ fuDirty' = fuDirty \cup {"new"}
     /\ UNCHANGED <<fuAt, fuApp, fuOld, fuSent>>

\* vs_app_restart; main leaves its sleep and calls vs_firmware_nix_update.
FuRestart ==
  /\ fuAt = "run" /\ fuOpen /\ fuCount = Chunks
  /\ fuAt' = "backup"
  /\ fuOpen' = FALSE /\ fuCount' = 0
  /\ UNCHANGED <<fuFiles, fuSent, fuDirty, fuMissed>>

\* The program ends without: vs_firmware_nix_update returns 0.
FuEnds ==
  /\ fuAt = "run"
  /\ fuAt' = "start"
  /\ fuOpen' = FALSE /\ fuCount' = 0
  /\ UNCHANGED <<fuFiles, fuSent, fuDirty, fuMissed>>

(***************************************************************************)
(* vs_firmware_nix_update                                                  *)
(***************************************************************************)

\* What may be left of a file that was not written to its end.
Torn(file) == {SubSeq(file, 1, n) : n \in 0..Len(file)}

\* What is left of .old by a cp that did not come to its end.
TornBackup == {fuOld} \cup Torn(fuApp)

\* Mutant of FuBackup: the program is moved to .old, not copied.
FuBackupMoves ==
  /\ fuAt = "backup"
  /\ fuOld' = fuApp /\ fuApp' = <<>> /\ fuAt' = "move"
  /\ UNCHANGED <<fuNew, fuSending, fuDirty, fuMissed>>

\* cp; it fails unnoticed; system() fails, and the program starts itself.
FuBackup ==
  /\ fuAt = "backup"
  /\ \/ /\ fuAt' = "move" /\ fuDirty' = fuDirty \cup {"old"}
        /\ \/ fuOld' = fuApp /\ UNCHANGED fuMissed
           \/ fuOld' \in TornBackup /\ fuMissed' = fuMissed \cup {"backup"}
     \/ fuAt' = "start" /\ UNCHANGED <<fuOld, fuDirty, fuMissed>>
  /\ UNCHANGED <<fuApp, fuNew, fuSending>>

\* After the file of the program was replaced by another, and this is gone.
Moved(from) ==
  (fuDirty \ {from, "app"}) \cup (IF from \in fuDirty THEN {"app"} ELSE {})

\* mv, which renames, and chmod; mv fails unnoticed; system() fails; chmod
\* fails: the program starts "itself", which is the new one.
FuMove ==
  /\ fuAt = "move"
  /\ \/ /\ fuApp' = fuNew /\ fuNew' = <<>> /\ fuDirty' = Moved("new")
        /\ \/ fuAt' = "exec" /\ UNCHANGED fuMissed
           \/ fuAt' = "start" /\ fuMissed' = fuMissed \cup {"chmod"}
     \/ fuAt' \in {"exec", "start"} /\ UNCHANGED <<fuApp, fuNew, fuDirty, fuMissed>>
  /\ UNCHANGED <<fuOld, fuSending>>

NoExec(file) == \E p \in Program : p.kind = "noexec" /\ file = Image(p)

\* execv: the process becomes the program of the file, or goes on.
FuExec ==
  /\ fuAt = "exec"
  /\ fuAt' \in {"restore"} \cup (IF NoExec(fuApp) THEN {} ELSE {"start"})
  /\ UNCHANGED <<fuFiles, fuSending, fuDirty, fuMissed>>

\* mv of the backup, which may fail, noticed or not.
FuRestore ==
  /\ fuAt = "restore"
  /\ fuAt' = "start"
  /\ \/ /\ fuOld # <<>>
        /\ fuApp' = fuOld /\ fuOld' = <<>> /\ fuDirty' = Moved("old")
        /\ UNCHANGED fuMissed
     \/ fuMissed' = fuMissed \cup {"restore"} /\ UNCHANGED <<fuApp, fuOld, fuDirty>>
  /\ UNCHANGED <<fuNew, fuSending>>

(***************************************************************************)
(* The end of the process                                                  *)
(***************************************************************************)

\* The update was broken off before the backup could be restored.
BrokenOff == IF fuAt \in {"exec", "restore"} THEN {"crash"} ELSE {}

\* A kill. In a cp it leaves a part of the backup.
FuCrash ==
  /\ fuAt # "start"
  /\ fuAt' = "start"
  /\ fuOpen' = FALSE /\ fuCount' = 0
  /\ fuOld' \in IF fuAt = "backup" THEN TornBackup ELSE {fuOld}
  /\ fuDirty' = fuDirty \cup (IF fuAt = "backup" THEN {"old"} ELSE {})
  /\ fuMissed' = fuMissed \cup BrokenOff
  /\ UNCHANGED <<fuApp, fuNew, fuSent>>

\* A power cut; after it the device boots.
FuPowerCut ==
  LET left(file, content) == IF file \in fuDirty THEN Torn(content) ELSE {content}
  IN /\ fuAt' = "start"
     /\ fuOpen' = FALSE /\ fuCount' = 0
     /\ fuApp' \in left("app", fuApp)
     /\ fuOld' \in left("old", fuOld)
     /\ fuNew' \in left("new", fuNew)
     /\ fuDirty' = {}
     /\ fuMissed' = fuMissed \cup BrokenOff
                     \cup (IF <<fuApp, fuOld>>' = <<fuApp, fuOld>> THEN {} ELSE {"power"})
     /\ UNCHANGED fuSent

\* The kernel writes what the programs have written.
FuWriteback ==
  /\ fuDirty # {} /\ fuDirty' = {}
  /\ UNCHANGED <<fuAt, fuFiles, fuSending, fuMissed>>

FuNext == \/ FuStarts \/ FuPrepare \/ FuAppend \/ FuRestart \/ FuEnds \/ FuBackup \/ FuMove
          \/ FuExec \/ FuRestore \/ FuCrash \/ FuPowerCut \/ FuWriteback

FuSpec == FuInit /\ [][FuNext]_fuVars

(***************************************************************************)
(* Properties                                                              *)
(***************************************************************************)

Mishaps == InTransfer \cup {"backup", "chmod", "restore", "crash", "power"}

FuTypeOK ==
  /\ fuAt \in {"run", "backup", "move", "exec", "restore", "start"}
  /\ {fuApp, fuOld, fuNew} \subseteq Seq(Program \X (0..Chunks))
  /\ fuSent \in Program
  /\ fuCount \in 0..Chunks
  /\ fuOpen \in BOOLEAN
  /\ fuDirty \subseteq {"app", "old", "new"}
  /\ fuMissed \subseteq Mishaps

\* Whatever was sent, and whatever failed and broke off, also in earlier
\* transfers and updates. Unless the backup failed unnoticed, or a power cut
\* came before the files were written: the file of the program or the backup
\* is a program that works, even after a transfer in which an error was
\* ignored; after any other, the file of the program is one whole program. And
\* the device is left with a program that cannot be executed only by a failed
\* chmod, by a failure in restoring the backup, or by the end of the process
\* or of the power at the wrong time.
UpdateRecovers ==
  /\ fuMissed \cap {"backup", "power"} = {} =>
       /\ Works(fuApp) \/ Works(fuOld)
       /\ fuMissed \cap InTransfer = {} => Whole(fuApp)
  /\ fuAt = "start" /\ NoExec(fuApp)
       => fuMissed \cap {"chmod", "restore", "crash", "power"} # {}
=============================================================================
