----------------------------- MODULE LicenseTool -----------------------------
(* The commands of license-processor/src/main.c: which licenses it stores   *)
(* and what its exit status says. A tool works on a copy of the device that *)
(* it reads when it starts, several may run at once (FlashStore has the     *)
(* device in detail). What the license library decides is a part of the     *)
(* license: the device it is for, and whether it verifies and parses.       *)
EXTENDS Naturals

CONSTANTS
  LtTool,       \* runs of the tool that may go on at the same time
  LtLicense,    \* the licenses
  LtFirst       \* the licenses that may be stored at first

LtLicenses == [id : Nat, device : {"this", "other"}, verifies : BOOLEAN, parses : BOOLEAN]

ASSUME LtAssumption ==
  /\ LtFirst \subseteq LtLicense /\ LtLicense \subseteq LtLicenses
  /\ \A l \in LtFirst : l.device = "this" /\ l.parses

NoLicense == [id |-> 0, device |-> "other", verifies |-> FALSE, parses |-> FALSE]

VARIABLES
  ltDevice,    \* the license on the device
  ltAt,        \* each tool: "out", "init", "command", "sync", "reload", "done"
  ltAsked,     \* the command and its license
  ltRead,      \* history: the license that was read from the device
  ltCopy,      \* the license in the tool's copy of the device
  ltCur,       \* cur_license and what was parsed of it
  ltRes,       \* res: "unset", "ok" for 0, "failed" for another status
  ltSynced     \* history: iot_flash_hw_sync was called

ltVars == <<ltDevice, ltAt, ltAsked, ltRead, ltCopy, ltCur, ltRes, ltSynced>>

NoCommand == [name |-> "get", license |-> NoLicense]

LtInit ==
  /\ ltDevice \in LtFirst
  /\ ltAt = [p \in LtTool |-> "out"]
  /\ ltAsked = [p \in LtTool |-> NoCommand]
  /\ ltRead = [p \in LtTool |-> NoLicense]
  /\ ltCopy = ltRead /\ ltCur = ltRead
  /\ ltRes = [p \in LtTool |-> "unset"]
  /\ ltSynced = [p \in LtTool |-> FALSE]

LtMoves(p, from, to) == ltAt[p] = from /\ ltAt' = [ltAt EXCEPT ![p] = to]

\* _get_command: a text that cannot be decoded ends the tool at once, as do
\* missing parameters. Then the device is read, or cannot be read.
LtStart(p) ==
  /\ LtMoves(p, "out", "init")
  /\ \E l \in LtLicense, name \in {"save", "verify"} :
       ltAsked' = [ltAsked EXCEPT ![p] = [name |-> name, license |-> l]]
  /\ \E read \in {ltDevice, NoLicense} : ltRead' = [ltRead EXCEPT ![p] = read]
  /\ ltCopy' = [ltCopy EXCEPT ![p] = ltRead'[p]]
  /\ UNCHANGED <<ltDevice, ltCur, ltRes, ltSynced>>

\* The command is 'Get' if not other: the rest is as in LtStart.
LtStartGet(p) ==
  /\ LtMoves(p, "out", "init")
  /\ ltRead' = [ltRead EXCEPT ![p] = ltDevice]
  /\ ltCopy' = [ltCopy EXCEPT ![p] = ltDevice]
  /\ UNCHANGED <<ltDevice, ltAsked, ltCur, ltRes, ltSynced>>

\* A module cannot be initialised, or the license not be loaded: the tool
\* returns res, which is not set: its status is any.
LtNotLoaded(p) ==
  /\ LtMoves(p, "init", "done")
  /\ UNCHANGED <<ltDevice, ltAsked, ltRead, ltCopy, ltCur, ltRes, ltSynced>>

\* _load_license.
LtLoad(p) ==
  /\ LtMoves(p, "init", "command")
  /\ ltCopy[p].parses
  /\ ltCur' = [ltCur EXCEPT ![p] = ltCopy[p]]
  /\ UNCHANGED <<ltDevice, ltAsked, ltRead, ltCopy, ltRes, ltSynced>>

LtResult(p, from, res) ==
  /\ LtMoves(p, from, "done")
  /\ ltRes' = [ltRes EXCEPT ![p] = res]
  /\ UNCHANGED <<ltDevice, ltAsked, ltRead, ltSynced>>

\* _cmd_get.
LtGet(p) ==
  /\ ltAsked[p].name = "get"
  /\ LtResult(p, "command", "ok")
  /\ UNCHANGED <<ltCopy, ltCur>>

\* Mutant of Matches: any license will do.
MatchesAny(l, cur) == l.parses

\* vs_license_matches with the data of the current license.
Matches(l, cur) == l.parses /\ l.device = cur.device

\* The checks of _cmd_save and _cmd_verify.
LtAccepts(p) == Matches(ltAsked[p].license, ltCur[p]) /\ ltAsked[p].license.verifies

\* _cmd_verify; it parses the license into the data of the current one.
LtVerify(p) ==
  /\ ltAsked[p].name = "verify"
  /\ LtAccepts(p)
  /\ LtResult(p, "command", "ok")
  /\ ltCur' = [ltCur EXCEPT ![p] = ltAsked[p].license]
  /\ UNCHANGED ltCopy

\* A license is refused that is not accepted; also one that is, when a key or
\* an element cannot be read.
LtRefused(p) ==
  /\ ltAsked[p].name # "get"
  /\ LtResult(p, "command", "failed")
  /\ UNCHANGED <<ltCopy, ltCur>>

\* vs_license_save fails, and may have changed the copy, which is not synced.
LtSaveFails(p) ==
  /\ ltAsked[p].name = "save"
  /\ LtAccepts(p)
  /\ LtResult(p, "command", "failed")
  /\ \E left \in {ltCopy[p], ltAsked[p].license, NoLicense} :
       ltCopy' = [ltCopy EXCEPT ![p] = left]
  /\ UNCHANGED ltCur

\* Mutant of LtSave: the license is saved and synced before it is verified.
LtSaveStored(p) ==
  /\ ltAsked[p].name = "save" /\ ltAt[p] = "command"
  /\ Matches(ltAsked[p].license, ltCur[p])
  /\ ltCopy' = [ltCopy EXCEPT ![p] = ltAsked[p].license]
  /\ IF ltAsked[p].license.verifies
     THEN LtMoves(p, "command", "sync") /\ UNCHANGED <<ltDevice, ltRes, ltSynced>>
     ELSE /\ LtMoves(p, "command", "done")
          /\ ltDevice' = ltAsked[p].license
          /\ ltRes' = [ltRes EXCEPT ![p] = "failed"]
          /\ ltSynced' = [ltSynced EXCEPT ![p] = TRUE]
  /\ UNCHANGED <<ltAsked, ltRead, ltCur>>

\* _cmd_save: vs_license_save writes to the copy.
LtSave(p) ==
  /\ ltAsked[p].name = "save"
  /\ LtAccepts(p)
  /\ LtMoves(p, "command", "sync")
  /\ ltCopy' = [ltCopy EXCEPT ![p] = ltAsked[p].license]
  /\ UNCHANGED <<ltDevice, ltAsked, ltRead, ltCur, ltRes, ltSynced>>

\* iot_flash_hw_sync writes the copy, or fails, and returns 0.
LtSync(p) ==
  /\ LtMoves(p, "sync", "reload")
  /\ ltDevice' \in {ltCopy[p], ltDevice, NoLicense}
  /\ ltSynced' = [ltSynced EXCEPT ![p] = TRUE]
  /\ UNCHANGED <<ltAsked, ltRead, ltCopy, ltCur, ltRes>>

\* The license is loaded again from the copy; when that fails, the status is
\* that of a license that was refused.
LtReload(p) ==
  /\ \/ /\ ltCopy[p].parses
        /\ LtResult(p, "reload", "ok")
        /\ ltCur' = [ltCur EXCEPT ![p] = ltCopy[p]]
     \/ LtResult(p, "reload", "failed") /\ UNCHANGED ltCur
  /\ UNCHANGED ltCopy

\* The tool is killed, a sync broken off; or it is over and can be run again.
LtGone(p) ==
  /\ ltAt[p] # "out"
  /\ ltAt' = [ltAt EXCEPT ![p] = "out"]
  /\ ltDevice' \in {ltDevice} \cup (IF ltAt[p] = "sync" THEN {NoLicense} ELSE {})
  /\ ltAsked' = [ltAsked EXCEPT ![p] = NoCommand]
  /\ ltRead' = [ltRead EXCEPT ![p] = NoLicense]
  /\ ltCopy' = [ltCopy EXCEPT ![p] = NoLicense]
  /\ ltCur' = [ltCur EXCEPT ![p] = NoLicense]
  /\ ltRes' = [ltRes EXCEPT ![p] = "unset"]
  /\ ltSynced' = [ltSynced EXCEPT ![p] = FALSE]

LtNext == \E p \in LtTool :
  \/ LtStart(p) \/ LtStartGet(p) \/ LtNotLoaded(p) \/ LtLoad(p)
  \/ LtGet(p) \/ LtVerify(p) \/ LtRefused(p) \/ LtSaveFails(p) \/ LtSave(p)
  \/ LtSync(p) \/ LtReload(p) \/ LtGone(p)

LtSpec == LtInit /\ [][LtNext]_ltVars

(***************************************************************************)
(* Properties                                                              *)
(***************************************************************************)

Stored == LtLicense \cup {NoLicense}

LtTypeOK ==
  /\ ltDevice \in Stored
  /\ ltAt \in [LtTool -> {"out", "init", "command", "sync", "reload", "done"}]
  /\ ltAsked \in [LtTool -> [name : {"get", "save", "verify"}, license : Stored]]
  /\ {ltRead, ltCopy, ltCur} \subseteq [LtTool -> Stored]
  /\ ltRes \in [LtTool -> {"unset", "ok", "failed"}]
  /\ ltSynced \in [LtTool -> BOOLEAN]

\* However many licenses are saved one after the other or at once, by tools
\* that are killed or cannot write: each is compared only with the one before
\* it, yet the device never has a license of another device, nor one that does
\* not verify, the first one apart, which nobody verifies.
LicenseIsOurs ==
  ltDevice = NoLicense \/ (ltDevice.device = "this" /\ (ltDevice.verifies \/ ltDevice \in LtFirst))

\* What the exit status tells the script that ran the tool, if the tool came
\* to the command; otherwise res is not set. 0: the license of the command is
\* of this device and verifies, and if it was to be saved, it is in the copy,
\* which was synced. Not 0: the device was left alone, or a license that is of
\* this device and verifies was synced and could not be loaded again: of this
\* case the status does not tell that the license is stored.
ExitTellsTruth ==
  \A p \in LtTool :
    /\ (ltRes[p] = "ok" /\ ltAsked[p].name # "get") \/ ltSynced[p]
         => ltAsked[p].license.device = "this" /\ ltAsked[p].license.verifies
    /\ ltRes[p] = "ok" /\ ltAsked[p].name = "save" => ltSynced[p]
    /\ ltSynced[p] => ltAsked[p].name = "save" /\ ltCopy[p] = ltAsked[p].license
=============================================================================
