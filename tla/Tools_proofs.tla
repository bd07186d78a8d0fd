---------------------------- MODULE Tools_proofs ----------------------------
(* Proofs about the programs that run once and end, LicenseTool,            *)
(* FirmwareUpdate and FirmwareVerifier, and about the files of FileIo; and  *)
(* that MCStandalone, which checks them and EventGroup one beside the       *)
(* other, has the behaviours of each of them.                               *)
EXTENDS MCStandalone, EventGroup_proofs, SequenceTheorems

(***************************************************************************)
(* LicenseTool                                                             *)
(***************************************************************************)

\* A license that may be on the device, by LicenseIsOurs.
OurOwn(l) == l = NoLicense \/ (l.device = "this" /\ (l.verifies \/ l \in LtFirst))

\* What one tool has done so far: before it saves, its copy is what it read;
\* after, the license that it was asked to save and that it checked.
ToolInv(p) ==
  /\ OurOwn(ltRead[p]) /\ OurOwn(ltCopy[p])
  /\ ltAt[p] \in {"init", "command"} => ltCopy[p] = ltRead[p]
  /\ ltAt[p] = "command" => ltCur[p].device = "this"
  /\ ltAt[p] \in {"sync", "reload"} =>
       /\ ltCopy[p] = ltAsked[p].license
       /\ ltCopy[p].device = "this" /\ ltCopy[p].verifies /\ ltCopy[p].parses
  /\ ltAt[p] # "done" => ltRes[p] = "unset"
  /\ ltSynced[p] => ltAt[p] \in {"reload", "done"}
  /\ ltAt[p] = "reload" => ltSynced[p]
  /\ ltAt[p] \in {"sync", "reload"} => ltAsked[p].name = "save"
  /\ ltRes[p] = "ok" /\ ltAsked[p].name # "get"
       => ltAsked[p].license.device = "this" /\ ltAsked[p].license.verifies
  /\ ltRes[p] = "ok" /\ ltAsked[p].name = "save" => ltSynced[p]
  /\ ltSynced[p] =>
       /\ ltAsked[p].name = "save" /\ ltCopy[p] = ltAsked[p].license
       /\ ltCopy[p].device = "this" /\ ltCopy[p].verifies

LtInv == LtTypeOK /\ OurOwn(ltDevice) /\ \A p \in LtTool : ToolInv(p)

LEMMA NoLicenseKind == NoLicense.device = "other" /\ ~NoLicense.parses /\ ~NoLicense.verifies
BY DEF NoLicense

LEMMA LtInitially == LtInit => LtInv
BY LtAssumption, NoLicenseKind
   DEF LtInit, LtInv, LtTypeOK, ToolInv, OurOwn, Stored, NoCommand

\* What a step of a tool does to its own variables and to the device, and that
\* it leaves those of the other tools alone.
LEMMA OthersKeep ==
  ASSUME LtInv, NEW p \in LtTool,
         LtTypeOK', OurOwn(ltDevice)', ToolInv(p)',
         \A q \in LtTool \ {p} : /\ ltAt'[q] = ltAt[q] /\ ltAsked'[q] = ltAsked[q]
                                 /\ ltRead'[q] = ltRead[q] /\ ltCopy'[q] = ltCopy[q]
                                 /\ ltCur'[q] = ltCur[q] /\ ltRes'[q] = ltRes[q]
                                 /\ ltSynced'[q] = ltSynced[q]
  PROVE  LtInv'
<1>1. ASSUME NEW q \in LtTool \ {p} PROVE ToolInv(q)'
  BY <1>1 DEF LtInv, ToolInv, OurOwn
<1> QED
  BY <1>1 DEF LtInv

LEMMA LtStepKeeps == ASSUME LtInv, NEW p \in LtTool PROVE
  /\ LtStart(p) => LtInv'
  /\ LtStartGet(p) => LtInv'
  /\ LtNotLoaded(p) => LtInv'
  /\ LtLoad(p) => LtInv'
  /\ LtGet(p) => LtInv'
  /\ LtVerify(p) => LtInv'
  /\ LtRefused(p) => LtInv'
  /\ LtSaveFails(p) => LtInv'
  /\ LtSave(p) => LtInv'
  /\ LtSync(p) => LtInv'
  /\ LtReload(p) => LtInv'
  /\ LtGone(p) => LtInv'
<1> USE NoLicenseKind DEF LtInv, LtTypeOK, LtMoves, LtResult
<1>1. ASSUME LtStart(p) PROVE LtInv'
  BY <1>1, OthersKeep DEF LtStart, ToolInv, OurOwn, Stored
<1>2. ASSUME LtStartGet(p) PROVE LtInv'
  BY <1>2, OthersKeep DEF LtStartGet, ToolInv, OurOwn
<1>3. ASSUME LtNotLoaded(p) PROVE LtInv'
  BY <1>3, OthersKeep DEF LtNotLoaded, ToolInv, OurOwn
<1>4. ASSUME LtLoad(p) PROVE LtInv'
  BY <1>4, OthersKeep DEF LtLoad, ToolInv, OurOwn
<1>5. ASSUME LtGet(p) PROVE LtInv'
  BY <1>5, OthersKeep DEF LtGet, ToolInv, OurOwn
<1>6. ASSUME LtVerify(p) PROVE LtInv'
  BY <1>6, OthersKeep DEF LtVerify, ToolInv, OurOwn, LtAccepts, Matches
<1>7. ASSUME LtRefused(p) PROVE LtInv'
  BY <1>7, OthersKeep DEF LtRefused, ToolInv, OurOwn
<1>8. ASSUME LtSaveFails(p) PROVE LtInv'
  BY <1>8, OthersKeep DEF LtSaveFails, ToolInv, OurOwn, LtAccepts, Matches, Stored
<1>9. ASSUME LtSave(p) PROVE LtInv'
  BY <1>9, OthersKeep DEF LtSave, ToolInv, OurOwn, LtAccepts, Matches
<1>10. ASSUME LtSync(p) PROVE LtInv'
  BY <1>10, OthersKeep DEF LtSync, ToolInv, OurOwn, Stored
<1>11. ASSUME LtReload(p) PROVE LtInv'
  <2>1. LtTypeOK' /\ OurOwn(ltDevice)' /\ ToolInv(p)'
    <3>1. CASE LtResult(p, "reload", "failed")
      BY <1>11, <3>1 DEF LtReload, ToolInv, OurOwn
    <3>2. CASE LtResult(p, "reload", "ok") /\ ltCur' = [ltCur EXCEPT ![p] = ltCopy[p]]
      BY <1>11, <3>2 DEF LtReload, ToolInv, OurOwn
    <3> QED
      BY <1>11, <3>1, <3>2 DEF LtReload
  <2> QED
    BY <1>11, <2>1, OthersKeep DEF LtReload
<1>12. ASSUME LtGone(p) PROVE LtInv'
  BY <1>12, OthersKeep DEF LtGone, ToolInv, OurOwn, Stored, NoCommand
<1> QED
  BY <1>1, <1>2, <1>3, <1>4, <1>5, <1>6, <1>7, <1>8, <1>9, <1>10, <1>11, <1>12

\* The inductive invariant of LicenseTool, its types included.
THEOREM LtInvariant == LtSpec => []LtInv
<1>1. ASSUME LtInv, [LtNext]_ltVars PROVE LtInv'
  <2>1. CASE LtNext
    BY <1>1, <2>1, LtStepKeeps DEF LtNext
  <2>2. CASE UNCHANGED ltVars
    BY <1>1, <2>2 DEF ltVars, LtInv, LtTypeOK, ToolInv, OurOwn
  <2> QED
    BY <1>1, <2>1, <2>2
<1> QED
  BY <1>1, LtInitially, PTL DEF LtSpec

\* Whatever licenses are offered, and however many tools save them, fail and
\* are killed: the device has only licenses of its own that verify.
THEOREM LtLicenseIsOurs == LtSpec => []LicenseIsOurs
<1>1. LtInv => LicenseIsOurs
  BY DEF LtInv, OurOwn, LicenseIsOurs
<1> QED
  BY <1>1, LtInvariant, PTL

\* The exit status of a tool that came to its command is the truth, but for a
\* license that was synced and could not be loaded again.
THEOREM LtExitTellsTruth == LtSpec => []ExitTellsTruth
<1>1. LtInv => ExitTellsTruth
  BY DEF LtInv, ToolInv, ExitTellsTruth
<1> QED
  BY <1>1, LtInvariant, PTL

(***************************************************************************)
(* FirmwareUpdate                                                          *)
(***************************************************************************)

\* The first n chunks of a program.
ChunksOf(p, n) == [i \in 1..n |-> <<p, i>>]

\* The backup, whole or torn: a beginning of a program that works.
BackedUp(file) ==
  \E p \in Program, n \in 0..Chunks : p.kind = "works" /\ file = ChunksOf(p, n)

\* No error was ignored in the transfer.
Clean == fuMissed \cap InTransfer = {}

\* The program that runs is the one of its file until the file is replaced; the
\* file of the new program has what was sent of it, nothing of an earlier one,
\* if no error was ignored.
FuInv ==
  /\ fuSent \in Program /\ fuCount \in 0..Chunks /\ fuOpen \in BOOLEAN
  /\ fuAt \in {"run", "backup", "move", "exec", "restore", "start"}
  /\ BackedUp(fuOld)
  /\ fuOpen => fuAt = "run" /\ (Clean => fuNew = ChunksOf(fuSent, fuCount))
  /\ fuAt \in {"backup", "move"} /\ Clean => Whole(fuNew)
  /\ fuAt \in {"run", "backup", "move"} => Works(fuApp)
  /\ fuAt \in {"move", "exec", "restore"} /\ "backup" \notin fuMissed => Works(fuOld)
  /\ UpdateRecovers

LEMMA ImageOfChunks == \A p : Image(p) = ChunksOf(p, Chunks)
BY DEF Image, ChunksOf

\* Appending the next chunk.
LEMMA NextChunk ==
  ASSUME NEW p, NEW n \in Nat
  PROVE  Append(ChunksOf(p, n), <<p, n + 1>>) = ChunksOf(p, n + 1)
<1>1. Len(ChunksOf(p, n)) = n
  BY DEF ChunksOf
<1>2. Append(ChunksOf(p, n), <<p, n + 1>>)
        = [i \in 1..(n + 1) |-> IF i \in 1..n THEN <<p, i>> ELSE <<p, n + 1>>]
  BY <1>1 DEF ChunksOf
<1>3. ASSUME NEW i \in 1..(n + 1), i \notin 1..n PROVE i = n + 1
  BY <1>3
<1> QED
  BY <1>2, <1>3 DEF ChunksOf

\* A beginning of a program that is itself a program is this one.
LEMMA OneImage ==
  ASSUME NEW p \in Program, NEW q \in Program, NEW n \in 0..Chunks, ChunksOf(p, n) = Image(q)
  PROVE  p = q
<1>1. n \in Nat /\ Chunks \in Nat /\ Chunks >= 1
  BY FuAssumption
<1>2. Len(ChunksOf(p, n)) = n /\ Len(Image(q)) = Chunks
  BY <1>1 DEF ChunksOf, Image
<1>3. n = Chunks
  BY <1>2
<1>4. ChunksOf(p, n)[1] = <<p, 1>> /\ Image(q)[1] = <<q, 1>>
  BY <1>1, <1>3 DEF ChunksOf, Image
<1> QED
  BY <1>4

\* What is left of a beginning of a program is a beginning of it.
LEMMA TornChunks ==
  ASSUME NEW p, NEW n \in Nat, NEW left \in Torn(ChunksOf(p, n))
  PROVE  \E m \in 0..n : left = ChunksOf(p, m)
<1>1. Len(ChunksOf(p, n)) = n
  BY DEF ChunksOf
<1>2. PICK m \in 0..n : left = SubSeq(ChunksOf(p, n), 1, m)
  BY <1>1 DEF Torn
<1>3. SubSeq(ChunksOf(p, n), 1, m) = [i \in 1..m |-> ChunksOf(p, n)[i]]
  BY <1>1 DEF ChunksOf
<1>4. \A i \in 1..m : ChunksOf(p, n)[i] = <<p, i>>
  BY DEF ChunksOf
<1>5. left = ChunksOf(p, m)
  BY <1>2, <1>3, <1>4 DEF ChunksOf
<1> QED
  BY <1>5

LEMMA TornBackedUp ==
  ASSUME NEW file, BackedUp(file)
  PROVE  ~NoExec(file) /\ \A left \in Torn(file) : BackedUp(left)
<1>1. PICK p \in Program, n \in 0..Chunks : p.kind = "works" /\ file = ChunksOf(p, n)
  BY DEF BackedUp
<1>2. ~NoExec(file)
  BY <1>1, OneImage DEF NoExec
<1>3. ASSUME NEW left \in Torn(file) PROVE BackedUp(left)
  <2>1. n \in Nat /\ 0..n \subseteq 0..Chunks
    BY FuAssumption
  <2>2. PICK m \in 0..n : left = ChunksOf(p, m)
    BY <1>1, <1>3, <2>1, TornChunks
  <2> QED
    BY <1>1, <2>1, <2>2 DEF BackedUp
<1> QED
  BY <1>2, <1>3

\* A program that works is a whole one, and can be executed.
LEMMA WorksExecutes ==
  ASSUME NEW file, Works(file)
  PROVE  Whole(file) /\ ~NoExec(file) /\ BackedUp(file)
<1>1. PICK p \in Program : p.kind = "works" /\ file = Image(p)
  BY DEF Works
<1>2. Chunks \in 0..Chunks
  BY FuAssumption
<1>3. BackedUp(file)
  BY <1>1, <1>2, ImageOfChunks DEF BackedUp
<1> QED
  BY <1>1, <1>3, TornBackedUp DEF Whole

LEMMA FuInitially == FuInit => FuInv
<1>1. FirstProgram \in Program /\ FirstProgram.kind = "works"
  BY FuAssumption DEF FirstProgram, Program, Kind
<1>2. Works(Image(FirstProgram))
  BY <1>1 DEF Works
<1> SUFFICES ASSUME FuInit PROVE FuInv
  OBVIOUS
<1>3. Works(fuApp)
  BY <1>2 DEF FuInit
<1>4. Whole(fuApp) /\ ~NoExec(fuApp)
  BY <1>3, WorksExecutes
<1>5. 0 \in 0..Chunks
  BY FuAssumption
<1>6. BackedUp(fuOld)
  <2>1. ChunksOf(FirstProgram, 0) = <<>>
    BY DEF ChunksOf
  <2> QED
    BY <1>1, <1>5, <2>1 DEF FuInit, BackedUp
<1> QED
  BY <1>1, <1>3, <1>4, <1>5, <1>6 DEF FuInit, FuInv, UpdateRecovers

LEMMA FuStepKeeps == ASSUME FuInv, FuNext PROVE FuInv'
<1> USE DEF FuInv, fuFiles, fuSending
<1>0. 0 \in 0..Chunks
  BY FuAssumption
<1>1. ASSUME FuStarts PROVE FuInv'
  <2>1. Works(fuApp)'
    BY <1>1 DEF FuStarts, fuFiles
  <2>2. UpdateRecovers'
    BY <2>1, WorksExecutes DEF UpdateRecovers
  <2> QED
    BY <1>1, <2>1, <2>2 DEF FuStarts
<1>2. ASSUME FuPrepare PROVE FuInv'
  <2>1. fuSent' \in Program /\ fuCount' = 0
    BY <1>2, FuAssumption DEF FuPrepare, Program
  <2>2. ChunksOf(fuSent', 0) = <<>>
    BY DEF ChunksOf
  <2>3. Works(fuApp)'
    BY <1>2 DEF FuPrepare
  <2>4. UpdateRecovers'
    BY <2>3, WorksExecutes DEF UpdateRecovers
  <2>5. Clean' => fuNew' = <<>>
    BY <1>2 DEF FuPrepare, Clean, InTransfer
  <2> QED
    BY <1>0, <1>2, <2>1, <2>2, <2>3, <2>4, <2>5 DEF FuPrepare
<1>3. ASSUME FuAppend PROVE FuInv'
  <2>1. Works(fuApp)' /\ fuAt' = "run" /\ UNCHANGED <<fuApp, fuOld, fuSent>>
    BY <1>3 DEF FuAppend
  <2>2. UpdateRecovers'
    BY <2>1, WorksExecutes DEF UpdateRecovers
  <2>3. fuCount' \in 0..Chunks /\ fuOpen' \in BOOLEAN
    <3>1. fuCount \in 0..Chunks /\ fuCount < Chunks
          /\ (fuCount' = fuCount + 1 \/ fuCount' = 0)
      BY <1>3 DEF FuAppend
    <3>2. fuOpen' = fuOpen \/ fuOpen' = FALSE
      BY <1>3 DEF FuAppend
    <3>3. fuCount' \in 0..Chunks
      BY <1>0, <3>1, FuAssumption
    <3>4. fuOpen' \in BOOLEAN
      BY <3>2, Zenon
    <3> QED
      BY <3>3, <3>4
  <2>4. ASSUME fuOpen', Clean' PROVE fuNew' = ChunksOf(fuSent', fuCount')
    <3>1. fuNew' = Append(fuNew, <<fuSent, fuCount + 1>>) /\ fuCount' = fuCount + 1
          /\ fuMissed' = fuMissed /\ fuOpen
      BY <1>3, <2>4 DEF FuAppend, Clean, InTransfer
    <3>2. fuNew = ChunksOf(fuSent, fuCount)
      BY <2>4, <3>1 DEF Clean
    <3>3. fuCount \in Nat
      BY FuAssumption
    <3>4. Append(ChunksOf(fuSent, fuCount), <<fuSent, fuCount + 1>>) = ChunksOf(fuSent, fuCount + 1)
      BY <3>3, NextChunk
    <3> QED
      BY <2>1, <3>1, <3>2, <3>4
  <2> QED
    BY <2>1, <2>2, <2>3, <2>4
<1>4. ASSUME FuRestart PROVE FuInv'
  <2>1. Clean => Whole(fuNew)
    BY <1>4, ImageOfChunks DEF FuRestart, Whole
  <2>2. Works(fuApp)'
    BY <1>4 DEF FuRestart
  <2>3. UpdateRecovers'
    BY <2>2, WorksExecutes DEF UpdateRecovers
  <2> QED
    BY <1>0, <1>4, <2>1, <2>2, <2>3 DEF FuRestart, Clean
<1>5. ASSUME FuEnds PROVE FuInv'
  <2>1. UpdateRecovers'
    BY <1>5, WorksExecutes DEF FuEnds, UpdateRecovers
  <2> QED
    BY <1>0, <1>5, <2>1 DEF FuEnds
<1>6. ASSUME FuBackup PROVE FuInv'
  <2>1. Works(fuApp)' /\ UNCHANGED <<fuApp, fuNew, fuSending>>
    BY <1>6 DEF FuBackup
  <2>2. UpdateRecovers'
    BY <2>1, WorksExecutes DEF UpdateRecovers
  <2>3. BackedUp(fuOld)'
    <3>1. Works(fuApp)
      BY <1>6 DEF FuBackup
    <3>2. BackedUp(fuApp) /\ \A left \in Torn(fuApp) : BackedUp(left)
      BY <3>1, WorksExecutes, TornBackedUp
    <3>3. fuOld' \in {fuApp, fuOld} \cup Torn(fuApp)
      BY <1>6 DEF FuBackup, TornBackup
    <3> QED
      BY <3>2, <3>3
  <2>4. fuAt' = "move" /\ "backup" \notin fuMissed' => fuOld' = fuApp
    BY <1>6 DEF FuBackup
  <2>5. Clean' => Clean
    BY <1>6 DEF FuBackup, Clean
  <2>6. fuAt' \in {"move", "start"} /\ fuAt = "backup"
    BY <1>6 DEF FuBackup
  <2> QED
    BY <2>1, <2>2, <2>3, <2>4, <2>5, <2>6
<1>7. ASSUME FuMove PROVE FuInv'
  <2>1. fuAt = "move" /\ fuAt' \in {"exec", "start"} /\ UNCHANGED <<fuOld, fuSending>>
        /\ fuMissed \subseteq fuMissed'
    BY <1>7 DEF FuMove
  <2>2. "backup" \notin fuMissed' => Works(fuOld)'
    BY <2>1
  <2>3. Clean' => Whole(fuApp)'
    BY <1>7, WorksExecutes DEF FuMove, Clean
  <2>4. fuAt' = "start" /\ NoExec(fuApp)' => "chmod" \in fuMissed'
    BY <1>7, WorksExecutes DEF FuMove
  <2> QED
    BY <2>1, <2>2, <2>3, <2>4 DEF UpdateRecovers, Clean
<1>8. ASSUME FuExec PROVE FuInv'
  BY <1>8 DEF FuExec, UpdateRecovers, Clean
<1>9. ASSUME FuRestore PROVE FuInv'
  <2>1. fuAt = "restore" /\ fuAt' = "start" /\ UNCHANGED <<fuNew, fuSending>>
    BY <1>9 DEF FuRestore
  <2>2. BackedUp(<<>>)
    <3>1. ChunksOf(fuSent, 0) = <<>> /\ FirstProgram \in Program /\ FirstProgram.kind = "works"
          /\ ChunksOf(FirstProgram, 0) = <<>>
      BY FuAssumption DEF ChunksOf, FirstProgram, Program, Kind
    <3> QED
      BY <1>0, <3>1 DEF BackedUp
  <2>3. CASE fuApp' = fuOld /\ fuOld' = <<>> /\ fuMissed' = fuMissed
    <3>1. "backup" \notin fuMissed => Works(fuApp)'
      BY <2>1, <2>3
    <3>2. ~NoExec(fuApp)'
      BY <2>3, TornBackedUp
    <3>3. UpdateRecovers'
      BY <2>3, <3>1, <3>2, WorksExecutes DEF UpdateRecovers
    <3> QED
      BY <2>1, <2>2, <2>3, <3>3
  <2>4. CASE fuMissed' = fuMissed \cup {"restore"} /\ UNCHANGED <<fuApp, fuOld, fuDirty>>
    <3>1. UpdateRecovers'
      BY <2>4 DEF UpdateRecovers, InTransfer
    <3> QED
      BY <2>1, <2>4, <3>1
  <2> QED
    BY <1>9, <2>3, <2>4 DEF FuRestore
<1>10. ASSUME FuCrash PROVE FuInv'
  <2>1. fuAt' = "start" /\ fuOpen' = FALSE /\ fuCount' = 0 /\ UNCHANGED <<fuApp, fuNew, fuSent>>
    BY <1>10 DEF FuCrash
  <2>2. BackedUp(fuOld)'
    <3>1. fuAt = "backup" => Works(fuApp)
      OBVIOUS
    <3>2. fuAt = "backup" => \A left \in Torn(fuApp) : BackedUp(left)
      BY <3>1, WorksExecutes, TornBackedUp
    <3>3. fuOld' = fuOld \/ (fuAt = "backup" /\ fuOld' \in Torn(fuApp))
      BY <1>10 DEF FuCrash, TornBackup
    <3> QED
      BY <3>2, <3>3
  <2>3. UpdateRecovers'
    <3>1. CASE fuAt \in {"run", "backup", "move"}
      <4>1. Works(fuApp)'
        BY <2>1, <3>1
      <4> QED
        BY <4>1, WorksExecutes DEF UpdateRecovers
    <3>2. CASE fuAt \in {"exec", "restore"}
      <4>1. fuOld' = fuOld /\ fuMissed' = fuMissed \cup {"crash"}
        BY <1>10, <3>2 DEF FuCrash, BrokenOff
      <4> QED
        BY <2>1, <4>1 DEF UpdateRecovers, InTransfer
    <3> QED
      BY <1>10, <3>1, <3>2 DEF FuCrash
  <2> QED
    BY <1>0, <2>1, <2>2, <2>3
<1>11. ASSUME FuPowerCut PROVE FuInv'
  <2>1. fuAt' = "start" /\ fuOpen' = FALSE /\ fuCount' = 0 /\ fuSent' = fuSent
    BY <1>11 DEF FuPowerCut
  <2>2. BackedUp(fuOld)'
    <3>1. fuOld' \in {fuOld} \cup Torn(fuOld)
      BY <1>11 DEF FuPowerCut
    <3>2. \A left \in Torn(fuOld) : BackedUp(left)
      BY TornBackedUp
    <3> QED
      BY <3>1, <3>2
  <2>3. UpdateRecovers'
    <3>1. CASE "power" \in fuMissed'
      BY <3>1 DEF UpdateRecovers
    <3>2. CASE "power" \notin fuMissed'
      <4>1. fuApp' = fuApp /\ fuOld' = fuOld /\ fuMissed' = fuMissed \cup BrokenOff
        BY <1>11, <3>2 DEF FuPowerCut
      <4>2. CASE fuAt \in {"run", "backup", "move"}
        <5>1. Works(fuApp)'
          BY <4>1, <4>2
        <5> QED
          BY <5>1, WorksExecutes DEF UpdateRecovers
      <4>3. CASE fuAt \in {"exec", "restore"}
        <5>1. fuMissed' = fuMissed \cup {"crash"}
          BY <4>1, <4>3 DEF BrokenOff
        <5> QED
          BY <4>1, <5>1 DEF UpdateRecovers, InTransfer
      <4>4. CASE fuAt = "start"
        <5>1. fuMissed' = fuMissed
          BY <4>1, <4>4 DEF BrokenOff
        <5> QED
          BY <2>1, <4>1, <4>4, <5>1 DEF UpdateRecovers
      <4> QED
        BY <4>2, <4>3, <4>4
    <3> QED
      BY <3>1, <3>2
  <2> QED
    BY <1>0, <2>1, <2>2, <2>3
<1>12. ASSUME FuWriteback PROVE FuInv'
  BY <1>12 DEF FuWriteback, UpdateRecovers, Clean
<1> QED
  BY <1>1, <1>2, <1>3, <1>4, <1>5, <1>6, <1>7, <1>8, <1>9, <1>10, <1>11, <1>12 DEF FuNext

\* It is inductive.
LEMMA FuInvariant == FuSpec => []FuInv
<1>1. ASSUME FuInv, [FuNext]_fuVars PROVE FuInv'
  <2>1. CASE FuNext
    BY <1>1, <2>1, FuStepKeeps
  <2>2. CASE UNCHANGED fuVars
    BY <1>1, <2>2 DEF fuVars, FuInv, UpdateRecovers, Clean
  <2> QED
    BY <1>1, <2>1, <2>2
<1> QED
  BY <1>1, FuInitially, PTL DEF FuSpec

\* For programs of any number of chunks, and any number of updates: unless a
\* backup failed unnoticed or a power cut tore a file, the program or its
\* backup works, whatever the transfer has left.
THEOREM FuUpdateRecovers == FuSpec => []UpdateRecovers
<1>1. FuInv => UpdateRecovers
  BY DEF FuInv, UpdateRecovers
<1> QED
  BY <1>1, FuInvariant, PTL

\* The files are sequences of chunks, torn or not.
LEMMA FuTypesInitially == FuInit => FuTypeOK
<1> SUFFICES ASSUME FuInit PROVE FuTypeOK
  OBVIOUS
<1>1. FirstProgram \in Program
  BY FuAssumption DEF FirstProgram, Program, Kind
<1>2. Image(FirstProgram) \in [1..Chunks -> Program \X (0..Chunks)]
  BY <1>1, FuAssumption DEF Image
<1>3. Image(FirstProgram) \in Seq(Program \X (0..Chunks))
  BY <1>2, FuAssumption, SeqDef
<1>4. fuCount \in 0..Chunks
  BY FuAssumption DEF FuInit
<1>5. <<>> \in Seq(Program \X (0..Chunks))
  BY EmptySeq
<1>6. {fuApp, fuOld, fuNew} \subseteq Seq(Program \X (0..Chunks))
  BY <1>3, <1>5 DEF FuInit
<1> QED
  BY <1>1, <1>4, <1>6 DEF FuInit, FuTypeOK

LEMMA FuTypesStep == ASSUME FuInv, FuTypeOK, FuNext PROVE FuTypeOK'
<1> DEFINE Chunked == Seq(Program \X (0..Chunks))
<1>0. FuInv'
  BY FuStepKeeps
<1>1. fuAt' \in {"run", "backup", "move", "exec", "restore", "start"}
      /\ fuSent' \in Program /\ fuCount' \in 0..Chunks /\ fuOpen' \in BOOLEAN
  BY <1>0 DEF FuInv
<1>2. fuMissed' \subseteq Mishaps
  BY DEF FuTypeOK, Mishaps, InTransfer, BrokenOff, FuNext, FuStarts, FuPrepare, FuAppend,
         FuRestart, FuEnds, FuBackup, FuMove, FuExec, FuRestore, FuCrash, FuPowerCut, FuWriteback
<1>3. \A file \in Chunked : Torn(file) \subseteq Chunked
  <2> SUFFICES ASSUME NEW file \in Chunked, NEW n \in 0..Len(file)
               PROVE  SubSeq(file, 1, n) \in Chunked
    BY DEF Torn
  <2>1. n \in Int
    OBVIOUS
  <2>2. \A i \in 1..n : file[i] \in Program \X (0..Chunks)
    BY <2>1, ElementOfSeq
  <2> QED
    BY <2>1, <2>2, SubSeqProperties
<1>4. ASSUME FuAppend PROVE fuNew' \in Chunked
  <2>1. <<fuSent, fuCount + 1>> \in Program \X (0..Chunks)
        /\ <<fuSent, 0>> \in Program \X (0..Chunks)
    BY <1>4, FuAssumption DEF FuInv, FuAppend
  <2>2. fuNew \in Chunked
    BY DEF FuTypeOK
  <2>3. /\ Append(fuNew, <<fuSent, fuCount + 1>>) \in Chunked
        /\ Append(fuNew, <<fuSent, 0>>) \in Chunked
    BY <2>1, <2>2, AppendProperties
  <2> QED
    BY <1>4, <2>2, <2>3 DEF FuAppend
<1>5. fuApp' \in Chunked /\ fuOld' \in Chunked /\ fuNew' \in Chunked
  <2>1. <<>> \in Chunked
    BY EmptySeq
  <2>2. fuApp \in Chunked /\ fuOld \in Chunked /\ fuNew \in Chunked
    BY DEF FuTypeOK
  <2>3. Torn(fuApp) \subseteq Chunked /\ Torn(fuOld) \subseteq Chunked /\ Torn(fuNew) \subseteq Chunked
    BY <1>3, <2>2
  <2> HIDE DEF Chunked
  <2>4. CASE FuBackup \/ FuMove \/ FuRestore \/ FuCrash
    BY <2>1, <2>2, <2>3, <2>4 DEF FuBackup, FuMove, FuRestore, FuCrash, TornBackup, fuSending
  <2>5. CASE FuPowerCut
    BY <2>2, <2>3, <2>5 DEF FuPowerCut
  <2>6. CASE FuAppend
    BY <1>4, <2>2, <2>6 DEF FuAppend
  <2>7. CASE FuStarts \/ FuPrepare \/ FuRestart \/ FuEnds \/ FuExec \/ FuWriteback
    BY <2>1, <2>2, <2>7 DEF FuStarts, FuPrepare, FuRestart, FuEnds, FuExec, FuWriteback, fuFiles
  <2> QED
    BY <2>4, <2>5, <2>6, <2>7 DEF FuNext
<1>6. fuDirty' \subseteq {"app", "old", "new"}
  <2>1. fuDirty \subseteq {"app", "old", "new"}
    BY DEF FuTypeOK
  <2> QED
    BY <2>1 DEF Moved, FuNext, FuStarts, FuPrepare, FuAppend, FuRestart, FuEnds, FuBackup, FuMove,
                FuExec, FuRestore, FuCrash, FuPowerCut, FuWriteback
<1> QED
  BY <1>1, <1>2, <1>5, <1>6 DEF FuTypeOK

\* The variables of the update keep their types.
THEOREM FuTypeCorrect == FuSpec => []FuTypeOK
<1>1. FuInv /\ FuTypeOK /\ [FuNext]_fuVars => FuTypeOK'
  <2>1. UNCHANGED fuVars /\ FuTypeOK => FuTypeOK'
    BY DEF fuVars, FuTypeOK
  <2> QED
    BY <2>1, FuTypesStep
<1> QED
  BY <1>1, FuTypesInitially, FuInvariant, PTL DEF FuSpec

(***************************************************************************)
(* FirmwareVerifier                                                        *)
(***************************************************************************)

Unchanged == fvFile.v = fvFrom     \* since the size was read

\* What was hashed so far is the beginning of the file, if it is unchanged.
FvInv ==
  /\ fvAt \in {"args", "size", "chunks", "keys", "done"}
  /\ fvFile.v \in Nat \ {0} /\ fvFile.size \in Nat
  /\ fvSize \in Nat /\ fvFrom \in Nat /\ fvOffset \in Nat
  /\ fvFrom <= fvFile.v
  /\ fvAt \in {"args", "size"} => fvOffset = 0 /\ fvFrom = 0 /\ fvHashed = Content(1, 0)
  /\ fvAt = "chunks" => /\ fvOffset <= fvSize /\ 0 < fvSize
                        /\ (Unchanged => /\ fvSize = fvFile.size
                                         /\ fvHashed = Content(fvFile.v, fvOffset))
  /\ fvAt = "keys" /\ fvOffset = 0 => fvFrom = 0 /\ fvHashed = Text
  /\ fvAt = "keys" /\ fvOffset > 0 /\ Unchanged =>
       fvFile.size > 0 /\ fvHashed = Content(fvFile.v, fvFile.size)
  /\ VerdictIsRight

LEMMA EmptyContent == \A v, w : Content(v, 0) = Content(w, 0)
BY DEF Content

LEMMA ContentIsNotText ==
  ASSUME NEW v \in Nat \ {0}, NEW n \in Nat \ {0}
  PROVE  Content(v, n) # Text
<1>1. 1 \in 1..n /\ 1 \in 1..1
  OBVIOUS
<1>2. Content(v, n)[1] = <<v, 1>> /\ Text[1] = <<0, 1>>
  BY <1>1 DEF Content, Text
<1>3. v # 0
  OBVIOUS
<1> QED
  BY <1>2, <1>3

\* Of an unchanged file a chunk loads in the required length, and continues
\* what was hashed.
LEMMA ChunkContinues ==
  ASSUME FvInv, Unchanged, FvHashChunk
  PROVE  fvHashed' = Content(fvFile.v, fvOffset')
<1>1. ChunkSize \in Nat /\ ChunkSize <= fvFile.size /\ fvAt = "chunks"
  BY FvAssumption DEF FvHashChunk, FvInv, ChunkSize, Smaller
<1>2. ReadSize = ChunkSize
  BY <1>1 DEF ReadSize, Smaller, FvInv
<1>3. \A i \in 1..fvOffset : fvHashed[i] = <<fvFile.v, i>>
  BY <1>1 DEF FvInv, Content
<1>4. ASSUME NEW i \in 1..(fvOffset + ChunkSize), ~(i <= fvOffset)
      PROVE  ChunkByte(i - fvOffset) = <<fvFile.v, i>>
  <2>1. fvOffset \in Nat /\ i \in Nat
    BY <1>1 DEF FvInv
  <2>2. i - fvOffset <= ChunkSize /\ fvOffset + (i - fvOffset) = i
    BY <1>1, <2>1
  <2> QED
    BY <1>2, <2>2 DEF ChunkByte
<1>5. \A i \in 1..(fvOffset + ChunkSize) : i <= fvOffset => i \in 1..fvOffset
  BY <1>1 DEF FvInv
<1>6. fvHashed' = [i \in 1..(fvOffset + ChunkSize) |-> <<fvFile.v, i>>]
  BY <1>3, <1>4, <1>5 DEF FvHashChunk
<1> QED
  BY <1>6 DEF FvHashChunk, Content

\* With the whole file hashed, the keys decide as VerdictIsRight says.
LEMMA KeysDecide ==
  ASSUME fvHashed = Content(fvFile.v, fvFile.size)
  PROVE  Accepted <=> /\ fvSign.of = Content(fvFile.v, fvFile.size)
                      /\ fvSign.key \in Key
                      /\ 1..fvSign.key \subseteq fvLoads
BY DEF Accepted, Fits, Key

LEMMA FvInitially == FvInit => FvInv
BY FvAssumption, EmptyContent DEF FvInit, FvInv, VerdictIsRight, Content, Unchanged

LEMMA FvStepKeeps == ASSUME FvInv, FvNext PROVE FvInv'
<1>1. CASE FvFileCommand
  BY <1>1, FvAssumption DEF FvFileCommand, FvInv, VerdictIsRight, Unchanged
<1>2. CASE FvDataCommand
  BY <1>2 DEF FvDataCommand, FvInv, VerdictIsRight, Unchanged
<1>3. CASE FvInitFails
  BY <1>3, ContentIsNotText DEF FvInitFails, FvEnd, FvInv, VerdictIsRight, Unchanged
<1>4. CASE FvGetSize
  BY <1>4, EmptyContent DEF FvGetSize, FvInv, VerdictIsRight, Unchanged
<1>5. CASE FvNoFile
  BY <1>5 DEF FvNoFile, FvEnd, FvInv, VerdictIsRight, Unchanged
<1>6. CASE FvHashChunk
  <2>1. fvOffset' \in Nat /\ fvOffset' <= fvSize
    BY <1>6, FvAssumption DEF FvHashChunk, FvInv, ChunkSize, Smaller
  <2>2. Unchanged => fvHashed' = Content(fvFile.v, fvOffset')
    BY <1>6, ChunkContinues
  <2> QED
    BY <1>6, <2>1, <2>2 DEF FvHashChunk, FvInv, VerdictIsRight, Unchanged
<1>7. CASE FvChunkFails
  BY <1>7 DEF FvChunkFails, FvEnd, FvInv, VerdictIsRight, Unchanged
<1>8. CASE FvHashed
  <2>1. fvOffset = fvSize /\ fvOffset > 0
    BY <1>8 DEF FvHashed, FvInv
  <2> QED
    BY <1>8, <2>1 DEF FvHashed, FvInv, VerdictIsRight, Unchanged
<1>9. CASE FvFileChanges
  BY <1>9 DEF FvFileChanges, FvInv, VerdictIsRight, Unchanged
<1>10. CASE FvVerify
  BY <1>10, KeysDecide DEF FvVerify, FvEnd, FvInv, VerdictIsRight, Unchanged
<1> QED
  BY <1>1, <1>2, <1>3, <1>4, <1>5, <1>6, <1>7, <1>8, <1>9, <1>10 DEF FvNext

LEMMA FvInvariant == FvSpec => []FvInv
<1>1. ASSUME FvInv, [FvNext]_fvVars PROVE FvInv'
  <2>1. CASE FvNext
    BY <1>1, <2>1, FvStepKeeps
  <2>2. CASE UNCHANGED fvVars
    BY <1>1, <2>2 DEF fvVars, FvInv, VerdictIsRight, Unchanged
  <2> QED
    BY <1>1, <2>1, <2>2
<1> QED
  BY <1>1, FvInitially, PTL DEF FvSpec

\* For every chunk size and every file: a file that does not change is hashed
\* from its first byte to its last.
THEOREM FvHashesWholeFile == FvSpec => []HashesWholeFile
<1>1. FvInv => HashesWholeFile
  BY DEF FvInv, HashesWholeFile, Unchanged
<1> QED
  BY <1>1, FvInvariant, PTL

\* The verdict about a file that does not change is the right one, as far as
\* the keys before the right one load.
THEOREM FvVerdictIsRight == FvSpec => []VerdictIsRight
<1>1. FvInv => VerdictIsRight
  BY DEF FvInv
<1> QED
  BY <1>1, FvInvariant, PTL

\* The variables of the verifier keep their types: the offset never passes the
\* size that was read first.
THEOREM FvTypeCorrect == FvSpec => []FvTypeOK
<1>1. ASSUME FvInit PROVE FvTypeOK
  <2>1. fvFile.v = 1 /\ fvFile.size \in Nat
    BY <1>1, FvAssumption DEF FvInit
  <2>2. fvSize = 0 /\ fvFrom = 0 /\ fvOffset = 0 /\ 0 \in 0..0
    BY <1>1 DEF FvInit
  <2>3. verified \in BOOLEAN
    BY <1>1 DEF FvInit
  <2>4. fvLoads \subseteq Key /\ fvAt \in {"args", "size", "chunks", "keys", "done"}
    BY <1>1 DEF FvInit
  <2> QED
    BY <2>1, <2>2, <2>3, <2>4 DEF FvTypeOK
<1>2. ASSUME FvInv, FvTypeOK, [FvNext]_fvVars PROVE FvTypeOK'
  <2>1. CASE FvHashChunk
    <3>1. /\ fvOffset \in Nat /\ fvSize \in Nat /\ fvOffset < fvSize
          /\ fvOffset' = fvOffset + ChunkSize
          /\ UNCHANGED <<fvAt, fvFile, fvSize, fvFrom, fvLoads, verified>>
      BY <1>2, <2>1 DEF FvInv, FvHashChunk
    <3>2. ChunkSize \in Nat /\ ChunkSize <= fvSize - fvOffset
      BY <3>1, FvAssumption DEF ChunkSize, Smaller
    <3>3. fvOffset' \in 0..fvSize'
      BY <3>1, <3>2
    <3> QED
      BY <1>2, <3>1, <3>3 DEF FvTypeOK
  <2>2. CASE FvFileCommand \/ FvDataCommand
    BY <1>2, <2>2, FvAssumption DEF FvTypeOK, FvFileCommand, FvDataCommand
  <2>3. CASE FvGetSize \/ FvFileChanges
    BY <1>2, <2>3, FvAssumption DEF FvInv, FvTypeOK, FvGetSize, FvFileChanges
  <2>4. CASE FvInitFails \/ FvNoFile \/ FvChunkFails \/ FvHashed
    BY <1>2, <2>4 DEF FvTypeOK, FvInitFails, FvNoFile, FvChunkFails, FvHashed, FvEnd
  <2>5. CASE FvVerify
    BY <1>2, <2>5 DEF FvTypeOK, FvVerify, FvEnd, Accepted
  <2>6. CASE UNCHANGED fvVars
    BY <1>2, <2>6 DEF FvTypeOK, fvVars
  <2> QED
    BY <1>2, <2>1, <2>2, <2>3, <2>4, <2>5, <2>6 DEF FvNext
<1> QED
  BY <1>1, <1>2, FvInvariant, PTL DEF FvSpec

(***************************************************************************)
(* FileIo                                                                  *)
(***************************************************************************)

\* What was written last is at the start, and nothing gets shorter.
LEMMA OverLen ==
  ASSUME NEW S, NEW new \in Seq(S), NEW old \in Seq(S)
  PROVE  /\ Over(new, old) \in Seq(S)
         /\ Len(new) <= Len(Over(new, old))
         /\ Len(old) <= Len(Over(new, old))
         /\ SubSeq(Over(new, old), 1, Len(new)) = new
<1>1. SubSeq(old, Len(new) + 1, Len(old)) \in Seq(S)
  OBVIOUS
<1>2. Over(new, old) \in Seq(S) /\ Len(new) <= Len(Over(new, old)) /\ Len(old) <= Len(Over(new, old))
  BY <1>1 DEF Over
<1>3. SubSeq(Over(new, old), 1, Len(new)) = new
  BY <1>1, <1>2 DEF Over
<1> QED
  BY <1>2, <1>3

\* A file that fopen has emptied holds exactly what is written.
LEMMA OverNothing ==
  ASSUME NEW S, NEW new \in Seq(S)
  PROVE  Over(new, <<>>) = new
<1>1. SubSeq(<<>>, Len(new) + 1, Len(<<>>)) = <<>>
  OBVIOUS
<1> QED
  BY <1>1 DEF Over

\* The static buffer after one more byte was copied to it behind p others.
LEMMA CopyByte ==
  ASSUME NEW S, NEW buffer \in Seq(S), NEW b \in S, NEW p \in Nat, p <= Len(buffer)
  PROVE  LET copied == Over(Append(SubSeq(buffer, 1, p), b), buffer)
         IN /\ copied \in Seq(S)
            /\ Len(buffer) <= Len(copied) /\ p + 1 <= Len(copied)
            /\ copied[p + 1] = b
            /\ \A i \in 1..p : copied[i] = buffer[i]
<1> DEFINE begin == SubSeq(buffer, 1, p)
           new == Append(begin, b)
           rest == SubSeq(buffer, Len(new) + 1, Len(buffer))
<1>1. begin \in Seq(S) /\ Len(begin) = p /\ \A i \in 1..p : begin[i] = buffer[i]
  OBVIOUS
<1> HIDE DEF begin
<1>2. new \in Seq(S) /\ Len(new) = p + 1 /\ new[p + 1] = b /\ \A i \in 1..p : new[i] = buffer[i]
  BY <1>1
<1> HIDE DEF new
<1>3. rest \in Seq(S)
  BY <1>2
<1> HIDE DEF rest
<1>4. \A i \in 1..(p + 1) : (new \o rest)[i] = new[i]
  BY <1>2, <1>3
<1>5. (new \o rest)[p + 1] = b /\ \A i \in 1..p : (new \o rest)[i] = buffer[i]
  BY <1>2, <1>4
<1>6. Over(new, buffer) = new \o rest
  BY DEF Over, rest
<1>7. Over(new, buffer) \in Seq(S) /\ Len(new) <= Len(Over(new, buffer))
      /\ Len(buffer) <= Len(Over(new, buffer))
  BY <1>2, OverLen
<1> QED
  BY <1>2, <1>5, <1>6, <1>7 DEF new, begin

\* A buffer that begins with all bytes of a sequence begins with the sequence.
LEMMA SameBegin ==
  ASSUME NEW S, NEW buffer \in Seq(S), NEW q \in Seq(S), Len(q) <= Len(buffer),
         \A i \in 1..Len(q) : buffer[i] = q[i]
  PROVE  SubSeq(buffer, 1, Len(q)) = q
<1>1. SubSeq(buffer, 1, Len(q)) \in Seq(S) /\ Len(SubSeq(buffer, 1, Len(q))) = Len(q)
  OBVIOUS
<1>2. \A i \in 1..Len(q) : SubSeq(buffer, 1, Len(q))[i] = q[i]
  OBVIOUS
<1> QED
  BY <1>1, <1>2

\* The buffer that vs_files_write builds byte by byte is what the write means,
\* for every length, offset and old content.
LEMMA MergedIsMeant ==
  ASSUME NEW t \in IoThread, NEW old \in Seq(Byte), NEW offset \in Nat, NEW k \in Nat
  PROVE  Merged(t, old, offset, k) = Meant(t, old, offset, k)
         /\ Merged(t, old, offset, k) \in Seq(Byte)
<1> DEFINE head == [i \in 1..offset |-> IF i <= Len(old) THEN old[i] ELSE Fill]
           body == [i \in 1..k |-> t]
           new == head \o body
           rest == SubSeq(old, Len(new) + 1, Len(old))
<1>1. head \in Seq(Byte) /\ Len(head) = offset
  BY DEF Byte
<1>2. body \in Seq(Byte) /\ Len(body) = k
  BY DEF Byte
<1>3. new \in Seq(Byte) /\ Len(new) = offset + k
  BY <1>1, <1>2
<1>4. \A i \in 1..(offset + k) :
        new[i] = IF offset < i THEN t ELSE IF i <= Len(old) THEN old[i] ELSE Fill
  BY <1>1, <1>2
<1> HIDE DEF head, body, new
<1>5. rest \in Seq(Byte) /\ Len(rest) = (IF Len(old) > offset + k THEN Len(old) - (offset + k) ELSE 0)
  BY <1>3
<1>6. \A i \in 1..Len(rest) : rest[i] = old[offset + k + i]
  <2> SUFFICES ASSUME NEW i \in 1..Len(rest) PROVE rest[i] = old[offset + k + i]
    OBVIOUS
  <2>1. Len(old) \in Nat /\ i \in 1..(Len(old) - (offset + k)) /\ offset + k \in Nat
    BY <1>5
  <2> QED BY <1>3, <2>1
<1> HIDE DEF rest
<1>7. Meant(t, old, offset, k) = new \o rest
  BY DEF Meant, Over, new, head, body, rest
<1>8. new \o rest \in Seq(Byte) /\ Len(new \o rest) = NewSize(old, offset, k)
  BY <1>3, <1>5 DEF NewSize
<1>9. \A i \in 1..NewSize(old, offset, k) :
        (new \o rest)[i] = IF offset < i /\ i <= offset + k THEN t
                           ELSE IF i <= Len(old) THEN old[i] ELSE Fill
  <2> SUFFICES ASSUME NEW i \in 1..NewSize(old, offset, k)
               PROVE  (new \o rest)[i] = IF offset < i /\ i <= offset + k THEN t
                           ELSE IF i <= Len(old) THEN old[i] ELSE Fill
    OBVIOUS
  <2>1. CASE i <= offset + k
    <3>1. (new \o rest)[i] = new[i]
      BY <1>3, <1>5, <2>1 DEF NewSize
    <3> QED BY <3>1, <1>4, <2>1 DEF NewSize
  <2>2. CASE i > offset + k
    <3>1. (new \o rest)[i] = rest[i - (offset + k)] /\ i - (offset + k) \in 1..Len(rest) /\ i <= Len(old)
      BY <1>3, <1>5, <2>2 DEF NewSize
    <3> QED BY <3>1, <1>6, <2>2
  <2>3. i <= offset + k \/ i > offset + k
    <3>1. i \in Nat /\ offset + k \in Nat
      BY DEF NewSize
    <3> QED BY <3>1
  <2> QED BY <2>1, <2>2, <2>3
<1>10. \A s \in Seq(Byte) : s = [i \in 1..Len(s) |-> s[i]]
  OBVIOUS
<1>11. Merged(t, old, offset, k) = [i \in 1..NewSize(old, offset, k) |-> (new \o rest)[i]]
  BY <1>9 DEF Merged
<1>12. new \o rest = [i \in 1..NewSize(old, offset, k) |-> (new \o rest)[i]]
  BY <1>8, <1>10
<1> QED
  BY <1>7, <1>8, <1>11, <1>12

\* What every thread is in the middle of.
IoThreadInv(t) ==
  /\ ioAt[t] = "out" => ioJob[t] = NoFile
  /\ ioAt[t] = "read" => ioJob[t] \in IoFile
  /\ ioAt[t] # "opened" => ioPos[t] = 0
  /\ ioPos[t] <= Len(ioBuf[t]) /\ ioPos[t] <= Len(ioStatic)

\* A file that nothing has spoilt: at most one thread writes it, what it holds
\* is right, what it has copied so far is still there, and until it has opened
\* the file, the file is what it was; from then on it is empty.
IoFileInv(f) ==
  /\ \A t, u \in IoThread : ioJob[t] = f /\ ioJob[u] = f => t = u
  /\ (\A t \in IoThread : ioJob[t] = f => ioAt[t] = "read") => ioFile[f] = ioTrue[f]
  /\ \A t \in IoThread : ioJob[t] = f =>
       /\ ioBuf[t] = ioMeant[t]
       /\ ioAt[t] # "read" => ioFile[f] = <<>>
       /\ \A i \in 1..ioPos[t] : ioStatic[i] = ioBuf[t][i]

IoInv == IoTypeOK /\ (\A t \in IoThread : IoThreadInv(t)) /\ (\A f \in IoFile \ ioSpoilt : IoFileInv(f))

\* No file exists and no thread works.
LEMMA IoInitially == IoInit => IoInv
<1> SUFFICES ASSUME IoInit PROVE IoInv
  OBVIOUS
<1>1. IoTypeOK
  <2>1. [i \in 1..MaxLen |-> Fill] \in Seq(Byte)
    BY IoAssumption DEF Byte
  <2>2. ioFile \in [IoFile -> Seq(Byte) \cup {Missing}]
    BY <2>1 DEF IoInit
  <2> QED
    BY <2>2, IoAssumption DEF IoInit, IoTypeOK
<1>2. \A t \in IoThread : IoThreadInv(t)
  BY DEF IoInit, IoThreadInv
<1>3. \A f \in IoFile : IoFileInv(f)
  BY IoAssumption DEF IoInit, IoFileInv
<1> QED
  BY <1>1, <1>2, <1>3 DEF IoInv

\* The only writer of a file prepares from what the file truly holds, unless
\* it could not read the file, which is spoilt.
LEMMA IoBeginKeeps ==
  ASSUME IoInv, NEW t \in IoThread, NEW f \in IoFile, NEW offset \in Nat, NEW n \in Nat,
         NEW old \in Seq(Byte), IoBegins(t, f, old, offset, n),
         ioSpoilt' = ioSpoilt \/ ioSpoilt' = ioSpoilt \cup {f},
         f \notin ioSpoilt' => old = Bytes(ioFile[f]) /\ \A u \in IoThread : ioJob[u] # f
  PROVE  IoInv'
<1> USE IoAssumption DEF IoBegins, IoMoves, IoInv
<1>1. Bytes(ioTrue[f]) \in Seq(Byte)
  BY DEF IoTypeOK, Bytes
<1>2. /\ Merged(t, old, offset, n) \in Seq(Byte)
      /\ Meant(t, Bytes(ioTrue[f]), offset, n) \in Seq(Byte)
      /\ Merged(t, old, offset, n) = Meant(t, old, offset, n)
  <2>1. \A q \in Seq(Byte) : Merged(t, q, offset, n) = Meant(t, q, offset, n)
                             /\ Merged(t, q, offset, n) \in Seq(Byte)
    BY MergedIsMeant
  <2> QED
    BY <1>1, <2>1
<1>3. IoTypeOK'
  <2>1. ioSpoilt' \subseteq IoFile
    BY DEF IoTypeOK
  <2> QED
    BY <1>2, <2>1 DEF IoTypeOK
<1>4. \A u \in IoThread : IoThreadInv(u)'
  <2> SUFFICES ASSUME NEW u \in IoThread PROVE IoThreadInv(u)'
    OBVIOUS
  <2>1. IoThreadInv(u) /\ ioPos' = ioPos /\ ioStatic' = ioStatic
    OBVIOUS
  <2>2. CASE u = t
    <3>1. ioPos[t] = 0 /\ ioAt'[t] = "read" /\ ioJob'[t] = f /\ ioBuf'[t] \in Seq(Byte)
      BY <1>2, <2>1, <2>2 DEF IoThreadInv, IoTypeOK
    <3>2. Len(ioBuf'[t]) >= 0 /\ Len(ioStatic) >= 0
      BY <3>1 DEF IoTypeOK
    <3> QED
      BY <2>1, <2>2, <3>1, <3>2 DEF IoThreadInv
  <2>3. CASE u # t
    BY <2>1, <2>3 DEF IoThreadInv, IoTypeOK
  <2> QED
    BY <2>2, <2>3
<1>5. ASSUME NEW g \in (IoFile \ ioSpoilt)' PROVE IoFileInv(g)'
  <2>1. g \in IoFile \ ioSpoilt /\ IoFileInv(g)
    BY <1>5
  <2>2. CASE g = f
    <3>1. \A u \in IoThread : ioJob[u] # f
      BY <1>5, <2>2
    <3>2. ioFile[f] = ioTrue[f] /\ old = Bytes(ioFile[f])
      BY <1>5, <2>1, <2>2, <3>1 DEF IoFileInv
    <3>3. \A u \in IoThread : ioJob'[u] = f => u = t
      BY <3>1 DEF IoTypeOK
    <3>4. ioBuf'[t] = ioMeant'[t] /\ ioAt'[t] = "read"
      BY <1>2, <3>2 DEF IoTypeOK
    <3>5. ioPos'[t] = 0
      BY DEF IoThreadInv
    <3>6. ioFile' = ioFile /\ ioTrue' = ioTrue
      OBVIOUS
    <3>7. \A i \in 1..ioPos'[t] : FALSE
      BY <3>5
    <3> QED
      BY <2>2, <3>2, <3>3, <3>4, <3>6, <3>7 DEF IoFileInv
  <2>3. CASE g # f
    <3>1. \A u \in IoThread : ioJob'[u] = g => u # t /\ ioJob[u] = g
      BY <2>3 DEF IoTypeOK
    <3>2. \A u \in IoThread : ioJob[u] = g => u # t
      BY <2>1 DEF IoThreadInv
    <3>3. \A u \in IoThread : ioJob'[u] = g <=> ioJob[u] = g
      BY <2>3, <3>1, <3>2 DEF IoTypeOK
    <3>4. \A u \in IoThread : ioJob[u] = g =>
            ioAt'[u] = ioAt[u] /\ ioBuf'[u] = ioBuf[u] /\ ioMeant'[u] = ioMeant[u]
      BY <3>2 DEF IoTypeOK
    <3> HIDE DEF IoBegins, IoMoves, IoInv
    <3>5. ioFile' = ioFile /\ ioTrue' = ioTrue /\ ioStatic' = ioStatic /\ ioPos' = ioPos
      BY DEF IoBegins
    <3> QED
      BY <2>1, <3>3, <3>4, <3>5 DEF IoFileInv
  <2> QED
    BY <2>2, <2>3
<1> QED
  BY <1>3, <1>4, <1>5

LEMMA IoReadKeeps ==
  ASSUME IoInv, NEW t \in IoThread, NEW f \in IoFile, NEW offset \in Nat, NEW n \in Nat
  PROVE  IoRead(t, f, offset, n) \/ IoReadMisses(t, f, offset, n) => IoInv'
<1>1. Bytes(ioFile[f]) \in Seq(Byte) /\ <<>> \in Seq(Byte)
  BY DEF IoInv, IoTypeOK, Bytes
<1>2. ASSUME IoRead(t, f, offset, n) PROVE IoInv'
  <2>1. /\ ioSpoilt' = ioSpoilt \/ ioSpoilt' = ioSpoilt \cup {f}
        /\ f \notin ioSpoilt' => \A u \in IoThread : ioJob[u] # f
    BY <1>2, IoAssumption DEF IoRead, Spoils
  <2> QED
    BY <1>1, <1>2, <2>1, IoBeginKeeps DEF IoRead
<1>3. ASSUME IoReadMisses(t, f, offset, n) PROVE IoInv'
  <2>1. ioSpoilt' = ioSpoilt \cup {f} /\ f \in ioSpoilt'
    BY <1>3, IoAssumption DEF IoReadMisses, Spoils
  <2> QED
    BY <1>1, <1>3, <2>1, IoBeginKeeps DEF IoReadMisses
<1> QED
  BY <1>2, <1>3

\* The file is empty from here on.
LEMMA IoOpenKeeps ==
  ASSUME IoInv, NEW t \in IoThread, IoOpen(t)
  PROVE  IoInv'
<1> USE IoAssumption DEF IoOpen, IoMoves, IoInv
<1>1. ioJob[t] \in IoFile
  BY DEF IoThreadInv
<1>2. IoTypeOK'
  BY <1>1 DEF IoTypeOK
<1>3. \A u \in IoThread : IoThreadInv(u)'
  BY DEF IoThreadInv, IoTypeOK
<1>4. ASSUME NEW g \in (IoFile \ ioSpoilt)' PROVE IoFileInv(g)'
  <2>1. g \in IoFile \ ioSpoilt /\ IoFileInv(g)
    OBVIOUS
  <2>2. CASE g = ioJob[t]
    BY <2>1, <2>2 DEF IoFileInv, IoTypeOK
  <2>3. CASE g # ioJob[t]
    BY <2>1, <2>3 DEF IoFileInv, IoTypeOK
  <2> QED
    BY <2>2, <2>3
<1> QED
  BY <1>2, <1>3, <1>4

\* One more byte of the thread is in the static buffer; whoever had copied a
\* byte to its place has it spoilt.
LEMMA IoFwriteKeeps ==
  ASSUME IoInv, NEW t \in IoThread, IoFwrite(t)
  PROVE  IoInv'
<1> USE IoAssumption DEF IoFwrite, Spoils, IoInv
<1>1. /\ ioBuf[t] \in Seq(Byte) /\ ioStatic \in Seq(Byte) /\ ioPos[t] \in Nat
      /\ ioPos[t] <= Len(ioStatic)
  BY DEF IoTypeOK, IoThreadInv
<1>2. ioPos[t] + 1 \in 1..Len(ioBuf[t]) /\ ioBuf[t][ioPos[t] + 1] \in Byte
  <2>1. ioPos[t] + 1 \in 1..Len(ioBuf[t])
    BY <1>1
  <2> QED
    BY <1>1, <2>1
<1>3. /\ ioStatic' \in Seq(Byte)
      /\ Len(ioStatic) <= Len(ioStatic') /\ ioPos[t] + 1 <= Len(ioStatic')
      /\ ioStatic'[ioPos[t] + 1] = ioBuf[t][ioPos[t] + 1]
      /\ \A i \in 1..ioPos[t] : ioStatic'[i] = ioStatic[i]
  <2> DEFINE b == ioBuf[t][ioPos[t] + 1]
             p == ioPos[t]
  <2>1. ioStatic' = Over(Append(SubSeq(ioStatic, 1, p), b), ioStatic)
    OBVIOUS
  <2>2. b \in Byte /\ p \in Nat /\ p <= Len(ioStatic) /\ ioStatic \in Seq(Byte)
    BY <1>1, <1>2
  <2> HIDE DEF b, p
  <2>3. LET copied == Over(Append(SubSeq(ioStatic, 1, p), b), ioStatic)
        IN /\ copied \in Seq(Byte)
           /\ Len(ioStatic) <= Len(copied) /\ p + 1 <= Len(copied)
           /\ copied[p + 1] = b
           /\ \A i \in 1..p : copied[i] = ioStatic[i]
    BY <2>2, CopyByte
  <2> QED
    BY <2>1, <2>3 DEF b, p
<1>4. /\ ioPos' = [ioPos EXCEPT ![t] = @ + 1] /\ ioPos \in [IoThread -> Nat]
      /\ UNCHANGED <<ioFile, ioAt, ioJob, ioBuf, ioMeant, ioTrue>>
  BY DEF IoTypeOK
<1>5. IoTypeOK'
  BY <1>3, <1>4 DEF IoTypeOK
<1>6. \A u \in IoThread : IoThreadInv(u)'
  <2> SUFFICES ASSUME NEW u \in IoThread PROVE IoThreadInv(u)'
    OBVIOUS
  <2>1. /\ IoThreadInv(u) /\ ioBuf[u] \in Seq(Byte) /\ ioPos[u] \in Nat
        /\ Len(ioBuf[u]) \in Nat /\ Len(ioStatic) \in Nat /\ Len(ioStatic') \in Nat
    BY <1>1, <1>3 DEF IoTypeOK
  <2>2. CASE u = t
    BY <1>2, <1>3, <1>4, <2>1, <2>2 DEF IoThreadInv
  <2>3. CASE u # t
    <3>1. ioPos'[u] = ioPos[u] /\ ioPos[u] <= Len(ioStatic')
      BY <1>3, <1>4, <2>1, <2>3 DEF IoThreadInv
    <3> QED
      BY <1>4, <2>1, <3>1 DEF IoThreadInv
  <2> QED
    BY <2>2, <2>3
<1>7. ASSUME NEW g \in (IoFile \ ioSpoilt)' PROVE IoFileInv(g)'
  <2>1. g \in IoFile \ ioSpoilt /\ IoFileInv(g)
    BY <1>7
  <2>2. \A u \in IoThread : ioJob[u] = g => ~ (ioPos[u] > ioPos[t])
    BY <1>7
  <2>3. ASSUME NEW u \in IoThread, ioJob[u] = g, NEW i \in 1..ioPos'[u]
        PROVE  ioStatic'[i] = ioBuf[u][i]
    <3>1. \A k \in 1..ioPos[u] : ioStatic[k] = ioBuf[u][k]
      BY <2>1, <2>3 DEF IoFileInv
    <3>2. ioPos[u] \in Nat /\ ioPos[u] <= ioPos[t]
      BY <1>1, <1>4, <2>2, <2>3
    <3>3. ASSUME i \in 1..ioPos[u] PROVE ioStatic'[i] = ioBuf[u][i]
      <4>1. i \in 1..ioPos[t]
        BY <1>1, <3>2, <3>3
      <4> QED
        BY <1>3, <3>1, <3>3, <4>1
    <3>4. CASE u = t
      <4>1. i \in 1..ioPos[t] \/ i = ioPos[t] + 1
        BY <1>1, <1>4, <3>4
      <4> QED
        BY <1>3, <3>3, <3>4, <4>1
    <3>5. CASE u # t
      BY <1>4, <3>3, <3>5
    <3> QED
      BY <3>4, <3>5
  <2> HIDE DEF IoFwrite, Spoils, IoInv
  <2> QED
    BY <1>4, <2>1, <2>3 DEF IoFileInv
<1> QED
  BY <1>5, <1>6, <1>7

\* What a return does to the files that the thread did not write.
LEMMA IoReturnKeepsOthers ==
  ASSUME IoInv, NEW t \in IoThread, NEW from, IoReturns(t, from),
         NEW g \in IoFile \ ioSpoilt, g # ioJob[t], ioFile'[g] = ioFile[g],
         \A u \in IoThread \ {t} : ioPos'[u] = ioPos[u],
         \A u \in IoThread \ {t} : ioPos[u] > 0 => ioStatic' = ioStatic
  PROVE  IoFileInv(g)'
<1> USE IoAssumption DEF IoReturns, IoMoves, IoInv
<1>1. IoFileInv(g)
  OBVIOUS
<1>2. \A u \in IoThread : ioJob'[u] = g <=> ioJob[u] = g
  BY DEF IoTypeOK
<1>3. \A u \in IoThread : ioJob[u] = g => u # t /\ ioAt'[u] = ioAt[u] /\ ioBuf'[u] = ioBuf[u]
                                          /\ ioMeant'[u] = ioMeant[u]
  BY DEF IoTypeOK
<1>4. ioTrue'[g] = ioTrue[g]
  OBVIOUS
<1>5. ASSUME NEW u \in IoThread, ioJob[u] = g, NEW i \in 1..ioPos'[u]
      PROVE  ioStatic'[i] = ioBuf[u][i]
  <2>1. u # t /\ ioPos'[u] = ioPos[u] /\ ioPos[u] \in Nat
    BY <1>3, <1>5 DEF IoTypeOK
  <2>2. ioPos[u] > 0
    BY <1>5, <2>1
  <2>3. ioStatic' = ioStatic
    BY <2>1, <2>2
  <2> QED
    BY <1>1, <1>5, <2>1, <2>3 DEF IoFileInv
<1> HIDE DEF IoReturns, IoMoves, IoInv
<1> QED
  BY <1>1, <1>2, <1>3, <1>4, <1>5 DEF IoFileInv

\* The types after a return.
LEMMA IoReturnKeepsTypes ==
  ASSUME IoInv, NEW t \in IoThread, NEW from, IoReturns(t, from)
  PROVE  /\ ioAt' \in [IoThread -> {"out", "read", "opened"}]
         /\ ioJob' \in [IoThread -> IoFile \cup {NoFile}]
         /\ {ioBuf, ioMeant}' \subseteq [IoThread -> Seq(Byte)]
         /\ ioTrue' \in [IoFile -> Seq(Byte) \cup {Missing}]
BY DEF IoInv, IoTypeOK, IoReturns, IoMoves

\* The threads after a return that leaves the thread no byte in the buffer.
LEMMA IoReturnKeepsThreads ==
  ASSUME IoInv, NEW t \in IoThread, NEW from, IoReturns(t, from), IoTypeOK',
         ioPos'[t] = 0, \A u \in IoThread \ {t} : ioPos'[u] = ioPos[u],
         \A u \in IoThread \ {t} : ioPos[u] > 0 => ioStatic' = ioStatic
  PROVE  \A u \in IoThread : IoThreadInv(u)'
<1> SUFFICES ASSUME NEW u \in IoThread PROVE IoThreadInv(u)'
  OBVIOUS
<1>1. IoThreadInv(u) /\ ioPos[u] \in Nat /\ Len(ioBuf'[u]) \in Nat /\ Len(ioStatic') \in Nat
  BY DEF IoInv, IoTypeOK
<1>2. CASE u = t
  <2>1. ioAt'[t] = "out" /\ ioJob'[t] = NoFile
    BY DEF IoReturns, IoMoves, IoInv, IoTypeOK
  <2> QED
    BY <1>1, <1>2, <2>1 DEF IoThreadInv
<1>3. CASE u # t
  <2>1. /\ ioAt'[u] = ioAt[u] /\ ioJob'[u] = ioJob[u] /\ ioBuf'[u] = ioBuf[u]
        /\ ioPos'[u] = ioPos[u]
    BY <1>3 DEF IoReturns, IoMoves, IoInv, IoTypeOK
  <2>2. ioPos[u] <= Len(ioStatic')
    <3>1. CASE ioPos[u] > 0
      BY <1>1, <1>3, <3>1 DEF IoThreadInv
    <3>2. CASE ioPos[u] = 0
      BY <1>1, <3>2
    <3> QED
      BY <1>1, <3>1, <3>2
  <2> QED
    BY <1>1, <2>1, <2>2 DEF IoThreadInv
<1> QED
  BY <1>2, <1>3

\* The file stays as it was and is spoilt.
LEMMA IoOpenFailsKeeps ==
  ASSUME IoInv, NEW t \in IoThread, IoOpenFails(t)
  PROVE  IoInv'
<1> USE IoAssumption DEF IoOpenFails, Spoils
<1>1. IoTypeOK'
  BY IoReturnKeepsTypes DEF IoTypeOK, IoInv
<1>2. \A u \in IoThread : IoThreadInv(u)'
  <2>1. ioPos[t] = 0
    BY DEF IoReturns, IoMoves, IoInv, IoThreadInv
  <2> QED
    BY <1>1, <2>1, IoReturnKeepsThreads
<1>3. ASSUME NEW g \in (IoFile \ ioSpoilt)' PROVE IoFileInv(g)'
  <2>1. g \in IoFile \ ioSpoilt /\ g # ioJob[t]
    BY <1>3
  <2> QED
    BY <2>1, IoReturnKeepsOthers
<1> QED
  BY <1>1, <1>2, <1>3 DEF IoInv

\* The file gets what the thread meant, or is spoilt.
LEMMA IoCloseKeeps ==
  ASSUME IoInv, NEW t \in IoThread, NEW n \in Nat, IoClose(t, n)
  PROVE  IoInv'
<1> USE IoAssumption DEF IoClose, Spoils
<1>1. ioBuf[t] \in Seq(Byte) /\ ioStatic \in Seq(Byte) /\ n <= Len(ioStatic)
  <2>1. ioBuf[t] \in Seq(Byte) /\ ioStatic \in Seq(Byte) /\ Len(ioBuf[t]) <= Len(ioStatic)
    BY DEF IoInv, IoTypeOK, IoThreadInv
  <2>2. Len(ioBuf[t]) \in Nat /\ Len(ioStatic) \in Nat
    BY <2>1
  <2> QED
    BY <2>1, <2>2
<1>2. SubSeq(ioStatic, 1, n) \in Seq(Byte)
  BY <1>1
<1>3. \A f \in IoFile : Over(SubSeq(ioStatic, 1, n), Bytes(ioFile[f])) \in Seq(Byte)
  <2>1. \A f \in IoFile : Bytes(ioFile[f]) \in Seq(Byte)
    BY DEF IoInv, IoTypeOK, Bytes
  <2>2. \A old \in Seq(Byte) : Over(SubSeq(ioStatic, 1, n), old) \in Seq(Byte)
    BY <1>2, OverLen
  <2> QED
    BY <2>1, <2>2
<1>4. IoTypeOK'
  <2>1. ioStatic' \in Seq(Byte) /\ ioPos' \in [IoThread -> Nat]
    BY <1>1 DEF IoInv, IoTypeOK
  <2>2. ioFile' \in [IoFile -> Seq(Byte) \cup {Missing}]
    BY <1>3 DEF IoInv, IoTypeOK
  <2> QED
    BY <2>1, <2>2, IoReturnKeepsTypes DEF IoInv, IoTypeOK
<1>5. /\ \A u \in IoThread \ {t} : ioPos[u] > 0 => ioStatic' = ioStatic
      /\ ioPos'[t] = 0 /\ \A u \in IoThread \ {t} : ioPos'[u] = ioPos[u]
  BY DEF IoInv, IoTypeOK
<1>6. \A u \in IoThread : IoThreadInv(u)'
  BY <1>4, <1>5, IoReturnKeepsThreads
<1>7. ASSUME NEW g \in (IoFile \ ioSpoilt)' PROVE IoFileInv(g)'
  <2>1. g \in IoFile \ ioSpoilt
    BY <1>7
  <2>2. CASE g # ioJob[t]
    BY <1>5, <2>1, <2>2, IoReturnKeepsOthers
  <2>3. CASE g = ioJob[t]
    <3>1. n = Len(ioBuf[t])
      BY <1>7, <2>1, <2>3
    <3>2. IoFileInv(g) /\ ioAt[t] = "opened"
      BY <2>1 DEF IoInv, IoReturns, IoMoves
    <3>3. SubSeq(ioStatic, 1, n) = ioMeant[t] /\ ioFile[g] = <<>> /\ ioMeant[t] = ioBuf[t]
      <4>1. /\ ioFile[g] = <<>> /\ ioMeant[t] = ioBuf[t]
            /\ \A i \in 1..Len(ioBuf[t]) : ioStatic[i] = ioBuf[t][i]
        BY <2>3, <3>2 DEF IoFileInv
      <4> QED
        BY <1>1, <3>1, <4>1, SameBegin
    <3>4. Bytes(<<>>) = <<>>
      BY DEF Bytes
    <3>5. ioFile'[g] = ioMeant[t]
      BY <1>1, <2>1, <2>3, <3>3, <3>4, OverNothing
    <3>6. ioTrue'[g] = ioMeant[t]
      BY <2>1, <2>3 DEF IoReturns
    <3>7. \A u \in IoThread : ioJob'[u] # g
      BY <2>1, <2>3, <3>2 DEF IoFileInv, IoReturns, IoInv, IoTypeOK
    <3> QED
      BY <3>5, <3>6, <3>7 DEF IoFileInv
  <2> QED
    BY <2>2, <2>3
<1> QED
  BY <1>4, <1>6, <1>7 DEF IoInv

\* The file is still there and is spoilt.
LEMMA IoRemoveFailsKeeps ==
  ASSUME IoInv, NEW t \in IoThread, NEW f \in IoFile, IoRemoveFails(t, f)
  PROVE  IoInv'
<1> USE IoAssumption DEF IoRemoveFails, Spoils
<1>1. IoTypeOK'
  BY DEF IoInv, IoTypeOK
<1>2. \A u \in IoThread : IoThreadInv(u)'
  BY DEF IoInv, IoThreadInv
<1>3. ASSUME NEW g \in (IoFile \ ioSpoilt)' PROVE IoFileInv(g)'
  <2>1. g \in IoFile \ ioSpoilt /\ g # f
    BY <1>3
  <2>2. IoFileInv(g) /\ ioTrue'[g] = ioTrue[g]
    BY <2>1 DEF IoInv, IoTypeOK
  <2>3. UNCHANGED <<ioFile, ioAt, ioJob, ioBuf, ioPos, ioStatic, ioMeant>>
    OBVIOUS
  <2> HIDE DEF IoRemoveFails, Spoils
  <2> QED
    BY <2>2, <2>3 DEF IoFileInv
<1> QED
  BY <1>1, <1>2, <1>3 DEF IoInv

\* The file is right again, unless a thread is to create it anew.
LEMMA IoRemoveKeeps ==
  ASSUME IoInv, NEW t \in IoThread, NEW f \in IoFile, IoRemove(t, f)
  PROVE  IoInv'
<1> USE IoAssumption DEF IoRemove, IoInv
<1>1. IoTypeOK'
  BY DEF IoTypeOK
<1>2. \A u \in IoThread : IoThreadInv(u)'
  BY DEF IoThreadInv, IoTypeOK
<1>3. ASSUME NEW g \in (IoFile \ ioSpoilt)' PROVE IoFileInv(g)'
  <2>1. CASE g = f
    <3>1. \A u \in IoThread : ~ (ioAt[u] = "read" /\ ioJob[u] = f)
      BY <1>3, <2>1
    <3>2. \A u \in IoThread : ioJob'[u] # f
      BY <3>1
    <3>3. ioFile'[f] = ioTrue'[f]
      BY DEF IoTypeOK
    <3> QED
      BY <2>1, <3>2, <3>3 DEF IoFileInv
  <2>2. CASE g # f
    <3>1. g \in IoFile \ ioSpoilt /\ IoFileInv(g)
      BY <1>3, <2>2
    <3>2. \A u \in IoThread : ioJob'[u] = g <=> ioJob[u] = g
      BY <2>2, <3>1
    <3>3. ioFile'[g] = ioFile[g] /\ ioTrue'[g] = ioTrue[g]
      BY <2>2, <3>1 DEF IoTypeOK
    <3> QED
      BY <3>1, <3>2, <3>3 DEF IoFileInv
  <2> QED
    BY <2>1, <2>2
<1> QED
  BY <1>1, <1>2, <1>3

\* Who had only read leaves the file as it was.
LEMMA IoCrashKeeps ==
  ASSUME IoInv, IoCrash
  PROVE  IoInv'
<1> USE IoAssumption DEF IoCrash, Spoils, IoInv
<1>1. IoTypeOK'
  BY DEF IoTypeOK
<1>2. \A u \in IoThread : IoThreadInv(u)'
  BY DEF IoThreadInv
<1>3. ASSUME NEW g \in (IoFile \ ioSpoilt)' PROVE IoFileInv(g)'
  <2>1. g \in IoFile \ ioSpoilt /\ IoFileInv(g)
    BY <1>3
  <2>2. \A u \in IoThread : ioJob[u] = g => ioAt[u] # "opened"
    BY <1>3, <2>1
  <2>3. \A u \in IoThread : ioJob[u] = g => ioAt[u] = "read"
    BY <2>1, <2>2 DEF IoTypeOK, IoThreadInv
  <2>4. ioFile'[g] = ioTrue'[g]
    BY <2>1, <2>3 DEF IoFileInv
  <2>5. \A u \in IoThread : ioJob'[u] # g
    BY <2>1
  <2> QED
    BY <2>4, <2>5 DEF IoFileInv
<1> QED
  BY <1>1, <1>2, <1>3

\* A stuttering step changes nothing.
LEMMA IoStays ==
  ASSUME IoInv, UNCHANGED ioVars
  PROVE  IoInv'
BY DEF IoInv, IoTypeOK, IoThreadInv, IoFileInv, ioVars

\* What the invariant says of the loads.
LEMMA IoInvShows == IoInv => LoadsWhatWasWritten
BY DEF IoInv, IoFileInv, LoadsWhatWasWritten

\* It is inductive.
LEMMA IoInvariant == IoSpec => []IoInv
<1>1. IoInv /\ [IoNext]_ioVars => IoInv'
  <2> SUFFICES ASSUME IoInv, [IoNext]_ioVars PROVE IoInv'
    OBVIOUS
  <2>1. CASE UNCHANGED ioVars
    BY <2>1, IoStays
  <2>2. CASE IoCrash
    BY <2>2, IoCrashKeeps
  <2>3. ASSUME NEW t \in IoThread, IoOpen(t) PROVE IoInv'
    BY <2>3, IoOpenKeeps
  <2>4. ASSUME NEW t \in IoThread, IoOpenFails(t) PROVE IoInv'
    BY <2>4, IoOpenFailsKeeps
  <2>5. ASSUME NEW t \in IoThread, IoFwrite(t) PROVE IoInv'
    BY <2>5, IoFwriteKeeps
  <2>6. ASSUME NEW t \in IoThread, NEW n \in 0..MaxLen, IoClose(t, n) PROVE IoInv'
    BY <2>6, IoCloseKeeps, IoAssumption
  <2>7. ASSUME NEW t \in IoThread, NEW f \in IoFile, IoRemove(t, f) \/ IoRemoveFails(t, f)
        PROVE  IoInv'
    BY <2>7, IoRemoveKeeps, IoRemoveFailsKeeps
  <2>8. ASSUME NEW t \in IoThread, NEW f \in IoFile, NEW offset \in 0..MaxLen, NEW n \in 0..MaxLen,
               IoRead(t, f, offset, n) \/ IoReadMisses(t, f, offset, n)
        PROVE  IoInv'
    BY <2>8, IoReadKeeps, IoAssumption
  <2> QED
    BY <2>1, <2>2, <2>3, <2>4, <2>5, <2>6, <2>7, <2>8 DEF IoNext
<1> QED
  BY <1>1, IoInitially, PTL DEF IoSpec

\* For any number of threads and files, any lengths, and the failures and
\* crashes of the model anywhere: a load that no write of the file overlaps
\* gives what the writes and removals that returned true left, unless an error
\* that the code ignored, a crash or another thread has spoilt the file
\* (vs_files_write, vs_files_read, vs_files_remove).
THEOREM IoLoadsWhatWasWritten == IoSpec => []LoadsWhatWasWritten
BY IoInvariant, IoInvShows, PTL

(***************************************************************************)
(* The parts beside one another                                            *)
(***************************************************************************)

\* MCStandalone has only behaviours that each part has by itself: what is
\* proved of the parts holds of it, and what it shows is of one part.
THEOREM StandaloneParts ==
  SaSpec => EvSpec /\ EvFairness /\ FvSpec /\ FuSpec /\ IoSpec /\ LtSpec
<1>1. SaInit => EvInit /\ FvInit /\ FuInit /\ IoInit /\ LtInit
  BY DEF SaInit
<1>2. [SaNext]_saVars => [EvNext]_evVars /\ [FvNext]_fvVars
  BY DEF SaNext, saVars
<1>3. [SaNext]_saVars => [FuNext]_fuVars /\ [IoNext]_ioVars /\ [LtNext]_ltVars
  BY DEF SaNext, saVars
<1> QED
  BY <1>1, <1>2, <1>3, PTL DEF SaSpec, EvSpec, FvSpec, FuSpec, IoSpec, LtSpec

\* The variables of all parts keep their types, for any values of their
\* constants.
THEOREM StandaloneTypeCorrect == SaSpec => []StandaloneTypeOK
<1>1. IoInv => IoTypeOK
  BY DEF IoInv
<1>2. LtInv => LtTypeOK
  BY DEF LtInv
<1> QED
  BY <1>1, <1>2, StandaloneParts, EvTypeCorrect, FvTypeCorrect, FuTypeCorrect, IoInvariant,
     LtInvariant, PTL DEF StandaloneTypeOK
=============================================================================
