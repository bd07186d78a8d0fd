------------------------------- MODULE FileIo -------------------------------
(* Files of common/src/helpers/file-io.c, the storage of                    *)
(* storage-nix-impl.c: vs_files_write reads the old file, opens it again,   *)
(* which empties it, and writes it from the start, through one static       *)
(* buffer for all threads. A step ends where another thread, a failure or   *)
(* the end of the process makes a difference. No program of the repository  *)
(* uses the component: its callers are any threads. All files together are  *)
(* smaller than the buffer of 2 MiB, so only fclose writes to the file. A   *)
(* write that returns false has changed nothing, and is no step.            *)
EXTENDS Naturals, Sequences

CONSTANTS
  IoThread,     \* the threads; also what they write, each its own byte
  IoFile,       \* the files, by folder and name
  MaxLen,       \* bound: offset + data_sz
  MaxWrites,    \* bound: how many writes begin
  NoFile        \* a thread that writes no file

ASSUME IoAssumption == MaxLen \in Nat \ {0} /\ MaxWrites \in Nat /\ NoFile \notin IoFile

Missing == <<"missing">>    \* the content of a file that does not exist
Fill == "0xFF"

VARIABLES
  ioFile,     \* the content of each file
  ioAt,       \* "out"; in vs_files_write: "read", "opened"
  ioJob,      \* the file that the thread writes; NoFile too when the one it
              \* has opened was removed
  ioBuf,      \* buf, the new content
  ioPos,      \* how many bytes of buf fwrite has copied to file_io_buffer
  ioStatic,   \* file_io_buffer, as long as some thread is to write it
  ioCount,    \* how many writes began
  ioMeant,    \* history: what the file is to be after the thread's write
  ioTrue,     \* history: each file by the writes that returned true
  ioSpoilt    \* history: the files that overlapping writes or failures spoilt

ioVars == <<ioFile, ioAt, ioJob, ioBuf, ioPos, ioStatic, ioCount, ioMeant, ioTrue, ioSpoilt>>

\* A file does not exist, or is one that an earlier process has written.
IoInit ==
  /\ ioFile \in [IoFile -> {Missing, [i \in 1..MaxLen |-> Fill]}]
  /\ ioAt = [t \in IoThread |-> "out"]
  /\ ioJob = [t \in IoThread |-> NoFile]
  /\ ioBuf = [t \in IoThread |-> <<>>]
  /\ ioPos = [t \in IoThread |-> 0]
  /\ ioStatic = <<>>
  /\ ioCount = 0
  /\ ioMeant = ioBuf
  /\ ioTrue = ioFile
  /\ ioSpoilt = {}

Bytes(content) == IF content = Missing THEN <<>> ELSE content

\* new, and what is behind it in old.
Over(new, old) == new \o SubSeq(old, Len(new) + 1, Len(old))

(***************************************************************************)
(* vs_files_write, vs_nix_storage_save_hal                                 *)
(***************************************************************************)

\* Mutant of NewSize: the end of a longer file is cut off.
NewSizeShort(old, offset, n) == offset + n

\* new_file_sz.
NewSize(old, offset, n) == IF Len(old) > offset + n THEN Len(old) ELSE offset + n

\* buf: 0xFF, then the old file, then n bytes of the thread at the offset.
Merged(t, old, offset, n) ==
  [i \in 1..NewSize(old, offset, n) |->
     IF offset < i /\ i <= offset + n THEN t
     ELSE IF i <= Len(old) THEN old[i] ELSE Fill]

\* What a write means: n bytes at the offset are new, the others as they were.
Meant(t, old, offset, n) ==
  LET before == [i \in 1..offset |-> IF i <= Len(old) THEN old[i] ELSE Fill]
  IN Over(before \o [i \in 1..n |-> t], old)

IoMoves(t, from, to) == ioAt[t] = from /\ ioAt' = [ioAt EXCEPT ![t] = to]

\* The thread returns; the write returned true for the content now of ioTrue.
IoReturns(t, from) ==
  /\ IoMoves(t, from, "out")
  /\ ioJob' = [ioJob EXCEPT ![t] = NoFile]
  /\ ioBuf' = [ioBuf EXCEPT ![t] = <<>>]
  /\ ioMeant' = [ioMeant EXCEPT ![t] = <<>>]
  /\ ioTrue' = [f \in IoFile |-> IF f = ioJob[t] THEN ioMeant[t] ELSE ioTrue[f]]

Spoils(files) == ioSpoilt' = ioSpoilt \cup (files \ {NoFile})

\* A write begins; old is what it has read of the file.
IoBegins(t, f, old, offset, n) ==
  /\ ioCount < MaxWrites
  /\ IoMoves(t, "out", "read")
  /\ ioCount' = ioCount + 1
  /\ ioJob' = [ioJob EXCEPT ![t] = f]
  /\ ioBuf' = [ioBuf EXCEPT ![t] = Merged(t, old, offset, n)]
  /\ ioMeant' = [ioMeant EXCEPT ![t] = Meant(t, Bytes(ioTrue[f]), offset, n)]
  /\ UNCHANGED <<ioFile, ioPos, ioStatic, ioTrue>>

\* A file that exists and is empty is refused: the write returns false.
IoRead(t, f, offset, n) ==
  /\ ioFile[f] # <<>>
  /\ IoBegins(t, f, Bytes(ioFile[f]), offset, n)
  /\ Spoils({ioJob[u] : u \in IoThread} \cap {f})

\* fopen "rb" fails: the file is taken for a missing one.
IoReadMisses(t, f, offset, n) ==
  /\ ioFile[f] # Missing
  /\ IoBegins(t, f, <<>>, offset, n)
  /\ Spoils({f})

\* fopen "wb" empties or creates the file.
IoOpen(t) ==
  /\ IoMoves(t, "read", "opened")
  /\ ioFile' = [ioFile EXCEPT ![ioJob[t]] = <<>>]
  /\ UNCHANGED <<ioJob, ioBuf, ioPos, ioStatic, ioCount, ioMeant, ioTrue, ioSpoilt>>

\* fopen fails, and the write returns true.
IoOpenFails(t) ==
  /\ IoReturns(t, "read")
  /\ Spoils({ioJob[t]})
  /\ UNCHANGED <<ioFile, ioPos, ioStatic, ioCount>>

\* fwrite copies byte by byte to the static buffer: a byte that another thread
\* has there is lost.
IoFwrite(t) ==
  /\ ioAt[t] = "opened" /\ ioPos[t] < Len(ioBuf[t])
  /\ ioPos' = [ioPos EXCEPT ![t] = @ + 1]
  /\ ioStatic' = Over(Append(SubSeq(ioStatic, 1, ioPos[t]), ioBuf[t][ioPos[t] + 1]), ioStatic)
  /\ Spoils({ioJob[u] : u \in {v \in IoThread : ioPos[v] > ioPos[t]}})
  /\ UNCHANGED <<ioFile, ioAt, ioJob, ioBuf, ioCount, ioMeant, ioTrue>>

\* fclose writes n bytes from the static buffer to the start of the file, less
\* than all of them when it fails, which nobody notices. (The end of the
\* process in the middle of it is this failure, and IoCrash.)
IoClose(t, n) ==
  /\ ioPos[t] = Len(ioBuf[t]) /\ n <= Len(ioBuf[t])
  /\ IoReturns(t, "opened")
  /\ ioPos' = [ioPos EXCEPT ![t] = 0]
  /\ ioFile' = [f \in IoFile |-> IF f = ioJob[t]
                                 THEN Over(SubSeq(ioStatic, 1, n), Bytes(ioFile[f]))
                                 ELSE ioFile[f]]
  /\ Spoils(IF n = Len(ioBuf[t]) THEN {} ELSE {ioJob[t]})
  /\ ioStatic' = IF \E u \in IoThread \ {t} : ioPos[u] > 0 THEN ioStatic ELSE <<>>
  /\ UNCHANGED ioCount

(***************************************************************************)
(* vs_files_remove, vs_nix_storage_del_hal; the end of the process         *)
(***************************************************************************)

\* Who has the file opened goes on to write what has no name any more; who has
\* only read it creates it again.
IoRemove(t, f) ==
  LET readers == {u \in IoThread : ioAt[u] = "read" /\ ioJob[u] = f}
  IN /\ ioAt[t] = "out"
     /\ ioFile' = [ioFile EXCEPT ![f] = Missing]
     /\ ioTrue' = [ioTrue EXCEPT ![f] = Missing]
     /\ ioSpoilt' = IF readers = {} THEN ioSpoilt \ {f} ELSE ioSpoilt \cup {f}
     /\ ioJob' = [u \in IoThread |-> IF ioJob[u] = f /\ u \notin readers THEN NoFile ELSE ioJob[u]]
     /\ UNCHANGED <<ioAt, ioBuf, ioPos, ioStatic, ioCount, ioMeant>>

\* remove() fails, and vs_files_remove returns true.
IoRemoveFails(t, f) ==
  /\ ioAt[t] = "out"
  /\ ioFile[f] # Missing
  /\ ioTrue' = [ioTrue EXCEPT ![f] = Missing]
  /\ Spoils({f})
  /\ UNCHANGED <<ioFile, ioAt, ioJob, ioBuf, ioPos, ioStatic, ioCount, ioMeant>>

\* What was opened stays empty, or as another thread left it.
IoCrash ==
  /\ ioAt' = [t \in IoThread |-> "out"]
  /\ ioJob' = [t \in IoThread |-> NoFile]
  /\ ioBuf' = [t \in IoThread |-> <<>>]
  /\ ioMeant' = ioBuf'
  /\ ioPos' = [t \in IoThread |-> 0]
  /\ ioStatic' = <<>>
  /\ Spoils({ioJob[t] : t \in {u \in IoThread : ioAt[u] = "opened"}})
  /\ UNCHANGED <<ioFile, ioCount, ioTrue>>

IoNext ==
  \/ IoCrash
  \/ \E t \in IoThread :
       \/ IoOpen(t) \/ IoOpenFails(t) \/ IoFwrite(t)
       \/ \E n \in 0..MaxLen : IoClose(t, n)
       \/ \E f \in IoFile : IoRemove(t, f) \/ IoRemoveFails(t, f)
       \/ \E f \in IoFile, offset, n \in 0..MaxLen :
            /\ n > 0 /\ offset + n <= MaxLen
            /\ IoRead(t, f, offset, n) \/ IoReadMisses(t, f, offset, n)

IoSpec == IoInit /\ [][IoNext]_ioVars

(***************************************************************************)
(* Properties                                                              *)
(***************************************************************************)

Byte == IoThread \cup {Fill}

IoTypeOK ==
  /\ ioFile \in [IoFile -> Seq(Byte) \cup {Missing}]
  /\ ioAt \in [IoThread -> {"out", "read", "opened"}]
  /\ ioJob \in [IoThread -> IoFile \cup {NoFile}]
  /\ {ioBuf, ioMeant} \subseteq [IoThread -> Seq(Byte)]
  /\ ioPos \in [IoThread -> Nat]
  /\ ioStatic \in Seq(Byte)
  /\ ioCount \in 0..MaxWrites
  /\ ioTrue \in [IoFile -> Seq(Byte) \cup {Missing}]
  /\ ioSpoilt \subseteq IoFile

\* What vs_files_read gives for n bytes at an offset, if it returns true and
\* vs_nix_storage_load_hal finds that it gave n.
Loaded(content, offset, n) ==
  IF n > 0 /\ offset + n <= Len(Bytes(content))
  THEN SubSeq(Bytes(content), offset + 1, offset + n) ELSE Missing

\* A load that no write of the same file overlaps gives what the writes that
\* returned true have left, all of them completely; threads may work on
\* different files at the same time in spite of the buffer they share. It need
\* not after an error that the code ignores (a fopen, a flush or a removal that
\* failed), a crash inside a write, two writes of one file at the same time, or
\* when another thread copied to the shared buffer what this write had there.
LoadsWhatWasWritten ==
  \A f \in IoFile \ ioSpoilt :
    (\A t \in IoThread : ioJob[t] = f => ioAt[t] = "read") =>
      \A offset, n \in 0..MaxLen : Loaded(ioFile[f], offset, n) = Loaded(ioTrue[f], offset, n)
=============================================================================
