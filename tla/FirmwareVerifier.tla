-------------------------- MODULE FirmwareVerifier --------------------------
(* firmware-verifier/src/main.c: is a file, or a text of the command line,  *)
(* signed with a key of this device? The file is hashed in chunks, and each *)
(* chunk opens it again, so it may change in between. The hash is what was  *)
(* hashed (collisions are left out), a byte of a file is the version of the *)
(* file and the position, and a signature is a key and what was signed. The *)
(* keys lie in slots of the flash device that may fail to load. Files are   *)
(* smaller than 4 GiB: offset, a uint32_t, does not wrap.                   *)
EXTENDS Naturals

CONSTANTS
  Chunk,        \* CHUNK_SZ
  MaxFile,      \* bound: the size of a file
  MaxChanges    \* bound: how many times the file changes

ASSUME FvAssumption == Chunk \in Nat \ {0} /\ MaxFile \in Nat /\ MaxChanges \in Nat

Key == {1, 2}       \* VS_PROVISION_PBF1, VS_PROVISION_PBF2
OtherKey == 3

VARIABLES
  fvAt,       \* "args", "size", "chunks", "keys", "done"
  fvFile,     \* the file: its version and its size, 0 when there is none
  fvSize,     \* file_sz, as read before the first chunk
  fvFrom,     \* history: the version that size was read of
  fvOffset,   \* offset
  fvHashed,   \* what was hashed, a function on 1..fvOffset
  fvSign,     \* the signature: its key and what was signed
  fvLoads,    \* the slots that load
  verified    \* verified

fvVars == <<fvAt, fvFile, fvSize, fvFrom, fvOffset, fvHashed, fvSign, fvLoads, verified>>

Content(v, size) == [i \in 1..size |-> <<v, i>>]
Garbage == <<0, 0>>     \* a byte of the buffer that was never written
Text == Content(0, 1)   \* the parameter of --data, no version of the file

FvInit ==
  /\ fvAt = "args"
  /\ fvFile = [v |-> 1, size |-> MaxFile]
  /\ fvSize = 0 /\ fvFrom = 0 /\ fvOffset = 0
  /\ fvHashed = Content(1, 0)
  /\ fvSign = [key |-> OtherKey, of |-> Content(1, 0)]
  /\ fvLoads = {}
  /\ verified = FALSE

\* The command line: a signature by some key over a file of some size that is
\* the file, or once was, or over the text; and --file.
FvFileCommand ==
  /\ fvAt = "args"
  /\ fvAt' = "size"
  /\ \E size, signed \in 0..MaxFile, k \in Key \cup {OtherKey}, loads \in SUBSET Key :
       /\ fvFile' = [v |-> 1, size |-> size]
       /\ \/ fvSign' = [key |-> k, of |-> Content(1, signed)]
          \/ fvSign' = [key |-> k, of |-> Text]
       /\ fvLoads' = loads
  /\ UNCHANGED <<fvSize, fvFrom, fvOffset, fvHashed, verified>>

\* --data, without --file: the parameter is hashed at once.
FvDataCommand ==
  /\ fvAt = "args"
  /\ fvAt' = "keys"
  /\ fvHashed' = Text
  /\ \E k \in Key \cup {OtherKey}, loads \in SUBSET Key :
       /\ \/ fvSign' = [key |-> k, of |-> Content(1, 1)]
          \/ fvSign' = [key |-> k, of |-> Text]
       /\ fvLoads' = loads
  /\ UNCHANGED <<fvFile, fvSize, fvFrom, fvOffset, verified>>

\* terminate: the result stands in verified.
FvEnd == /\ fvAt' = "done"
         /\ UNCHANGED <<fvFile, fvSize, fvFrom, fvOffset, fvHashed, fvSign, fvLoads>>

\* The storages or the provision module cannot be initialised.
FvInitFails ==
  /\ fvAt = "size" \/ (fvAt = "keys" /\ fvHashed = Text)
  /\ FvEnd
  /\ UNCHANGED verified

(***************************************************************************)
(* _file_hash                                                              *)
(***************************************************************************)

\* _get_file_size.
FvGetSize ==
  /\ fvAt = "size"
  /\ fvFile.size > 0
  /\ fvAt' = "chunks"
  /\ fvSize' = fvFile.size
  /\ fvFrom' = fvFile.v
  /\ UNCHANGED <<fvFile, fvOffset, fvHashed, fvSign, fvLoads, verified>>

FvNoFile == fvAt = "size" /\ fvFile.size = 0 /\ FvEnd /\ UNCHANGED verified

Smaller(m, n) == IF m < n THEN m ELSE n

\* Mutant of ChunkSize: every chunk is full, the last one too.
ChunkSizeFull == Chunk

\* required_chunk_size.
ChunkSize == Smaller(Chunk, fvSize - fvOffset)

\* *read_sz. What _load_file_chunk takes for the rest of the file is the whole
\* of it: it seeks to the offset from the end and subtracts the offset.
ReadSize == Smaller(fvFile.size, ChunkSize)

\* fread of *read_sz bytes at the offset, in one piece or not at all.
ChunkLoads == ReadSize > 0 /\ fvOffset + ReadSize <= fvFile.size

\* The buffer after the chunk was read. Only the first chunk can be shorter
\* than required, and is hashed in the required length all the same.
ChunkByte(i) == IF i <= ReadSize THEN <<fvFile.v, fvOffset + i>> ELSE Garbage

FvHashChunk ==
  /\ fvAt = "chunks"
  /\ fvOffset < fvSize
  /\ ChunkLoads
  /\ fvHashed' = [i \in 1..(fvOffset + ChunkSize) |->
                    IF i <= fvOffset THEN fvHashed[i] ELSE ChunkByte(i - fvOffset)]
  /\ fvOffset' = fvOffset + ChunkSize
  /\ UNCHANGED <<fvAt, fvFile, fvSize, fvFrom, fvSign, fvLoads, verified>>

\* A chunk that does not load, or that cannot be read, ends it.
FvChunkFails ==
  /\ fvAt = "chunks"
  /\ fvOffset < fvSize
  /\ FvEnd
  /\ UNCHANGED verified

FvHashed ==
  /\ fvAt = "chunks"
  /\ fvOffset >= fvSize
  /\ fvAt' = "keys"
  /\ UNCHANGED <<fvFile, fvSize, fvFrom, fvOffset, fvHashed, fvSign, fvLoads, verified>>

\* The file is replaced, truncated, or was not written completely before.
FvFileChanges ==
  /\ fvAt \in {"size", "chunks"}
  /\ fvFile.v <= MaxChanges
  /\ \E size \in 0..MaxFile : fvFile' = [v |-> fvFile.v + 1, size |-> size]
  /\ UNCHANGED <<fvAt, fvSize, fvFrom, fvOffset, fvHashed, fvSign, fvLoads, verified>>

(***************************************************************************)
(* _verify_hash                                                            *)
(***************************************************************************)

\* ecdsa_verify.
Fits(k) == fvSign.key = k /\ fvSign.of = fvHashed

\* Mutant of Accepted: the first key that loads decides.
AcceptedByFirst == \E k \in fvLoads : Fits(k) /\ \A j \in fvLoads : j >= k

\* The keys are tried one after the other; one that does not load ends it.
Accepted == \E k \in Key : Fits(k) /\ \A j \in 1..k : j \in fvLoads

FvVerify ==
  /\ fvAt = "keys"
  /\ FvEnd
  /\ verified' = Accepted

FvNext == \/ FvFileCommand \/ FvDataCommand \/ FvInitFails \/ FvGetSize \/ FvNoFile
          \/ FvHashChunk \/ FvChunkFails \/ FvHashed \/ FvFileChanges \/ FvVerify

FvSpec == FvInit /\ [][FvNext]_fvVars

(***************************************************************************)
(* Properties                                                              *)
(***************************************************************************)

FvTypeOK ==
  /\ fvAt \in {"args", "size", "chunks", "keys", "done"}
  /\ fvFile.v \in Nat /\ fvFile.size \in Nat
  /\ {fvSize, fvFrom} \subseteq Nat
  /\ fvOffset \in 0..fvSize
  /\ fvLoads \subseteq Key
  /\ verified \in BOOLEAN

\* A file that does not change while it is hashed is hashed from its first
\* byte to its last, each once, whatever its size is next to the chunk's.
HashesWholeFile ==
  fvAt = "keys" /\ fvHashed # Text /\ fvFile.v = fvFrom
    => fvHashed = Content(fvFile.v, fvFile.size)

\* Of a file that does not change, "Signature is correct" says that the whole
\* file is signed with a key of this device; and a file that is signed with one
\* is found correct, unless this key or one before it does not load (comment
\* "Try to verify using all Firmware keys").
VerdictIsRight ==
  fvAt = "done" /\ 0 < fvOffset /\ fvOffset >= fvSize /\ fvFile.v = fvFrom
    => (verified <=> /\ fvSign.of = Content(fvFile.v, fvFile.size)
                     /\ fvSign.key \in Key
                     /\ 1..fvSign.key \subseteq fvLoads)
=============================================================================
