------------------------------- MODULE Gamma -------------------------------
(***************************************************************************)
(* The pure part of the gamma cipher: what one turn of the chunk loop of   *)
(* GammaFileCipher::IEncryptFile does to its buffers.                      *)
(*                                                                         *)
(* A file is a sequence of chunks, one element for every portion of 64 KiB *)
(* the loops of the program transfer; the last, shorter portion is a chunk *)
(* like any other.  The bytes inside a chunk are abstract: all the cipher  *)
(* needs of cryptography::gamma is that applying the same key chunk twice  *)
(* gives the chunk back.                                                   *)
(***************************************************************************)
EXTENDS Integers, Sequences

CONSTANTS
  Chunk,            \* what one 64 KiB portion of a file can hold
  MaxPortions,      \* bound: the largest number of portions of a file
  ZeroChunk,        \* the zero-initialised contents of a new std::vector
  GammaChunk(_, _)  \* cryptography::gamma(master, key): the exclusive or

ASSUME ZeroChunkAssumption == ZeroChunk \in Chunk

ASSUME GammaAssumption ==
  \A m, k \in Chunk : /\ GammaChunk(m, k) \in Chunk
                      /\ GammaChunk(GammaChunk(m, k), k) = m

ASSUME MaxPortionsAssumption == MaxPortions \in Nat

\* What a file can hold: any number of portions up to the bound.
Content == UNION {[1..n -> Chunk] : n \in 0..MaxPortions}

\* The answers of a progress handler (progress_state_t).
Reply == {"proceed", "quiet", "stop", "cancel"}

-----------------------------------------------------------------------------
(***************************************************************************)
(* The loop of the cipher, one turn at a time.  Its local variables are    *)
(* the record                                                              *)
(*   position : the next portion of the master file and of the key file;   *)
(*   buffer   : key_buffer, as the previous turn left it;                  *)
(*   progress : the last answer of the progress handler;                   *)
(*   stop     : the loop's exit flag.                                      *)
(***************************************************************************)
Cursor == [position : Nat \ {0}, buffer : Chunk, progress : Reply, stop : BOOLEAN]

FirstPortion ==
  [position |-> 1, buffer |-> ZeroChunk, progress |-> "proceed", stop |-> FALSE]

\* The result of key->read is ignored: past the end of the key file the buffer
\* still holds the portion that was read last.
KeyBuffer(cursor, key) ==
  IF cursor.position \in DOMAIN key THEN key[cursor.position] ELSE cursor.buffer

PortionLeft(cursor, master) == cursor.position \in DOMAIN master

\* Mutations of GammaPortion: the seek back is missing, so that the result is written
\* over the next portion; the result is put into key_buffer, where a short key finds it.
GammaPortionWithoutSeek(cursor, master, key) ==
  [i \in DOMAIN master \cup {cursor.position + 1} |->
     IF i = cursor.position + 1
     THEN GammaChunk(master[cursor.position], KeyBuffer(cursor, key))
     ELSE master[i]]

GammaPortionIntoKeyBuffer(cursor, master, key) ==
  [master EXCEPT ![cursor.position] =
     GammaChunk(@, IF cursor.position \in DOMAIN key THEN key[cursor.position]
                   ELSE IF cursor.position = 1 THEN ZeroChunk
                   ELSE master[cursor.position - 1])]

\* The master file after one turn that read a portion.
GammaPortion(cursor, master, key) ==
  [master EXCEPT ![cursor.position] = GammaChunk(@, KeyBuffer(cursor, key))]

\* A mutation of NextProgress: a handler that wanted to hear no more is asked again.
NextProgressAskingOn(cursor, reply) == reply

\* The handler is asked after every portion until it has answered "quiet" once.
NextProgress(cursor, reply) ==
  IF cursor.progress = "quiet" THEN "quiet" ELSE reply

\* A mutation of NextPortion: the file position is back where it was after the write.
NextPortionStuck(cursor, key, reply) ==
  [cursor EXCEPT !.buffer = KeyBuffer(cursor, key),
                 !.progress = NextProgress(cursor, reply)]

\* The loop's variables after one turn that read a portion.
NextPortion(cursor, key, reply) ==
  [position |-> cursor.position + 1,
   buffer   |-> KeyBuffer(cursor, key),
   progress |-> NextProgress(cursor, reply),
   stop     |-> NextProgress(cursor, reply) \in {"stop", "cancel"}]

-----------------------------------------------------------------------------
\* What the whole loop makes of a file when nothing stops it (a key of any length).
KeyAt(key, i) ==
  IF i \in DOMAIN key THEN key[i]
  ELSE IF key = <<>> THEN ZeroChunk ELSE key[Len(key)]

GammaFile(master, key) == [i \in DOMAIN master |-> GammaChunk(master[i], KeyAt(key, i))]

\* In which order two keys are used does not matter, as for the exclusive or: a hypothesis
\* of one theorem, as the number of cases is that of three chunks.
GammaCommutesOn(chunks) ==
  \A m, j, k \in chunks : GammaChunk(GammaChunk(m, j), k) = GammaChunk(GammaChunk(m, k), j)
=============================================================================
