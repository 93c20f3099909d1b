-------------------------- MODULE GammaFileCipher --------------------------
(***************************************************************************)
(* GammaFileCipher on its own: a file is ciphered in place, portion by     *)
(* portion, and then ciphered again with the same key file, which is how   *)
(* IDecryptFile decrypts.  The key file may be shorter than the master     *)
(* file or longer, the progress handler may answer anything after any      *)
(* portion, and the driver may fail between two portions.                  *)
(***************************************************************************)
EXTENDS Gamma, FiniteSets

CONSTANTS
  Masters,    \* contents a file to cipher may have
  Keys,       \* contents a key file may have
  MaxPasses   \* bound: how many times the file is ciphered

ASSUME CipherAssumption == /\ Masters \subseteq Content
                           /\ Keys \subseteq Content
                           /\ MaxPasses \in Nat

VARIABLES
  original,  \* the file before the first pass
  master,    \* the file
  key,       \* the key file
  cursor,    \* the local variables of the running pass
  result,    \* "idle", "running", or how the last pass ended: "returned", "failed"
  reached,   \* history: for each pass begun, the first portion it has not ciphered
  answers    \* history: for each portion of the last pass, what the handler answers
             \* after it, or would answer if it were asked

vars == <<original, master, key, cursor, result, reached, answers>>

Init ==
  /\ original \in Masters
  /\ master = original
  /\ key \in Keys
  /\ cursor = FirstPortion
  /\ result = "idle"
  /\ reached = <<>>
  /\ answers = <<>>

\* EncryptFile, or DecryptFile, is called: both files are opened.
Call ==
  /\ result # "running"
  /\ Len(reached) < MaxPasses
  /\ result' = "running"
  /\ cursor' = FirstPortion
  /\ reached' = Append(reached, 1)
  /\ answers' = <<>>
  /\ UNCHANGED <<original, master, key>>

\* A turn of the loop that reads a portion and writes it back.  The driver writes the
\* whole portion or fails: the result of master->write is only passed on to the handler.
CipherPortion(reply) ==
  /\ result = "running"
  /\ ~ cursor.stop
  /\ PortionLeft(cursor, master)
  /\ master' = GammaPortion(cursor, master, key)
  /\ cursor' = NextPortion(cursor, key, reply)
  /\ reached' = [reached EXCEPT ![Len(reached)] = cursor.position + 1]
  /\ answers' = [i \in 1..cursor.position |-> IF i = cursor.position THEN reply ELSE answers[i]]
  /\ UNCHANGED <<original, key, result>>

\* The loop ends: the handler asked for it, or a read returned nothing.
Return ==
  /\ result = "running"
  /\ cursor.stop \/ ~ PortionLeft(cursor, master)
  /\ result' = "returned"
  /\ UNCHANGED <<original, master, key, cursor, reached, answers>>

\* A read, a seek or a write fails before the portion is changed.
DriverFails ==
  /\ result = "running"
  /\ ~ cursor.stop
  /\ result' = "failed"
  /\ UNCHANGED <<original, master, key, cursor, reached, answers>>

CipherStep == (\E reply \in Reply : CipherPortion(reply)) \/ Return \/ DriverFails

Next == Call \/ CipherStep

Spec == Init /\ [][Next]_vars

\* The thread that runs the cipher is not suspended forever inside the loop.
FairSpec == Spec /\ WF_vars(CipherStep)

-----------------------------------------------------------------------------
\* The types of the variables.
TypeOK ==
  /\ original \in Content /\ master \in Content /\ key \in Content
  /\ DOMAIN master = DOMAIN original
  /\ cursor \in Cursor
  /\ result \in {"idle", "running", "returned", "failed"}
  /\ reached \in Seq(Nat \ {0})
  /\ answers \in Seq(Reply)

-----------------------------------------------------------------------------
\* The passes that ciphered portion i.
Ciphered(i) == {p \in DOMAIN reached : i < reached[p]}

\* At every moment, however the passes before ended, a portion is its original or
\* its original under the gamma of the key, and which of the two depends only on
\* how many passes went beyond it: a pass that was stopped or that failed leaves a
\* ciphered prefix and nothing else (GammaFileCipher.cpp:48-61).
PrefixesOnly ==
  \A i \in DOMAIN master :
    master[i] = IF Cardinality(Ciphered(i)) % 2 = 0
                THEN original[i]
                ELSE GammaChunk(original[i], KeyAt(key, i))

\* Two passes that both covered the file give it back, whatever the length of the
\* key: the stale part of key_buffer repeats itself (GammaFileCipher.cpp:50-54, 64-67).
RoundTrip ==
  result # "running" /\ Len(reached) = 2
    /\ (\A i \in DOMAIN master : Ciphered(i) = {1, 2})
  => master = original

\* Portion i has the first answer of the pass other than "proceed".
Decides(i) == answers[i] # "proceed" /\ \A j \in 1..(i - 1) : answers[j] = "proceed"

\* The portion after which the pass was told to end, if there is one.
ToldToEnd == {i \in DOMAIN answers : Decides(i) /\ answers[i] \in {"stop", "cancel"}}

\* A pass goes exactly as far as the first answer other than "proceed" says.  A "stop" or
\* a "cancel" ends it after the portion it follows; without one the pass does not return
\* before the end of the file.  After a "quiet" the handler has no say any more: what it
\* would answer to a later portion does not count (GammaFileCipher.cpp:56-61).
AnswersObeyed ==
  LET end == reached[Len(reached)]
  IN  /\ \A i \in ToldToEnd : end = i + 1
      /\ result = "returned" /\ ToldToEnd = {} => end = Len(master) + 1

\* Every pass ends (GammaFileCipher.cpp:48-61).
PassEnds == result = "running" ~> result # "running"
=============================================================================
