------------------------- MODULE GammaCipherProofs -------------------------
(***************************************************************************)
(* The cipher on its own, for files and keys of any content and length,    *)
(* any answers of the handler, any failures and any number of passes.      *)
(***************************************************************************)
EXTENDS GammaFileCipher, GammaProofs, FiniteSetTheorems

\* The entry of the last pass in the history is its position, and each portion before it
\* has its answer.
PositionReached ==
  /\ result # "idle" => reached # <<>> /\ reached[Len(reached)] = cursor.position
  /\ cursor.position = Len(answers) + 1

\* key_buffer holds the portion of the key that was used last.
BufferIsKey ==
  result = "running" =>
    cursor.buffer = IF cursor.position = 1 THEN ZeroChunk
                    ELSE KeyAt(key, cursor.position - 1)

CipherInv == TypeOK /\ PositionReached /\ BufferIsKey /\ PrefixesOnly

LEMMA KeyAtChunk ==
  ASSUME NEW k \in Content, NEW i \in Nat
  PROVE  KeyAt(k, i) \in Chunk
<1>1. k \in [1..Len(k) -> Chunk] /\ Len(k) \in Nat /\ (k # <<>> => Len(k) # 0)
  BY ContentLength, MaxPortionsAssumption
<1> QED BY <1>1, ZeroChunkAssumption DEF KeyAt

\* The passes that went beyond a portion are finitely many.
LEMMA CipheredFinite ==
  ASSUME TypeOK, NEW i
  PROVE  IsFiniteSet(Ciphered(i)) /\ Cardinality(Ciphered(i)) \in Nat
<1>1. DOMAIN reached = 1..Len(reached) /\ Len(reached) \in Nat
  BY DEF TypeOK
<1>2. IsFiniteSet(DOMAIN reached)
  BY <1>1, FS_Interval
<1>3. IsFiniteSet(Ciphered(i))
  BY <1>2, FS_Subset DEF Ciphered
<1> QED BY <1>3, FS_CardinalityType

LEMMA InitCipher == Init => CipherInv
<1> SUFFICES ASSUME Init PROVE CipherInv
  OBVIOUS
<1>1. FirstPortion \in Cursor
  BY ZeroChunkAssumption DEF FirstPortion, Cursor, Reply
<1>2. TypeOK
  BY <1>1, CipherAssumption DEF Init, TypeOK
<1>3. \A i : Ciphered(i) = {}
  BY DEF Init, Ciphered
<1>4. PrefixesOnly
  BY <1>3, FS_EmptySet DEF Init, PrefixesOnly
<1> QED BY <1>2, <1>4 DEF Init, CipherInv, PositionReached, BufferIsKey, FirstPortion

\* A new pass has ciphered nothing yet.
LEMMA CallStep ==
  ASSUME CipherInv, Call
  PROVE  CipherInv'
<1>1. TypeOK'
  <2>1. FirstPortion \in Cursor
    BY ZeroChunkAssumption DEF FirstPortion, Cursor, Reply
  <2>2. Append(reached, 1) \in Seq(Nat \ {0}) /\ <<>> \in Seq(Reply)
    BY DEF CipherInv, TypeOK
  <2> QED BY <2>1, <2>2 DEF CipherInv, TypeOK, Call
<1>2. /\ reached' # <<>> /\ Len(reached') = Len(reached) + 1
      /\ DOMAIN reached' = DOMAIN reached \cup {Len(reached) + 1}
      /\ reached'[Len(reached) + 1] = 1
      /\ \A p \in DOMAIN reached : reached'[p] = reached[p]
  BY DEF CipherInv, TypeOK, Call
<1>3. PositionReached' /\ BufferIsKey'
  BY <1>2 DEF Call, PositionReached, BufferIsKey, FirstPortion
<1>4. \A i \in DOMAIN master : Ciphered(i)' = Ciphered(i)
  <2>1. DOMAIN master = 1..Len(master) /\ Len(master) \in Nat
    BY ContentLength, MaxPortionsAssumption DEF CipherInv, TypeOK
  <2> QED BY <1>2, <2>1 DEF Ciphered
<1>5. PrefixesOnly'
  BY <1>4 DEF CipherInv, PrefixesOnly, Call
<1> QED BY <1>1, <1>3, <1>5 DEF CipherInv

\* A turn of the loop: the portion at the position has been under the gamma in one pass
\* more, and no other portion has changed.
LEMMA CipherPortionStep ==
  ASSUME CipherInv, NEW reply \in Reply, CipherPortion(reply)
  PROVE  CipherInv'
<1>0. PICK p \in Nat \ {0}, n \in Nat \ {0} : p = cursor.position /\ n = Len(reached)
  BY DEF CipherInv, PositionReached, TypeOK, CipherPortion, Cursor
<1>1. /\ TypeOK /\ reached[n] = p /\ DOMAIN reached = 1..n
      /\ reached \in [1..n -> Nat \ {0}] /\ p \in DOMAIN master
  BY <1>0 DEF CipherInv, PositionReached, TypeOK, CipherPortion, PortionLeft
<1>2. /\ Len(reached') = n /\ DOMAIN reached' = 1..n
      /\ reached'[n] = p + 1
      /\ \A q \in 1..n : q # n => reached'[q] = reached[q]
      /\ reached' \in Seq(Nat \ {0})
  <2>1. reached' = [reached EXCEPT ![n] = p + 1]
    BY <1>0 DEF CipherPortion
  <2>2. reached' \in [1..n -> Nat \ {0}]
    BY <1>1, <2>1
  <2> QED BY <1>1, <2>1, <2>2
<1>3. /\ cursor' \in Cursor /\ cursor'.position = p + 1
      /\ cursor'.buffer = KeyBuffer(cursor, key)
  BY <1>0, <1>1, NextPortionCursor DEF CipherPortion, TypeOK
<1>4. master' \in Content /\ DOMAIN master' = DOMAIN master
  BY <1>1, GammaPortionContent DEF CipherPortion, TypeOK
<1>5. TypeOK'
  <2>1. answers' \in [1..p -> Reply]
    BY <1>0, <1>1 DEF CipherInv, PositionReached, CipherPortion, TypeOK
  <2>2. answers' \in Seq(Reply) /\ Len(answers') = p
    BY <2>1
  <2> QED BY <1>1, <1>2, <1>3, <1>4, <2>2 DEF CipherPortion, TypeOK
<1>6. KeyBuffer(cursor, key) = KeyAt(key, p)
  BY <1>0, KeyBufferIsKeyAt DEF CipherInv, TypeOK, BufferIsKey, CipherPortion
<1>7. PositionReached' /\ BufferIsKey'
  <2>1. p + 1 # 1 /\ (p + 1) - 1 = p
    BY <1>1
  <2>2. Len(answers') = p
    BY <1>0, <1>5 DEF CipherPortion, TypeOK
  <2> QED BY <1>1, <1>2, <1>3, <1>6, <2>1, <2>2 DEF PositionReached, BufferIsKey, CipherPortion
<1>8. ASSUME NEW i \in DOMAIN master, i # p
      PROVE  Ciphered(i)' = Ciphered(i) /\ master'[i] = master[i]
  <2>1. i \in Nat
    BY <1>1, ContentLength, MaxPortionsAssumption DEF TypeOK
  <2>2. i < p + 1 <=> i < p
    BY <1>1, <1>8, <2>1
  <2>3. Ciphered(i)' = Ciphered(i)
    BY <1>1, <1>2, <2>2 DEF Ciphered
  <2>4. master'[i] = master[i]
    BY <1>0, <1>8 DEF CipherPortion, GammaPortion
  <2> QED BY <2>3, <2>4
<1>9. Ciphered(p)' = Ciphered(p) \cup {n} /\ n \notin Ciphered(p)
  BY <1>1, <1>2 DEF Ciphered
<1>10. /\ Cardinality(Ciphered(p)) \in Nat
       /\ Cardinality(Ciphered(p)') = Cardinality(Ciphered(p)) + 1
  BY <1>1, <1>9, CipheredFinite, FS_AddElement
<1>11. master'[p] = GammaChunk(master[p], KeyAt(key, p))
  <2>1. master \in [DOMAIN master -> Chunk]
    BY <1>1, ContentLength DEF TypeOK
  <2> QED BY <1>0, <1>1, <1>6, <2>1 DEF CipherPortion, GammaPortion
<1>12. /\ KeyAt(key, p) \in Chunk /\ original[p] \in Chunk
       /\ GammaChunk(GammaChunk(original[p], KeyAt(key, p)), KeyAt(key, p)) = original[p]
  <2>1. KeyAt(key, p) \in Chunk
    BY <1>1, KeyAtChunk DEF TypeOK
  <2>2. original[p] \in Chunk
    BY <1>1, ContentLength DEF TypeOK
  <2> QED BY <2>1, <2>2, GammaAssumption
<1>13. master'[p] = IF Cardinality(Ciphered(p)') % 2 = 0
                    THEN original[p] ELSE GammaChunk(original[p], KeyAt(key, p))
  <2>1. CASE Cardinality(Ciphered(p)) % 2 = 0
    <3>1. Cardinality(Ciphered(p)') % 2 # 0
      BY <1>10, <2>1
    <3>2. master[p] = original[p]
      BY <1>1, <2>1 DEF CipherInv, PrefixesOnly
    <3> QED BY <1>11, <3>1, <3>2
  <2>2. CASE Cardinality(Ciphered(p)) % 2 # 0
    <3>1. Cardinality(Ciphered(p)') % 2 = 0
      BY <1>10, <2>2
    <3>2. master[p] = GammaChunk(original[p], KeyAt(key, p))
      BY <1>1, <2>2 DEF CipherInv, PrefixesOnly
    <3> QED BY <1>11, <1>12, <3>1, <3>2
  <2> QED BY <2>1, <2>2
<1>14. PrefixesOnly'
  <2> SUFFICES ASSUME NEW i \in DOMAIN master'
               PROVE  (master[i] = IF Cardinality(Ciphered(i)) % 2 = 0 THEN original[i]
                                   ELSE GammaChunk(original[i], KeyAt(key, i)))'
    BY DEF PrefixesOnly
  <2>1. original' = original /\ key' = key
    BY DEF CipherPortion
  <2>2. CASE i = p
    BY <1>13, <2>1, <2>2
  <2>3. CASE i # p
    BY <1>4, <1>8, <2>1, <2>3 DEF CipherInv, PrefixesOnly
  <2> QED BY <2>2, <2>3
<1> QED BY <1>5, <1>7, <1>14 DEF CipherInv

LEMMA NextCipher == CipherInv /\ [Next]_vars => CipherInv'
<1> SUFFICES ASSUME CipherInv, [Next]_vars PROVE CipherInv'
  OBVIOUS
<1>1. CASE Call
  BY <1>1, CallStep
<1>2. CASE \E reply \in Reply : CipherPortion(reply)
  BY <1>2, CipherPortionStep
<1>3. CASE Return \/ DriverFails
  BY <1>3 DEF Return, DriverFails, CipherInv, TypeOK, PositionReached, BufferIsKey,
              PrefixesOnly, Ciphered
<1>4. CASE UNCHANGED vars
  BY <1>4 DEF vars, CipherInv, TypeOK, PositionReached, BufferIsKey, PrefixesOnly, Ciphered
<1> QED BY <1>1, <1>2, <1>3, <1>4 DEF Next, CipherStep

-----------------------------------------------------------------------------
LEMMA CipherInvariant == Spec => []CipherInv
<1> QED BY InitCipher, NextCipher, PTL DEF Spec

\* The types: a pass never changes the length of the file (GammaFileCipher.cpp:48-61).
THEOREM CipherTypes == Spec => []TypeOK
<1>1. CipherInv => TypeOK
  BY DEF CipherInv
<1> QED BY <1>1, CipherInvariant, PTL

\* A portion is at every moment its original or its original under the gamma, by the
\* parity of the passes that have covered it, however the passes have ended
\* (GammaFileCipher.cpp:48-61).
THEOREM OnlyPrefixes == Spec => []PrefixesOnly
<1>1. CipherInv => PrefixesOnly
  BY DEF CipherInv
<1> QED BY <1>1, CipherInvariant, PTL

\* Two passes that both covered the file give it back, for keys of any length
\* (GammaFileCipher.cpp:50-54, 64-67).
THEOREM TwicePutsBack == Spec => []RoundTrip
<1>1. CipherInv => RoundTrip
  <2> SUFFICES ASSUME CipherInv, \A i \in DOMAIN master : Ciphered(i) = {1, 2}
               PROVE  master = original
    BY DEF RoundTrip
  <2>1. Cardinality({1, 2}) = 2
    <3>1. IsFiniteSet({1}) /\ Cardinality({1}) = 1
      BY FS_Singleton
    <3>2. {1, 2} = {1} \cup {2}
      OBVIOUS
    <3> QED BY <3>1, <3>2, FS_AddElement
  <2>2. \A i \in DOMAIN master : master[i] = original[i]
    BY <2>1 DEF CipherInv, PrefixesOnly
  <2>3. master \in [DOMAIN master -> Chunk] /\ original \in [DOMAIN master -> Chunk]
    BY ContentLength DEF CipherInv, TypeOK
  <2> QED BY <2>2, <2>3
<1> QED BY <1>1, CipherInvariant, PTL

-----------------------------------------------------------------------------
\* What the loop's variables keep of the answers: the flag "progress" is the first answer
\* other than "proceed", and a "stop" or "cancel" is obeyed at once.
ProgressIsDecision ==
  /\ cursor.progress = "proceed" => \A i \in DOMAIN answers : answers[i] = "proceed"
  /\ cursor.progress = "quiet" => \E i \in DOMAIN answers : Decides(i) /\ answers[i] = "quiet"
  /\ cursor.progress \in {"stop", "cancel"} => Len(answers) \in ToldToEnd
  /\ cursor.stop => cursor.progress \in {"stop", "cancel"}
  /\ cursor.progress \in {"stop", "cancel"} => cursor.stop

\* There is no answer before a pass and none beyond the file.
AnswersCounted ==
  /\ result = "idle" => answers = <<>>
  /\ cursor.position <= Len(master) + 1
  /\ result = "returned" => cursor.stop \/ ~ PortionLeft(cursor, master)

AnswersInv == CipherInv /\ ProgressIsDecision /\ AnswersCounted

\* Only one answer of a pass is the first.
LEMMA OneDecides ==
  ASSUME answers \in Seq(Reply), NEW i \in DOMAIN answers, NEW j \in DOMAIN answers,
         Decides(i), Decides(j)
  PROVE  i = j
<1>1. i \in Nat \ {0} /\ j \in Nat \ {0}
  OBVIOUS
<1>2. ~ (i < j) /\ ~ (j < i)
  BY <1>1 DEF Decides
<1> QED BY <1>1, <1>2

LEMMA ObeyedFromInvariant == AnswersInv => AnswersObeyed
<1> SUFFICES ASSUME AnswersInv PROVE AnswersObeyed
  OBVIOUS
<1>1. /\ answers \in Seq(Reply) /\ cursor.progress \in Reply
      /\ cursor.position \in Nat \ {0} /\ master \in Content
  BY DEF AnswersInv, CipherInv, TypeOK, Cursor
<1>2. ASSUME NEW i \in ToldToEnd
      PROVE  reached[Len(reached)] = i + 1
  <2>1. i \in DOMAIN answers /\ Decides(i) /\ answers[i] \in {"stop", "cancel"}
    BY DEF ToldToEnd
  <2>2. cursor.progress # "proceed"
    BY <2>1 DEF AnswersInv, ProgressIsDecision, Decides
  <2>3. cursor.progress # "quiet"
    <3> SUFFICES ASSUME cursor.progress = "quiet" PROVE FALSE
      OBVIOUS
    <3>1. PICK k \in DOMAIN answers : Decides(k) /\ answers[k] = "quiet"
      BY DEF AnswersInv, ProgressIsDecision
    <3>2. k = i
      BY <1>1, <2>1, <3>1, OneDecides
    <3> QED BY <2>1, <3>1, <3>2
  <2>4. Len(answers) \in ToldToEnd
    BY <1>1, <2>2, <2>3 DEF AnswersInv, ProgressIsDecision, Reply
  <2>5. i = Len(answers)
    BY <1>1, <2>1, <2>4, OneDecides DEF ToldToEnd
  <2>6. result # "idle"
    BY <2>1 DEF AnswersInv, AnswersCounted
  <2> QED BY <2>5, <2>6 DEF AnswersInv, CipherInv, PositionReached
<1>3. ASSUME result = "returned", ToldToEnd = {}
      PROVE  reached[Len(reached)] = Len(master) + 1
  <2>1. ~ PortionLeft(cursor, master)
    BY <1>3 DEF AnswersInv, ProgressIsDecision, AnswersCounted
  <2>2. DOMAIN master = 1..Len(master) /\ Len(master) \in Nat
    BY <1>1, ContentLength, MaxPortionsAssumption
  <2>3. cursor.position = Len(master) + 1
    BY <1>1, <2>1, <2>2 DEF AnswersInv, AnswersCounted, CipherInv, PositionReached, PortionLeft
  <2> QED BY <1>3, <2>3 DEF AnswersInv, CipherInv, PositionReached
<1> QED BY <1>2, <1>3 DEF AnswersObeyed

\* A turn of the loop: the reply is the deciding one when all before it were "proceed";
\* when one of them was "quiet", that stays the decision.
LEMMA ReplyStep ==
  ASSUME AnswersInv, NEW reply \in Reply, CipherPortion(reply)
  PROVE  ProgressIsDecision' /\ AnswersCounted'
<1>0. PICK n \in Nat : n = Len(answers) /\ cursor.position = n + 1
  BY DEF AnswersInv, CipherInv, TypeOK, PositionReached
<1>1. /\ answers \in Seq(Reply) /\ cursor \in Cursor
      /\ master \in Content /\ key \in Content
      /\ cursor.progress \in Reply /\ cursor.position \in Nat \ {0}
  BY DEF AnswersInv, CipherInv, TypeOK, Cursor
<1>2. /\ DOMAIN answers = 1..n /\ DOMAIN answers' = 1..(n + 1) /\ Len(answers') = n + 1
      /\ \A i \in 1..n : answers'[i] = answers[i]
      /\ answers'[n + 1] = reply
  BY <1>0, <1>1 DEF CipherPortion
<1>3. /\ cursor'.progress = NextProgress(cursor, reply)
      /\ cursor'.stop = (NextProgress(cursor, reply) \in {"stop", "cancel"})
  <2>1. cursor' = NextPortion(cursor, key, reply)
    BY DEF CipherPortion
  <2> QED BY <2>1, Zenon DEF NextPortion
<1>4. cursor.progress \in {"proceed", "quiet"}
  BY <1>1 DEF AnswersInv, ProgressIsDecision, CipherPortion, Reply
<1>5. ProgressIsDecision'
  <2>1. CASE cursor.progress = "proceed"
    <3>1. \A i \in 1..n : answers'[i] = "proceed"
      BY <1>2, <2>1 DEF AnswersInv, ProgressIsDecision
    <3>2. cursor'.progress = reply /\ cursor'.stop = (reply \in {"stop", "cancel"})
      BY <1>3, <2>1, Zenon DEF NextProgress
    <3>3. n + 1 \in DOMAIN answers' /\ (n + 1) - 1 = n
      BY <1>2
    <3>4. reply # "proceed" => Decides(n + 1)'
      BY <1>2, <3>1, <3>3 DEF Decides
    <3>5. reply \in {"stop", "cancel"} => Len(answers') \in ToldToEnd'
      BY <1>2, <3>3, <3>4 DEF ToldToEnd
    <3>6. reply = "quiet" => \E i \in DOMAIN answers' : Decides(i)' /\ answers'[i] = "quiet"
      BY <1>2, <3>3, <3>4
    <3>7. reply = "proceed" => \A i \in DOMAIN answers' : answers'[i] = "proceed"
      <4>1. \A i \in 1..(n + 1) : i \in 1..n \/ i = n + 1
        OBVIOUS
      <4> QED BY <1>2, <3>1, <4>1
    <3> QED BY <3>2, <3>5, <3>6, <3>7, Zenon DEF ProgressIsDecision
  <2>2. CASE cursor.progress = "quiet"
    <3>1. PICK k \in 1..n : Decides(k) /\ answers[k] = "quiet"
      BY <1>2, <2>2 DEF AnswersInv, ProgressIsDecision
    <3>2. \A j \in 1..(k - 1) : j \in 1..n
      OBVIOUS
    <3>3. k \in DOMAIN answers' /\ Decides(k)' /\ answers'[k] = "quiet"
      BY <1>1, <1>2, <3>1, <3>2 DEF Decides
    <3>4. cursor'.progress = "quiet" /\ ~ cursor'.stop
      BY <1>3, <2>2 DEF NextProgress
    <3> QED BY <3>3, <3>4 DEF ProgressIsDecision
  <2> QED BY <1>4, <2>1, <2>2
<1>6. AnswersCounted'
  <2>1. cursor'.position = cursor.position + 1
    BY <1>1, NextPortionCursor DEF CipherPortion
  <2>2. master' \in Content /\ DOMAIN master' = DOMAIN master
    BY <1>1, GammaPortionContent DEF CipherPortion
  <2>3. /\ DOMAIN master = 1..Len(master) /\ Len(master) \in Nat
        /\ DOMAIN master' = 1..Len(master') /\ Len(master') \in Nat
    BY <1>1, <2>2, ContentLength, MaxPortionsAssumption
  <2>4. cursor.position \in 1..Len(master) /\ Len(master') = Len(master)
    BY <2>2, <2>3 DEF CipherPortion, PortionLeft
  <2> QED BY <1>0, <1>1, <1>2, <2>1, <2>4 DEF AnswersInv, AnswersCounted, CipherPortion
<1> QED BY <1>5, <1>6

LEMMA NextAnswers == AnswersInv /\ [Next]_vars => AnswersInv'
<1> SUFFICES ASSUME AnswersInv, [Next]_vars PROVE AnswersInv'
  OBVIOUS
<1>0. CipherInv'
  BY NextCipher DEF AnswersInv
<1>1. CASE Call
  <2>1. answers' = <<>> /\ cursor' = FirstPortion /\ master' = master /\ result' = "running"
    BY <1>1 DEF Call
  <2>2. Len(master) \in Nat
    BY ContentLength, MaxPortionsAssumption DEF AnswersInv, CipherInv, TypeOK
  <2> QED BY <1>0, <2>1, <2>2 DEF AnswersInv, ProgressIsDecision, AnswersCounted, FirstPortion
<1>2. CASE \E reply \in Reply : CipherPortion(reply)
  BY <1>0, <1>2, ReplyStep DEF AnswersInv
<1>3. CASE Return \/ DriverFails \/ UNCHANGED vars
  BY <1>0, <1>3 DEF Return, DriverFails, vars, AnswersInv, ProgressIsDecision, AnswersCounted,
                    ToldToEnd, Decides, PortionLeft
<1> QED BY <1>1, <1>2, <1>3 DEF Next, CipherStep

\* A pass goes exactly as far as the first answer other than "proceed" says, for files and
\* keys of any length and any answers, failures and passes (GammaFileCipher.cpp:56-61).
THEOREM AnswersAreObeyed == Spec => []AnswersObeyed
<1>1. Init => AnswersInv
  <2> SUFFICES ASSUME Init PROVE AnswersInv
    OBVIOUS
  <2>1. CipherInv
    BY InitCipher
  <2>2. Len(master) \in Nat
    BY <2>1, ContentLength, MaxPortionsAssumption DEF CipherInv, TypeOK
  <2> QED BY <2>1, <2>2 DEF Init, FirstPortion, AnswersInv, ProgressIsDecision, AnswersCounted
<1> QED BY <1>1, NextAnswers, ObeyedFromInvariant, PTL DEF Spec
=============================================================================
