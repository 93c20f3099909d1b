---------------------------- MODULE GammaProofs ----------------------------
(***************************************************************************)
(* Facts about contents and about one turn of the cipher's loop, for every *)
(* chunk type, gamma and bound that satisfy the assumptions of Gamma.      *)
(***************************************************************************)
EXTENDS Gamma, TLAPS

\* A content is a function from the positions up to its length.
LEMMA ContentLength ==
  ASSUME NEW c \in Content
  PROVE  /\ Len(c) \in 0..MaxPortions
         /\ DOMAIN c = 1..Len(c)
         /\ c \in [1..Len(c) -> Chunk]
<1>1. PICK n \in 0..MaxPortions : c \in [1..n -> Chunk]
  BY DEF Content
<1>2. n \in Nat
  BY MaxPortionsAssumption
<1>3. DOMAIN c = 1..n /\ c \in Seq(Chunk)
  BY <1>1, <1>2
<1>4. Len(c) = n
  BY <1>2, <1>3
<1> QED BY <1>1, <1>3, <1>4

\* A function from the positions up to a bounded length is a content.
LEMMA FunctionIsContent ==
  ASSUME NEW n \in 0..MaxPortions, NEW c \in [1..n -> Chunk]
  PROVE  c \in Content
BY DEF Content

\* The empty file is a content.
LEMMA EmptyContent == <<>> \in Content
<1> DEFINE e == [i \in 1..0 |-> ZeroChunk]
<1>1. e \in [1..0 -> Chunk]
  BY ZeroChunkAssumption
<1>2. e \in Content
  <2>1. 0 \in 0..MaxPortions
    BY MaxPortionsAssumption
  <2> HIDE DEF e
  <2> QED BY <1>1, <2>1 DEF Content
<1>3. e = <<>>
  <2>1. e \in Seq(Chunk) /\ Len(e) = 0
    BY <1>1
  <2> QED BY <2>1
<1> QED BY <1>2, <1>3

\* A turn of the loop keeps the length of the file.
LEMMA GammaPortionContent ==
  ASSUME NEW cursor \in Cursor, NEW master \in Content, NEW key \in Content
  PROVE  /\ KeyBuffer(cursor, key) \in Chunk
         /\ GammaPortion(cursor, master, key) \in Content
         /\ DOMAIN GammaPortion(cursor, master, key) = DOMAIN master
<1>1. KeyBuffer(cursor, key) \in Chunk
  <2>1. key \in [1..Len(key) -> Chunk]
    BY ContentLength
  <2> QED BY <2>1 DEF KeyBuffer, Cursor
<1>2. /\ Len(master) \in 0..MaxPortions
      /\ master \in [1..Len(master) -> Chunk]
  BY ContentLength
<1> DEFINE out == GammaPortion(cursor, master, key)
<1>3. \A i \in 1..Len(master) : GammaChunk(master[i], KeyBuffer(cursor, key)) \in Chunk
  BY <1>1, <1>2, GammaAssumption
<1>4. out \in [1..Len(master) -> Chunk]
  BY <1>2, <1>3 DEF GammaPortion
<1>5. out \in Content
  BY <1>2, <1>4, FunctionIsContent
<1> QED BY <1>1, <1>2, <1>4, <1>5

\* The cursor of the next turn.
LEMMA NextPortionCursor ==
  ASSUME NEW cursor \in Cursor, NEW key \in Content, NEW reply \in Reply
  PROVE  /\ NextPortion(cursor, key, reply) \in Cursor
         /\ NextPortion(cursor, key, reply).position = cursor.position + 1
         /\ NextPortion(cursor, key, reply).buffer = KeyBuffer(cursor, key)
<1>1. KeyBuffer(cursor, key) \in Chunk
  BY ContentLength DEF KeyBuffer, Cursor
<1>2. NextProgress(cursor, reply) \in Reply
  BY DEF NextProgress, Cursor, Reply
<1> QED BY <1>1, <1>2 DEF NextPortion, Cursor

\* The key buffer of a turn is the portion of the key at its position, or the last one:
\* key_buffer keeps what the previous turn has put into it.
LEMMA KeyBufferIsKeyAt ==
  ASSUME NEW cursor \in Cursor, NEW key \in Content,
         cursor.buffer = IF cursor.position = 1 THEN ZeroChunk
                         ELSE KeyAt(key, cursor.position - 1)
  PROVE  KeyBuffer(cursor, key) = KeyAt(key, cursor.position)
<1>1. DOMAIN key = 1..Len(key) /\ Len(key) \in Nat
  BY ContentLength, MaxPortionsAssumption
<1>2. cursor.position \in Nat \ {0}
  BY DEF Cursor
<1>3. CASE cursor.position \in DOMAIN key
  BY <1>3 DEF KeyBuffer, KeyAt
<1>4. CASE cursor.position \notin DOMAIN key /\ cursor.position = 1
  <2>1. Len(key) = 0
    BY <1>1, <1>4
  <2>2. key = <<>>
    BY <2>1, ContentLength
  <2> QED BY <1>4, <2>2 DEF KeyBuffer, KeyAt
<1>5. CASE cursor.position \notin DOMAIN key /\ cursor.position # 1
  <2>1. KeyBuffer(cursor, key) = KeyAt(key, cursor.position - 1)
    BY <1>5 DEF KeyBuffer
  <2>2. CASE cursor.position - 1 \in DOMAIN key
    <3>1. cursor.position - 1 = Len(key) /\ key # <<>>
      BY <1>1, <1>2, <1>5, <2>2
    <3> QED BY <1>5, <2>1, <2>2, <3>1 DEF KeyAt
  <2>3. CASE cursor.position - 1 \notin DOMAIN key
    BY <1>5, <2>1, <2>3 DEF KeyAt
  <2> QED BY <2>2, <2>3
<1> QED BY <1>3, <1>4, <1>5
-----------------------------------------------------------------------------
(***************************************************************************)
(* Whole files.                                                            *)
(***************************************************************************)
\* A key restores what it has ciphered, also a key that is too short.
LEMMA GammaFileRestores ==
  ASSUME NEW c \in Content, NEW k \in Content, NEW d \in Content,
         DOMAIN d = DOMAIN c,
         \A i \in DOMAIN c : d[i] = GammaChunk(c[i], KeyAt(k, i))
  PROVE  GammaFile(d, k) = c
<1>1. /\ c \in [1..Len(c) -> Chunk] /\ DOMAIN c = 1..Len(c)
      /\ k \in [1..Len(k) -> Chunk] /\ DOMAIN k = 1..Len(k)
      /\ Len(c) \in Nat /\ Len(k) \in Nat
  BY ContentLength, MaxPortionsAssumption
<1>2. ASSUME NEW i \in DOMAIN c PROVE KeyAt(k, i) \in Chunk
  <2>1. CASE i \in DOMAIN k \/ k = <<>>
    BY <1>1, <2>1, ZeroChunkAssumption DEF KeyAt
  <2>2. CASE i \notin DOMAIN k /\ k # <<>>
    <3>1. Len(k) # 0
      BY <1>1, <2>2
    <3>2. Len(k) \in 1..Len(k)
      BY <1>1, <3>1
    <3> QED BY <1>1, <2>2, <3>2 DEF KeyAt
  <2> QED BY <2>1, <2>2
<1>3. \A i \in DOMAIN c : GammaChunk(d[i], KeyAt(k, i)) = c[i]
  BY <1>1, <1>2, GammaAssumption
<1> QED BY <1>1, <1>3 DEF GammaFile

\* What a key of any length makes of a file, and that it makes the file of it again.
LEMMA GammaFileContent ==
  ASSUME NEW c \in Content, NEW k \in Content
  PROVE  /\ GammaFile(c, k) \in Content
         /\ DOMAIN GammaFile(c, k) = DOMAIN c
         /\ GammaFile(GammaFile(c, k), k) = c
<1>1. /\ c \in [1..Len(c) -> Chunk] /\ DOMAIN c = 1..Len(c)
      /\ k \in [1..Len(k) -> Chunk] /\ DOMAIN k = 1..Len(k)
      /\ Len(c) \in 0..MaxPortions /\ Len(k) \in Nat
  BY ContentLength, MaxPortionsAssumption
<1>2. ASSUME NEW i \in DOMAIN c PROVE KeyAt(k, i) \in Chunk
  <2>1. CASE i \in DOMAIN k \/ k = <<>>
    BY <1>1, <2>1, ZeroChunkAssumption DEF KeyAt
  <2>2. CASE i \notin DOMAIN k /\ k # <<>>
    <3>1. Len(k) # 0
      BY <1>1, <2>2
    <3>2. Len(k) \in 1..Len(k)
      BY <1>1, <3>1
    <3> QED BY <1>1, <2>2, <3>2 DEF KeyAt
  <2> QED BY <2>1, <2>2
<1>3. GammaFile(c, k) \in [1..Len(c) -> Chunk]
  BY <1>1, <1>2, GammaAssumption DEF GammaFile
<1>4. GammaFile(c, k) \in Content
  BY <1>1, <1>3, FunctionIsContent
<1>5. /\ DOMAIN GammaFile(c, k) = DOMAIN c
      /\ \A i \in DOMAIN c : GammaFile(c, k)[i] = GammaChunk(c[i], KeyAt(k, i))
  BY DEF GammaFile
<1> QED BY <1>4, <1>5, GammaFileRestores

\* A content is known by its portions.
LEMMA ContentEqual ==
  ASSUME NEW c \in Content, NEW e \in Content, DOMAIN c = DOMAIN e, \A i \in DOMAIN c : c[i] = e[i]
  PROVE  c = e
<1>1. c \in [DOMAIN c -> Chunk] /\ e \in [DOMAIN e -> Chunk]
  BY ContentLength
<1> QED BY <1>1

\* A key of the size of the file is used portion by portion.
LEMMA GammaOfSameSize ==
  ASSUME NEW c \in Content, NEW k \in Content, DOMAIN k = DOMAIN c
  PROVE  /\ GammaFile(c, k) \in Content
         /\ DOMAIN GammaFile(c, k) = DOMAIN c
         /\ \A i \in DOMAIN c : k[i] \in Chunk /\ c[i] \in Chunk
                                /\ GammaFile(c, k)[i] = GammaChunk(c[i], k[i])
<1>1. /\ c \in [DOMAIN c -> Chunk] /\ k \in [DOMAIN k -> Chunk]
      /\ Len(c) \in 0..MaxPortions /\ DOMAIN c = 1..Len(c)
  BY ContentLength
<1>2. \A i \in DOMAIN c : k[i] \in Chunk /\ c[i] \in Chunk /\ KeyAt(k, i) = k[i]
  BY <1>1 DEF KeyAt
<1>3. GammaFile(c, k) = [i \in DOMAIN c |-> GammaChunk(c[i], KeyAt(k, i))]
  BY DEF GammaFile
<1>4. GammaFile(c, k) \in [1..Len(c) -> Chunk]
  BY <1>1, <1>2, <1>3, GammaAssumption
<1>5. GammaFile(c, k) \in Content
  BY <1>1, <1>4, FunctionIsContent
<1> QED BY <1>2, <1>3, <1>5

\* Two keys of the size of the file can be used in either order.
LEMMA GammaSwapped ==
  ASSUME GammaCommutesOn(Chunk), NEW c \in Content, NEW j \in Content, NEW k \in Content,
         DOMAIN j = DOMAIN c, DOMAIN k = DOMAIN c
  PROVE  GammaFile(GammaFile(c, j), k) = GammaFile(GammaFile(c, k), j)
<1> DEFINE x == GammaFile(c, j)
           y == GammaFile(c, k)
<1>1. /\ x \in Content /\ DOMAIN x = DOMAIN c
      /\ \A i \in DOMAIN c : j[i] \in Chunk /\ c[i] \in Chunk /\ x[i] = GammaChunk(c[i], j[i])
  BY GammaOfSameSize
<1>2. /\ y \in Content /\ DOMAIN y = DOMAIN c
      /\ \A i \in DOMAIN c : k[i] \in Chunk /\ y[i] = GammaChunk(c[i], k[i])
  BY GammaOfSameSize
<1> HIDE DEF x, y
<1>3. /\ GammaFile(x, k) \in Content /\ DOMAIN GammaFile(x, k) = DOMAIN c
      /\ \A i \in DOMAIN c : GammaFile(x, k)[i] = GammaChunk(x[i], k[i])
  BY <1>1, <1>2, GammaOfSameSize
<1>4. /\ GammaFile(y, j) \in Content /\ DOMAIN GammaFile(y, j) = DOMAIN c
      /\ \A i \in DOMAIN c : GammaFile(y, j)[i] = GammaChunk(y[i], j[i])
  BY <1>1, <1>2, GammaOfSameSize
<1>5. \A i \in DOMAIN c : GammaFile(x, k)[i] = GammaFile(y, j)[i]
  BY <1>1, <1>2, <1>3, <1>4 DEF GammaCommutesOn
<1>6. GammaFile(x, k) = GammaFile(y, j)
  BY <1>3, <1>4, <1>5, ContentEqual
<1> QED BY <1>6 DEF x, y
=============================================================================
