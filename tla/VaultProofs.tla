----------------------------- MODULE VaultProofs -----------------------------
(***************************************************************************)
(* The kernel keeps the promises of the vault, for any number of           *)
(* documents, portions, calls and failures: what is encrypted can be       *)
(* restored, and every step of the kernel is one of the vault.             *)
(***************************************************************************)
EXTENDS ServerVault, ServerCommunicatorProofs

-----------------------------------------------------------------------------
(***************************************************************************)
(* Keys and contents.                                                      *)
(***************************************************************************)
\* The key that would be found.
LEMMA KeyOfType ==
  ASSUME DriverType, NEW c \in Content, KeysOf(c) # {}
  PROVE  /\ KeyOf(c) \in KeysOf(c) /\ KeyOf(c) \in DOMAIN disk
         /\ KeyOf(c).directory \in Directory
         /\ disk[KeyOf(c)] \in Content
         /\ Restored(c) \in Content
<1>1. KeyOf(c) \in KeysOf(c)
  BY DEF KeyOf
<1>2. KeyOf(c) \in DOMAIN disk
  BY <1>1 DEF KeysOf
<1>3. KeyOf(c) \in Path /\ disk[KeyOf(c)] \in Content
  BY <1>2 DEF DriverType
<1> QED BY <1>1, <1>2, <1>3, GammaFileContent DEF Restored, Path

-----------------------------------------------------------------------------
(***************************************************************************)
(* Opening, a function defined by recursion, satisfies its equation.       *)
(***************************************************************************)
NoneUsed == [c \in Content |-> Bare(c)]

OneMore(rest) ==
  [c \in Content |->
     IF KeysOf(c) = {} THEN Bare(c) ELSE Under(KeyOf(c).directory, rest[Restored(c)])]

OpeningTurn(n, g) ==
  [c \in Content |->
     IF n = 0 \/ KeysOf(c) = {} THEN Bare(c)
     ELSE Under(KeyOf(c).directory, g[n - 1][Restored(c)])]

LEMMA OpeningTurns ==
  /\ \A g : OpeningTurn(0, g) = NoneUsed
  /\ \A g : \A n \in Nat \ {0} : OpeningTurn(n, g) = OneMore(g[n - 1])
BY DEF OpeningTurn, NoneUsed, OneMore

\* There is a function that satisfies the equation, for any bound.
LEMMA OpeningExists ==
  ASSUME NEW m \in Nat
  PROVE  \E g : g = [n \in 0..m |-> OpeningTurn(n, g)]
<1> DEFINE T == {k \in 0..m : \E g : g = [n \in 0..k |-> OpeningTurn(n, g)]}
<1>1. 0 \in T
  <2> DEFINE g == [n \in 0..0 |-> NoneUsed]
  <2>1. \A n \in 0..0 : OpeningTurn(n, g) = NoneUsed
    <3>1. \A n \in 0..0 : n = 0
      OBVIOUS
    <3> QED BY <3>1, OpeningTurns
  <2>2. g = [n \in 0..0 |-> OpeningTurn(n, g)]
    BY <2>1
  <2> QED BY <2>2
<1>2. ASSUME NEW k \in 0..m, k # m, k \in T
      PROVE  k + 1 \in T
  <2>1. PICK g : g = [n \in 0..k |-> OpeningTurn(n, g)]
    BY <1>2
  <2> DEFINE h == [n \in 0..(k + 1) |-> IF n = k + 1 THEN OneMore(g[k]) ELSE g[n]]
  <2>2. ASSUME NEW n \in 0..(k + 1) PROVE h[n] = OpeningTurn(n, h)
    <3>1. CASE n = 0
      <4>1. h[0] = g[0] /\ g[0] = OpeningTurn(0, g)
        BY <2>1
      <4> HIDE DEF h
      <4> QED BY <3>1, <4>1, OpeningTurns
    <3>2. CASE n \in 1..k
      <4>1. h[n] = g[n] /\ h[n - 1] = g[n - 1] /\ n \in Nat \ {0} /\ n \in 0..k
        BY <3>2
      <4>2. g[n] = OpeningTurn(n, g)
        BY <2>1, <4>1
      <4> HIDE DEF h
      <4> QED BY <4>1, <4>2, OpeningTurns
    <3>3. CASE n = k + 1
      <4>1. n \in Nat \ {0} /\ n - 1 = k /\ h[n] = OneMore(g[k]) /\ h[k] = g[k]
        BY <3>3
      <4> HIDE DEF h
      <4> QED BY <4>1, OpeningTurns
    <3> QED BY <3>1, <3>2, <3>3
  <2>3. h = [n \in 0..(k + 1) |-> OpeningTurn(n, h)]
    <3>1. h = [n \in 0..(k + 1) |-> h[n]]
      OBVIOUS
    <3> HIDE DEF h
    <3> QED BY <2>2, <3>1
  <2>4. k + 1 \in 0..m
    BY <1>2
  <2> HIDE DEF h
  <2> QED BY <2>3, <2>4
<1>3. 0..m \subseteq T
  <2> HIDE DEF T
  <2> QED BY <1>1, <1>2, UpTo
<1> QED BY <1>3

LEMMA OpeningUnfolds ==
  /\ Opening[0] = NoneUsed
  /\ \A n \in 1..MaxCalls : Opening[n] = OneMore(Opening[n - 1])
<1>1. \E g : g = [n \in 0..MaxCalls |-> OpeningTurn(n, g)]
  BY OpeningExists, CoreAssumption
<1>2. Opening = CHOOSE g : g = [n \in 0..MaxCalls |-> OpeningTurn(n, g)]
  BY DEF Opening, OpeningTurn
<1>3. Opening = [n \in 0..MaxCalls |-> OpeningTurn(n, Opening)]
  BY <1>1, <1>2
<1>4. \A n \in 0..MaxCalls : Opening[n] = OpeningTurn(n, Opening)
  BY <1>3
<1>5. MaxCalls \in Nat
  BY CoreAssumption
<1> QED BY <1>4, <1>5, OpeningTurns

OpeningRule ==
  \A c \in Content : \A n \in 0..MaxCalls :
    /\ n = 0 \/ KeysOf(c) = {} => Opening[n][c] = Bare(c)
    /\ n # 0 /\ KeysOf(c) # {} =>
         Opening[n][c] = Under(KeyOf(c).directory, Opening[n - 1][Restored(c)])

LEMMA OpeningAt == OpeningRule
<1> SUFFICES ASSUME NEW c \in Content, NEW n \in 0..MaxCalls
             PROVE  /\ n = 0 \/ KeysOf(c) = {} => Opening[n][c] = Bare(c)
                    /\ n # 0 /\ KeysOf(c) # {} =>
                         Opening[n][c] = Under(KeyOf(c).directory, Opening[n - 1][Restored(c)])
  BY DEF OpeningRule
<1>1. CASE n = 0
  BY <1>1, OpeningUnfolds DEF NoneUsed
<1>2. CASE n # 0
  <2>1. n \in 1..MaxCalls
    BY <1>2, CoreAssumption
  <2>2. Opening[n] = OneMore(Opening[n - 1])
    BY <2>1, OpeningUnfolds
  <2> QED BY <1>2, <2>2 DEF OneMore
<1> QED BY <1>1, <1>2

Standings == [inside : Content, locks : Seq(Directory)]

LEMMA UnderType ==
  ASSUME NEW d \in Directory, NEW rest \in Standings
  PROVE  /\ Under(d, rest) \in Standings
         /\ Under(d, rest) = [inside |-> rest.inside, locks |-> <<d>> \o rest.locks]
<1>1. rest.locks \in Seq(Directory) /\ rest.inside \in Content
  BY DEF Standings
<1>2. <<d>> \o rest.locks \in Seq(Directory)
  BY <1>1
<1>3. Under(d, rest) = [inside |-> rest.inside, locks |-> <<d>> \o rest.locks]
  <2>1. Under(d, rest) = [rest EXCEPT !.locks = <<d>> \o rest.locks]
    BY DEF Under
  <2>2. \A l : [rest EXCEPT !.locks = l] = [inside |-> rest.inside, locks |-> l]
    BY DEF Standings
  <2> QED BY <2>1, <2>2
<1> QED BY <1>1, <1>2, <1>3 DEF Standings

\* What is read off the keys has locks in directories and a content inside.
LEMMA OpeningType ==
  ASSUME DriverType
  PROVE  \A n \in 0..MaxCalls : \A c \in Content : Opening[n][c] \in Standings
<1> DEFINE T == {n \in 0..MaxCalls : \A c \in Content : Opening[n][c] \in Standings}
<1>1. \A c \in Content : Bare(c) \in Standings
  BY DEF Bare, Standings
<1>2. 0 \in T
  BY <1>1, OpeningAt, CoreAssumption DEF OpeningRule
<1>3. ASSUME NEW n \in 0..MaxCalls, n # MaxCalls, n \in T
      PROVE  n + 1 \in T
  <2>1. n + 1 \in 0..MaxCalls /\ n + 1 # 0 /\ (n + 1) - 1 = n
    BY <1>3, CoreAssumption
  <2>2. ASSUME NEW c \in Content PROVE Opening[n + 1][c] \in Standings
    <3>1. CASE KeysOf(c) = {}
      BY <1>1, <2>1, <3>1, OpeningAt DEF OpeningRule
    <3>2. CASE KeysOf(c) # {}
      <4>1. Opening[n + 1][c] = Under(KeyOf(c).directory, Opening[n][Restored(c)])
        BY <2>1, <3>2, OpeningAt DEF OpeningRule
      <4>2. KeyOf(c).directory \in Directory /\ Opening[n][Restored(c)] \in Standings
        BY <1>3, <3>2, KeyOfType
      <4> QED BY <4>1, <4>2, UnderType
    <3> QED BY <3>1, <3>2
  <2> QED BY <2>1, <2>2
<1>4. MaxCalls \in Nat
  BY CoreAssumption
<1> HIDE DEF T
<1>5. 0..MaxCalls \subseteq T
  BY <1>2, <1>3, <1>4, UpTo
<1> QED BY <1>5 DEF T

-----------------------------------------------------------------------------
(***************************************************************************)
(* The keys as a graph: a key leads from the content it is named after to  *)
(* the content it restores.                                                *)
(***************************************************************************)
\* No two key files have one name, in whatever folders.
OneKey == \A p, q \in DOMAIN disk : p.name \in KeyName /\ p.name = q.name => p = q

\* The keys lead downwards.
Ranks(rank) ==
  \A c \in Content : \A p \in KeysOf(c) : rank[GammaFile(c, disk[p])] < rank[c]

LEMMA OneKeyOf ==
  ASSUME OneKey, NEW c \in Content, NEW p \in KeysOf(c)
  PROVE  KeyOf(c) = p /\ Restored(c) = GammaFile(c, disk[p])
<1>1. KeyOf(c) \in KeysOf(c)
  BY DEF KeyOf
<1>2. KeyOf(c) = p
  BY <1>1, NameAssumption DEF KeysOf, OneKey
<1> QED BY <1>2 DEF Restored

\* More turns than the keys have ranks change nothing.
LEMMA OpeningStable ==
  ASSUME DriverType, OneKey, NEW rank \in [Content -> 0..MaxCalls], Ranks(rank)
  PROVE  \A n \in 0..MaxCalls : \A c \in Content :
           rank[c] <= n => Opening[n][c] = Opening[rank[c]][c]
<1> DEFINE T == {n \in 0..MaxCalls : \A m \in 0..n : \A c \in Content :
                   rank[c] <= m => Opening[m][c] = Opening[rank[c]][c]}
<1>1. MaxCalls \in Nat /\ \A c \in Content : rank[c] \in 0..MaxCalls
  BY CoreAssumption
<1>2. 0 \in T
  <2>1. \A m \in 0..0 : m = 0
    OBVIOUS
  <2>2. \A c \in Content : rank[c] <= 0 => rank[c] = 0
    BY <1>1
  <2> QED BY <1>1, <2>1, <2>2
<1>3. ASSUME NEW n \in 0..MaxCalls, n # MaxCalls, n \in T
      PROVE  n + 1 \in T
  <2>1. n + 1 \in 0..MaxCalls /\ n + 1 # 0 /\ (n + 1) - 1 = n /\ n \in Nat
    BY <1>1, <1>3
  <2>2. ASSUME NEW c \in Content, rank[c] <= n + 1
        PROVE  Opening[n + 1][c] = Opening[rank[c]][c]
    <3>1. CASE KeysOf(c) = {}
      BY <1>1, <2>1, <3>1, OpeningAt DEF OpeningRule
    <3>2. CASE KeysOf(c) # {}
      <4> DEFINE e == Restored(c)
      <4>1. e \in Content /\ rank[e] < rank[c]
        BY <3>2, KeyOfType, OneKeyOf DEF Ranks
      <4>2. rank[e] \in 0..MaxCalls /\ rank[c] \in 0..MaxCalls
        BY <1>1, <4>1
      <4>3. /\ rank[c] # 0 /\ rank[c] - 1 \in 0..n /\ rank[e] <= rank[c] - 1
            /\ n \in 0..n /\ rank[e] <= n
        BY <2>1, <2>2, <4>1, <4>2
      <4>4. /\ Opening[n][e] = Opening[rank[e]][e]
            /\ Opening[rank[c] - 1][e] = Opening[rank[e]][e]
        <5> HIDE DEF e
        <5> QED BY <1>3, <4>1, <4>3
      <4>5. /\ Opening[n + 1][c] = Under(KeyOf(c).directory, Opening[n][e])
            /\ Opening[rank[c]][c] = Under(KeyOf(c).directory, Opening[rank[c] - 1][e])
        BY <2>1, <3>2, <4>2, <4>3, OpeningAt DEF OpeningRule
      <4> HIDE DEF e
      <4> QED BY <4>4, <4>5
    <3> QED BY <3>1, <3>2
  <2>3. \A m \in 0..(n + 1) : m \in 0..n \/ m = n + 1
    BY <2>1
  <2> QED BY <1>3, <2>1, <2>2, <2>3
<1> HIDE DEF T
<1>4. 0..MaxCalls \subseteq T
  BY <1>1, <1>2, <1>3, UpTo
<1> QED BY <1>1, <1>4 DEF T

\* The locks of a content, when the keys have ranks: the folder of its key, and the
\* locks of what this key restores.
LEMMA OpenedUnfolds ==
  ASSUME DriverType, OneKey, NEW rank \in [Content -> 0..MaxCalls], Ranks(rank),
         NEW c \in Content
  PROVE  /\ KeysOf(c) = {} => Opened(c) = Bare(c)
         /\ KeysOf(c) # {} => Opened(c) = Under(KeyOf(c).directory, Opened(Restored(c)))
<1>1. MaxCalls \in Nat /\ MaxCalls \in 0..MaxCalls
  BY CoreAssumption
<1>2. CASE KeysOf(c) = {}
  BY <1>1, <1>2, OpeningAt DEF OpeningRule, Opened
<1>3. CASE KeysOf(c) # {}
  <2> DEFINE e == Restored(c)
  <2>1. e \in Content /\ rank[e] < rank[c] /\ rank[e] \in 0..MaxCalls /\ rank[c] \in 0..MaxCalls
    BY <1>3, KeyOfType, OneKeyOf DEF Ranks
  <2>2. /\ MaxCalls # 0 /\ MaxCalls - 1 \in 0..MaxCalls
        /\ rank[e] <= MaxCalls - 1 /\ rank[e] <= MaxCalls
    BY <1>1, <2>1
  <2> HIDE DEF e
  <2>3. /\ Opening[MaxCalls][e] = Opening[rank[e]][e]
        /\ Opening[MaxCalls - 1][e] = Opening[rank[e]][e]
    BY <1>1, <2>1, <2>2, OpeningStable
  <2>4. Opening[MaxCalls][c] = Under(KeyOf(c).directory, Opening[MaxCalls - 1][e])
    BY <1>1, <1>3, <2>2, OpeningAt DEF OpeningRule, e
  <2> QED BY <1>3, <2>3, <2>4 DEF Opened, e
<1> QED BY <1>2, <1>3

\* A step that leaves alone the keys of a set of contents that no key leaves, leaves
\* alone the locks of these contents.
LEMMA OpenedKept ==
  ASSUME DriverType, OneKey, NEW A \in SUBSET Content,
         \A c \in A : /\ KeysOf(c)' = KeysOf(c)
                      /\ \A p \in KeysOf(c) : /\ disk'[p] = disk[p]
                                              /\ GammaFile(c, disk[p]) \in A
  PROVE  \A c \in A : Opened(c)' = Opened(c)
<1> DEFINE T == {n \in 0..MaxCalls : \A c \in A : Opening'[n][c] = Opening[n][c]}
<1>1. MaxCalls \in Nat /\ MaxCalls \in 0..MaxCalls /\ 0 \in 0..MaxCalls
  BY CoreAssumption
<1>2. OpeningRule /\ OpeningRule'
  BY OpeningAt, PTL
<1>2a. \A c \in Content : \A n \in 0..MaxCalls :
        /\ n = 0 \/ KeysOf(c)' = {} => Opening'[n][c] = Bare(c)
        /\ n # 0 /\ KeysOf(c)' # {} =>
             Opening'[n][c] = Under(KeyOf(c)'.directory, Opening'[n - 1][Restored(c)'])
  BY <1>2 DEF OpeningRule, Bare, Under
<1>3. ASSUME NEW c \in A, KeysOf(c) # {}
      PROVE  /\ KeyOf(c)' = KeyOf(c) /\ Restored(c)' = Restored(c) /\ Restored(c) \in A
  <2>1. KeyOf(c) \in KeysOf(c) /\ KeyOf(c)' \in KeysOf(c)
    BY <1>3 DEF KeyOf
  <2>2. KeyOf(c)' = KeyOf(c)
    BY <2>1, OneKeyOf
  <2>3. disk'[KeyOf(c)] = disk[KeyOf(c)] /\ GammaFile(c, disk[KeyOf(c)]) \in A
    BY <2>1
  <2> QED BY <2>2, <2>3 DEF Restored
<1>4. 0 \in T
  <2>1. ASSUME NEW c \in A PROVE Opening'[0][c] = Opening[0][c]
    <3>1. Opening[0][c] = Bare(c) /\ Opening'[0][c] = Bare(c)
      BY <1>1, <1>2 DEF OpeningRule, Bare
    <3> QED BY <3>1
  <2> QED BY <1>1, <2>1
<1>5. ASSUME NEW n \in 0..MaxCalls, n # MaxCalls, n \in T
      PROVE  n + 1 \in T
  <2>1. n + 1 \in 0..MaxCalls /\ n + 1 # 0 /\ (n + 1) - 1 = n
    BY <1>1, <1>5
  <2>2. ASSUME NEW c \in A PROVE Opening'[n + 1][c] = Opening[n + 1][c]
    <3>1. CASE KeysOf(c) = {}
      <4>1. Opening[n + 1][c] = Bare(c) /\ Opening'[n + 1][c] = Bare(c)
        BY <1>2, <2>1, <3>1 DEF OpeningRule, Bare
      <4> QED BY <4>1
    <3>2. CASE KeysOf(c) # {}
      <4>1. Opening[n + 1][c] = Under(KeyOf(c).directory, Opening[n][Restored(c)])
        BY <1>2, <2>1, <3>2 DEF OpeningRule
      <4>2. Opening'[n + 1][c] = Under(KeyOf(c)'.directory, Opening'[n][Restored(c)'])
        <5>1. KeysOf(c)' # {} /\ c \in Content
          BY <3>2
        <5> QED BY <1>2a, <2>1, <5>1
      <4>3. Opening'[n][Restored(c)] = Opening[n][Restored(c)]
        BY <1>3, <1>5, <3>2
      <4> QED BY <1>3, <3>2, <4>1, <4>2, <4>3
    <3> QED BY <3>1, <3>2
  <2> QED BY <2>1, <2>2
<1> HIDE DEF T
<1>6. 0..MaxCalls \subseteq T
  BY <1>1, <1>4, <1>5, UpTo
<1> QED BY <1>1, <1>6 DEF T, Opened

-----------------------------------------------------------------------------
(***************************************************************************)
(* The invariant.  Every content with a key belongs to one document: the   *)
(* one that stands at it, or that can get there by its keys.               *)
(***************************************************************************)
Ownership(owner) ==
  /\ \A f \in DocumentPath :
       Exists(f) /\ KeysOf(StandsAt(f)) # {} => owner[StandsAt(f)] = f
  /\ \A c \in Content : \A p \in KeysOf(c) :
       KeysOf(GammaFile(c, disk[p])) # {} => owner[GammaFile(c, disk[p])] = owner[c]

\* The calls that may have left a key.
KeyCalls ==
  IF InFileCall /\ Encrypting /\ step \notin {"wipe", "remove"} THEN calls - 1 ELSE calls

Graph ==
  \E owner \in [Content -> DocumentPath \cup {NoFile}], rank \in [Content -> 0..KeyCalls] :
    Ownership(owner) /\ Ranks(rank)

FoldersExist == \A p \in DOMAIN disk : p.directory \in directories

NewKeyInFolder ==
  step \in WorkSteps /\ Encrypting =>
    call.key.name \in TempName /\ call.key.directory = Resolve(storagePath)

VaultInv == OneKey /\ FoldersExist /\ NewKeyInFolder /\ Graph

-----------------------------------------------------------------------------
(***************************************************************************)
(* Steps that leave the key files alone.                                   *)
(***************************************************************************)
SameFile(p) ==
  (p \in DOMAIN disk' <=> p \in DOMAIN disk) /\ (p \in DOMAIN disk => disk'[p] = disk[p])

SameKeys == \A p \in Path : p.name \in KeyName => SameFile(p)

OnlyTemporary == \A p \in Path : p.name \notin TempName => SameFile(p)

\* A document stands where it stood.
Stands(f) ==
  (f \in DOMAIN disk' <=> f \in DOMAIN disk) /\ (f \in DOMAIN disk => StandsAt(f)' = StandsAt(f))

Quiet == SameKeys /\ \A f \in DocumentPath : Stands(f)

LEMMA SameKeysOf ==
  ASSUME DriverType, DriverType', SameKeys, NEW c \in Content
  PROVE  KeysOf(c)' = KeysOf(c) /\ \A p \in KeysOf(c) : disk'[p] = disk[p]
<1>1. Md5(c) \in KeyName
  BY NameAssumption
<1> QED BY <1>1 DEF SameKeys, SameFile, KeysOf, DriverType

LEMMA SameKeysOneKey ==
  ASSUME DriverType, DriverType', SameKeys, OneKey
  PROVE  OneKey'
BY DEF SameKeys, SameFile, OneKey, DriverType

LEMMA SameKeysRanks ==
  ASSUME DriverType, DriverType', SameKeys, NEW rank, Ranks(rank)
  PROVE  Ranks(rank)'
BY SameKeysOf DEF Ranks

\* Where a document stands is a content.
LEMMA StandsAtType ==
  ASSUME IInv, NEW f \in DocumentPath, Exists(f)
  PROVE  StandsAt(f) \in Content
<1>1. CASE InWork(f)
  BY <1>1, FilesOfCall DEF InWork, StandsAt, WorkSteps
<1>2. CASE ~ InWork(f)
  BY <1>2 DEF StandsAt, IInv, TypeOK, Exists
<1> QED BY <1>1, <1>2

\* A document may also come to stand at a content without a key, or at what the key of
\* the content it stood at restores.
Stays(f) ==
  f \in DOMAIN disk' =>
    \E c \in Content :
      /\ StandsAt(f)' = c
      /\ \/ KeysOf(c) = {}
         \/ f \in DOMAIN disk /\ c = StandsAt(f)
         \/ f \in DOMAIN disk /\ KeysOf(StandsAt(f)) # {} /\ c = Restored(StandsAt(f))

LEMMA GraphKept ==
  ASSUME IInv, IInv', OneKey, Graph, SameKeys,
         0..KeyCalls \subseteq 0..KeyCalls',
         \A f \in DocumentPath : Stays(f)
  PROVE  Graph'
<1>1. DriverType /\ DriverType'
  BY TypesOfDriver DEF IInv, TypeOK, DriverType
<1>2. PICK owner \in [Content -> DocumentPath \cup {NoFile}], rank \in [Content -> 0..KeyCalls] :
        Ownership(owner) /\ Ranks(rank)
  BY DEF Graph
<1>3. rank \in [Content -> 0..KeyCalls'] /\ Ranks(rank)'
  BY <1>1, <1>2, SameKeysRanks
<1>4. ASSUME NEW f \in DocumentPath, Exists(f)', KeysOf(StandsAt(f))' # {}
      PROVE  owner[StandsAt(f)'] = f
  <2>1. PICK c \in Content :
          /\ StandsAt(f)' = c
          /\ \/ KeysOf(c) = {}
             \/ f \in DOMAIN disk /\ c = StandsAt(f)
             \/ f \in DOMAIN disk /\ KeysOf(StandsAt(f)) # {} /\ c = Restored(StandsAt(f))
    BY <1>4 DEF Stays, Exists
  <2>2. KeysOf(c) # {}
    <3>1. KeysOf(StandsAt(f))' = KeysOf(c)'
      BY <2>1 DEF KeysOf
    <3> QED BY <1>1, <1>4, <3>1, SameKeysOf
  <2>3. CASE f \in DOMAIN disk /\ c = StandsAt(f)
    BY <1>2, <2>1, <2>2, <2>3 DEF Ownership, Exists
  <2>4. CASE f \in DOMAIN disk /\ KeysOf(StandsAt(f)) # {} /\ c = Restored(StandsAt(f))
    <3>1. StandsAt(f) \in Content
      BY <2>4, StandsAtType DEF Exists
    <3>2. KeyOf(StandsAt(f)) \in KeysOf(StandsAt(f))
      BY <2>4 DEF KeyOf
    <3>3. owner[c] = owner[StandsAt(f)] /\ owner[StandsAt(f)] = f
      BY <1>2, <2>2, <2>4, <3>1, <3>2 DEF Ownership, Restored, Exists
    <3> QED BY <2>1, <3>3
  <2> QED BY <2>1, <2>2, <2>3, <2>4
<1>5. ASSUME NEW c \in Content, NEW p \in KeysOf(c)', KeysOf(GammaFile(c, disk[p]))' # {}
      PROVE  owner[GammaFile(c, disk'[p])] = owner[c]
  <2>1. p \in KeysOf(c) /\ disk'[p] = disk[p]
    BY <1>1, SameKeysOf
  <2>2. GammaFile(c, disk[p]) \in Content
    BY <1>1, <2>1, GammaFileContent DEF KeysOf, DriverType
  <2>3. KeysOf(GammaFile(c, disk[p])) # {}
    <3>1. KeysOf(GammaFile(c, disk[p]))' = {q \in DOMAIN disk' : q.name = Md5(GammaFile(c, disk[p]))}
      BY <2>1 DEF KeysOf
    <3> QED BY <1>1, <1>5, <2>2, <3>1, SameKeysOf DEF KeysOf
  <2> QED BY <1>2, <2>1, <2>3 DEF Ownership
<1>6. Ownership(owner)'
  BY <1>4, <1>5 DEF Ownership, Exists
<1> QED BY <1>2, <1>3, <1>6 DEF Graph

\* The names of documents and of keys are not temporary.
LEMMA OnlyTemporarySame ==
  ASSUME OnlyTemporary
  PROVE  SameKeys /\ \A f \in DocumentPath : SameFile(f)
<1>1. SameKeys
  BY NameAssumption DEF OnlyTemporary, SameKeys
<1>2. \A f \in DocumentPath : f \in Path /\ f.name \notin TempName
  BY NameAssumption, ServerAssumption DEF DocumentPath, Path, Name
<1> QED BY <1>1, <1>2 DEF OnlyTemporary

LEMMA IdleIsQuiet ==
  ASSUME OnlyTemporary, step \notin WorkSteps, step' \notin WorkSteps
  PROVE  Quiet
<1>1. \A f \in DocumentPath : ~ InWork(f) /\ ~ InWork(f)'
  BY DEF InWork, WorkSteps
<1>2. \A f \in DocumentPath : StandsAt(f) = disk[f] /\ StandsAt(f)' = disk'[f]
  BY <1>1 DEF StandsAt
<1> QED BY <1>2, OnlyTemporarySame DEF Quiet, Stands, SameFile

\* The steps that create, write or remove a temporary file.
LEMMA TemporaryFiles ==
  ASSUME IInv,
         \/ CopyPortion \/ CommitBackup \/ OverwriteBackup \/ RemoveBackup
         \/ CreateKeyFile \/ KeyWriteFails
         \/ \E op \in {"encrypt", "decrypt"}, f \in DocumentPath : BeginCall(op, f)
  PROVE  OnlyTemporary
<1>1. CASE CopyPortion \/ OverwriteBackup \/ RemoveBackup
  <2>1. call.backup.name \in TempName
    BY <1>1 DEF CopyPortion, OverwriteBackup, RemoveBackup, IInv, CallMatchesStep, FileSteps
  <2>2. \A p \in Path : p # call.backup => SameFile(p)
    BY <1>1 DEF CopyPortion, OverwriteBackup, RemoveBackup, WriteFile, RemoveFile, Without,
                Restrict, SameFile
  <2> QED BY <2>1, <2>2 DEF OnlyTemporary
<1>2. CASE CommitBackup
  BY <1>2 DEF CommitBackup, Commit, OnlyTemporary, SameFile
<1>3. CASE CreateKeyFile \/ KeyWriteFails
  <2>1. PICK p \in FreeTempPaths(Resolve(storagePath)) : \E c : CreateFile(p, c)
    BY <1>3 DEF CreateKeyFile, KeyWriteFails
  <2>2. p.name \in TempName
    BY <2>1, TempPathType, CoreAssumption DEF IInv, TypeOK
  <2>3. \A q \in Path : q # p => SameFile(q)
    BY <2>1 DEF CreateFile, With, SameFile, Exists
  <2> QED BY <2>2, <2>3 DEF OnlyTemporary
<1>4. ASSUME NEW op \in {"encrypt", "decrypt"}, NEW f \in DocumentPath, BeginCall(op, f)
      PROVE  OnlyTemporary
  <2>1. PICK p \in FreeTempPaths(f.directory) : CreateFile(p, <<>>)
    BY <1>4 DEF BeginCall
  <2>2. p.name \in TempName
    BY <2>1, TempPathType, ServerAssumption DEF DocumentPath
  <2>3. \A q \in Path : q # p => SameFile(q)
    BY <2>1 DEF CreateFile, With, SameFile, Exists
  <2> QED BY <2>2, <2>3 DEF OnlyTemporary
<1> QED BY <1>1, <1>2, <1>3, <1>4

LEMMA SameDisk ==
  ASSUME disk' = disk
  PROVE  OnlyTemporary
BY DEF OnlyTemporary, SameFile

\* The core takes the document over: it stands where it was.
LEMMA WorkBeginsQuietly ==
  ASSUME IInv, CreateKeyFile \/ LocateKey
  PROVE  Quiet
<1>1. OnlyTemporary
  BY TemporaryFiles, SameDisk DEF LocateKey, driverVars
<1>2. step = "core" /\ step' = "cipher" /\ call \in FileCall /\ disk[call.file] = call.before
  BY FilesOfCall DEF CreateKeyFile, LocateKey, IInv, CopyInProgress
<1>3. call'.file = call.file /\ call'.before = call.before
  BY <1>2 DEF CreateKeyFile, LocateKey, FileCall
<1>4. \A f \in DocumentPath : StandsAt(f) = disk[f]
  BY <1>2 DEF StandsAt, InWork
<1>5. \A f \in DocumentPath :
        (StandsAt(f)' = disk'[f]) \/ (f = call.file /\ StandsAt(f)' = call.before)
  BY <1>2, <1>3 DEF StandsAt, InWork
<1> QED BY <1>1, <1>2, <1>4, <1>5, OnlyTemporarySame DEF Quiet, Stands, SameFile

\* While the core works, the document stands where it was.
LEMMA WorkIsQuiet ==
  ASSUME IInv, CipherPortion \/ CoreCiphered
  PROVE  Quiet
<1>1. step \in WorkSteps /\ step' \in WorkSteps /\ step = "cipher"
  BY DEF CipherPortion, CoreCiphered, CipherReturns, WorkSteps
<1>2. call \in FileCall /\ call.file \in DocumentPath /\ InFileCall
  BY <1>1, FilesOfCall DEF FileCall, InFileCall
<1>3. /\ call'.file = call.file /\ call'.before = call.before
      /\ call'.operation = call.operation
  BY <1>2 DEF CipherPortion, CoreCiphered, CipherReturns, FileCall
<1>4. \A p \in Path : p # call.file => SameFile(p)
  BY DEF CipherPortion, CoreCiphered, CipherReturns, WriteFile, SameFile, driverVars
<1>5. DOMAIN disk' = DOMAIN disk
  BY DEF CipherPortion, CoreCiphered, CipherReturns, WriteFile, driverVars
<1>6. SameKeys
  <2>1. call.file.name \notin KeyName
    BY <1>2, NameAssumption DEF DocumentPath
  <2> QED BY <1>4, <2>1 DEF SameKeys
<1>7. ASSUME NEW f \in DocumentPath PROVE Stands(f)
  <2>1. CASE f = call.file
    BY <1>1, <1>2, <1>3, <1>5, <2>1 DEF Stands, StandsAt, InWork, InFileCall, WorkSteps
  <2>2. CASE f # call.file
    <3>1. f \in Path /\ StandsAt(f) = disk[f] /\ StandsAt(f)' = disk'[f]
      BY <1>3, <2>2, ServerAssumption DEF StandsAt, InWork, DocumentPath, Path, Name
    <3> QED BY <1>4, <2>2, <3>1 DEF Stands, SameFile
  <2> QED BY <2>1, <2>2
<1> QED BY <1>6, <1>7 DEF Quiet

LEMMA QuietStays ==
  ASSUME IInv, Quiet, NEW f \in DocumentPath
  PROVE  Stays(f)
BY StandsAtType DEF Quiet, Stands, Stays, Exists

\* The steps of the settings and of the process.
SettingsOrProcess ==
  \/ \E path \in StoragePath : SetKeyStoragePath(path)
  \/ SaveKeyStoragePath \/ RemovePreviousPath
  \/ \E value \in WipeMethod : SetWipeMethod(value)
  \/ \E core \in CoreType : SetCipher(core)
  \/ Construct \/ ConstructFails \/ Close \/ UserDeletesKeyFolder

\* All that the core does to a document, and the failures within its work.
WorkEnds == step \in WorkSteps /\ (DriverFails \/ Crash)

LEMMA SettingsAreQuiet ==
  ASSUME SettingsOrProcess
  PROVE  Quiet /\ step \notin WorkSteps /\ step' \notin WorkSteps
<1>1. disk' = disk
  BY DEF SettingsOrProcess, SetKeyStoragePath, SaveKeyStoragePath, RemovePreviousPath,
         SetWipeMethod, SetCipher, Construct, ConstructFails, Close, UserDeletesKeyFolder,
         driverVars
<1>2. step \notin WorkSteps /\ step' \notin WorkSteps
  BY DEF SettingsOrProcess, SetKeyStoragePath, SaveKeyStoragePath, RemovePreviousPath, EndCall,
         SetWipeMethod, SetCipher, Construct, ConstructFails, Close, UserDeletesKeyFolder,
         coreVars, WorkSteps, Busy
<1> QED BY <1>1, <1>2, SameDisk, IdleIsQuiet

\* The steps of a call outside the work of its core.
LEMMA BackupIsQuiet ==
  ASSUME IInv,
         \/ \E op \in {"encrypt", "decrypt"}, f \in DocumentPath : BeginCall(op, f)
         \/ CopyPortion \/ CommitBackup \/ OverwriteBackup \/ RemoveBackup
         \/ CoreBreaks \/ NoPlaceForKey \/ KeyMissing
  PROVE  Quiet /\ step \notin WorkSteps /\ step' \notin WorkSteps
<1>1. OnlyTemporary
  <2>1. CASE NoPlaceForKey \/ KeyMissing
    BY <2>1, SameDisk DEF NoPlaceForKey, KeyMissing, driverVars
  <2>2. CASE ~ (NoPlaceForKey \/ KeyMissing)
    BY <2>2, TemporaryFiles DEF CoreBreaks
  <2> QED BY <2>1, <2>2
<1>2. step \notin WorkSteps /\ step' \notin WorkSteps
  BY DEF BeginCall, CopyPortion, CommitBackup, OverwriteBackup, RemoveBackup, CoreBreaks,
         KeyWriteFails, NoPlaceForKey, KeyMissing, EndCall, WorkSteps
<1> QED BY <1>1, <1>2, IdleIsQuiet

\* A failure elsewhere than in the work of the core.
LEMMA FailureIsQuiet ==
  ASSUME DriverFails \/ Crash, ~ WorkEnds
  PROVE  Quiet /\ step \notin WorkSteps /\ step' \notin WorkSteps
<1>1. disk' = disk
  BY DEF DriverFails, Crash, driverVars
<1>2. step \notin WorkSteps /\ step' \notin WorkSteps
  BY DEF WorkEnds, DriverFails, Crash, Throw, EndCall, WorkSteps
<1> QED BY <1>1, <1>2, SameDisk, IdleIsQuiet

\* The key of a running decryption is the one named after the document.
LEMMA KeyOfDecryption ==
  ASSUME IInv, DeliveryInv, OneKey, step \in WorkSteps, Decrypting
  PROVE  /\ call.key \in KeysOf(call.before)
         /\ Restored(call.before) = GammaFile(call.before, disk[call.key])
<1>1. call.key = At(Resolve(storagePath), Md5(call.before))
  BY DEF DeliveryInv, CipherCompletes
<1>2. Exists(call.key) /\ call.before \in Content
  BY FilesOfCall DEF IInv, KeyInUse
<1>3. call.key \in KeysOf(call.before)
  BY <1>1, <1>2 DEF KeysOf, At, Exists
<1> QED BY <1>2, <1>3, OneKeyOf

\* A call that fails while the core works leaves the document as it was, decrypted, or
\* without a key.
LEMMA WorkEndsStays ==
  ASSUME IInv, DeliveryInv, OneKey, CipheredIsNew, WorkEnds, NEW f \in DocumentPath
  PROVE  SameKeys /\ Stays(f)
<1>1. disk' = disk /\ step' \notin WorkSteps /\ step \in WorkSteps
  BY DEF WorkEnds, DriverFails, Crash, driverVars, Throw, EndCall, WorkSteps
<1>2. SameKeys
  BY <1>1 DEF SameKeys, SameFile
<1>3. StandsAt(f)' = disk[f]
  BY <1>1 DEF StandsAt, InWork, WorkSteps
<1>4. call \in FileCall /\ InFileCall /\ call.before \in Content
  BY <1>1, FilesOfCall DEF FileCall, InFileCall
<1>5. CASE f # call.file
  BY <1>1, <1>2, <1>3, <1>5 DEF Stays, StandsAt, InWork, IInv, TypeOK
<1>6. CASE f = call.file
  <2>1. StandsAt(f) = call.before /\ disk[f] \in Content /\ f \in DOMAIN disk
    BY <1>1, <1>4, <1>6, FilesOfCall DEF StandsAt, InWork, WorkSteps, Exists
  <2>2. CASE disk[f] = call.before
    BY <1>2, <1>3, <2>1, <2>2 DEF Stays
  <2>3. CASE Decrypting /\ disk[f] = GammaFile(call.before, disk[call.key])
    <3>1. KeysOf(call.before) # {} /\ disk[f] = Restored(call.before)
      BY <1>1, <2>3, KeyOfDecryption
    <3> QED BY <1>2, <1>3, <2>1, <3>1 DEF Stays
  <2>4. CASE KeysOf(disk[f]) = {}
    BY <1>2, <1>3, <2>1, <2>4 DEF Stays
  <2>5. \/ disk[f] = call.before
        \/ Decrypting /\ disk[f] = GammaFile(call.before, disk[call.key])
        \/ KeysOf(disk[f]) = {}
    BY <1>1, <1>4, <1>6 DEF CipheredIsNew, UnknownToKeys
  <2> QED BY <2>2, <2>3, <2>4, <2>5
<1> QED BY <1>2, <1>5, <1>6

-----------------------------------------------------------------------------
(***************************************************************************)
(* The parts of the invariant, step by step.                               *)
(***************************************************************************)
LEMMA FoldersKept ==
  ASSUME FoldersExist, directories \subseteq directories',
         \A p \in DOMAIN disk' : p \in DOMAIN disk \/ p.directory \in directories
  PROVE  FoldersExist'
BY DEF FoldersExist

\* Every file lies in a folder that exists: no folder is removed with files in it.
LEMMA FoldersStep ==
  ASSUME FoldersExist, [Next]_vars
  PROVE  FoldersExist'
<1>1. CASE RemovePreviousPath \/ UserDeletesKeyFolder
  BY <1>1 DEF RemovePreviousPath, RemoveDirectory, UserDeletesKeyFolder, FilesIn, FoldersExist
<1>2. CASE Construct \/ \E path \in StoragePath : SetKeyStoragePath(path)
  BY <1>2 DEF Construct, SetKeyStoragePath, CreateDirectory, FoldersExist
<1>3. CASE PowerLoss
  BY <1>3, FoldersKept DEF PowerLoss, DropUncommitted, Restrict
<1>4. CASE UNCHANGED <<disk, directories>>
  BY <1>4 DEF FoldersExist
<1>5. CASE /\ directories' = directories
           /\ \E p, c : CreateFile(p, c) \/ WriteFile(p, c) \/ RemoveFile(p) \/ RenameFile(c, p)
  BY <1>5, FoldersKept DEF CreateFile, WriteFile, RemoveFile, RenameFile, CanRename, With,
                           Without, Restrict
<1>6. CASE KernelStep
  BY <1>1, <1>4, <1>5, <1>6
     DEF KernelStep, CopyPortion, CommitBackup, Commit, CoreStep, CreateKeyFile, LocateKey,
         CipherPortion, CoreThrows, NoPlaceForKey, KeyMissing, KeyNameTaken, CoreBreaks,
         KeyWriteFails, CoreCiphered, CipherReturns, CoreStoresKey, StoreKey, CoreRemovesKey,
         RemoveKey, OverwriteBackup, RemoveBackup, SaveKeyStoragePath, DriverFails, driverVars
<1>7. CASE ClientStep
  BY <1>2, <1>4, <1>5, <1>7
     DEF ClientStep, EncryptFile, DecryptFile, BeginCall, SetWipeMethod, SetCipher,
         ConstructFails, Close, driverVars
<1>8. CASE EnvironmentStep
  BY <1>1, <1>3, <1>4, <1>5, <1>8
     DEF EnvironmentStep, Crash, UserMoves, UserCopies, driverVars
<1> QED BY <1>4, <1>6, <1>7, <1>8 DEF Next, vars, driverVars

\* An encryption that has not stored its key.
KeyPending == InFileCall /\ Encrypting /\ step \notin {"wipe", "remove"}

LEMMA PendingBegins ==
  ASSUME IInv, [Next]_vars
  PROVE  \/ calls' = calls + 1
         \/ calls' = calls /\ (KeyPending' => KeyPending)
<1>1. CASE UNCHANGED <<call, step, calls>>
  BY <1>1 DEF KeyPending, InFileCall, Encrypting
<1>2. CASE calls' = calls /\ call' = NoCall
  BY <1>2 DEF KeyPending, InFileCall, NoCall
<1>3. CASE UNCHANGED <<call, calls>> /\ step \notin {"wipe", "remove"}
  BY <1>3 DEF KeyPending, InFileCall, Encrypting
<1>4. CASE /\ calls' = calls /\ call \in FileCall /\ step \notin {"wipe", "remove"}
           /\ \E k, u : \/ call' = [call EXCEPT !.key = k, !.cursor = u]
                        \/ call' = [call EXCEPT !.key = k]
                        \/ call' = [call EXCEPT !.cursor = u]
                        \/ call' = [call EXCEPT !.cursor.position = u]
  <2>1. call'.operation = call.operation
    BY <1>4 DEF FileCall
  <2> QED BY <1>4, <2>1 DEF KeyPending, InFileCall, Encrypting
<1>5. CASE UNCHANGED calls /\ step' = "remove"
  BY <1>5 DEF KeyPending
<1>6. step \in FileSteps => call \in FileCall
  BY DEF IInv, CallMatchesStep
<1>7. CASE CopyPortion \/ CoreStep \/ CoreStoresKey
  BY <1>4, <1>6, <1>7
     DEF CopyPortion, CoreStep, CreateKeyFile, LocateKey, CipherPortion, CoreStoresKey,
         StoreKey, FileSteps, WorkSteps
<1>8. CASE KernelStep
  BY <1>1, <1>2, <1>3, <1>5, <1>7, <1>8
     DEF KernelStep, CommitBackup, CoreThrows, NoPlaceForKey, KeyMissing, KeyNameTaken,
         CoreBreaks, KeyWriteFails, Throw, EndCall, CoreCiphered, CipherReturns,
         CoreRemovesKey, RemoveKey, OverwriteBackup, RemoveBackup, SaveKeyStoragePath,
         RemovePreviousPath, DriverFails
<1>9. CASE Construct \/ Close
  <2>1. call = NoCall /\ call' = call /\ calls' = calls
    BY <1>9 DEF Construct, Close, IInv, CallMatchesStep, Busy
  <2> QED BY <1>2, <2>1
<1>10. CASE ClientStep
  BY <1>1, <1>9, <1>10
     DEF ClientStep, EncryptFile, DecryptFile, BeginCall, SetKeyStoragePath, SetWipeMethod,
         SetCipher, ConstructFails, coreVars
<1>11. CASE EnvironmentStep
  BY <1>1, <1>2, <1>11
     DEF EnvironmentStep, Crash, PowerLoss, UserMoves, UserCopies, UserDeletesKeyFolder, coreVars
<1> QED BY <1>1, <1>8, <1>10, <1>11 DEF Next, vars, coreVars

\* The bound of the ranks never shrinks, and leaves room for the key of an encryption.
LEMMA KeyCallsGrow ==
  ASSUME IInv, [Next]_vars
  PROVE  /\ KeyCalls \in Int /\ KeyCalls' \in Int /\ KeyCalls <= KeyCalls'
         /\ 0..KeyCalls \subseteq 0..KeyCalls' /\ KeyCalls <= MaxCalls
<1>1. calls \in Nat /\ calls <= MaxCalls /\ MaxCalls \in Nat
  BY CoreAssumption DEF IInv, TypeOK
<1>2. /\ KeyCalls = IF KeyPending THEN calls - 1 ELSE calls
      /\ KeyCalls' = IF KeyPending' THEN calls' - 1 ELSE calls'
  BY DEF KeyCalls, KeyPending
<1>3. KeyCalls \in Int /\ KeyCalls' \in Int /\ KeyCalls <= KeyCalls' /\ KeyCalls <= MaxCalls
  BY <1>1, <1>2, PendingBegins
<1> HIDE DEF KeyCalls
<1> QED BY <1>3

\* The key of an encryption lies in the folder in use until it gets its name.
LEMMA NewKeyStep ==
  ASSUME IInv, NewKeyInFolder, [Next]_vars
  PROVE  NewKeyInFolder'
<1>1. CASE step' \notin WorkSteps
  BY <1>1 DEF NewKeyInFolder
<1>2. CASE UNCHANGED <<step, call, storagePath>>
  BY <1>2 DEF NewKeyInFolder, Encrypting
<1>3. CASE CreateKeyFile
  <2>1. call \in FileCall
    BY <1>3, FilesOfCall DEF CreateKeyFile
  <2>2. PICK p \in FreeTempPaths(Resolve(storagePath)) :
          \E u : call' = [call EXCEPT !.key = p, !.cursor = u]
    BY <1>3 DEF CreateKeyFile
  <2>3. call'.key = p /\ storagePath' = storagePath
    BY <1>3, <2>1, <2>2 DEF CreateKeyFile, FileCall
  <2>4. p.name \in TempName /\ p.directory = Resolve(storagePath)
    BY <2>2, TempPathType, CoreAssumption DEF IInv, TypeOK
  <2> QED BY <2>3, <2>4 DEF NewKeyInFolder
<1>4. CASE LocateKey
  <2>1. call \in FileCall /\ ~ Encrypting
    BY <1>4, FilesOfCall DEF LocateKey, Decrypting, Encrypting
  <2>2. ~ Encrypting'
    BY <1>4, <2>1 DEF LocateKey, FileCall, Encrypting
  <2> QED BY <2>2 DEF NewKeyInFolder
<1>5. CASE CipherPortion
  <2>1. call \in FileCall
    BY <1>5, FilesOfCall DEF CipherPortion, WorkSteps
  <2>2. call'.key = call.key /\ call'.operation = call.operation
    BY <1>5, <2>1 DEF CipherPortion, FileCall
  <2> QED BY <1>5, <2>2 DEF NewKeyInFolder, CipherPortion, Encrypting
<1>6. CASE CoreCiphered
  BY <1>6 DEF NewKeyInFolder, CoreCiphered, CipherReturns, Encrypting, WorkSteps
<1>7. CASE KernelStep
  BY <1>1, <1>3, <1>4, <1>5, <1>6, <1>7
     DEF KernelStep, CopyPortion, CommitBackup, CoreStep, CoreThrows, NoPlaceForKey, KeyMissing,
         KeyNameTaken, CoreBreaks, KeyWriteFails, Throw, EndCall, CoreStoresKey, StoreKey,
         CoreRemovesKey, RemoveKey, OverwriteBackup, RemoveBackup, SaveKeyStoragePath,
         RemovePreviousPath, DriverFails, WorkSteps
<1>8. CASE ClientStep
  BY <1>1, <1>2, <1>8
     DEF ClientStep, EncryptFile, DecryptFile, BeginCall, SetKeyStoragePath, SetWipeMethod,
         SetCipher, Construct, ConstructFails, Close, coreVars, WorkSteps
<1>9. CASE EnvironmentStep
  BY <1>1, <1>2, <1>9
     DEF EnvironmentStep, Crash, PowerLoss, UserMoves, UserCopies, UserDeletesKeyFolder,
         coreVars, WorkSteps
<1> QED BY <1>2, <1>7, <1>8, <1>9 DEF Next, vars, coreVars

-----------------------------------------------------------------------------
(***************************************************************************)
(* The steps that change what the keys open.                               *)
(***************************************************************************)
LEMMA StoredKey ==
  ASSUME IInv, DeliveryInv, DeliveryInv', NewKeyInFolder, CipheredIsNew, CoreStoresKey
  PROVE  LET f == call.file
             e == disk[f]
             q == call'.key
         IN  /\ f \in DocumentPath /\ Exists(f) /\ e \in Content /\ call.before \in Content
             /\ e # call.before /\ UnknownToKeys(e)
             /\ StandsAt(f) = call.before
             /\ q \notin DOMAIN disk /\ q.name = Md5(e)
             /\ q.directory = Resolve(storagePath) /\ q \in DOMAIN disk'
             /\ GammaFile(e, disk'[q]) = call.before
             /\ \A p \in Path : p # q /\ p.name \notin TempName => SameFile(p)
             /\ \A g \in DocumentPath : StandsAt(g)' = disk'[g] /\ SameFile(g)
             /\ \A g \in DocumentPath \ {f} :
                  Exists(g) => StandsAt(g) = disk[g] /\ disk[g] # e
<1> DEFINE f == call.file
           e == disk[f]
           k == call.key
           q == call'.key
<1>1. DriverType /\ step = "store" /\ step' = "wipe" /\ step \in WorkSteps /\ Encrypting
  BY TypesOfDriver DEF IInv, CoreStoresKey, StoreKey, WorkSteps, DeliveryInv, CipherCompletes
<1>2. /\ call \in FileCall /\ f \in DocumentPath /\ f \in Path /\ call.before \in Content
      /\ Exists(f) /\ e \in Content /\ InFileCall
  BY <1>1, FilesOfCall DEF FileCall, InFileCall
<1>3. /\ q = KeyPathFor(f) /\ call'.file = f /\ call'.before = call.before
      /\ call'.operation = call.operation
  BY <1>2 DEF CoreStoresKey, StoreKey, FileCall
<1>4. /\ e # call.before /\ UnknownToKeys(e)
      /\ \A g \in DocumentPath \ {f} : Exists(g) => disk[g] # e
  BY <1>1, <1>2 DEF CipheredIsNew, Encrypting, Decrypting
<1>5. /\ q \notin DOMAIN disk /\ disk' = With(Without(disk, k), q, disk[k])
      /\ k \in DOMAIN disk
  BY <1>3 DEF CoreStoresKey, StoreKey, RenameFile, CanRename, Exists
<1>6. q.name = Md5(e) /\ q.directory = Resolve(storagePath) /\ q.name \in KeyName
  BY <1>2, <1>3, NameAssumption DEF KeyPathFor, At
<1>7. k.name \in TempName
  BY <1>1 DEF NewKeyInFolder
<1>8. DOMAIN disk' = (DOMAIN disk \ {k}) \cup {q}
  BY <1>5 DEF With, Without, Restrict
<1>9. \A p \in DOMAIN disk \ {k} : disk'[p] = disk[p]
  <2>1. \A p \in DOMAIN disk \ {k} : Without(disk, k)[p] = disk[p]
    BY DEF Without, Restrict
  <2>2. \A p \in DOMAIN disk \ {k} : p # q /\ p \in DOMAIN disk'
    BY <1>5, <1>8
  <2>3. DOMAIN Without(disk, k) = DOMAIN disk \ {k}
    BY DEF Without, Restrict
  <2> HIDE DEF q, k
  <2> QED BY <1>5, <2>1, <2>2, <2>3 DEF With
<1>10. \A p \in Path : p # q /\ p.name \notin TempName => SameFile(p)
  BY <1>7, <1>8, <1>9 DEF SameFile
<1>11. \A g \in DocumentPath :
         /\ StandsAt(g)' = disk'[g] /\ SameFile(g)
         /\ StandsAt(g) = IF g = f THEN call.before ELSE disk[g]
  <2> SUFFICES ASSUME NEW g \in DocumentPath
               PROVE  /\ StandsAt(g)' = disk'[g] /\ SameFile(g)
                      /\ StandsAt(g) = IF g = f THEN call.before ELSE disk[g]
    OBVIOUS
  <2>1. g \in Path /\ g.name \notin TempName /\ g.name \notin KeyName
    BY NameAssumption, ServerAssumption DEF DocumentPath, Path, Name
  <2>2. SameFile(g)
    BY <1>6, <1>10, <2>1
  <2>3. StandsAt(g)' = disk'[g]
    BY <1>1 DEF StandsAt, InWork
  <2>4. StandsAt(g) = IF g = f THEN call.before ELSE disk[g]
    BY <1>1, <1>2 DEF StandsAt, InWork
  <2> QED BY <2>2, <2>3, <2>4
<1>12. GammaFile(e, disk'[q]) = call.before
  <2>1. Encrypting' /\ KeyDelivered'
    BY <1>1, <1>3 DEF Encrypting, DeliveryInv
  <2>2. GammaFile(disk'[call'.file], disk'[call'.key]) = call'.before
    BY <1>1, <2>1 DEF KeyDelivered
  <2>3. disk'[f] = e
    BY <1>2, <1>11 DEF SameFile, Exists
  <2> QED BY <1>3, <2>2, <2>3
<1> HIDE DEF q
<1> QED BY <1>2, <1>4, <1>5, <1>6, <1>8, <1>10, <1>11, <1>12 DEF q

\* The new key is the only one of the new content; the others are as they were.
LEMMA StoredKeyOf ==
  ASSUME IInv, DeliveryInv, DeliveryInv', NewKeyInFolder, CipheredIsNew, CoreStoresKey,
         DigestsDiffer, NEW e, e = disk[call.file]
  PROVE  /\ KeysOf(e)' = {call'.key}
         /\ \A x \in Content : x # e =>
              /\ KeysOf(x)' = KeysOf(x)
              /\ \A p \in KeysOf(x) :
                   disk'[p] = disk[p] /\ GammaFile(x, disk[p]) # e
<1> DEFINE q == call'.key
<1>1. DriverType /\ DriverType'
  BY CoreStoresKeyStep DEF IInv, TypeOK, DriverType
<1>2. /\ call.file \in DocumentPath /\ Exists(call.file)
      /\ e \in Content /\ UnknownToKeys(e) /\ q \notin DOMAIN disk /\ q.name = Md5(e)
      /\ q \in DOMAIN disk'
      /\ \A p \in Path : p # q /\ p.name \notin TempName => SameFile(p)
      /\ \A g \in DocumentPath : StandsAt(g)' = disk'[g] /\ SameFile(g)
  BY StoredKey
<1>3. \A p \in Path : p.name \in KeyName /\ p # q => SameFile(p)
  BY <1>2, NameAssumption
<1> HIDE DEF q
<1>4. KeysOf(e)' = {q}
  <2>1. KeysOf(e) = {} /\ Md5(e) \in KeyName
    BY <1>2, NameAssumption DEF UnknownToKeys
  <2> QED BY <1>1, <1>2, <1>3, <2>1 DEF KeysOf, DriverType, SameFile
<1>5. ASSUME NEW x \in Content, x # e
      PROVE  /\ KeysOf(x)' = KeysOf(x)
             /\ \A p \in KeysOf(x) : disk'[p] = disk[p] /\ GammaFile(x, disk[p]) # e
  <2>1. Md5(x) \in KeyName /\ Md5(x) # Md5(e)
    BY <1>2, <1>5, NameAssumption DEF DigestsDiffer
  <2>2. KeysOf(x)' = KeysOf(x) /\ \A p \in KeysOf(x) : disk'[p] = disk[p]
    BY <1>1, <1>2, <1>3, <2>1 DEF KeysOf, DriverType, SameFile
  <2>3. ASSUME NEW p \in KeysOf(x), GammaFile(x, disk[p]) = e
        PROVE  FALSE
    <3>1. p \in DOMAIN disk /\ p.name = Md5(x) /\ disk[p] \in Content
      BY <1>1 DEF KeysOf, DriverType
    <3>2. GammaFile(e, disk[p]) = x
      BY <2>3, <3>1, GammaFileContent
    <3> QED BY <1>2, <3>1, <3>2 DEF UnknownToKeys, KeysTo
  <2> QED BY <2>2, <2>3
<1> QED BY <1>4, <1>5 DEF q

\* The name of the new key is free, so the file can have it.
LEMMA NameIsFree ==
  ASSUME IInv, DeliveryInv, NewKeyInFolder, FoldersExist, CipheredIsNew, step = "store"
  PROVE  CanRename(call.key, KeyPathFor(call.file)) /\ UnknownToKeys(disk[call.file])
<1>1. Encrypting /\ step \in WorkSteps
  BY DEF DeliveryInv, CipherCompletes, WorkSteps
<1>2. call \in FileCall /\ InFileCall /\ Exists(call.file) /\ Exists(call.key)
  BY <1>1, FilesOfCall DEF FileCall, InFileCall, IInv, KeyInUse
<1>3. UnknownToKeys(disk[call.file])
  BY <1>1, <1>2 DEF CipheredIsNew, Encrypting, Decrypting
<1>4. KeyPathFor(call.file).directory \in directories
  <2>1. call.key.directory = Resolve(storagePath)
    BY <1>1 DEF NewKeyInFolder
  <2> QED BY <1>2, <2>1 DEF FoldersExist, Exists, KeyPathFor, At
<1>5. ~ Exists(KeyPathFor(call.file))
  BY <1>3 DEF UnknownToKeys, KeysOf, KeyPathFor, At, Exists
<1> QED BY <1>2, <1>3, <1>4, <1>5 DEF CanRename

LEMMA StoreKeepsVault ==
  ASSUME IInv, DeliveryInv, DeliveryInv', NewKeyInFolder, OneKey, Graph, CipheredIsNew,
         DigestsDiffer, CoreStoresKey
  PROVE  OneKey' /\ Graph'
<1> DEFINE f == call.file
           c == call.before
           q == call'.key
<1>1. PICK e : e = disk[f]
  OBVIOUS
<1>2. /\ f \in DocumentPath /\ Exists(f) /\ e \in Content /\ c \in Content
      /\ e # c /\ UnknownToKeys(e) /\ StandsAt(f) = c
      /\ q \notin DOMAIN disk /\ q.name = Md5(e) /\ GammaFile(e, disk'[q]) = c
      /\ \A p \in Path : p # q /\ p.name \notin TempName => SameFile(p)
      /\ \A g \in DocumentPath : StandsAt(g)' = disk'[g] /\ SameFile(g)
      /\ \A g \in DocumentPath \ {f} : Exists(g) => StandsAt(g) = disk[g] /\ disk[g] # e
  BY <1>1, StoredKey
<1>3. /\ KeysOf(e)' = {q}
      /\ \A x \in Content : x # e =>
           /\ KeysOf(x)' = KeysOf(x)
           /\ \A p \in KeysOf(x) : disk'[p] = disk[p] /\ GammaFile(x, disk[p]) # e
  BY <1>1, <1>2, StoredKeyOf
<1>4. DriverType /\ DriverType'
  BY CoreStoresKeyStep DEF IInv, TypeOK, DriverType
<1>5. OneKey'
  <2>1. \A p \in DOMAIN disk' : p.name \in KeyName /\ p # q =>
          p \in DOMAIN disk /\ p.name # q.name
    BY <1>2, <1>4, NameAssumption DEF DriverType, SameFile, UnknownToKeys, KeysOf
  <2> HIDE DEF q
  <2> QED BY <2>1 DEF OneKey
<1>6. PICK owner \in [Content -> DocumentPath \cup {NoFile}], rank \in [Content -> 0..KeyCalls] :
        Ownership(owner) /\ Ranks(rank)
  BY DEF Graph
<1>7. /\ KeyCalls' \in Int /\ KeyCalls \in Int /\ KeyCalls < KeyCalls' /\ 0 <= KeyCalls
  <2>1. InFileCall /\ Encrypting /\ step = "store"
    <3>1. step \in WorkSteps
      BY DEF CoreStoresKey, StoreKey, WorkSteps
    <3> QED BY <3>1, FilesOfCall
            DEF CoreStoresKey, StoreKey, DeliveryInv, CipherCompletes, FileCall, InFileCall
  <2>2. KeyCalls = calls - 1 /\ KeyCalls' = calls
    BY <2>1 DEF KeyCalls, CoreStoresKey, StoreKey
  <2>3. calls \in Nat
    BY DEF IInv, TypeOK
  <2>4. 0 <= KeyCalls
    <3>1. rank[c] \in 0..KeyCalls
      BY <1>2, <1>6
    <3>2. KeyCalls \in Int
      BY <2>2, <2>3
    <3> QED BY <3>1, <3>2
  <2> QED BY <2>2, <2>3, <2>4
<1>8. PICK owner1 \in [Content -> DocumentPath \cup {NoFile}] :
        owner1[e] = f /\ \A x \in Content : x # e => owner1[x] = owner[x]
  <2>1. [owner EXCEPT ![e] = f] \in [Content -> DocumentPath \cup {NoFile}]
    BY <1>2, <1>6
  <2> WITNESS [owner EXCEPT ![e] = f] \in [Content -> DocumentPath \cup {NoFile}]
  <2> QED BY <1>2, <1>6
<1>9. PICK rank1 \in [Content -> 0..KeyCalls'] :
        rank1[e] = KeyCalls' /\ \A x \in Content : x # e => rank1[x] = rank[x]
  <2> HIDE DEF KeyCalls
  <2>1. [rank EXCEPT ![e] = KeyCalls'] \in [Content -> 0..KeyCalls']
    BY <1>2, <1>6, <1>7
  <2> WITNESS [rank EXCEPT ![e] = KeyCalls'] \in [Content -> 0..KeyCalls']
  <2> QED BY <1>2, <1>6
<1>10. Ranks(rank1)'
  <2> SUFFICES ASSUME NEW x \in Content, NEW p \in KeysOf(x)'
               PROVE  rank1[GammaFile(x, disk'[p])] < rank1[x]
    BY DEF Ranks
  <2>1. CASE x = e
    <3>1. p = q /\ GammaFile(x, disk'[p]) = c
      BY <1>2, <1>3, <2>1
    <3>2. rank[c] \in 0..KeyCalls /\ rank1[c] = rank[c]
      BY <1>2, <1>6, <1>9
    <3> QED BY <1>7, <1>9, <2>1, <3>1, <3>2
  <2>2. CASE x # e
    <3>1. p \in KeysOf(x) /\ disk'[p] = disk[p] /\ GammaFile(x, disk[p]) # e
      BY <1>3, <2>2
    <3>2. GammaFile(x, disk[p]) \in Content
      BY <1>4, <3>1, GammaFileContent DEF KeysOf, DriverType
    <3>3. rank[GammaFile(x, disk[p])] < rank[x]
      BY <1>6, <3>1 DEF Ranks
    <3> QED BY <1>9, <2>2, <3>1, <3>2, <3>3
  <2> QED BY <2>1, <2>2
<1>11. ASSUME NEW g \in DocumentPath, Exists(g)', KeysOf(StandsAt(g))' # {}
       PROVE  owner1[StandsAt(g)'] = g
  <2>1. StandsAt(g)' = disk[g] /\ Exists(g)
    BY <1>2, <1>11 DEF SameFile, Exists
  <2>2. CASE g = f
    BY <1>1, <1>8, <2>1, <2>2
  <2>3. CASE g # f
    <3>1. StandsAt(g) = disk[g] /\ disk[g] # e
      BY <1>2, <2>1, <2>3
    <3>2. disk[g] \in Content
      BY <2>1 DEF IInv, TypeOK, Exists
    <3>3. KeysOf(StandsAt(g)) # {}
      <4>1. \A x : x = disk[g] => KeysOf(StandsAt(g))' = KeysOf(x)'
        BY <2>1 DEF KeysOf
      <4>2. KeysOf(StandsAt(g))' = KeysOf(disk[g])
        BY <1>3, <3>1, <3>2, <4>1
      <4> QED BY <1>11, <3>1, <4>2
    <3>4. owner[disk[g]] = g
      BY <1>6, <2>1, <3>1, <3>3 DEF Ownership
    <3> QED BY <1>8, <2>1, <3>1, <3>2, <3>4
  <2> QED BY <2>2, <2>3
<1>12. ASSUME NEW x \in Content, NEW p \in KeysOf(x)', NEW y, y = GammaFile(x, disk'[p]),
              KeysOf(y)' # {}
       PROVE  owner1[y] = owner1[x]
  <2>1. CASE x = e
    <3>1. y = c
      BY <1>2, <1>3, <1>12, <2>1
    <3>2. KeysOf(c) # {}
      BY <1>2, <1>3, <1>12, <3>1
    <3>3. owner[c] = f
      BY <1>2, <1>6, <3>2 DEF Ownership
    <3> QED BY <1>2, <1>8, <2>1, <3>1, <3>3
  <2>2. CASE x # e
    <3>1. p \in KeysOf(x) /\ y = GammaFile(x, disk[p]) /\ y # e
      BY <1>3, <1>12, <2>2
    <3>2. y \in Content
      BY <1>4, <3>1, GammaFileContent DEF KeysOf, DriverType
    <3>3. KeysOf(y) # {}
      BY <1>3, <1>12, <3>1, <3>2
    <3>4. owner[y] = owner[x]
      BY <1>6, <3>1, <3>3 DEF Ownership
    <3> QED BY <1>8, <2>2, <3>1, <3>2, <3>4
  <2> QED BY <2>1, <2>2
<1>13. Ownership(owner1)'
  <2>1. \A x \in Content : \A p \in KeysOf(x)' :
          KeysOf(GammaFile(x, disk[p]))' # {} => owner1[GammaFile(x, disk'[p])] = owner1[x]
    BY <1>12 DEF KeysOf
  <2> QED BY <1>11, <2>1 DEF Ownership, Exists
<1> QED BY <1>5, <1>8, <1>9, <1>10, <1>13 DEF Graph

\* At the end of a decryption the document is what its key restores.
LEMMA Deciphered ==
  ASSUME IInv, DeliveryInv, OneKey, step = "remove_key"
  PROVE  disk[call.file] = Restored(call.before)
<1> DEFINE f == call.file
           k == call.key
<1>1. step \in WorkSteps /\ Decrypting
  BY DEF WorkSteps, DeliveryInv, CipherCompletes
<1>2. call \in FileCall /\ call.before \in Content /\ Exists(f)
  BY <1>1, FilesOfCall
<1>3. Restored(call.before) = GammaFile(call.before, disk[k])
  BY <1>1, KeyOfDecryption
<1>4. /\ DOMAIN disk[f] = DOMAIN call.before
      /\ \A i \in DOMAIN call.before :
           disk[f][i] = IF i < call.cursor.position
                        THEN GammaChunk(call.before[i], KeyAt(disk[k], i))
                        ELSE call.before[i]
  BY <1>1 DEF IInv, WorkInPlace
<1>5. call.cursor.position \notin DOMAIN call.before
  BY <1>1 DEF DeliveryInv, CipherCompletes, PortionLeft
<1>6. \A i \in DOMAIN call.before : i < call.cursor.position
  <2>1. DOMAIN call.before = 1..Len(call.before) /\ Len(call.before) \in Nat
    BY <1>2, ContentLength, MaxPortionsAssumption
  <2>2. call.cursor.position \in Nat \ {0}
    BY <1>2 DEF FileCall, Cursor
  <2> QED BY <1>5, <2>1, <2>2
<1>7. disk[f] \in Content
  BY <1>2 DEF IInv, TypeOK, Exists
<1>8. /\ DOMAIN disk[f] = 1..Len(disk[f])
      /\ disk[f] \in [1..Len(disk[f]) -> Chunk]
  BY <1>7, ContentLength
<1>9. disk[f] = [i \in DOMAIN call.before |-> GammaChunk(call.before[i], KeyAt(disk[k], i))]
  BY <1>4, <1>6, <1>8
<1> QED BY <1>3, <1>9 DEF GammaFile

\* The end of a decryption: the document is what its key restores.
LEMMA RemovedKey ==
  ASSUME IInv, DeliveryInv, OneKey, CoreRemovesKey
  PROVE  LET f == call.file
             k == call.key
         IN  /\ f \in DocumentPath /\ Exists(f) /\ call.before \in Content
             /\ StandsAt(f) = call.before
             /\ \A g \in DocumentPath : g = f => StandsAt(g)' = Restored(call.before)
             /\ k \in KeysOf(call.before) /\ k.directory = Resolve(storagePath)
             /\ Restored(call.before) = GammaFile(call.before, disk[k])
             /\ DOMAIN disk' = DOMAIN disk \ {k} /\ \A p \in DOMAIN disk' : disk'[p] = disk[p]
             /\ \A g \in DocumentPath : g # k
             /\ \A g \in DocumentPath \ {f} : Exists(g) => StandsAt(g)' = StandsAt(g)
<1> DEFINE f == call.file
           k == call.key
<1>1. /\ step = "remove_key" /\ step' = "remove" /\ call' = call
      /\ step \in WorkSteps /\ Decrypting
  BY DEF CoreRemovesKey, RemoveKey, WorkSteps, DeliveryInv, CipherCompletes
<1>2. /\ call \in FileCall /\ f \in DocumentPath /\ call.before \in Content /\ Exists(f)
      /\ InFileCall
  BY <1>1, FilesOfCall DEF FileCall, InFileCall
<1>3. /\ k \in KeysOf(call.before)
      /\ Restored(call.before) = GammaFile(call.before, disk[k])
      /\ k.directory = Resolve(storagePath)
  BY <1>1, KeyOfDecryption DEF DeliveryInv, CipherCompletes, At
<1>4. DOMAIN disk' = DOMAIN disk \ {k} /\ \A p \in DOMAIN disk' : disk'[p] = disk[p]
  BY DEF CoreRemovesKey, RemoveKey, RemoveFile, Without, Restrict
<1>5. \A g \in DocumentPath : g # k
  <2>1. k.name \notin DocumentName
    BY <1>1 DEF IInv, KeyInUse
  <2> QED BY <2>1 DEF DocumentPath
<1>6. disk[f] = Restored(call.before)
  BY <1>1, Deciphered
<1>7. \A g \in DocumentPath :
        /\ Exists(g) => StandsAt(g)' = disk[g]
        /\ StandsAt(g) = IF g = f THEN call.before ELSE disk[g]
  BY <1>1, <1>2, <1>4, <1>5 DEF StandsAt, InWork, Exists
<1> QED BY <1>2, <1>3, <1>4, <1>5, <1>6, <1>7

LEMMA RemovalKeepsVault ==
  ASSUME IInv, DeliveryInv, OneKey, Graph, 0..KeyCalls \subseteq 0..KeyCalls', CoreRemovesKey
  PROVE  OneKey' /\ Graph'
<1> DEFINE f == call.file
           c == call.before
<1>1. /\ f \in DocumentPath /\ Exists(f) /\ c \in Content
      /\ StandsAt(f) = c
      /\ \A g \in DocumentPath : g = f => StandsAt(g)' = Restored(c)
      /\ call.key \in KeysOf(c) /\ Restored(c) = GammaFile(c, disk[call.key])
      /\ DOMAIN disk' = DOMAIN disk \ {call.key} /\ \A p \in DOMAIN disk' : disk'[p] = disk[p]
      /\ \A g \in DocumentPath \ {f} : Exists(g) => StandsAt(g)' = StandsAt(g)
  BY RemovedKey
<1>2. OneKey'
  BY <1>1 DEF OneKey
<1>3. \A x : /\ KeysOf(x)' \subseteq KeysOf(x)
             /\ \A p \in KeysOf(x)' : disk'[p] = disk[p]
  BY <1>1 DEF KeysOf
<1>4. PICK owner \in [Content -> DocumentPath \cup {NoFile}], rank \in [Content -> 0..KeyCalls] :
        Ownership(owner) /\ Ranks(rank)
  BY DEF Graph
<1>5. Ranks(rank)' /\ rank \in [Content -> 0..KeyCalls']
  <2>1. Ranks(rank)'
    BY <1>3, <1>4 DEF Ranks
  <2> HIDE DEF KeyCalls
  <2> QED BY <1>4, <2>1
<1>6. ASSUME NEW g \in DocumentPath, Exists(g)', NEW x, x = StandsAt(g)', KeysOf(x)' # {}
      PROVE  owner[x] = g
  <2>1. Exists(g) /\ KeysOf(x) # {}
    BY <1>1, <1>3, <1>6 DEF Exists
  <2>2. CASE g = f
    <3>1. x = GammaFile(c, disk[call.key])
      BY <1>1, <1>6, <2>2
    <3>2. owner[x] = owner[c]
      BY <1>1, <1>4, <2>1, <3>1 DEF Ownership
    <3>3. owner[c] = f
      BY <1>1, <1>4 DEF Ownership
    <3> QED BY <2>2, <3>2, <3>3
  <2>3. CASE g # f
    BY <1>1, <1>4, <1>6, <2>1, <2>3 DEF Ownership
  <2> QED BY <2>2, <2>3
<1>7. ASSUME NEW x \in Content, NEW p \in KeysOf(x)', NEW y, y = GammaFile(x, disk'[p]),
             KeysOf(y)' # {}
      PROVE  owner[y] = owner[x]
  BY <1>3, <1>4, <1>7 DEF Ownership
<1>8. Ownership(owner)'
  <2>1. \A g \in DocumentPath :
          Exists(g)' /\ KeysOf(StandsAt(g))' # {} => owner[StandsAt(g)'] = g
    BY <1>6 DEF KeysOf
  <2>2. \A x \in Content : \A p \in KeysOf(x)' :
          KeysOf(GammaFile(x, disk[p]))' # {} => owner[GammaFile(x, disk'[p])] = owner[x]
    BY <1>7 DEF KeysOf
  <2> QED BY <2>1, <2>2 DEF Ownership, Exists
<1> QED BY <1>2, <1>5, <1>8 DEF Graph

\* A document that the user moves takes its keys along.
LEMMA MovedDocument ==
  ASSUME IInv, NEW f \in DocumentPath, NEW g \in DocumentPath, UserMoves(f, g)
  PROVE  /\ SameKeys /\ Exists(f) /\ ~ Exists(g) /\ ~ Exists(f)' /\ Exists(g)'
         /\ StandsAt(g)' = StandsAt(f)
         /\ \A h \in DocumentPath \ {f, g} :
              /\ h \in DOMAIN disk' <=> h \in DOMAIN disk
              /\ h \in DOMAIN disk => StandsAt(h)' = StandsAt(h)
<1>1. /\ f \in DOMAIN disk /\ g \notin DOMAIN disk
      /\ disk' = With(Without(disk, f), g, disk[f])
  BY DEF UserMoves, RenameFile, CanRename, Exists
<1>2. DOMAIN disk' = (DOMAIN disk \ {f}) \cup {g} /\ disk'[g] = disk[f]
  BY <1>1 DEF With, Without, Restrict
<1>3. \A p \in DOMAIN disk \ {f} : disk'[p] = disk[p]
  <2>1. DOMAIN Without(disk, f) = DOMAIN disk \ {f}
    BY DEF Without, Restrict
  <2>2. \A p \in DOMAIN disk \ {f} : Without(disk, f)[p] = disk[p]
    BY DEF Without, Restrict
  <2>3. \A p \in DOMAIN disk \ {f} : p # g /\ p \in DOMAIN disk'
    BY <1>1, <1>2
  <2> QED BY <1>1, <2>1, <2>2, <2>3 DEF With
<1>4. f.name \notin KeyName /\ g.name \notin KeyName
  BY NameAssumption DEF DocumentPath
<1>5. SameKeys
  BY <1>2, <1>3, <1>4 DEF SameKeys, SameFile
<1>6. \A h : StandsAt(h) = disk[h] /\ StandsAt(h)' = disk'[h]
  BY DEF StandsAt, InWork, UserMoves, coreVars, Busy
<1> QED BY <1>1, <1>2, <1>3, <1>5, <1>6 DEF Exists

LEMMA MoveKeepsVault ==
  ASSUME IInv, IInv', OneKey, Graph, NEW f \in DocumentPath, NEW g \in DocumentPath,
         UserMoves(f, g), 0..KeyCalls \subseteq 0..KeyCalls'
  PROVE  OneKey' /\ Graph'
<1>1. /\ SameKeys /\ Exists(f) /\ ~ Exists(g) /\ ~ Exists(f)' /\ Exists(g)'
      /\ StandsAt(g)' = StandsAt(f)
      /\ \A h \in DocumentPath \ {f, g} :
           /\ h \in DOMAIN disk' <=> h \in DOMAIN disk
           /\ h \in DOMAIN disk => StandsAt(h)' = StandsAt(h)
  BY MovedDocument
<1>2. DriverType /\ DriverType'
  BY TypesOfDriver DEF IInv, TypeOK, DriverType
<1>3. \A x \in Content : KeysOf(x)' = KeysOf(x) /\ \A p \in KeysOf(x) : disk'[p] = disk[p]
  BY <1>1, <1>2, SameKeysOf
<1>4. PICK owner \in [Content -> DocumentPath \cup {NoFile}], rank \in [Content -> 0..KeyCalls] :
        Ownership(owner) /\ Ranks(rank)
  BY DEF Graph
<1>5. Ranks(rank)' /\ rank \in [Content -> 0..KeyCalls']
  <2>1. Ranks(rank)'
    BY <1>1, <1>2, <1>4, SameKeysRanks
  <2> HIDE DEF KeyCalls
  <2> QED BY <1>4, <2>1
<1>6. PICK owner1 \in [Content -> DocumentPath \cup {NoFile}] :
        \A x \in Content : owner1[x] = IF owner[x] = f THEN g ELSE owner[x]
  <2> DEFINE o == [x \in Content |-> IF owner[x] = f THEN g ELSE owner[x]]
  <2>1. o \in [Content -> DocumentPath \cup {NoFile}]
    BY <1>4
  <2> WITNESS o \in [Content -> DocumentPath \cup {NoFile}]
  <2> QED OBVIOUS
<1>7. ASSUME NEW h \in DocumentPath, Exists(h)', NEW x, x = StandsAt(h)', KeysOf(x)' # {}
      PROVE  owner1[x] = h
  <2>1. PICK h0 \in DocumentPath : Exists(h0) /\ x = StandsAt(h0) /\ h = IF h0 = f THEN g ELSE h0
    BY <1>1, <1>7 DEF Exists
  <2>2. x \in Content
    BY <2>1, StandsAtType
  <2>3. owner[x] = h0
    BY <1>3, <1>4, <1>7, <2>1, <2>2 DEF Ownership
  <2> QED BY <1>6, <2>1, <2>2, <2>3
<1>8. ASSUME NEW x \in Content, NEW p \in KeysOf(x)', NEW y, y = GammaFile(x, disk'[p]),
             KeysOf(y)' # {}
      PROVE  owner1[y] = owner1[x]
  <2>1. p \in KeysOf(x) /\ y = GammaFile(x, disk[p])
    BY <1>3, <1>8
  <2>2. y \in Content
    BY <1>2, <2>1, GammaFileContent DEF KeysOf, DriverType
  <2>3. owner[y] = owner[x]
    BY <1>3, <1>4, <1>8, <2>1, <2>2 DEF Ownership
  <2> QED BY <1>6, <2>2, <2>3
<1>9. Ownership(owner1)'
  <2>1. \A h \in DocumentPath :
          Exists(h)' /\ KeysOf(StandsAt(h))' # {} => owner1[StandsAt(h)'] = h
    BY <1>7 DEF KeysOf
  <2>2. \A x \in Content : \A p \in KeysOf(x)' :
          KeysOf(GammaFile(x, disk[p]))' # {} => owner1[GammaFile(x, disk'[p])] = owner1[x]
    BY <1>8 DEF KeysOf
  <2> QED BY <2>1, <2>2 DEF Ownership, Exists
<1> QED BY <1>1, <1>2, <1>5, <1>9, SameKeysOneKey DEF Graph

-----------------------------------------------------------------------------
(***************************************************************************)
(* The hypotheses: the handler does not stop the cipher, no power failure, *)
(* no copies made by the user (two documents with one content have one key *)
(* between them), and no coincidences.                                     *)
(***************************************************************************)
VaultConditions == NoStop /\ DigestsDiffer /\ ~ PowerMayFail /\ "copy" \notin UserActs

LuckySpec == Spec /\ VaultConditions /\ []CipheredIsNew

LEMMA InitVault == Init => VaultInv
<1> SUFFICES ASSUME Init PROVE VaultInv
  OBVIOUS
<1>1. DOMAIN disk \subseteq DocumentPath /\ step = "closed"
  BY ServerAssumption DEF Init
<1>2. \A p \in DOMAIN disk : p.name \notin KeyName
  BY <1>1, NameAssumption DEF DocumentPath
<1>3. OneKey
  BY <1>2 DEF OneKey
<1>4. FoldersExist
  BY DEF Init, FoldersExist
<1>5. NewKeyInFolder
  BY <1>1 DEF NewKeyInFolder, WorkSteps
<1>6. \A c \in Content : KeysOf(c) = {}
  BY <1>2, NameAssumption DEF KeysOf
<1>7. KeyCalls = 0
  BY DEF Init, KeyCalls, InFileCall, NoCall
<1>8. \A f \in DocumentPath : Exists(f) => StandsAt(f) \in Content
  BY <1>1, ServerAssumption DEF Init, StandsAt, InWork, Exists
<1>9. Graph
  <2> DEFINE owner == [c \in Content |-> NoFile]
             rank == [c \in Content |-> 0]
  <2>1. owner \in [Content -> DocumentPath \cup {NoFile}] /\ rank \in [Content -> 0..KeyCalls]
    BY <1>7
  <2>2. Ranks(rank)
    BY <1>6 DEF Ranks
  <2>3. Ownership(owner)
    BY <1>6, <1>8 DEF Ownership
  <2> QED BY <2>1, <2>2, <2>3 DEF Graph
<1> QED BY <1>3, <1>4, <1>5, <1>9 DEF VaultInv

LEMMA StutterIsQuiet ==
  ASSUME UNCHANGED vars
  PROVE  Quiet
<1>1. /\ disk' = disk
      /\ \A f : InWork(f)' <=> InWork(f)
      /\ call' = call
  BY DEF vars, driverVars, coreVars, InWork, InFileCall
<1>2. \A f : StandsAt(f)' = StandsAt(f)
  BY <1>1 DEF StandsAt
<1> QED BY <1>1, <1>2 DEF Quiet, SameKeys, SameFile, Stands

\* Every step stores a key, removes one, moves a document, fails in the work of the core,
\* or is quiet.
LEMMA StepKinds ==
  ASSUME IInv, DeliveryInv, VaultInv, CipheredIsNew, VaultConditions, [Next]_vars
  PROVE  \/ CoreStoresKey \/ CoreRemovesKey \/ WorkEnds \/ Quiet
         \/ \E f, g \in DocumentPath : UserMoves(f, g)
<1>1. ~ KeyNameTaken
  BY NameIsFree DEF VaultInv, KeyNameTaken
<1>2. ~ PowerLoss /\ ~ \E f, g \in DocumentPath : UserCopies(f, g)
  BY DEF VaultConditions, PowerLoss, UserCopies
<1>3. CASE KernelStep
  BY <1>1, <1>3, BackupIsQuiet, WorkBeginsQuietly, WorkIsQuiet, FailureIsQuiet, SettingsAreQuiet
     DEF KernelStep, CoreStep, CoreThrows, SettingsOrProcess
<1>4. CASE ClientStep
  BY <1>4, BackupIsQuiet, SettingsAreQuiet
     DEF ClientStep, EncryptFile, DecryptFile, SettingsOrProcess
<1>5. CASE EnvironmentStep
  BY <1>2, <1>5, FailureIsQuiet, SettingsAreQuiet DEF EnvironmentStep, SettingsOrProcess
<1> QED BY <1>3, <1>4, <1>5, StutterIsQuiet DEF Next

LEMMA VaultStep ==
  ASSUME IInv, IInv', DeliveryInv, DeliveryInv', VaultInv, CipheredIsNew, VaultConditions,
         [Next]_vars
  PROVE  VaultInv'
<1>1. OneKey /\ Graph /\ FoldersExist' /\ NewKeyInFolder'
  BY FoldersStep, NewKeyStep DEF VaultInv
<1>2. DriverType /\ DriverType' /\ 0..KeyCalls \subseteq 0..KeyCalls'
  BY KeyCallsGrow DEF IInv, TypeOK, DriverType
<1>3. CASE CoreStoresKey
  BY <1>1, <1>3, StoreKeepsVault DEF VaultInv, VaultConditions
<1>4. CASE CoreRemovesKey
  BY <1>1, <1>2, <1>4, RemovalKeepsVault DEF VaultInv
<1>5. CASE \E f, g \in DocumentPath : UserMoves(f, g)
  BY <1>1, <1>2, <1>5, MoveKeepsVault DEF VaultInv
<1>6. CASE SameKeys /\ \A f \in DocumentPath : Stays(f)
  <2>1. Graph'
    BY <1>1, <1>2, <1>6, GraphKept
  <2>2. OneKey'
    BY <1>1, <1>2, <1>6, SameKeysOneKey
  <2> QED BY <1>1, <2>1, <2>2 DEF VaultInv
<1>7. CASE WorkEnds
  <2>1. SameKeys /\ \A f \in DocumentPath : Stays(f)
    <3>1. SameKeys
      BY <1>7 DEF WorkEnds, DriverFails, Crash, driverVars, SameKeys, SameFile
    <3> QED BY <1>1, <1>7, <3>1, WorkEndsStays
  <2> QED BY <1>6, <2>1
<1>8. CASE Quiet
  BY <1>6, <1>8, QuietStays DEF Quiet
<1> QED BY <1>3, <1>4, <1>5, <1>7, <1>8, StepKinds

LEMMA ConditionsStay == VaultConditions => VaultConditions'
BY DEF VaultConditions, NoStop, DigestsDiffer

LEMMA VaultInvariant == LuckySpec => [](VaultConditions /\ VaultInv)
<1>1. VaultConditions => NoStop
  BY DEF VaultConditions
<1>2. IInv /\ IInv' /\ DeliveryInv /\ DeliveryInv' /\ VaultInv /\ CipheredIsNew
        /\ VaultConditions /\ [Next]_vars => VaultInv'
  BY VaultStep
<1> QED BY <1>1, <1>2, ConditionsStay, InitVault, InvariantHolds, DeliveryHolds, PTL
        DEF LuckySpec, DeliverySpec, Spec

-----------------------------------------------------------------------------
(***************************************************************************)
(* The refinement.  First the locks: which steps leave them alone, and how *)
(* the others change them.                                                 *)
(***************************************************************************)
OpenedRule ==
  IInv /\ VaultInv =>
    \A c \in Content :
      /\ Opened(c) \in Standings
      /\ KeysOf(c) = {} => Opened(c) = Bare(c)
      /\ KeysOf(c) # {} => Opened(c) = Under(KeyOf(c).directory, Opened(Restored(c)))

LEMMA OpenedAt == OpenedRule
<1> SUFFICES ASSUME IInv, VaultInv, NEW c \in Content
             PROVE  /\ Opened(c) \in Standings
                    /\ KeysOf(c) = {} => Opened(c) = Bare(c)
                    /\ KeysOf(c) # {} =>
                         Opened(c) = Under(KeyOf(c).directory, Opened(Restored(c)))
  BY DEF OpenedRule
<1>1. DriverType /\ OneKey /\ MaxCalls \in 0..MaxCalls
  BY CoreAssumption DEF IInv, TypeOK, DriverType, VaultInv
<1>2. PICK rank \in [Content -> 0..KeyCalls] : Ranks(rank)
  BY DEF VaultInv, Graph
<1>3. rank \in [Content -> 0..MaxCalls]
  <2>1. calls \in Nat /\ calls <= MaxCalls /\ MaxCalls \in Nat
    BY CoreAssumption DEF IInv, TypeOK
  <2>2. 0..KeyCalls \subseteq 0..MaxCalls
    BY <2>1 DEF KeyCalls
  <2> HIDE DEF KeyCalls
  <2> QED BY <1>2, <2>2
<1>4. Opened(c) \in Standings
  BY <1>1, OpeningType DEF Opened
<1> QED BY <1>1, <1>2, <1>3, <1>4, OpenedUnfolds

LEMMA SameKeysOpened ==
  ASSUME IInv, IInv', OneKey, SameKeys
  PROVE  \A c \in Content : Opened(c)' = Opened(c)
<1>1. DriverType /\ DriverType'
  BY DEF IInv, TypeOK, DriverType
<1>2. \A c \in Content : /\ KeysOf(c)' = KeysOf(c)
                         /\ \A p \in KeysOf(c) : /\ disk'[p] = disk[p]
                                                 /\ GammaFile(c, disk[p]) \in Content
  BY <1>1, SameKeysOf, GammaFileContent DEF KeysOf, DriverType
<1> QED BY <1>1, <1>2, OpenedKept

LEMMA QuietStanding ==
  ASSUME IInv, IInv', OneKey, Quiet
  PROVE  \A f \in DocumentPath : Standing(f)' = Standing(f)
<1> SUFFICES ASSUME NEW f \in DocumentPath PROVE Standing(f)' = Standing(f)
  OBVIOUS
<1>1. /\ Exists(f)' <=> Exists(f)
      /\ Exists(f) => StandsAt(f)' = StandsAt(f) /\ StandsAt(f) \in Content
  BY StandsAtType DEF Quiet, Stands, Exists
<1>2. Exists(f) => Opening'[MaxCalls][StandsAt(f)] = Opening[MaxCalls][StandsAt(f)]
  BY <1>1, SameKeysOpened DEF Quiet, Opened
<1> QED BY <1>1, <1>2 DEF Standing, Opened, Bare

LEMMA StandingType ==
  ASSUME IInv, VaultInv, NEW f \in DocumentPath
  PROVE  IF Exists(f) THEN Standing(f) = Opened(StandsAt(f)) /\ Standing(f) \in Standings
                           /\ Standing(f).inside \in Content
         ELSE Standing(f) = Bare(Absent)
BY StandsAtType, OpenedAt DEF OpenedRule, Standing, Standings

\* The key gets its name: a lock on the document in work.
LEMMA LockAdded ==
  ASSUME IInv, IInv', DeliveryInv, DeliveryInv', VaultInv, VaultInv', CipheredIsNew,
         DigestsDiffer, CoreStoresKey
  PROVE  \A g \in DocumentPath :
           Standing(g)' = IF g = call.file THEN Under(Resolve(storagePath), Standing(g))
                          ELSE Standing(g)
<1> DEFINE f == call.file
           c == call.before
           q == call'.key
<1>1. PICK e : e = disk[f]
  OBVIOUS
<1>2. /\ f \in DocumentPath /\ Exists(f) /\ e \in Content /\ c \in Content /\ e # c
      /\ StandsAt(f) = c /\ q.directory = Resolve(storagePath) /\ q \in DOMAIN disk'
      /\ GammaFile(e, disk'[q]) = c
      /\ \A g \in DocumentPath : StandsAt(g)' = disk'[g] /\ SameFile(g)
      /\ \A g \in DocumentPath \ {f} : Exists(g) => StandsAt(g) = disk[g] /\ disk[g] # e
  BY <1>1, StoredKey DEF VaultInv
<1>3. /\ KeysOf(e)' = {q}
      /\ \A x \in Content : x # e =>
           /\ KeysOf(x)' = KeysOf(x)
           /\ \A p \in KeysOf(x) : disk'[p] = disk[p] /\ GammaFile(x, disk[p]) # e
  BY <1>1, StoredKeyOf DEF VaultInv
<1>4. DriverType /\ DriverType' /\ OneKey
  BY DEF IInv, TypeOK, DriverType, VaultInv
<1>5. \A x \in Content \ {e} : Opened(x)' = Opened(x)
  <2>1. \A x \in Content \ {e} :
          /\ KeysOf(x)' = KeysOf(x)
          /\ \A p \in KeysOf(x) : /\ disk'[p] = disk[p]
                                  /\ GammaFile(x, disk[p]) \in Content \ {e}
    BY <1>3, <1>4, GammaFileContent DEF KeysOf, DriverType
  <2> QED BY <1>4, <2>1, OpenedKept
<1>6. Opened(e)' = Under(Resolve(storagePath), Opened(c))
  <2>1. OpenedRule'
    BY OpenedAt, PTL
  <2>2. /\ KeysOf(e)' # {}
        /\ KeysOf(e)' # {} =>
             Opened(e)' = Under(KeyOf(e)'.directory, Opening'[MaxCalls][Restored(e)'])
    BY <1>2, <1>3, <2>1 DEF OpenedRule, Opened, Under
  <2>3. KeyOf(e)' = q
    <3>1. KeyOf(e)' \in KeysOf(e)'
      BY <2>2 DEF KeyOf
    <3> QED BY <1>3, <3>1
  <2>4. Restored(e)' = c
    BY <1>2, <2>3 DEF Restored
  <2>5. Opening'[MaxCalls][c] = Opened(c)
    BY <1>2, <1>5 DEF Opened
  <2> QED BY <1>2, <2>2, <2>3, <2>4, <2>5
<1>7. ASSUME NEW g \in DocumentPath
      PROVE  Standing(g)' = IF g = f THEN Under(Resolve(storagePath), Standing(g))
                            ELSE Standing(g)
  <2>1. /\ Exists(g)' <=> Exists(g)
        /\ Exists(g) => disk[g] \in Content /\ StandsAt(g)' = disk[g]
    BY <1>2 DEF SameFile, Exists, IInv, TypeOK
  <2>2. CASE ~ Exists(g)
    BY <1>2, <2>1, <2>2 DEF Standing, Bare
  <2>3. CASE Exists(g)
    <3>1. Standing(g)' = Opening'[MaxCalls][disk[g]]
      BY <2>1, <2>3 DEF Standing, Opened
    <3>2. CASE g = f
      BY <1>1, <1>2, <1>6, <2>3, <3>1, <3>2 DEF Standing, Opened
    <3>3. CASE g # f
      <4>1. disk[g] \in Content \ {e} /\ StandsAt(g) = disk[g]
        BY <1>2, <2>1, <2>3, <3>3
      <4> QED BY <1>5, <2>3, <3>1, <3>3, <4>1 DEF Standing, Opened
    <3> QED BY <3>2, <3>3
  <2> QED BY <2>2, <2>3
<1> QED BY <1>7

\* The lock of a content with a key.
LEMMA TopLock ==
  ASSUME IInv, VaultInv, NEW c \in Content, KeysOf(c) # {}
  PROVE  /\ Restored(c) \in Content /\ Opened(Restored(c)) \in Standings
         /\ KeyOf(c).directory \in Directory
         /\ Opened(c).locks # <<>> /\ Head(Opened(c).locks) = KeyOf(c).directory
         /\ [Opened(c) EXCEPT !.locks = Tail(@)] = Opened(Restored(c))
<1>1. DriverType
  BY DEF IInv, TypeOK, DriverType
<1>2. Restored(c) \in Content /\ KeyOf(c).directory \in Directory
  BY <1>1, KeyOfType
<1> DEFINE d == KeyOf(c).directory
           rest == Opened(Restored(c))
<1>3. rest \in Standings /\ Opened(c) = Under(d, rest)
  BY <1>2, OpenedAt DEF OpenedRule
<1> HIDE DEF d, rest
<1>4. d \in Directory
  BY <1>2 DEF d
<1>5. Opened(c) = [inside |-> rest.inside, locks |-> <<d>> \o rest.locks]
  BY <1>3, <1>4, UnderType
<1>6. rest.locks \in Seq(Directory) /\ rest = [inside |-> rest.inside, locks |-> rest.locks]
  BY <1>3 DEF Standings
<1>7. /\ <<d>> \o rest.locks # <<>> /\ Head(<<d>> \o rest.locks) = d
      /\ Tail(<<d>> \o rest.locks) = rest.locks
  BY <1>4, <1>6
<1>8. [Opened(c) EXCEPT !.locks = Tail(@)] = [inside |-> rest.inside, locks |-> rest.locks]
  <2>1. \A i, l, t : [[inside |-> i, locks |-> l] EXCEPT !.locks = t]
                       = [inside |-> i, locks |-> t]
    OBVIOUS
  <2>2. Opened(c).locks = <<d>> \o rest.locks
    BY <1>5
  <2>3. Tail(Opened(c).locks) = rest.locks
    BY <1>7, <2>2
  <2>4. [Opened(c) EXCEPT !.locks = Tail(@)]
          = [[inside |-> rest.inside, locks |-> <<d>> \o rest.locks] EXCEPT !.locks = rest.locks]
    BY <1>5, <2>3
  <2> QED BY <2>1, <2>4
<1>9. [Opened(c) EXCEPT !.locks = Tail(@)] = rest
  BY <1>6, <1>8
<1>10. Opened(c).locks # <<>> /\ Head(Opened(c).locks) = d
  BY <1>5, <1>7
<1> QED BY <1>2, <1>3, <1>9, <1>10 DEF d, rest

\* The key is removed: the lock it was is off.
LEMMA LockTaken ==
  ASSUME IInv, IInv', DeliveryInv, VaultInv, DigestsDiffer, CoreRemovesKey
  PROVE  /\ Standing(call.file).locks # <<>>
         /\ Head(Standing(call.file).locks) = Resolve(storagePath)
         /\ \A g \in DocumentPath :
              Standing(g)' = IF g = call.file THEN [Standing(g) EXCEPT !.locks = Tail(@)]
                             ELSE Standing(g)
<1> DEFINE f == call.file
           c == call.before
           k == call.key
<1>1. /\ f \in DocumentPath /\ Exists(f) /\ c \in Content
      /\ StandsAt(f) = c
      /\ \A g \in DocumentPath : g = f => StandsAt(g)' = Restored(c)
      /\ k \in KeysOf(c) /\ Restored(c) = GammaFile(c, disk[k])
      /\ k.directory = Resolve(storagePath)
      /\ DOMAIN disk' = DOMAIN disk \ {k} /\ \A p \in DOMAIN disk' : disk'[p] = disk[p]
      /\ \A g \in DocumentPath : g # k
      /\ \A g \in DocumentPath \ {f} : Exists(g) => StandsAt(g)' = StandsAt(g)
  BY RemovedKey DEF VaultInv
<1>2. DriverType /\ OneKey /\ KeyOf(c) = k
  BY <1>1, OneKeyOf DEF IInv, TypeOK, DriverType, VaultInv
<1>3. /\ Restored(c) \in Content /\ Opened(c).locks # <<>>
      /\ Head(Opened(c).locks) = Resolve(storagePath)
      /\ [Opened(c) EXCEPT !.locks = Tail(@)] = Opened(Restored(c))
  BY <1>1, <1>2, TopLock
<1>4. PICK owner \in [Content -> DocumentPath \cup {NoFile}], rank \in [Content -> 0..KeyCalls] :
        Ownership(owner) /\ Ranks(rank)
  BY DEF VaultInv, Graph
<1>5. \A x \in Content : x # c =>
        KeysOf(x)' = KeysOf(x) /\ \A p \in KeysOf(x) : disk'[p] = disk[p]
  <2>1. \A x \in Content : x # c => k.name # Md5(x)
    BY <1>1 DEF DigestsDiffer, KeysOf
  <2> QED BY <1>1, <2>1 DEF KeysOf
<1>6. \A x \in Content : rank[x] \in Int
  <2>1. 0..KeyCalls \subseteq Int
    BY DEF KeyCalls, IInv, TypeOK
  <2> HIDE DEF KeyCalls
  <2> QED BY <1>4, <2>1
<1>7. Opening'[MaxCalls][Restored(c)] = Opened(Restored(c))
  <2> DEFINE A == {x \in Content : rank[x] < rank[c]}
  <2>1. \A x \in A : /\ KeysOf(x)' = KeysOf(x)
                     /\ \A p \in KeysOf(x) : disk'[p] = disk[p] /\ GammaFile(x, disk[p]) \in A
    <3> SUFFICES ASSUME NEW x \in A
                 PROVE  /\ KeysOf(x)' = KeysOf(x)
                        /\ \A p \in KeysOf(x) : disk'[p] = disk[p] /\ GammaFile(x, disk[p]) \in A
      OBVIOUS
    <3>1. x # c /\ x \in Content /\ rank[x] < rank[c]
      BY <1>1, <1>6
    <3>2. \A p \in KeysOf(x) : GammaFile(x, disk[p]) \in Content
      BY <1>2, <3>1, GammaFileContent DEF KeysOf, DriverType
    <3>3. \A p \in KeysOf(x) : rank[GammaFile(x, disk[p])] < rank[x]
      BY <1>4, <3>1 DEF Ranks
    <3>4. \A p \in KeysOf(x) : rank[GammaFile(x, disk[p])] < rank[c]
      BY <1>1, <1>6, <3>1, <3>2, <3>3
    <3> QED BY <1>5, <3>1, <3>2, <3>4
  <2>2. Restored(c) \in A
    BY <1>1, <1>3, <1>4 DEF Ranks
  <2>3. A \in SUBSET Content
    OBVIOUS
  <2> HIDE DEF A
  <2>4. Opened(Restored(c)) = Opening[MaxCalls][Restored(c)]
    BY DEF Opened
  <2>5. \A x \in A : Opened(x)' = Opened(x)
    BY <1>2, <2>1, <2>3, OpenedKept
  <2> QED BY <2>2, <2>4, <2>5 DEF Opened
<1>8. ASSUME NEW g \in DocumentPath \ {f}, Exists(g)
      PROVE  Opening'[MaxCalls][StandsAt(g)] = Opened(StandsAt(g))
  <2> DEFINE A == {x \in Content : KeysOf(x) # {} => owner[x] # f}
  <2>1. \A x \in A : /\ KeysOf(x)' = KeysOf(x)
                     /\ \A p \in KeysOf(x) : disk'[p] = disk[p] /\ GammaFile(x, disk[p]) \in A
    <3> SUFFICES ASSUME NEW x \in A
                 PROVE  /\ KeysOf(x)' = KeysOf(x)
                        /\ \A p \in KeysOf(x) : disk'[p] = disk[p] /\ GammaFile(x, disk[p]) \in A
      OBVIOUS
    <3>1. x # c
      BY <1>1, <1>4 DEF Ownership
    <3>2. \A p \in KeysOf(x) : GammaFile(x, disk[p]) \in Content
      BY <1>2, GammaFileContent DEF KeysOf, DriverType
    <3>3. ASSUME NEW p \in KeysOf(x), KeysOf(GammaFile(x, disk[p])) # {}
          PROVE  owner[GammaFile(x, disk[p])] # f
      BY <1>4, <3>3 DEF Ownership
    <3> QED BY <1>5, <3>1, <3>2, <3>3
  <2>2. StandsAt(g) \in A
    BY <1>4, <1>8, StandsAtType DEF Ownership
  <2>3. A \in SUBSET Content
    OBVIOUS
  <2> HIDE DEF A
  <2>4. \A x \in A : Opened(x)' = Opened(x)
    BY <1>2, <2>1, <2>3, OpenedKept
  <2> QED BY <2>2, <2>4 DEF Opened
<1>9. ASSUME NEW g \in DocumentPath
      PROVE  Standing(g)' = IF g = f THEN [Standing(g) EXCEPT !.locks = Tail(@)]
                            ELSE Standing(g)
  <2>1. Exists(g)' <=> Exists(g)
    BY <1>1 DEF Exists
  <2>2. CASE ~ Exists(g)
    BY <1>1, <2>1, <2>2 DEF Standing, Bare
  <2>3. CASE Exists(g) /\ g = f
    BY <1>1, <1>3, <1>7, <2>1, <2>3 DEF Standing, Opened
  <2>4. CASE Exists(g) /\ g # f
    BY <1>1, <1>8, <2>1, <2>4 DEF Standing, Opened
  <2> QED BY <2>2, <2>3, <2>4
<1>10. Standing(f) = Opened(c)
  BY <1>1 DEF Standing
<1> QED BY <1>3, <1>9, <1>10

\* A call that fails in the work of the core: its document is as it was, decrypted, or
\* without a lock; no other is concerned.
LEMMA WorkLost ==
  ASSUME IInv, IInv', DeliveryInv, VaultInv, CipheredIsNew, WorkEnds
  PROVE  /\ \A g \in DocumentPath : g # call.file => Standing(g)' = Standing(g)
         /\ \A f \in DocumentPath : f = call.file =>
              \/ Standing(f)' = Standing(f)
              \/ Decrypting /\ Standing(f).locks # <<>>
                 /\ Head(Standing(f).locks) = Resolve(storagePath)
                 /\ Standing(f)' = [Standing(f) EXCEPT !.locks = Tail(@)]
              \/ \E inside \in Content : Standing(f)' = Bare(inside)
<1>1. /\ disk' = disk /\ step' \notin WorkSteps /\ step \in WorkSteps
      /\ OneKey /\ SameKeys
  BY DEF WorkEnds, DriverFails, Crash, driverVars, Throw, EndCall, WorkSteps, VaultInv,
         SameKeys, SameFile
<1>2. \A c \in Content : Opened(c)' = Opened(c)
  BY <1>1, SameKeysOpened
<1>3. /\ call \in FileCall /\ call.file \in DocumentPath /\ InFileCall
      /\ call.before \in Content /\ Exists(call.file)
  BY <1>1, FilesOfCall DEF FileCall, InFileCall
<1>4. \A g \in DocumentPath :
        /\ StandsAt(g)' = disk[g] /\ (Exists(g)' <=> Exists(g))
        /\ StandsAt(g) = IF g = call.file THEN call.before ELSE disk[g]
        /\ Exists(g) => disk[g] \in Content
  BY <1>1, <1>3 DEF StandsAt, InWork, Exists, WorkSteps, IInv, TypeOK
<1>5. \A g \in DocumentPath : Exists(g) => Standing(g)' = Opened(disk[g])
  BY <1>2, <1>4 DEF Standing, Opened
<1>6. ASSUME NEW g \in DocumentPath, g # call.file
      PROVE  Standing(g)' = Standing(g)
  BY <1>4, <1>5, <1>6 DEF Standing, Bare
<1>7. ASSUME NEW f \in DocumentPath, f = call.file
      PROVE  \/ Standing(f)' = Standing(f)
             \/ Decrypting /\ Standing(f).locks # <<>>
                /\ Head(Standing(f).locks) = Resolve(storagePath)
                /\ Standing(f)' = [Standing(f) EXCEPT !.locks = Tail(@)]
             \/ \E inside \in Content : Standing(f)' = Bare(inside)
  <2>1. /\ Standing(f) = Opened(call.before) /\ Standing(f)' = Opened(disk[f])
        /\ disk[f] \in Content
    BY <1>3, <1>4, <1>5, <1>7 DEF Standing
  <2>2. CASE disk[f] = call.before
    BY <2>1, <2>2
  <2>3. CASE Decrypting /\ disk[f] = GammaFile(call.before, disk[call.key])
    <3>1. /\ call.key \in KeysOf(call.before)
          /\ Restored(call.before) = GammaFile(call.before, disk[call.key])
      BY <1>1, <2>3, KeyOfDecryption
    <3>2. KeyOf(call.before) = call.key
      BY <1>1, <1>3, <3>1, OneKeyOf
    <3>3. call.key.directory = Resolve(storagePath)
      BY <1>1, <2>3 DEF DeliveryInv, CipherCompletes, At
    <3> QED BY <1>3, <2>1, <2>3, <3>1, <3>2, <3>3, TopLock
  <2>4. CASE KeysOf(disk[f]) = {}
    <3>1. Opened(disk[f]) = Bare(disk[f])
      BY <2>1, <2>4, OpenedAt DEF OpenedRule
    <3> QED BY <2>1, <3>1
  <2>5. \/ disk[f] = call.before
        \/ Decrypting /\ disk[f] = GammaFile(call.before, disk[call.key])
        \/ KeysOf(disk[f]) = {}
    BY <1>1, <1>3, <1>7 DEF CipheredIsNew, UnknownToKeys
  <2> QED BY <2>2, <2>3, <2>4, <2>5
<1> QED BY <1>6, <1>7

\* A document that is moved keeps its locks.
LEMMA LocksMoved ==
  ASSUME IInv, IInv', VaultInv, NEW f \in DocumentPath, NEW g \in DocumentPath, UserMoves(f, g)
  PROVE  /\ f # g /\ Standing(f).inside # Absent /\ Standing(g).inside = Absent
         /\ Standing(g)' = Standing(f) /\ Standing(f)' = Standing(g)
         /\ \A h \in DocumentPath \ {f, g} : Standing(h)' = Standing(h)
<1>1. /\ SameKeys /\ Exists(f) /\ ~ Exists(g) /\ ~ Exists(f)' /\ Exists(g)'
      /\ StandsAt(g)' = StandsAt(f)
      /\ \A h \in DocumentPath \ {f, g} :
           /\ h \in DOMAIN disk' <=> h \in DOMAIN disk
           /\ h \in DOMAIN disk => StandsAt(h)' = StandsAt(h)
  BY MovedDocument
<1>2. \A c \in Content : Opened(c)' = Opened(c)
  BY <1>1, SameKeysOpened DEF VaultInv
<1>3. \A h \in DocumentPath : Exists(h) => StandsAt(h) \in Content
  BY StandsAtType
<1>4. Standing(g)' = Standing(f) /\ Standing(f)' = Standing(g)
  BY <1>1, <1>2, <1>3 DEF Standing, Opened, Bare
<1>5. \A h \in DocumentPath \ {f, g} : Standing(h)' = Standing(h)
  BY <1>1, <1>2, <1>3 DEF Standing, Opened, Bare, Exists
<1>6. Standing(f).inside # Absent /\ Standing(g).inside = Absent
  BY <1>1, StandingType, AbsentAssumption DEF Bare
<1> QED BY <1>1, <1>4, <1>5, <1>6

-----------------------------------------------------------------------------
(***************************************************************************)
(* Then the steps.                                                         *)
(***************************************************************************)
SameStandings == \A f \in DocumentPath : Standing(f)' = Standing(f)

VaultStutters == UNCHANGED Vault!vaultVars

LEMMA Stutters ==
  ASSUME SameStandings, Work' = Work, storagePath' = storagePath, Saved' = Saved,
         faults' = faults
  PROVE  VaultStutters
<1>1. [f \in DocumentPath |-> Standing(f)]' = [f \in DocumentPath |-> Standing(f)]
  BY DEF SameStandings
<1> QED BY <1>1 DEF VaultStutters, Vault!vaultVars

\* The call of the vault.
WorkRule ==
  IInv =>
    /\ step \notin FileSteps => Work = Vault!Idle
    /\ step \in FileSteps => call \in FileCall /\ call.file \in DocumentPath /\ InFileCall
    /\ step \in FileSteps \ {"wipe", "remove"} =>
         Work = [operation |-> call.operation, file |-> call.file, effective |-> FALSE]
    /\ step \in {"wipe", "remove"} =>
         Work = [operation |-> call.operation, file |-> call.file, effective |-> TRUE]

LEMMA WorkOfCall == WorkRule /\ WorkRule'
<1>1. WorkRule
  <2> SUFFICES ASSUME IInv PROVE WorkRule
    BY DEF WorkRule
  <2>1. CASE step \in FileSteps
    <3>1. call \in FileCall /\ call.file \in DocumentPath
      BY <2>1 DEF IInv, CallMatchesStep
    <3>2. InFileCall
      BY <3>1 DEF FileCall, InFileCall
    <3>3. Work = [operation |-> call.operation, file |-> call.file,
                  effective |-> step \in {"wipe", "remove"}]
      BY <3>2 DEF Work
    <3>4. (step \in {"wipe", "remove"}) = TRUE \/ (step \in {"wipe", "remove"}) = FALSE
      OBVIOUS
    <3> QED BY <2>1, <3>1, <3>2, <3>3, <3>4 DEF WorkRule
  <2>2. CASE step \notin FileSteps
    <3>1. step \in PathSteps \cup {"idle", "closed"}
      BY <2>2 DEF IInv, TypeOK, Steps, FileSteps, WorkSteps, PathSteps
    <3>2. call \in PathCall \/ call = NoCall
      BY <3>1 DEF IInv, CallMatchesStep, Busy
    <3>3. ~ InFileCall
      BY <3>2 DEF PathCall, NoCall, InFileCall
    <3> QED BY <2>2, <3>3 DEF WorkRule, Work, Vault!Idle, FileSteps
  <2> QED BY <2>1, <2>2
<1> QED BY <1>1, PTL

\* No step of a call but its effect and its end changes what the call is for.
LEMMA SameWork ==
  ASSUME IInv, IInv', step \in FileSteps, step' \in FileSteps,
         call'.operation = call.operation, call'.file = call.file,
         step \in {"wipe", "remove"} <=> step' \in {"wipe", "remove"}
  PROVE  Work' = Work
BY WorkOfCall DEF WorkRule

LEMMA QuietIsSame ==
  ASSUME IInv, IInv', VaultInv, Quiet
  PROVE  SameStandings
BY QuietStanding DEF SameStandings, VaultInv

\* The steps of a call that are none of the vault's.
LEMMA CallGoesOn ==
  ASSUME IInv, IInv', VaultInv,
         CopyPortion \/ CommitBackup \/ CoreStep \/ CoreCiphered \/ OverwriteBackup
  PROVE  VaultStutters
<1>1. SameStandings
  BY QuietIsSame, BackupIsQuiet, WorkBeginsQuietly, WorkIsQuiet DEF CoreStep
<1>2. step \in FileSteps /\ step' \in FileSteps
  BY DEF CopyPortion, CommitBackup, CoreStep, CreateKeyFile, LocateKey, CipherPortion,
         CoreCiphered, CipherReturns, OverwriteBackup, FileSteps, WorkSteps
<1>3. step \in {"wipe", "remove"} <=> step' \in {"wipe", "remove"}
  BY DEF CopyPortion, CommitBackup, CoreStep, CreateKeyFile, LocateKey, CipherPortion,
         CoreCiphered, CipherReturns, OverwriteBackup
<1>4. call'.operation = call.operation /\ call'.file = call.file
  <2>1. call \in FileCall
    BY <1>2, WorkOfCall DEF WorkRule
  <2> QED BY <2>1
          DEF CopyPortion, CommitBackup, CoreStep, CreateKeyFile, LocateKey, CipherPortion,
              CoreCiphered, CipherReturns, OverwriteBackup, FileCall
<1>5. storagePath' = storagePath /\ registry' = registry /\ faults' = faults
  BY DEF CopyPortion, CommitBackup, CoreStep, CreateKeyFile, LocateKey, CipherPortion,
         CoreCiphered, CipherReturns, OverwriteBackup, settingVars
<1> QED BY <1>1, <1>2, <1>3, <1>4, <1>5, SameWork, Stutters DEF Saved

LEMMA CallBegins ==
  ASSUME IInv, IInv', VaultInv, NEW op \in {"encrypt", "decrypt"}, NEW f \in DocumentPath,
         BeginCall(op, f)
  PROVE  Vault!Begin(op, f)
<1>1. SameStandings
  BY QuietIsSame, BackupIsQuiet
<1>2. Work = Vault!Idle
  BY WorkOfCall DEF WorkRule, BeginCall, FileSteps, WorkSteps
<1>3. Work' = [operation |-> op, file |-> f, effective |-> FALSE]
  <2>1. step' = "backup" /\ call'.operation = op /\ call'.file = f
    BY DEF BeginCall
  <2> QED BY <2>1, WorkOfCall DEF WorkRule, FileSteps
<1>4. Standing(f).inside # Absent
  BY StandingType, AbsentAssumption DEF BeginCall
<1>5. storagePath' = storagePath /\ Saved' = Saved /\ faults' = faults
  BY DEF BeginCall, settingVars, Saved
<1>6. [h \in DocumentPath |-> Standing(h)]' = [h \in DocumentPath |-> Standing(h)]
  BY <1>1 DEF SameStandings
<1> QED BY <1>2, <1>3, <1>4, <1>5, <1>6 DEF Vault!Begin

\* The call of a file ends.
LEMMA CallEnds ==
  ASSUME IInv, IInv', step' \in {"idle", "closed"}, UNCHANGED <<storagePath, settingVars>>
  PROVE  Work' = Vault!Idle /\ storagePath' = storagePath /\ Saved' = Saved
BY WorkOfCall DEF WorkRule, FileSteps, WorkSteps, Saved, settingVars

LEMMA CallRefused ==
  ASSUME IInv, IInv', VaultInv, DeliveryInv, CipheredIsNew, CoreThrows
  PROVE  Vault!Refuse
<1>1. NoPlaceForKey \/ KeyMissing
  BY NameIsFree DEF CoreThrows, KeyNameTaken, VaultInv
<1>2. [h \in DocumentPath |-> Standing(h)]' = [h \in DocumentPath |-> Standing(h)]
  BY <1>1, QuietIsSame, BackupIsQuiet DEF SameStandings
<1>3. step = "core" /\ step' = "idle"
  BY <1>1 DEF NoPlaceForKey, KeyMissing, EndCall
<1>4. Work = [operation |-> call.operation, file |-> call.file, effective |-> FALSE]
      /\ Work # Vault!Idle
  <2>1. Work = [operation |-> call.operation, file |-> call.file, effective |-> FALSE]
        /\ InFileCall
    BY <1>3, WorkOfCall DEF WorkRule, FileSteps
  <2>2. Work.operation # Vault!Idle.operation
    BY <2>1 DEF InFileCall, Vault!Idle
  <2> QED BY <2>1, <2>2
<1>5. ~ Work.effective
  BY <1>4
<1>6. UNCHANGED <<storagePath, settingVars>> /\ faults' = faults
  BY <1>1 DEF CoreThrows, NoPlaceForKey, KeyMissing
<1> QED BY <1>2, <1>3, <1>4, <1>5, <1>6, CallEnds DEF Vault!Refuse

LEMMA CallReturned ==
  ASSUME IInv, IInv', VaultInv, RemoveBackup
  PROVE  Vault!Return
<1>1. [h \in DocumentPath |-> Standing(h)]' = [h \in DocumentPath |-> Standing(h)]
  BY QuietIsSame, BackupIsQuiet DEF SameStandings
<1>2. step \in {"wipe", "remove"} /\ step' = "idle"
  BY DEF RemoveBackup, EndCall
<1>3. /\ Work = [operation |-> call.operation, file |-> call.file, effective |-> TRUE]
      /\ Work # Vault!Idle
  <2>1. Work = [operation |-> call.operation, file |-> call.file, effective |-> TRUE]
        /\ InFileCall
    BY <1>2, WorkOfCall DEF WorkRule, FileSteps
  <2>2. Work.operation # Vault!Idle.operation
    BY <2>1 DEF InFileCall, Vault!Idle
  <2> QED BY <2>1, <2>2
<1>4. Work.effective
  BY <1>3
<1>5. UNCHANGED <<storagePath, settingVars>> /\ faults' = faults
  BY DEF RemoveBackup
<1> QED BY <1>1, <1>2, <1>3, <1>4, <1>5, CallEnds DEF Vault!Return

\* A failure that leaves every document where it stood.
LEMMA FailsHarmlessly ==
  ASSUME IInv, IInv', VaultInv, CoreBreaks \/ ((DriverFails \/ Crash) /\ ~ WorkEnds)
  PROVE  Vault!Fail
<1>1. [h \in DocumentPath |-> Standing(h)]' = [h \in DocumentPath |-> Standing(h)]
  BY QuietIsSame, BackupIsQuiet, FailureIsQuiet DEF SameStandings
<1>2. /\ step' \in {"idle", "closed"} /\ UNCHANGED <<storagePath, settingVars>>
      /\ faults' = faults + 1
  BY DEF CoreBreaks, KeyWriteFails, EndCall, DriverFails, Throw, Crash, Fault
<1> QED BY <1>1, <1>2, CallEnds DEF Vault!Fail

\* A failure in the work of the core.
LEMMA FailsAtWork ==
  ASSUME IInv, IInv', DeliveryInv, VaultInv, CipheredIsNew, WorkEnds
  PROVE  Vault!Fail
<1> DEFINE vault == [h \in DocumentPath |-> Standing(h)]
           after == [h \in DocumentPath |-> Standing(h)']
<1>1. /\ step \in WorkSteps /\ step' \in {"idle", "closed"}
      /\ UNCHANGED <<storagePath, settingVars>> /\ faults' = faults + 1
  BY DEF WorkEnds, DriverFails, Throw, EndCall, Crash, Fault
<1>2. /\ call.file \in DocumentPath /\ call.operation \in {"encrypt", "decrypt"}
      /\ Work = [operation |-> call.operation, file |-> call.file, effective |-> FALSE]
  BY <1>1, WorkOfCall DEF WorkRule, FileSteps, WorkSteps, InFileCall
<1>3. PICK f \in DocumentPath : f = call.file
  BY <1>2
<1>4. \A g \in DocumentPath : g # f => Standing(g)' = Standing(g)
  BY <1>3, WorkLost
<1>5. \/ after = vault
      \/ \E op \in Vault!Operation, d \in DocumentPath :
           /\ Vault!Pending(op, d)
           /\ \E inside \in Content : after = [vault EXCEPT ![d] = Vault!Unlocked(inside)]
      \/ \E d \in DocumentPath :
           /\ Vault!Pending("decrypt", d)
           /\ vault[d].locks # <<>> /\ Head(vault[d].locks) = Resolve(storagePath)
           /\ after = [vault EXCEPT ![d].locks = Tail(@)]
  <2>1. CASE Standing(f)' = Standing(f)
    BY <1>4, <2>1
  <2>2. ASSUME NEW inside \in Content, Standing(f)' = Bare(inside)
        PROVE  \E op \in Vault!Operation, d \in DocumentPath :
                 /\ Vault!Pending(op, d)
                 /\ \E in \in Content : after = [vault EXCEPT ![d] = Vault!Unlocked(in)]
    <3>1. Vault!Pending(call.operation, f) /\ call.operation \in Vault!Operation
      BY <1>2, <1>3 DEF Vault!Pending, Vault!Operation
    <3>2. after = [vault EXCEPT ![f] = Bare(inside)]
      BY <1>4, <2>2
    <3> QED BY <3>1, <3>2 DEF Vault!Unlocked, Bare
  <2>3. ASSUME Decrypting, Standing(f).locks # <<>>,
               Head(Standing(f).locks) = Resolve(storagePath),
               Standing(f)' = [Standing(f) EXCEPT !.locks = Tail(@)]
        PROVE  \E d \in DocumentPath :
                 /\ Vault!Pending("decrypt", d)
                 /\ vault[d].locks # <<>> /\ Head(vault[d].locks) = Resolve(storagePath)
                 /\ after = [vault EXCEPT ![d].locks = Tail(@)]
    <3>1. Vault!Pending("decrypt", f)
      BY <1>2, <1>3, <2>3 DEF Vault!Pending, Decrypting
    <3>2. after = [vault EXCEPT ![f].locks = Tail(@)]
      BY <1>4, <2>3
    <3> QED BY <2>3, <3>1, <3>2
  <2> QED BY <1>3, <2>1, <2>2, <2>3, WorkLost
<1>6. vault' = after
  OBVIOUS
<1>7. Work' = Vault!Idle /\ storagePath' = storagePath /\ Saved' = Saved
  BY <1>1, CallEnds
<1> HIDE DEF after
<1> QED BY <1>1, <1>5, <1>6, <1>7
        DEF Vault!Fail, Vault!Ruined, Vault!Locked, Vault!LockedIn, FolderOf, vault

\* The call has its effect: the key gets its name.
LEMMA KeyStoredIsLock ==
  ASSUME IInv, IInv', DeliveryInv, DeliveryInv', VaultInv, VaultInv', CipheredIsNew,
         DigestsDiffer, CoreStoresKey
  PROVE  \E f \in DocumentPath : Vault!Lock(f)
<1> DEFINE vault == [h \in DocumentPath |-> Standing(h)]
           after == [h \in DocumentPath |-> Standing(h)']
<1>1. step = "store" /\ step' = "wipe" /\ step \in FileSteps \ {"wipe", "remove"}
  BY DEF CoreStoresKey, StoreKey, FileSteps, WorkSteps
<1>2. /\ call \in FileCall /\ call.file \in DocumentPath /\ Encrypting
      /\ Work = [operation |-> "encrypt", file |-> call.file, effective |-> FALSE]
  BY <1>1, WorkOfCall DEF WorkRule, DeliveryInv, CipherCompletes, Encrypting
<1>3. PICK f \in DocumentPath : f = call.file
  BY <1>2
<1>4. Work' = [Work EXCEPT !.effective = TRUE]
  <2>1. call'.operation = "encrypt" /\ call'.file = f
    BY <1>2, <1>3 DEF CoreStoresKey, StoreKey, FileCall, Encrypting
  <2>2. Work' = [operation |-> "encrypt", file |-> f, effective |-> TRUE]
    BY <1>1, <2>1, WorkOfCall DEF WorkRule
  <2>3. [[operation |-> "encrypt", file |-> f, effective |-> FALSE] EXCEPT !.effective = TRUE]
          = [operation |-> "encrypt", file |-> f, effective |-> TRUE]
    <3>1. \A a, b : [[operation |-> "encrypt", file |-> f, effective |-> a] EXCEPT !.effective = b]
                      = [operation |-> "encrypt", file |-> f, effective |-> b]
      OBVIOUS
    <3> QED BY <3>1, Zenon
  <2>4. Work = [operation |-> "encrypt", file |-> f, effective |-> FALSE]
    BY <1>2, <1>3
  <2> QED BY <2>2, <2>3, <2>4
<1>5. /\ Standing(f)' = Under(Resolve(storagePath), Standing(f))
      /\ \A g \in DocumentPath : g # f => Standing(g)' = Standing(g)
  BY <1>3, LockAdded
<1>6. after = [vault EXCEPT ![f].locks = <<Resolve(storagePath)>> \o vault[f].locks]
  <2>1. Standing(f)' = [Standing(f) EXCEPT !.locks = <<Resolve(storagePath)>> \o Standing(f).locks]
    BY <1>5 DEF Under
  <2> QED BY <1>5, <2>1
<1>7. vault' = after
  OBVIOUS
<1>8. storagePath' = storagePath /\ Saved' = Saved /\ faults' = faults
  BY DEF CoreStoresKey, StoreKey, settingVars, Saved
<1> HIDE DEF after
<1>9. Vault!Lock(f)
  BY <1>2, <1>3, <1>4, <1>6, <1>7, <1>8
     DEF Vault!Lock, Vault!Pending, Vault!Effect, Vault!FolderInUse, FolderOf, vault
<1> QED BY <1>9

\* The call has its effect: the key is used up.
LEMMA KeyRemovedIsUnlock ==
  ASSUME IInv, IInv', DeliveryInv, VaultInv, DigestsDiffer, CoreRemovesKey
  PROVE  \E f \in DocumentPath : Vault!Unlock(f)
<1> DEFINE vault == [h \in DocumentPath |-> Standing(h)]
           after == [h \in DocumentPath |-> Standing(h)']
<1>1. step = "remove_key" /\ step' = "remove" /\ step \in FileSteps \ {"wipe", "remove"}
  BY DEF CoreRemovesKey, RemoveKey, FileSteps, WorkSteps
<1>2. /\ call \in FileCall /\ call.file \in DocumentPath /\ Decrypting
      /\ Work = [operation |-> "decrypt", file |-> call.file, effective |-> FALSE]
  BY <1>1, WorkOfCall DEF WorkRule, DeliveryInv, CipherCompletes, Decrypting
<1>3. PICK f \in DocumentPath : f = call.file
  BY <1>2
<1>4. Work' = [Work EXCEPT !.effective = TRUE]
  <2>1. call'.operation = "decrypt" /\ call'.file = f
    BY <1>2, <1>3 DEF CoreRemovesKey, RemoveKey, Decrypting
  <2>2. Work' = [operation |-> "decrypt", file |-> f, effective |-> TRUE]
    BY <1>1, <2>1, WorkOfCall DEF WorkRule
  <2>3. [[operation |-> "decrypt", file |-> f, effective |-> FALSE] EXCEPT !.effective = TRUE]
          = [operation |-> "decrypt", file |-> f, effective |-> TRUE]
    <3>1. \A a, b : [[operation |-> "decrypt", file |-> f, effective |-> a] EXCEPT !.effective = b]
                      = [operation |-> "decrypt", file |-> f, effective |-> b]
      OBVIOUS
    <3> QED BY <3>1, Zenon
  <2>4. Work = [operation |-> "decrypt", file |-> f, effective |-> FALSE]
    BY <1>2, <1>3
  <2> QED BY <2>2, <2>3, <2>4
<1>5. /\ Standing(f).locks # <<>> /\ Head(Standing(f).locks) = Resolve(storagePath)
      /\ Standing(f)' = [Standing(f) EXCEPT !.locks = Tail(@)]
      /\ \A g \in DocumentPath : g # f => Standing(g)' = Standing(g)
  BY <1>3, LockTaken
<1>6. after = [vault EXCEPT ![f].locks = Tail(vault[f].locks)]
  BY <1>5
<1>7. vault' = after
  OBVIOUS
<1>8. storagePath' = storagePath /\ Saved' = Saved /\ faults' = faults
  BY DEF CoreRemovesKey, RemoveKey, settingVars, Saved
<1> HIDE DEF after
<1>9. Vault!Unlock(f)
  BY <1>2, <1>3, <1>4, <1>5, <1>6, <1>7, <1>8
     DEF Vault!Unlock, Vault!Pending, Vault!Locked, Vault!LockedIn, Vault!Effect, FolderOf, vault
<1> QED BY <1>9

LEMMA MovedInVault ==
  ASSUME IInv, IInv', VaultInv, NEW f \in DocumentPath, NEW g \in DocumentPath, UserMoves(f, g)
  PROVE  Vault!Move(f, g)
<1> DEFINE vault == [h \in DocumentPath |-> Standing(h)]
           after == [h \in DocumentPath |-> Standing(h)']
<1>1. /\ f # g /\ Standing(f).inside # Absent /\ Standing(g).inside = Absent
      /\ Standing(g)' = Standing(f) /\ Standing(f)' = Standing(g)
      /\ \A h \in DocumentPath \ {f, g} : Standing(h)' = Standing(h)
  BY LocksMoved
<1>2. after = [vault EXCEPT ![g] = vault[f], ![f] = vault[g]]
  BY <1>1
<1>3. vault' = after
  OBVIOUS
<1>4. Work = Vault!Idle /\ Work' = Vault!Idle
  <2>1. step \in {"idle", "closed"} /\ step' = step
    BY DEF UserMoves, Busy, coreVars
  <2> QED BY <2>1, WorkOfCall DEF WorkRule, FileSteps, WorkSteps
<1>5. storagePath' = storagePath /\ Saved' = Saved /\ faults' = faults
  BY DEF UserMoves, coreVars, settingVars, Saved
<1> HIDE DEF after
<1> QED BY <1>1, <1>2, <1>3, <1>4, <1>5 DEF Vault!Move, vault

\* The settings, and the process.
LEMMA SettingsInVault ==
  ASSUME IInv, IInv', VaultInv, SettingsOrProcess
  PROVE  Vault!VaultNext \/ VaultStutters
<1>1. SameStandings
  BY QuietIsSame, SettingsAreQuiet
<1>2. [h \in DocumentPath |-> Standing(h)]' = [h \in DocumentPath |-> Standing(h)]
  BY <1>1 DEF SameStandings
<1>3. Work = Vault!Idle /\ Work' = Vault!Idle
  <2>1. step \notin FileSteps /\ step' \notin FileSteps
    BY DEF SettingsOrProcess, SetKeyStoragePath, SaveKeyStoragePath, RemovePreviousPath, EndCall,
           SetWipeMethod, SetCipher, Construct, ConstructFails, Close, UserDeletesKeyFolder,
           coreVars, FileSteps, WorkSteps, Busy
  <2> QED BY <2>1, WorkOfCall DEF WorkRule
<1>4. registry \in Registry /\ registry' \in Registry /\ DefaultStoragePath # Unset
  BY ServerAssumption DEF IInv, TypeOK
<1>5. CASE UNCHANGED <<storagePath, faults>> /\ registry'.storage = registry.storage
  BY <1>1, <1>3, <1>5, Stutters DEF Saved
<1>6. CASE /\ faults' = faults + 1 /\ storagePath' = storagePath
           /\ registry'.storage \in {registry.storage, Stored(registry.storage, DefaultStoragePath)}
  <2>1. Saved' = Saved
    BY <1>4, <1>6 DEF Saved, Stored
  <2>2. Vault!Fail
    BY <1>2, <1>3, <1>6, <2>1 DEF Vault!Fail
  <2> QED BY <2>2 DEF Vault!VaultNext
<1>7. ASSUME NEW path \in StoragePath, SetKeyStoragePath(path)
      PROVE  Vault!VaultNext
  <2>1. storagePath' = path /\ registry' = registry /\ faults' = faults
    BY <1>7 DEF SetKeyStoragePath, settingVars
  <2>2. Vault!UseStorage(path)
    BY <1>2, <1>3, <2>1 DEF Vault!UseStorage, Saved
  <2> QED BY <2>2 DEF Vault!VaultNext
<1>8. CASE SaveKeyStoragePath
  <2>1. call.next = storagePath /\ storagePath \in StoragePath
    BY <1>8 DEF SaveKeyStoragePath, IInv, CallMatchesStep, TypeOK, PathSteps
  <2>2. registry'.storage = storagePath /\ storagePath' = storagePath /\ faults' = faults
    BY <1>4, <1>8, <2>1 DEF SaveKeyStoragePath, Registry
  <2>3. Saved' = storagePath
    BY <2>1, <2>2, ServerAssumption DEF Saved, Stored
  <2>4. Vault!SaveStorage
    BY <1>2, <1>3, <2>2, <2>3 DEF Vault!SaveStorage
  <2> QED BY <2>4 DEF Vault!VaultNext
<1>9. CASE Construct
  <2>1. /\ registry'.storage = Stored(registry.storage, DefaultStoragePath)
        /\ storagePath' = registry'.storage /\ faults' = faults
    BY <1>9 DEF Construct, QueryRegistry
  <2>2. storagePath' = Saved /\ Saved' = Saved
    BY <1>4, <2>1 DEF Saved, Stored
  <2>3. Vault!Restart("start")
    BY <1>2, <1>3, <2>1, <2>2 DEF Vault!Restart
  <2> QED BY <2>3 DEF Vault!VaultNext
<1>10. CASE RemovePreviousPath \/ Close \/ UserDeletesKeyFolder
  BY <1>5, <1>10 DEF RemovePreviousPath, Close, UserDeletesKeyFolder, coreVars, settingVars
<1>11. CASE \/ \E value \in WipeMethod : SetWipeMethod(value)
            \/ \E core \in CoreType : SetCipher(core)
  <2>1. storagePath' = storagePath /\ registry'.storage = registry.storage
        /\ (faults' = faults \/ faults' = faults + 1)
    BY <1>4, <1>11 DEF SetWipeMethod, SetCipher, Fault, Registry
  <2> QED BY <1>5, <1>6, <2>1
<1>12. CASE ConstructFails
  <2>1. /\ faults' = faults + 1 /\ storagePath' = storagePath
        /\ registry'.storage \in {registry.storage, Stored(registry.storage, DefaultStoragePath)}
    BY <1>12 DEF ConstructFails, Fault, coreVars
  <2> QED BY <1>6, <2>1
<1> QED BY <1>7, <1>8, <1>9, <1>10, <1>11, <1>12 DEF SettingsOrProcess

LEMMA VaultSteps ==
  ASSUME IInv, IInv', DeliveryInv, DeliveryInv', VaultInv, VaultInv', CipheredIsNew,
         VaultConditions, [Next]_vars
  PROVE  Vault!VaultNext \/ VaultStutters
<1>1. DigestsDiffer
  BY DEF VaultConditions
<1>2. CASE UNCHANGED vars
  <2>1. SameStandings
    BY <1>2, StutterIsQuiet, QuietIsSame
  <2>2. Work' = Work /\ storagePath' = storagePath /\ Saved' = Saved /\ faults' = faults
    BY <1>2 DEF vars, coreVars, Work, InFileCall, Saved
  <2> QED BY <2>1, <2>2, Stutters
<1>3. CASE CoreStoresKey \/ CoreRemovesKey
  BY <1>1, <1>3, KeyStoredIsLock, KeyRemovedIsUnlock DEF Vault!VaultNext
<1>4. CASE DriverFails \/ Crash \/ CoreBreaks
  BY <1>4, FailsAtWork, FailsHarmlessly DEF Vault!VaultNext
<1>5. CASE CoreThrows \/ RemoveBackup
  BY <1>5, CallRefused, CallReturned DEF Vault!VaultNext
<1>6. CASE KernelStep
  BY <1>3, <1>4, <1>5, <1>6, CallGoesOn, SettingsInVault DEF KernelStep, SettingsOrProcess
<1>7. CASE ClientStep
  <2>1. ASSUME NEW f \in DocumentPath, EncryptFile(f) \/ DecryptFile(f)
        PROVE  Vault!VaultNext
    BY <2>1, CallBegins DEF EncryptFile, DecryptFile, Vault!VaultNext, Vault!Operation
  <2> QED BY <1>7, <2>1, SettingsInVault DEF ClientStep, SettingsOrProcess
<1>8. CASE EnvironmentStep
  <2>1. ~ PowerLoss /\ ~ \E f, g \in DocumentPath : UserCopies(f, g)
    BY DEF VaultConditions, PowerLoss, UserCopies
  <2>2. (\E f, g \in DocumentPath : UserMoves(f, g)) => Vault!VaultNext
    BY MovedInVault DEF Vault!VaultNext
  <2> QED BY <1>4, <1>8, <2>1, <2>2, SettingsInVault DEF EnvironmentStep, SettingsOrProcess
<1> QED BY <1>2, <1>6, <1>7, <1>8 DEF Next

LEMMA VaultBegins == Init => Vault!VaultInit
<1> SUFFICES ASSUME Init PROVE Vault!VaultInit
  OBVIOUS
<1>1. IInv /\ VaultInv /\ step \notin FileSteps
  BY InitInvariant, InitVault DEF Init, FileSteps, WorkSteps
<1>2. Work = Vault!Idle
  BY <1>1, WorkOfCall DEF WorkRule
<1>3. storagePath = DefaultStoragePath /\ Saved = DefaultStoragePath /\ faults = 0
  BY DEF Init, Saved, Stored
<1>4. ASSUME NEW f \in DocumentPath
      PROVE  Standing(f) \in {Vault!Unlocked(inside) : inside \in Content \cup {Absent}}
  <2>1. CASE ~ Exists(f)
    BY <2>1 DEF Standing, Bare, Vault!Unlocked
  <2>2. CASE Exists(f)
    <3>1. DOMAIN disk \subseteq DocumentPath
      BY ServerAssumption DEF Init
    <3>2. StandsAt(f) \in Content
      BY <1>1, <2>2, StandsAtType
    <3>3. KeysOf(StandsAt(f)) = {}
      BY <3>1, <3>2, NameAssumption DEF KeysOf, DocumentPath
    <3>4. Standing(f) = Bare(StandsAt(f))
      BY <1>1, <2>2, <3>2, <3>3, OpenedAt DEF OpenedRule, Standing
    <3> QED BY <3>2, <3>4 DEF Bare, Vault!Unlocked
  <2> QED BY <2>1, <2>2
<1>5. [f \in DocumentPath |-> Standing(f)]
        \in [DocumentPath -> {Vault!Unlocked(inside) : inside \in Content \cup {Absent}}]
  BY <1>4
<1> QED BY <1>2, <1>3, <1>5 DEF Vault!VaultInit

\* The kernel implements the vault, for any number of documents, key folders, portions,
\* calls and failures: every step of a call, of a failure and of the user is a step of the
\* vault or changes nothing it shows (ServerCommunicator.cpp:213-325,
\* AbsoluteSecurityCore.cpp:70-106).
THEOREM VaultImplemented == LuckySpec => ImplementsVault
<1>1. Init => Vault!VaultInit
  BY VaultBegins
<1>2. IInv /\ IInv' /\ DeliveryInv /\ DeliveryInv' /\ VaultInv /\ VaultInv' /\ CipheredIsNew
        /\ VaultConditions /\ [Next]_vars => [Vault!VaultNext]_(Vault!vaultVars)
  BY VaultSteps DEF VaultStutters
<1>3. VaultConditions => NoStop
  BY DEF VaultConditions
<1> QED BY <1>1, <1>2, <1>3, VaultInvariant, InvariantHolds, DeliveryHolds, PTL
        DEF LuckySpec, DeliverySpec, Spec, ImplementsVault, Vault!VaultSpec

-----------------------------------------------------------------------------
(***************************************************************************)
(* What encryptions have replaced is found again, one key after another.   *)
(***************************************************************************)
Link(c, d) == KeysOf(c) # {} /\ Restored(c) = d

\* From c, the keys lead through the contents of s.
Leads(c, s) == \A i \in DOMAIN s : Link(IF i = 1 THEN c ELSE s[i - 1], s[i])

\* The contents whose keys are used on the way.
Passes(c, s) == {IF i = 1 THEN c ELSE s[i - 1] : i \in DOMAIN s}

\* Where the chain of a document begins: sealed is cut when the cipher of a decryption
\* returns, before its key is removed.
Base(f) == IF InWork(f) /\ step = "remove_key" THEN disk[f] ELSE StandsAt(f)

Chained(f) ==
  \A c \in {Base(f)}, s \in {sealed[f]} : s # <<>> => Exists(f) /\ Leads(c, s)

SealedInv == \A f \in DocumentPath : Chained(f)

SameKey(x) == KeysOf(x)' = KeysOf(x) /\ \A p \in KeysOf(x) : disk'[p] = disk[p]

LEMMA LeadsKept ==
  ASSUME NEW c, NEW s, Leads(c, s), \A x \in Passes(c, s) : SameKey(x)
  PROVE  Leads(c, s)'
<1>1. ASSUME NEW x, NEW d, SameKey(x), Link(x, d)
      PROVE  Link(x, d)'
  <2>1. KeyOf(x) \in KeysOf(x) /\ KeyOf(x)' = KeyOf(x)
    BY <1>1 DEF Link, KeyOf, SameKey
  <2>2. Restored(x)' = Restored(x)
    BY <1>1, <2>1 DEF Restored, SameKey
  <2> QED BY <1>1, <2>2 DEF Link, SameKey
<1>2. ASSUME NEW i \in DOMAIN s
      PROVE  Link(IF i = 1 THEN c ELSE s[i - 1], s[i])'
  <2>1. PICK x : x = IF i = 1 THEN c ELSE s[i - 1]
    OBVIOUS
  <2>2. SameKey(x) /\ Link(x, s[i])
    BY <2>1 DEF Leads, Passes
  <2>3. Link(x, s[i])'
    BY <1>1, <2>2
  <2> QED BY <2>1, <2>3
<1> QED BY <1>2 DEF Leads

LEMMA LeadsOn ==
  ASSUME NEW c, NEW s \in Seq(Content), s # <<>>, Leads(c, s)
  PROVE  /\ Link(c, s[1]) /\ s[1] \in Content /\ Tail(s) \in Seq(Content)
         /\ Leads(s[1], Tail(s))
<1>1. Len(s) \in Nat \ {0} /\ DOMAIN s = 1..Len(s) /\ 1 \in DOMAIN s /\ s[1] \in Content
  OBVIOUS
<1>2. Link(c, s[1])
  BY <1>1 DEF Leads
<1>3. /\ Tail(s) \in Seq(Content) /\ DOMAIN Tail(s) = 1..(Len(s) - 1)
      /\ \A i \in 1..(Len(s) - 1) : Tail(s)[i] = s[i + 1]
  BY <1>1
<1>4. ASSUME NEW i \in DOMAIN Tail(s)
      PROVE  Link(IF i = 1 THEN s[1] ELSE Tail(s)[i - 1], Tail(s)[i])
  <2>1. i + 1 \in DOMAIN s /\ i + 1 # 1 /\ (i + 1) - 1 = i /\ i \in Int /\ 1 <= i
    BY <1>1, <1>3, <1>4
  <2>2. Link(s[i], s[i + 1])
    BY <2>1 DEF Leads
  <2>3. i # 1 => i - 1 \in 1..(Len(s) - 1) /\ Tail(s)[i - 1] = s[i]
    BY <1>1, <1>3, <1>4, <2>1
  <2> QED BY <1>3, <1>4, <2>2, <2>3
<1> QED BY <1>1, <1>2, <1>3, <1>4 DEF Leads

LEMMA LeadsFurther ==
  ASSUME NEW e, NEW c \in Content, NEW s \in Seq(Content), Link(e, c), Leads(c, s)
  PROVE  Leads(e, <<c>> \o s)
<1>1. /\ DOMAIN (<<c>> \o s) = 1..(Len(s) + 1) /\ (<<c>> \o s)[1] = c
      /\ \A i \in 1..Len(s) : (<<c>> \o s)[i + 1] = s[i]
      /\ Len(s) \in Nat /\ DOMAIN s = 1..Len(s)
  OBVIOUS
<1>2. ASSUME NEW i \in 1..(Len(s) + 1), i # 1
      PROVE  Link((<<c>> \o s)[i - 1], (<<c>> \o s)[i])
  <2>1. i - 1 \in 1..Len(s) /\ (i - 1) + 1 = i
    BY <1>1, <1>2
  <2>2. (<<c>> \o s)[i] = s[i - 1]
    BY <1>1, <2>1
  <2>3. (<<c>> \o s)[i - 1] = IF i - 1 = 1 THEN c ELSE s[(i - 1) - 1]
    <3>1. CASE i - 1 = 1
      BY <1>1, <3>1
    <3>2. CASE i - 1 # 1
      <4>1. (i - 1) - 1 \in 1..Len(s) /\ ((i - 1) - 1) + 1 = i - 1
        BY <1>1, <2>1, <3>2
      <4> QED BY <1>1, <3>2, <4>1
    <3> QED BY <3>1, <3>2
  <2> QED BY <1>1, <2>1, <2>2, <2>3 DEF Leads
<1> QED BY <1>1, <1>2 DEF Leads

\* The contents that are opened on the way belong to the document, and lie below.
LEMMA OpensBelow ==
  ASSUME OneKey, DriverType,
         NEW owner, NEW rank, Ownership(owner), Ranks(rank), \A x \in Content : rank[x] \in Int,
         NEW c \in Content, NEW s \in Seq(Content), Leads(c, s)
  PROVE  \A x \in Passes(c, s) :
           x \in Content /\ KeysOf(x) # {} /\ owner[x] = owner[c] /\ rank[x] <= rank[c]
<1> DEFINE At0(i) == IF i = 1 THEN c ELSE s[i - 1]
           Good(i) == owner[At0(i)] = owner[c] /\ rank[At0(i)] <= rank[c]
<1>1. Len(s) \in Nat /\ DOMAIN s = 1..Len(s)
  OBVIOUS
<1>2. \A i \in 1..Len(s) : At0(i) \in Content /\ KeysOf(At0(i)) # {}
  <2> SUFFICES ASSUME NEW i \in 1..Len(s) PROVE At0(i) \in Content /\ KeysOf(At0(i)) # {}
    OBVIOUS
  <2>1. i # 1 => i - 1 \in 1..Len(s) /\ s[i - 1] \in Content
    BY <1>1
  <2>2. Link(At0(i), s[i])
    BY <1>1 DEF Leads
  <2>3. KeysOf(At0(i)) # {}
    BY <2>2 DEF Link
  <2> QED BY <2>1, <2>3
<1>3. CASE Len(s) = 0
  BY <1>1, <1>3 DEF Passes
<1>4. CASE Len(s) # 0
  <2> DEFINE m == Len(s) - 1
             T == {n \in 0..m : Good(n + 1)}
  <2>1. m \in Nat
    BY <1>1, <1>4
  <2>1a. \A n \in 0..m : n # m =>
           /\ n + 1 \in 0..m /\ n + 1 \in 1..Len(s) /\ (n + 1) + 1 \in 1..Len(s)
           /\ (n + 1) + 1 # 1 /\ ((n + 1) + 1) - 1 = n + 1
    <3>1. \A l \in Nat \ {0}, n \in Int : 0 <= n /\ n <= l - 1 /\ n # l - 1 =>
            /\ 0 <= n + 1 /\ n + 1 <= l - 1 /\ 1 <= n + 1 /\ n + 1 <= l
            /\ 1 <= (n + 1) + 1 /\ (n + 1) + 1 <= l /\ (n + 1) + 1 # 1
            /\ ((n + 1) + 1) - 1 = n + 1
      OBVIOUS
    <3>2. Len(s) \in Nat \ {0}
      BY <1>1, <1>4
    <3> HIDE DEF T
    <3> QED BY <3>1, <3>2
  <2>2. 0 \in T
    <3>1. KeysOf(c) # {} /\ 0 + 1 = 1
      BY <1>1, <1>2, <1>4
    <3>2. rank[c] <= rank[c]
      OBVIOUS
    <3> QED BY <2>1, <3>1, <3>2
  <2>3. ASSUME NEW n \in 0..m, n # m, n \in T
        PROVE  n + 1 \in T
    <3>1. n + 1 \in 0..m /\ n + 1 \in 1..Len(s) /\ (n + 1) + 1 \in 1..Len(s) /\ (n + 1) + 1 # 1
          /\ ((n + 1) + 1) - 1 = n + 1
      BY <2>1a, <2>3
    <3> DEFINE x == At0(n + 1)
               y == At0((n + 1) + 1)
    <3>2. x \in Content /\ y \in Content /\ KeysOf(x) # {} /\ KeysOf(y) # {}
      BY <1>2, <3>1
    <3>3. y = s[n + 1] /\ Link(x, s[n + 1])
      BY <1>1, <3>1 DEF Leads
    <3>4. owner[x] = owner[c] /\ rank[x] <= rank[c]
      BY <2>3
    <3> HIDE DEF x, y
    <3>5. KeyOf(x) \in KeysOf(x) /\ y = GammaFile(x, disk[KeyOf(x)])
      BY <3>3 DEF Link, KeyOf, Restored
    <3>6. owner[y] = owner[x] /\ rank[y] < rank[x]
      BY <3>2, <3>5 DEF Ownership, Ranks
    <3>7. rank[x] \in Int /\ rank[y] \in Int /\ rank[c] \in Int
      BY <3>2
    <3>8. owner[y] = owner[c] /\ rank[y] <= rank[c]
      BY <3>4, <3>6, <3>7
    <3> QED BY <3>1, <3>8 DEF y
  <2> HIDE DEF T
  <2>4. 0..m \subseteq T
    BY <2>1, <2>2, <2>3, UpTo
  <2>5. ASSUME NEW i \in 1..Len(s) PROVE Good(i)
    <3>1. i - 1 \in 0..m /\ (i - 1) + 1 = i
      BY <1>1, <2>5
    <3>2. i - 1 \in T
      BY <2>4, <3>1
    <3>3. Good((i - 1) + 1)
      BY <3>2 DEF T
    <3> QED BY <3>1, <3>3
  <2>6. \A x \in Passes(c, s) : \E i \in 1..Len(s) : x = At0(i)
    BY <1>1 DEF Passes
  <2> HIDE DEF At0
  <2> QED BY <1>2, <2>5, <2>6
<1> QED BY <1>3, <1>4

LEMMA OpensContent ==
  ASSUME NEW c \in Content, NEW s \in Seq(Content)
  PROVE  Passes(c, s) \subseteq Content
<1>1. Len(s) \in Nat /\ DOMAIN s = 1..Len(s)
  OBVIOUS
<1>2. \A i \in 1..Len(s) : i # 1 => i - 1 \in 1..Len(s) /\ s[i - 1] \in Content
  BY <1>1
<1> QED BY <1>1, <1>2 DEF Passes

LEMMA BaseType ==
  ASSUME IInv, NEW f \in DocumentPath
  PROVE  /\ sealed[f] \in Seq(Content) /\ (Exists(f) => Base(f) \in Content)
         /\ ~ InWork(f) => Base(f) = disk[f]
BY StandsAtType DEF Base, StandsAt, IInv, TypeOK, Exists

\* The chain of a document is not touched by a step, or is given up.
ChainStays(f) ==
  \/ sealed'[f] = <<>>
  \/ sealed'[f] = sealed[f] /\ (Exists(f) => Exists(f)' /\ Base(f)' = Base(f))

LEMMA ChainKept ==
  ASSUME NEW f \in DocumentPath, Chained(f), ChainStays(f),
         sealed'[f] # <<>> /\ Exists(f) => \A x \in Passes(Base(f), sealed[f]) : SameKey(x)
  PROVE  Chained(f)'
<1> SUFFICES ASSUME NEW c, c = Base(f)', NEW s, s = sealed'[f], s # <<>>
             PROVE  Exists(f)' /\ Leads(c, s)'
  BY DEF Chained, Exists
<1>1. Exists(f) /\ Leads(c, s) /\ Exists(f)' /\ c = Base(f) /\ s = sealed[f]
  BY DEF Chained, ChainStays
<1>2. \A x \in Passes(c, s) : SameKey(x)
  BY <1>1
<1>3. Leads(c, s)'
  BY <1>1, <1>2, LeadsKept
<1> QED BY <1>1, <1>3

LEMMA SealedKept ==
  ASSUME IInv, IInv', SealedInv, SameKeys, \A f \in DocumentPath : ChainStays(f)
  PROVE  SealedInv'
<1>1. \A x \in Content : SameKey(x)
  BY SameKeysOf DEF SameKey, IInv, TypeOK, DriverType
<1>2. ASSUME NEW f \in DocumentPath, Exists(f)
      PROVE  \A x \in Passes(Base(f), sealed[f]) : SameKey(x)
  <2>1. Base(f) \in Content /\ sealed[f] \in Seq(Content)
    BY <1>2, BaseType
  <2> QED BY <1>1, <2>1, OpensContent
<1> QED BY <1>2, ChainKept DEF SealedInv

\* Nothing is sealed or given up by the other steps.
LEMMA SealedUnchanged ==
  ASSUME IInv, DeliveryInv, VaultInv, CipheredIsNew, VaultConditions, Next,
         ~ CoreCiphered, ~ CoreStoresKey, ~ CoreRemovesKey, ~ WorkEnds,
         ~ \E f, g \in DocumentPath : UserMoves(f, g)
  PROVE  sealed' = sealed /\ step # "remove_key" /\ step' # "remove_key"
<1>1. ~ KeyNameTaken /\ ~ PowerLoss /\ ~ \E f, g \in DocumentPath : UserCopies(f, g)
  BY NameIsFree DEF VaultInv, KeyNameTaken, VaultConditions, PowerLoss, UserCopies
<1>2. CASE \/ NoPlaceForKey /\ Throw
           \/ KeyMissing /\ Throw
           \/ CoreBreaks
           \/ DriverFails
           \/ Crash
  <2>1. step \notin WorkSteps /\ step' \in {"idle", "closed"} /\ Abandon
    BY <1>2 DEF NoPlaceForKey, KeyMissing, CoreBreaks, KeyWriteFails, DriverFails, Crash, Throw,
                EndCall, WorkEnds, WorkSteps
  <2> QED BY <2>1 DEF Abandon, HalfDone, WorkSteps
<1>3. CASE CopyPortion \/ CommitBackup \/ OverwriteBackup \/ RemoveBackup
  BY <1>3 DEF CopyPortion, CommitBackup, OverwriteBackup, RemoveBackup, EndCall
<1>4. CASE CoreStep
  BY <1>4 DEF CoreStep, CreateKeyFile, LocateKey, CipherPortion
<1>5. CASE SettingsOrProcess
  BY <1>5 DEF SettingsOrProcess, SetKeyStoragePath, SaveKeyStoragePath, RemovePreviousPath,
              EndCall, SetWipeMethod, SetCipher, Construct, ConstructFails, Close,
              UserDeletesKeyFolder, coreVars, Busy
<1>6. CASE \E op \in {"encrypt", "decrypt"}, f \in DocumentPath : BeginCall(op, f)
  BY <1>6 DEF BeginCall
<1>7. CASE KernelStep
  BY <1>1, <1>2, <1>3, <1>4, <1>5, <1>7 DEF KernelStep, CoreThrows, SettingsOrProcess
<1>8. CASE ClientStep
  BY <1>5, <1>6, <1>8 DEF ClientStep, EncryptFile, DecryptFile, SettingsOrProcess
<1>9. CASE EnvironmentStep
  BY <1>1, <1>2, <1>5, <1>9 DEF EnvironmentStep, SettingsOrProcess
<1> QED BY <1>7, <1>8, <1>9 DEF Next

\* A step that leaves the files where they stand and seals nothing.
LEMMA QuietKeepsSealed ==
  ASSUME IInv, IInv', SealedInv, Quiet, sealed' = sealed,
         step # "remove_key" /\ step' # "remove_key"
  PROVE  SealedInv'
<1>1. \A f : Base(f) = StandsAt(f) /\ Base(f)' = StandsAt(f)'
  BY DEF Base
<1>2. \A f \in DocumentPath : ChainStays(f)
  BY <1>1 DEF Quiet, Stands, ChainStays, Exists
<1> QED BY <1>2, SealedKept DEF Quiet

LEMMA StutterKeepsSealed ==
  ASSUME IInv, IInv', SealedInv, UNCHANGED vars
  PROVE  SealedInv'
<1>1. \A f : (InWork(f)' <=> InWork(f)) /\ Base(f)' = Base(f)
  BY DEF vars, driverVars, coreVars, InWork, InFileCall, Base, StandsAt
<1>2. \A f \in DocumentPath : ChainStays(f)
  BY <1>1 DEF ChainStays, Exists, vars, driverVars
<1> QED BY <1>2, StutterIsQuiet, SealedKept DEF Quiet

DecipheredRule ==
  IInv /\ DeliveryInv /\ OneKey /\ step = "remove_key" => disk[call.file] = Restored(call.before)

\* The cipher has returned: an encryption stands where it stood, a decryption stands at what
\* its key restores and goes on from there.
LEMMA CipherKeepsSealed ==
  ASSUME IInv, IInv', DeliveryInv, DeliveryInv', OneKey, SealedInv, CoreCiphered
  PROVE  SealedInv'
<1>1. /\ step = "cipher" /\ call' = call /\ disk' = disk /\ ~ PortionLeft(call.cursor, disk[call.file])
      /\ step' = IF Encrypting THEN "store" ELSE "remove_key"
  BY DEF CoreCiphered, CipherReturns, driverVars, DeliveryInv, CipherCompletes
<1>2. /\ Quiet /\ call \in FileCall /\ call.file \in DocumentPath /\ call.before \in Content
      /\ InFileCall /\ Exists(call.file)
  BY <1>1, WorkIsQuiet, FilesOfCall DEF FileCall, InFileCall, WorkSteps
<1>3. CASE Encrypting
  BY <1>1, <1>2, <1>3, QuietKeepsSealed DEF CoreCiphered
<1>4. CASE ~ Encrypting
  <2>1. /\ step' = "remove_key"
        /\ \A f \in DocumentPath : sealed'[f] =
             IF f = call.file THEN (IF sealed[f] = <<>> THEN <<>> ELSE Tail(sealed[f]))
             ELSE sealed[f]
    BY <1>1, <1>2, <1>4 DEF CoreCiphered, IInv, TypeOK
  <2>2. \A x \in Content : SameKey(x)
    BY <1>1 DEF SameKey, KeysOf
  <2>3. ASSUME NEW f \in DocumentPath, f # call.file
        PROVE  Chained(f)'
    <3>1. ChainStays(f)
      BY <1>1, <2>1, <2>3 DEF ChainStays, Base, StandsAt, InWork, Exists
    <3>2. Exists(f) => \A x \in Passes(Base(f), sealed[f]) : SameKey(x)
      BY <2>2, BaseType, OpensContent
    <3> QED BY <3>1, <3>2, ChainKept DEF SealedInv
  <2>4. disk[call.file] = Restored(call.before)
    <3>1. DecipheredRule
      BY Deciphered DEF DecipheredRule
    <3>2. DecipheredRule'
      BY <3>1, Deciphered, PTL DEF DecipheredRule
    <3>3. OneKey'
      BY <1>1 DEF OneKey
    <3> QED BY <1>1, <2>1, <3>2, <3>3 DEF DecipheredRule, Restored, KeyOf, KeysOf
  <2>5. ASSUME NEW f, f = call.file, NEW s, s = sealed'[f], s # <<>>, NEW c, c = Base(f)'
        PROVE  Exists(f)' /\ Leads(c, s)'
    <3>1. PICK t : t = sealed[f] /\ t # <<>> /\ s = Tail(t) /\ t \in Seq(Content)
      BY <1>2, <2>1, <2>5, BaseType
    <3>2. Base(f) = call.before
      BY <1>1, <1>2, <2>5 DEF Base, StandsAt, InWork
    <3>3. PICK e : e = call.before /\ e \in Content /\ Leads(e, t)
      BY <1>2, <2>5, <3>1, <3>2 DEF SealedInv, Chained
    <3>4. Link(e, t[1]) /\ t[1] \in Content /\ Leads(t[1], s) /\ s \in Seq(Content)
      BY <3>1, <3>3, LeadsOn
    <3>5. c = t[1]
      <4>1. c = disk[f]
        BY <1>1, <1>2, <2>1, <2>5 DEF Base, InWork, InFileCall
      <4> QED BY <2>4, <2>5, <3>3, <3>4, <4>1 DEF Link
    <3>6. Leads(c, s)'
      BY <2>2, <3>4, <3>5, OpensContent, LeadsKept
    <3> QED BY <1>1, <1>2, <2>5, <3>6 DEF Exists
  <2>6. \A f \in DocumentPath : f = call.file => Chained(f)'
    BY <2>5 DEF Chained
  <2> QED BY <2>3, <2>6 DEF SealedInv
<1> QED BY <1>3, <1>4

\* A call fails while the core works: what it leaves of the document is what it was, or
\* decrypted, or nothing is promised of it any more.
LEMMA FailureKeepsSealed ==
  ASSUME IInv, IInv', DeliveryInv, SealedInv, WorkEnds
  PROVE  SealedInv'
<1>1. /\ disk' = disk /\ step' \notin WorkSteps /\ step \in WorkSteps /\ Abandon
  BY DEF WorkEnds, DriverFails, Crash, driverVars, Throw, EndCall, WorkSteps
<1>2. /\ call \in FileCall /\ InFileCall /\ sealed \in [DocumentPath -> Seq(Content)]
      /\ call.file \in DocumentPath
  BY <1>1, FilesOfCall DEF FileCall, InFileCall, IInv, TypeOK
<1>3. SameKeys
  BY <1>1 DEF SameKeys, SameFile
<1>4. ASSUME NEW f \in DocumentPath PROVE ChainStays(f)
  <2>1. Base(f)' = disk[f]
    BY <1>1 DEF Base, StandsAt, InWork, WorkSteps
  <2>2. CASE HalfDone /\ f = call.file
    BY <1>1, <1>2, <2>2 DEF ChainStays, Abandon
  <2>3. CASE ~ (HalfDone /\ f = call.file)
    <3>1. sealed'[f] = sealed[f]
      BY <1>1, <1>2, <2>3 DEF Abandon
    <3>2. Base(f) = disk[f]
      <4>1. CASE f # call.file \/ step = "remove_key"
        BY <4>1 DEF Base, StandsAt, InWork
      <4>2. CASE f = call.file /\ step # "remove_key"
        <5>1. step = "cipher" /\ disk[f] = call.before
          BY <1>1, <2>3, <4>2 DEF HalfDone, WorkSteps
        <5> QED BY <1>2, <4>2, <5>1 DEF Base, StandsAt
      <4> QED BY <4>1, <4>2
    <3> QED BY <1>1, <2>1, <3>1, <3>2 DEF ChainStays, Exists
  <2> QED BY <2>2, <2>3
<1> QED BY <1>3, <1>4, SealedKept

\* A decryption removes its key: no chain leads over the content it opened, neither that of
\* the document, which lies below, nor another one, whose keys belong to another document.
LEMMA RemovalKeepsSealed ==
  ASSUME IInv, IInv', DeliveryInv, VaultInv, DigestsDiffer, SealedInv, CoreRemovesKey
  PROVE  SealedInv'
<1> DEFINE before == call.before
<1>1. OneKey /\ Graph /\ DriverType
  BY TypesOfDriver DEF VaultInv, IInv, TypeOK, DriverType
<1>2. /\ call.file \in DocumentPath /\ Exists(call.file) /\ before \in Content
      /\ StandsAt(call.file) = before
      /\ call.key \in KeysOf(before)
      /\ Restored(before) = GammaFile(before, disk[call.key])
      /\ DOMAIN disk' = DOMAIN disk \ {call.key} /\ \A p \in DOMAIN disk' : disk'[p] = disk[p]
      /\ \A g \in DocumentPath : g # call.key
  BY <1>1, RemovedKey
<1>3. step = "remove_key" /\ step' = "remove" /\ sealed' = sealed
  BY DEF CoreRemovesKey, RemoveKey
<1>4. \A f \in DocumentPath : Base(f) = disk[f] /\ Base(f)' = disk'[f]
  BY <1>3 DEF Base, StandsAt, InWork
<1>5. \A f \in DocumentPath : ChainStays(f)
  BY <1>2, <1>3, <1>4 DEF ChainStays, Exists
<1>6. ASSUME NEW x \in Content, x # before PROVE SameKey(x)
  <2>1. call.key \notin KeysOf(x)
    BY <1>2, <1>6 DEF KeysOf, DigestsDiffer
  <2> QED BY <1>2, <2>1 DEF SameKey, KeysOf
<1>7. PICK owner \in [Content -> DocumentPath \cup {NoFile}], rank \in [Content -> Int] :
        Ownership(owner) /\ Ranks(rank)
  <2>1. PICK owner \in [Content -> DocumentPath \cup {NoFile}], rank \in [Content -> 0..KeyCalls] :
          Ownership(owner) /\ Ranks(rank)
    BY <1>1 DEF Graph
  <2> HIDE DEF KeyCalls
  <2>2. rank \in [Content -> Int]
    <3>1. \A x \in Content : rank[x] \in Int
      OBVIOUS
    <3> QED BY <3>1
  <2> QED BY <2>1, <2>2
<1>9. owner[before] = call.file
  BY <1>2, <1>7 DEF Ownership
<1>10. ASSUME NEW f \in DocumentPath, Exists(f), sealed[f] # <<>>
       PROVE  \A x \in Passes(Base(f), sealed[f]) : SameKey(x)
  <2>1. PICK c, s : c = Base(f) /\ s = sealed[f]
    OBVIOUS
  <2>2. c \in Content /\ s \in Seq(Content) /\ Leads(c, s) /\ c = disk[f]
    BY <1>4, <1>10, <2>1, BaseType DEF SealedInv, Chained
  <2>3. \A x \in Passes(c, s) :
          x \in Content /\ KeysOf(x) # {} /\ owner[x] = owner[c] /\ rank[x] <= rank[c]
    <3>1. \A x \in Content : rank[x] \in Int
      BY <1>7
    <3> QED BY <1>1, <1>7, <2>2, <3>1, OpensBelow
  <2>4. CASE f = call.file
    <3>1. c = Restored(before)
      BY <1>1, <1>3, <2>2, <2>4, Deciphered
    <3>2. rank[c] < rank[before]
      BY <1>2, <1>7, <3>1 DEF Ranks
    <3>3. rank[before] \in Int /\ rank[c] \in Int /\ \A x \in Passes(c, s) : rank[x] \in Int
      BY <1>2, <2>2, <2>3
    <3>4. \A x \in Passes(c, s) : x # before
      BY <2>3, <3>2, <3>3
    <3> QED BY <1>6, <2>1, <2>3, <3>4
  <2>5. CASE f # call.file
    <3>1. c = StandsAt(f)
      BY <2>2, <2>5 DEF StandsAt, InWork
    <3>2. KeysOf(c) # {} => owner[c] = f
      BY <1>7, <1>10, <3>1 DEF Ownership
    <3>3. s # <<>> /\ KeysOf(c) # {}
      BY <1>10, <2>1, <2>2, LeadsOn DEF Link
    <3>4. \A x \in Passes(c, s) : x # before
      BY <1>9, <2>3, <2>5, <3>2, <3>3
    <3> QED BY <1>6, <2>1, <2>3, <3>4
  <2> QED BY <2>4, <2>5
<1>11. ASSUME NEW f \in DocumentPath PROVE Chained(f)'
  <2>1. Chained(f) /\ ChainStays(f)
    BY <1>5 DEF SealedInv
  <2>2. sealed'[f] # <<>> /\ Exists(f) => \A x \in Passes(Base(f), sealed[f]) : SameKey(x)
    BY <1>3, <1>10
  <2> QED BY <2>1, <2>2, ChainKept
<1> QED BY <1>11 DEF SealedInv

LEMMA OpensKeyed ==
  ASSUME NEW c, NEW s, Leads(c, s)
  PROVE  \A x \in Passes(c, s) : KeysOf(x) # {}
BY DEF Passes, Leads, Link

FurtherRule ==
  \A e, c \in Content : \A s \in Seq(Content) :
    Link(e, c) /\ Leads(c, s) => Leads(e, <<c>> \o s)

LEMMA FurtherAt == FurtherRule
BY LeadsFurther DEF FurtherRule

\* An encryption is complete: its key leads from the new content to the old one, and
\* further from there.
LEMMA StoreKeepsSealed ==
  ASSUME IInv, IInv', DeliveryInv, DeliveryInv', VaultInv, CipheredIsNew, DigestsDiffer,
         SealedInv, CoreStoresKey
  PROVE  SealedInv'
<1>1. PICK e : e = disk[call.file]
  OBVIOUS
<1>2. NewKeyInFolder
  BY DEF VaultInv
<1>3. /\ call.file \in DocumentPath /\ Exists(call.file) /\ e \in Content
      /\ call.before \in Content /\ e # call.before /\ UnknownToKeys(e)
      /\ StandsAt(call.file) = call.before
      /\ GammaFile(e, disk'[call'.key]) = call.before
      /\ \A g \in DocumentPath : StandsAt(g)' = disk'[g] /\ SameFile(g)
      /\ \A g \in DocumentPath \ {call.file} :
           Exists(g) => StandsAt(g) = disk[g] /\ disk[g] # e
  BY <1>1, <1>2, StoredKey
<1>4. /\ KeysOf(e)' = {call'.key}
      /\ \A x \in Content : x # e => SameKey(x)
  BY <1>1, <1>2, StoredKeyOf DEF SameKey
<1>5. /\ step = "store" /\ step' = "wipe" /\ sealed \in [DocumentPath -> Seq(Content)]
      /\ \A f \in DocumentPath : sealed'[f] =
           IF f = call.file THEN <<call.before>> \o sealed[f] ELSE sealed[f]
  BY DEF CoreStoresKey, StoreKey, IInv, TypeOK
<1>6. \A f \in DocumentPath : Base(f) = StandsAt(f) /\ Base(f)' = disk'[f]
  BY <1>3, <1>5 DEF Base
<1>7. ASSUME NEW c \in Content, NEW s \in Seq(Content), Leads(c, s)
      PROVE  \A x \in Passes(c, s) : SameKey(x)
  <2>1. \A x \in Passes(c, s) : x \in Content /\ KeysOf(x) # {}
    BY <1>7, OpensContent, OpensKeyed
  <2>2. KeysOf(e) = {}
    BY <1>3 DEF UnknownToKeys
  <2> QED BY <1>4, <2>1, <2>2
<1>8. ASSUME NEW f \in DocumentPath, f # call.file
      PROVE  Chained(f)'
  <2>1. ChainStays(f)
    BY <1>3, <1>5, <1>6, <1>8 DEF ChainStays, SameFile, Exists
  <2>2. sealed'[f] # <<>> /\ Exists(f) => \A x \in Passes(Base(f), sealed[f]) : SameKey(x)
    <3> SUFFICES ASSUME sealed'[f] # <<>>, Exists(f)
                 PROVE  \A x \in Passes(Base(f), sealed[f]) : SameKey(x)
      OBVIOUS
    <3>1. sealed[f] # <<>> /\ Leads(Base(f), sealed[f])
      BY <1>5, <1>8 DEF SealedInv, Chained
    <3> QED BY <1>7, <3>1, BaseType
  <2> QED BY <2>1, <2>2, ChainKept DEF SealedInv
<1>9. ASSUME NEW f \in DocumentPath, f = call.file
      PROVE  Chained(f)'
  <2>1. PICK c, s : c = call.before /\ s = sealed[f]
    OBVIOUS
  <2>2. c \in Content /\ s \in Seq(Content) /\ sealed'[f] = <<c>> \o s /\ Base(f) = c
    BY <1>3, <1>5, <1>6, <1>9, <2>1
  <2>3. Leads(c, s)
    <3>1. CASE s = <<>>
      BY <3>1 DEF Leads
    <3>2. CASE s # <<>>
      BY <2>1, <2>2, <3>2 DEF SealedInv, Chained
    <3> QED BY <3>1, <3>2
  <2>4. Leads(c, s)'
    BY <1>7, <2>2, <2>3, LeadsKept
  <2>5. Link(e, c)'
    <3>1. KeyOf(e)' = call'.key
      BY <1>4 DEF KeyOf
    <3> QED BY <1>3, <1>4, <2>1, <3>1 DEF Link, Restored
  <2>6. FurtherRule'
    BY FurtherAt, PTL
  <2>7. Leads(e, <<c>> \o s)'
    BY <1>3, <2>2, <2>4, <2>5, <2>6 DEF FurtherRule
  <2>8. Base(f)' = e /\ Exists(f)'
    BY <1>1, <1>3, <1>6, <1>9 DEF SameFile, Exists
  <2>9. ASSUME NEW e1, e1 = Base(f)', NEW s1, s1 = sealed'[f]
        PROVE  Exists(f)' /\ Leads(e1, s1)'
    <3>1. e1 = e /\ s1 = <<c>> \o s
      BY <2>2, <2>8, <2>9
    <3> QED BY <2>7, <2>8, <3>1
  <2> QED BY <2>9 DEF Chained, Exists
<1> QED BY <1>8, <1>9 DEF SealedInv

LEMMA MoveKeepsSealed ==
  ASSUME IInv, IInv', SealedInv, NEW f \in DocumentPath, NEW g \in DocumentPath, UserMoves(f, g)
  PROVE  SealedInv'
<1>1. /\ SameKeys /\ Exists(f) /\ ~ Exists(g) /\ ~ Exists(f)' /\ Exists(g)'
      /\ StandsAt(g)' = StandsAt(f)
      /\ \A h \in DocumentPath \ {f, g} :
           /\ h \in DOMAIN disk' <=> h \in DOMAIN disk
           /\ h \in DOMAIN disk => StandsAt(h)' = StandsAt(h)
  BY MovedDocument
<1>2. /\ step # "remove_key" /\ step' # "remove_key"
      /\ sealed \in [DocumentPath -> Seq(Content)] /\ f # g
      /\ sealed' = [sealed EXCEPT ![g] = sealed[f], ![f] = <<>>]
  BY <1>1 DEF UserMoves, Busy, coreVars, IInv, TypeOK
<1>3. /\ sealed'[f] = <<>> /\ sealed'[g] = sealed[f]
      /\ \A h \in DocumentPath \ {f, g} : sealed'[h] = sealed[h]
  BY <1>2
<1>4. \A h \in DocumentPath : Base(h) = StandsAt(h) /\ Base(h)' = StandsAt(h)'
  BY <1>2 DEF Base
<1>5. \A x \in Content : SameKey(x)
  BY <1>1, SameKeysOf DEF SameKey, IInv, TypeOK, DriverType
<1>6. ASSUME NEW h \in DocumentPath, h # g
      PROVE  Chained(h)'
  <2>1. ChainStays(h)
    BY <1>1, <1>3, <1>4, <1>6 DEF ChainStays, Exists
  <2>2. Exists(h) => \A x \in Passes(Base(h), sealed[h]) : SameKey(x)
    BY <1>5, BaseType, OpensContent
  <2> QED BY <2>1, <2>2, ChainKept DEF SealedInv
<1>7. Chained(g)'
  <2> SUFFICES ASSUME NEW c, c = Base(g)', NEW s, s = sealed'[g], s # <<>>
               PROVE  Exists(g)' /\ Leads(c, s)'
    BY DEF Chained, Exists
  <2>1. c = Base(f) /\ s = sealed[f] /\ c \in Content /\ s \in Seq(Content)
    BY <1>1, <1>3, <1>4, BaseType
  <2>2. Leads(c, s)
    BY <2>1 DEF SealedInv, Chained
  <2>3. Leads(c, s)'
    BY <1>5, <2>1, <2>2, OpensContent, LeadsKept
  <2> QED BY <1>1, <2>3
<1> QED BY <1>6, <1>7 DEF SealedInv

LEMMA SealedStep ==
  ASSUME IInv, IInv', DeliveryInv, DeliveryInv', VaultInv, CipheredIsNew, VaultConditions,
         SealedInv, [Next]_vars
  PROVE  SealedInv'
<1>1. OneKey /\ DigestsDiffer
  BY DEF VaultInv, VaultConditions
<1>2. CASE CoreCiphered
  BY <1>1, <1>2, CipherKeepsSealed
<1>3. CASE CoreStoresKey
  BY <1>1, <1>3, StoreKeepsSealed
<1>4. CASE CoreRemovesKey
  BY <1>1, <1>4, RemovalKeepsSealed
<1>5. CASE WorkEnds
  BY <1>5, FailureKeepsSealed
<1>6. CASE \E f, g \in DocumentPath : UserMoves(f, g)
  BY <1>6, MoveKeepsSealed
<1>7. CASE UNCHANGED vars
  BY <1>7, StutterKeepsSealed
<1>8. ASSUME Next, ~ CoreCiphered, ~ CoreStoresKey, ~ CoreRemovesKey, ~ WorkEnds,
             ~ \E f, g \in DocumentPath : UserMoves(f, g)
      PROVE  SealedInv'
  <2>1. Quiet
    BY <1>8, StepKinds
  <2> QED BY <1>8, <2>1, SealedUnchanged, QuietKeepsSealed
<1> QED BY <1>2, <1>3, <1>4, <1>5, <1>6, <1>7, <1>8

LEMMA SealedBegins == Init => SealedInv
<1> SUFFICES ASSUME Init PROVE SealedInv
  OBVIOUS
<1>1. \A f \in DocumentPath : sealed[f] = <<>>
  BY DEF Init
<1> QED BY <1>1 DEF SealedInv, Chained

\* The first link of the chain is what is promised.
LEMMA ChainsRestore == IInv /\ SealedInv => SealedRestorable
<1> SUFFICES ASSUME IInv, SealedInv, NEW f \in DocumentPath, sealed[f] # <<>>, ~ InWork(f)
             PROVE  /\ Exists(f)
                    /\ \E d \in Directory :
                         /\ Exists(At(d, Md5(disk[f])))
                         /\ GammaFile(disk[f], disk[At(d, Md5(disk[f]))]) = Head(sealed[f])
  BY DEF SealedRestorable
<1>1. Base(f) = disk[f] /\ sealed[f] \in Seq(Content)
  BY BaseType
<1>2. Exists(f) /\ Leads(disk[f], sealed[f])
  BY <1>1 DEF SealedInv, Chained
<1>3. Link(disk[f], sealed[f][1])
  BY <1>1, <1>2, LeadsOn
<1>4. PICK p : p = KeyOf(disk[f]) /\ p \in DOMAIN disk /\ p.name = Md5(disk[f])
  BY <1>3 DEF Link, KeyOf, KeysOf
<1>5. p \in Path /\ p = At(p.directory, Md5(disk[f])) /\ p.directory \in Directory
  BY <1>4 DEF IInv, TypeOK, Path, At
<1>6. GammaFile(disk[f], disk[p]) = Head(sealed[f])
  BY <1>1, <1>3, <1>4 DEF Link, Restored
<1> QED BY <1>2, <1>4, <1>5, <1>6 DEF Exists

\* What is encrypted can be restored, for any number of documents, key folders, portions,
\* calls and failures: wherever nested encryptions, calls on other documents, changes of
\* the key folder, moves of documents and failed calls have led, the key that restores
\* what the latest encryption replaced lies in some folder under the name of the document's
\* present content (AbsoluteSecurityCore.cpp:88, 96, 104; MD5BasedKeyStorage.cpp:37-60).
THEOREM SealedIsRestorable == LuckySpec => []SealedRestorable
<1>1. VaultConditions => NoStop
  BY DEF VaultConditions
<1>2. IInv /\ IInv' /\ DeliveryInv /\ DeliveryInv' /\ VaultInv /\ CipheredIsNew
        /\ VaultConditions /\ SealedInv /\ [Next]_vars => SealedInv'
  BY SealedStep
<1> QED BY <1>1, <1>2, SealedBegins, ChainsRestore, VaultInvariant, InvariantHolds,
           DeliveryHolds, PTL DEF LuckySpec, DeliverySpec, Spec

-----------------------------------------------------------------------------
(***************************************************************************)
(* Nothing is lost.  A content is found when no set of contents that has   *)
(* everything the kernel keeps, and that the keys do not leave, goes       *)
(* without it.                                                             *)
(***************************************************************************)
\* A temporary file that no call uses any more.
Leftover(p) ==
  p \in DOMAIN disk /\ p.name \in TempName /\ ~ (InFileCall /\ p \in {call.backup, call.key})

OnDisk(c) ==
  \/ \E f \in DocumentPath : Exists(f) /\ StandsAt(f) = c
  \/ \E p \in DOMAIN disk : Leftover(p) /\ disk[p] = c

KeysClosed(A) ==
  /\ \A c \in Content : OnDisk(c) => c \in A
  /\ \A c \in A : \A p \in KeysOf(c) : GammaFile(c, disk[p]) \in A

Found(x) == \A A \in SUBSET Content : KeysClosed(A) => x \in A

InLeftover(x) == \E p \in DOMAIN disk : Leftover(p) /\ disk[p] = x

\* A content that a user's document had at first is found; it never gets a key, unless by
\* a coincidence with a ciphered document while it lies in a file that was left over.
FoundInv ==
  \A x \in {Documents[f] : f \in DOMAIN Documents} :
    Found(x) /\ (KeysOf(x) # {} => InLeftover(x))

\* What is left over stays where it is.
LeftoversStay == \A p \in Path : Leftover(p) => Leftover(p)' /\ disk'[p] = disk[p]

SameCallFiles ==
  InFileCall' => InFileCall /\ call'.backup = call.backup /\ call'.key = call.key

LEMMA LeftoversOfSameDisk ==
  ASSUME \A p \in Path : p.name \in TempName /\ ~ (InFileCall /\ p \in {call.backup, call.key})
           => SameFile(p),
         SameCallFiles
  PROVE  LeftoversStay
BY DEF LeftoversStay, Leftover, SameFile, SameCallFiles

LEMMA CreatedFile ==
  ASSUME NEW p, NEW c, CreateFile(p, c)
  PROVE  /\ p \notin DOMAIN disk
         /\ \A q \in DOMAIN disk : q \in DOMAIN disk' /\ disk'[q] = disk[q]
<1>1. p \notin DOMAIN disk /\ disk' = With(disk, p, c)
  BY DEF CreateFile, Exists
<1> QED BY <1>1 DEF With

LEMMA LeftoversOfWork ==
  ASSUME IInv, NewKeyInFolder,
         CreateKeyFile \/ KeyWriteFails \/ LocateKey \/ CoreStoresKey \/ CoreRemovesKey
  PROVE  LeftoversStay
<1>1. DriverType /\ Resolve(storagePath) \in Directory
  BY TypesOfDriver, CoreAssumption DEF IInv, TypeOK, DriverType
<1>2. step \in {"core"} \cup WorkSteps /\ call \in FileCall /\ InFileCall
  <2>1. step \in {"core"} \cup WorkSteps
    <3>1. CreateKeyFile \/ KeyWriteFails \/ LocateKey => step = "core"
      BY DEF CreateKeyFile, KeyWriteFails, LocateKey
    <3>2. CoreStoresKey => step = "store"
      BY DEF CoreStoresKey, StoreKey
    <3>3. CoreRemovesKey => step = "remove_key"
      BY DEF CoreRemovesKey, RemoveKey
    <3> QED BY <3>1, <3>2, <3>3 DEF WorkSteps
  <2>2. call \in FileCall
    BY <2>1, FilesOfCall DEF WorkSteps
  <2> QED BY <2>1, <2>2 DEF FileCall, InFileCall
<1>3. CASE CreateKeyFile
  <2>1. PICK p \in FreeTempPaths(Resolve(storagePath)),
             k \in GeneratedKeys(calls, disk[call.file]) :
          CreateFile(p, k) /\ call' = [call EXCEPT !.key = p, !.cursor = FirstPortion]
    BY <1>3 DEF CreateKeyFile
  <2>2. p \notin DOMAIN disk /\ \A q \in DOMAIN disk : q \in DOMAIN disk' /\ disk'[q] = disk[q]
    BY <2>1, CreatedFile
  <2>3. call'.key = p /\ call'.backup = call.backup
    BY <1>2, <2>1 DEF FileCall
  <2> QED BY <1>2, <2>2, <2>3 DEF LeftoversStay, Leftover
<1>4. CASE KeyWriteFails
  <2>1. PICK p \in FreeTempPaths(Resolve(storagePath)) : \E c : CreateFile(p, c)
    BY <1>4 DEF KeyWriteFails
  <2>2. p \notin DOMAIN disk /\ \A q \in DOMAIN disk : q \in DOMAIN disk' /\ disk'[q] = disk[q]
    BY <2>1, CreatedFile
  <2>3. ~ InFileCall'
    BY <1>4 DEF KeyWriteFails, EndCall, NoCall, InFileCall
  <2> QED BY <2>2, <2>3 DEF LeftoversStay, Leftover
<1>5. CASE LocateKey
  <2>1. disk' = disk /\ call'.key = KeyPathFor(call.file) /\ call'.backup = call.backup
    BY <1>2, <1>5 DEF LocateKey, driverVars, FileCall
  <2>2. disk[call.file] \in Content
    BY <1>1, <1>5 DEF LocateKey, IInv, CallMatchesStep, DriverType, Exists
  <2>3. call'.key.name \notin TempName
    BY <2>1, <2>2, NameAssumption DEF KeyPathFor, At
  <2> QED BY <1>2, <2>1, <2>3 DEF LeftoversStay, Leftover
<1>6. CASE CoreStoresKey
  <2>1. /\ disk' = With(Without(disk, call.key), call'.key, disk[call.key])
        /\ call'.key = KeyPathFor(call.file) /\ call'.backup = call.backup
    BY <1>2, <1>6 DEF CoreStoresKey, StoreKey, RenameFile, FileCall
  <2>2. disk[call.file] \in Content
    BY <1>2, <1>6, FilesOfCall DEF CoreStoresKey, StoreKey, WorkSteps, DriverType, Exists, IInv,
       TypeOK
  <2>3. call'.key.name \notin TempName
    BY <2>1, <2>2, NameAssumption DEF KeyPathFor, At
  <2>4. \A p \in DOMAIN disk : p # call.key /\ p # call'.key =>
          p \in DOMAIN disk' /\ disk'[p] = disk[p]
    BY <2>1 DEF With, Without, Restrict
  <2> QED BY <1>2, <2>1, <2>3, <2>4 DEF LeftoversStay, Leftover
<1>7. CASE CoreRemovesKey
  <2>1. call' = call /\ \A p \in DOMAIN disk : p # call.key => p \in DOMAIN disk' /\ disk'[p] = disk[p]
    BY <1>7 DEF CoreRemovesKey, RemoveKey, RemoveFile, Without, Restrict
  <2> QED BY <1>2, <2>1 DEF LeftoversStay, Leftover
<1> QED BY <1>3, <1>4, <1>5, <1>6, <1>7

LEMMA LeftoversStep ==
  ASSUME IInv, NewKeyInFolder, ~ PowerLoss, ~ \E f, g \in DocumentPath : UserCopies(f, g),
         [Next]_vars
  PROVE  LeftoversStay
<1>1. CASE disk' = disk /\ SameCallFiles
  BY <1>1, LeftoversOfSameDisk DEF SameFile
<1>2. CASE CopyPortion \/ OverwriteBackup \/ RemoveBackup \/ CipherPortion
  <2>1. step \in {"backup", "cipher", "wipe", "remove"}
    BY <1>2 DEF CopyPortion, OverwriteBackup, RemoveBackup, CipherPortion
  <2>2. call \in FileCall /\ InFileCall /\ call.file \in DocumentPath
    BY <2>1 DEF IInv, CallMatchesStep, FileSteps, WorkSteps, FileCall, InFileCall
  <2>3. call.file.name \notin TempName
    BY <2>2, NameAssumption DEF DocumentPath
  <2>4. \A p \in Path : p # call.backup /\ p # call.file => SameFile(p)
    BY <1>2 DEF CopyPortion, OverwriteBackup, RemoveBackup, CipherPortion, WriteFile, RemoveFile,
                Without, Restrict, SameFile
  <2>5. SameCallFiles
    BY <1>2, <2>2 DEF CopyPortion, OverwriteBackup, RemoveBackup, CipherPortion, EndCall, NoCall,
                      FileCall, SameCallFiles, InFileCall
  <2>6. \A p \in Path : p.name \in TempName /\ ~ (InFileCall /\ p \in {call.backup, call.key})
          => SameFile(p)
    BY <2>2, <2>3, <2>4
  <2> QED BY <2>5, <2>6, LeftoversOfSameDisk
<1>3. CASE CreateKeyFile \/ KeyWriteFails \/ LocateKey \/ CoreStoresKey \/ CoreRemovesKey
  BY <1>3, LeftoversOfWork
<1>4. ASSUME NEW op \in {"encrypt", "decrypt"}, NEW f \in DocumentPath, BeginCall(op, f)
      PROVE  LeftoversStay
  <2>1. PICK b \in FreeTempPaths(f.directory) :
          /\ CreateFile(b, <<>>)
          /\ call' = [operation |-> op, file |-> f, before |-> disk[f],
                      backup |-> b, key |-> NoFile, cursor |-> FirstPortion]
    BY <1>4 DEF BeginCall
  <2>2. b \notin DOMAIN disk /\ \A q \in DOMAIN disk : q \in DOMAIN disk' /\ disk'[q] = disk[q]
    BY <2>1, CreatedFile
  <2>3. call'.backup = b /\ call'.key = NoFile /\ NoFile \notin Path
    BY <2>1, CoreAssumption
  <2> QED BY <2>2, <2>3 DEF LeftoversStay, Leftover
<1>5. ASSUME NEW f \in DocumentPath, NEW g \in DocumentPath, UserMoves(f, g)
      PROVE  LeftoversStay
  <2>1. disk' = With(Without(disk, f), g, disk[f]) /\ SameCallFiles
    BY <1>5 DEF UserMoves, RenameFile, SameCallFiles, InFileCall, coreVars
  <2>2. f.name \notin TempName /\ g.name \notin TempName
    BY NameAssumption DEF DocumentPath
  <2>3. \A p \in Path : p # f /\ p # g => SameFile(p)
    BY <2>1 DEF With, Without, Restrict, SameFile
  <2> QED BY <2>1, <2>2, <2>3, LeftoversOfSameDisk
<1>6. CASE \/ CommitBackup \/ NoPlaceForKey \/ KeyMissing \/ KeyNameTaken \/ CoreCiphered
           \/ DriverFails \/ Crash
  BY <1>1, <1>6 DEF CommitBackup, Commit, NoPlaceForKey, KeyMissing, KeyNameTaken, CoreCiphered,
       CipherReturns, DriverFails, Crash, Throw, EndCall, NoCall, SameCallFiles, InFileCall,
       driverVars
<1>7. CASE SettingsOrProcess \/ UNCHANGED vars
  <2>1. disk' = disk
    BY <1>7 DEF SettingsOrProcess, SetKeyStoragePath, SaveKeyStoragePath, RemovePreviousPath,
           SetWipeMethod, SetCipher, Construct, ConstructFails, Close, UserDeletesKeyFolder,
           driverVars, vars
  <2>2. call' = call \/ ~ InFileCall'
    BY <1>7 DEF SettingsOrProcess, SetKeyStoragePath, SaveKeyStoragePath, RemovePreviousPath,
           SetWipeMethod, SetCipher, Construct, ConstructFails, Close, UserDeletesKeyFolder,
           EndCall, NoCall, InFileCall, coreVars, vars
  <2> QED BY <1>1, <2>1, <2>2 DEF SameCallFiles, InFileCall
<1>8. CASE KernelStep
  BY <1>2, <1>3, <1>6, <1>7, <1>8 DEF KernelStep, CoreStep, CoreThrows, CoreBreaks, SettingsOrProcess
<1>9. CASE ClientStep
  BY <1>4, <1>7, <1>9 DEF ClientStep, EncryptFile, DecryptFile, SettingsOrProcess
<1>10. CASE EnvironmentStep
  BY <1>5, <1>6, <1>7, <1>10 DEF EnvironmentStep, SettingsOrProcess
<1> QED BY <1>7, <1>8, <1>9, <1>10 DEF Next

\* What is found stays found when everything that was kept still is, or is what a key now
\* restores of something kept.
LEMMA FoundStays ==
  ASSUME NEW x, Found(x), \A A \in SUBSET Content : KeysClosed(A)' => KeysClosed(A)
  PROVE  Found(x)'
BY DEF Found

LEMMA LeftoversKept ==
  ASSUME IInv, LeftoversStay, NEW c, InLeftover(c)
  PROVE  InLeftover(c)' /\ OnDisk(c)'
<1>1. PICK p \in DOMAIN disk : Leftover(p) /\ disk[p] = c
  BY DEF InLeftover
<1>2. p \in Path
  BY DEF IInv, TypeOK
<1>3. Leftover(p)' /\ disk'[p] = c
  BY <1>1, <1>2 DEF LeftoversStay
<1>4. p \in DOMAIN disk'
  BY <1>3 DEF Leftover
<1> QED BY <1>3, <1>4 DEF InLeftover, OnDisk

OnDiskStays == \A c \in Content : OnDisk(c) => OnDisk(c)'

\* With the keys as they were.
LEMMA FoundInvKept ==
  ASSUME IInv, IInv', LeftoversStay, SameKeys, OnDiskStays, FoundInv
  PROVE  FoundInv'
<1>1. \A c \in Content : KeysOf(c)' = KeysOf(c) /\ \A p \in KeysOf(c) : disk'[p] = disk[p]
  BY SameKeysOf DEF IInv, TypeOK, DriverType
<1>2. ASSUME NEW A \in SUBSET Content, KeysClosed(A)' PROVE KeysClosed(A)
  <2>1. \A c \in Content : OnDisk(c) => c \in A
    BY <1>2 DEF KeysClosed, OnDiskStays
  <2>2. ASSUME NEW c \in A, NEW p \in KeysOf(c) PROVE GammaFile(c, disk[p]) \in A
    <3>1. p \in KeysOf(c)' /\ disk'[p] = disk[p]
      BY <1>1
    <3>2. GammaFile(c, disk'[p]) \in A
      BY <1>2, <3>1 DEF KeysClosed
    <3> QED BY <3>1, <3>2
  <2> QED BY <2>1, <2>2 DEF KeysClosed
<1>3. ASSUME NEW x \in {Documents[f] : f \in DOMAIN Documents}
      PROVE  Found(x)' /\ (KeysOf(x)' # {} => InLeftover(x)')
  <2>1. x \in Content /\ Found(x) /\ (KeysOf(x) # {} => InLeftover(x))
    BY ServerAssumption DEF FoundInv
  <2>2. Found(x)'
    BY <1>2, <2>1, FoundStays
  <2> QED BY <1>1, <2>1, <2>2, LeftoversKept
<1> QED BY <1>3 DEF FoundInv

LEMMA QuietKeepsFound ==
  ASSUME IInv, IInv', LeftoversStay, Quiet, FoundInv
  PROVE  FoundInv'
<1>1. ASSUME NEW c \in Content, OnDisk(c) PROVE OnDisk(c)'
  <2>1. CASE InLeftover(c)
    BY <2>1, LeftoversKept
  <2>2. ASSUME NEW f \in DocumentPath, Exists(f), StandsAt(f) = c PROVE OnDisk(c)'
    <3>1. Exists(f)' /\ StandsAt(f)' = c
      BY <2>2 DEF Quiet, Stands, Exists
    <3> QED BY <3>1 DEF OnDisk
  <2> QED BY <1>1, <2>1, <2>2 DEF OnDisk, InLeftover
<1> QED BY <1>1, FoundInvKept DEF OnDiskStays, Quiet

LEMMA MoveKeepsFound ==
  ASSUME IInv, IInv', LeftoversStay, FoundInv, NEW f \in DocumentPath, NEW g \in DocumentPath,
         UserMoves(f, g)
  PROVE  FoundInv'
<1>1. /\ SameKeys /\ Exists(f) /\ ~ Exists(g) /\ ~ Exists(f)' /\ Exists(g)'
      /\ StandsAt(g)' = StandsAt(f)
      /\ \A h \in DocumentPath \ {f, g} :
           /\ h \in DOMAIN disk' <=> h \in DOMAIN disk
           /\ h \in DOMAIN disk => StandsAt(h)' = StandsAt(h)
  BY MovedDocument
<1>2. ASSUME NEW c \in Content, OnDisk(c) PROVE OnDisk(c)'
  <2>1. CASE InLeftover(c)
    BY <2>1, LeftoversKept
  <2>2. ASSUME NEW h \in DocumentPath, Exists(h), StandsAt(h) = c PROVE OnDisk(c)'
    <3>1. PICK h1 \in DocumentPath : Exists(h1)' /\ StandsAt(h1)' = c
      BY <1>1, <2>2 DEF Exists
    <3> QED BY <3>1 DEF OnDisk
  <2> QED BY <1>2, <2>1, <2>2 DEF OnDisk, InLeftover
<1> QED BY <1>1, <1>2, FoundInvKept DEF OnDiskStays

\* A call that fails while the core works leaves the backup behind.
LEMMA FailureKeepsFound ==
  ASSUME IInv, IInv', LeftoversStay, FoundInv, WorkEnds
  PROVE  FoundInv'
<1>1. /\ disk' = disk /\ step' \notin WorkSteps /\ step \in WorkSteps /\ ~ InFileCall'
  BY DEF WorkEnds, DriverFails, Crash, driverVars, Throw, EndCall, WorkSteps, NoCall, InFileCall
<1>2. SameKeys
  BY <1>1 DEF SameKeys, SameFile
<1>3. /\ Exists(call.backup) /\ disk[call.backup] = call.before /\ call.backup.name \in TempName
  BY <1>1, FilesOfCall
<1>4. \A f : StandsAt(f)' = disk[f]
  BY <1>1 DEF StandsAt, InWork
<1>5. ASSUME NEW c \in Content, OnDisk(c) PROVE OnDisk(c)'
  <2>1. CASE InLeftover(c)
    BY <2>1, LeftoversKept
  <2>2. ASSUME NEW f \in DocumentPath, Exists(f), StandsAt(f) = c PROVE OnDisk(c)'
    <3>1. CASE InWork(f)
      <4>1. c = call.before
        BY <2>2, <3>1 DEF StandsAt
      <4>2. PICK b : b = call.backup
        OBVIOUS
      <4>3. b \in DOMAIN disk' /\ Leftover(b)' /\ disk'[b] = c
        BY <1>1, <1>3, <4>1, <4>2 DEF Leftover, Exists
      <4> QED BY <4>3 DEF OnDisk
    <3>2. CASE ~ InWork(f)
      <4>1. Exists(f)' /\ StandsAt(f)' = c
        BY <1>1, <1>4, <2>2, <3>2 DEF StandsAt, Exists
      <4> QED BY <4>1 DEF OnDisk
    <3> QED BY <3>1, <3>2
  <2> QED BY <1>5, <2>1, <2>2 DEF OnDisk, InLeftover
<1> QED BY <1>2, <1>5, FoundInvKept DEF OnDiskStays

\* An encryption is complete: the document stands at the new content, and its key leads
\* back to where it stood.
LEMMA StoreKeepsFound ==
  ASSUME IInv, IInv', DeliveryInv, DeliveryInv', VaultInv, CipheredIsNew, DigestsDiffer,
         LeftoversStay, FoundInv, CoreStoresKey
  PROVE  FoundInv'
<1>1. PICK e : e = disk[call.file]
  OBVIOUS
<1>2. NewKeyInFolder /\ DriverType
  BY TypesOfDriver DEF VaultInv, IInv, TypeOK, DriverType
<1>3. /\ call.file \in DocumentPath /\ Exists(call.file) /\ e \in Content
      /\ call.before \in Content /\ e # call.before /\ UnknownToKeys(e)
      /\ StandsAt(call.file) = call.before
      /\ GammaFile(e, disk'[call'.key]) = call.before
      /\ \A g \in DocumentPath : StandsAt(g)' = disk'[g] /\ SameFile(g)
      /\ \A g \in DocumentPath \ {call.file} :
           Exists(g) => StandsAt(g) = disk[g] /\ disk[g] # e
  BY <1>1, <1>2, StoredKey
<1>4. /\ KeysOf(e)' = {call'.key}
      /\ \A x \in Content : x # e =>
           /\ KeysOf(x)' = KeysOf(x)
           /\ \A p \in KeysOf(x) : disk'[p] = disk[p] /\ GammaFile(x, disk[p]) # e
  BY <1>1, <1>2, StoredKeyOf
<1>5. KeysOf(e) = {}
  BY <1>3 DEF UnknownToKeys
<1>6. ASSUME NEW A \in SUBSET Content, KeysClosed(A)' PROVE KeysClosed(A)
  <2>1. \A c \in Content : OnDisk(c)' => c \in A
    BY <1>6 DEF KeysClosed
  <2>2. \A c \in A : \A p \in KeysOf(c)' : GammaFile(c, disk'[p]) \in A
    BY <1>6 DEF KeysClosed
  <2>3. \A g \in DocumentPath : Exists(g) => disk[g] \in A
    <3> SUFFICES ASSUME NEW g \in DocumentPath, Exists(g) PROVE disk[g] \in A
      OBVIOUS
    <3>1. Exists(g)' /\ StandsAt(g)' = disk[g] /\ disk[g] \in Content
      BY <1>2, <1>3 DEF SameFile, Exists, DriverType
    <3>2. \A c : c = disk[g] => OnDisk(c)'
      BY <3>1 DEF OnDisk
    <3> QED BY <2>1, <3>1, <3>2
  <2>4. call.before \in A
    <3>1. e \in A
      BY <1>1, <1>3, <2>3
    <3> QED BY <1>3, <1>4, <2>2, <3>1
  <2>5. ASSUME NEW c \in Content, OnDisk(c) PROVE c \in A
    <3>1. CASE InLeftover(c)
      BY <2>1, <3>1, LeftoversKept
    <3>2. ASSUME NEW g \in DocumentPath, Exists(g), StandsAt(g) = c PROVE c \in A
      BY <1>3, <2>3, <2>4, <3>2
    <3> QED BY <2>5, <3>1, <3>2 DEF OnDisk, InLeftover
  <2>6. ASSUME NEW c \in A, NEW p \in KeysOf(c) PROVE GammaFile(c, disk[p]) \in A
    <3>1. c # e
      BY <1>5
    <3>2. p \in KeysOf(c)' /\ disk'[p] = disk[p]
      BY <1>4, <3>1
    <3>3. GammaFile(c, disk'[p]) \in A
      BY <2>2, <3>2
    <3> QED BY <3>2, <3>3
  <2> QED BY <2>5, <2>6 DEF KeysClosed
<1>7. ASSUME Found(e) PROVE InLeftover(e)
  <2>1. PICK A : A = Content \ {e}
    OBVIOUS
  <2>2. ~ KeysClosed(A)
    BY <1>7, <2>1 DEF Found
  <2>3. \A c \in A : \A p \in KeysOf(c) : GammaFile(c, disk[p]) \in A
    <3> SUFFICES ASSUME NEW c \in A, NEW p \in KeysOf(c) PROVE GammaFile(c, disk[p]) \in A
      OBVIOUS
    <3>1. c \in Content /\ c # e
      BY <2>1
    <3>2. disk[p] \in Content
      BY <1>2 DEF KeysOf, DriverType
    <3> QED BY <1>4, <2>1, <3>1, <3>2, GammaFileContent
  <2>4. OnDisk(e)
    BY <2>1, <2>2, <2>3 DEF KeysClosed
  <2>5. \A g \in DocumentPath : Exists(g) => StandsAt(g) # e
    BY <1>3
  <2> QED BY <2>4, <2>5 DEF OnDisk, InLeftover
<1>8. ASSUME NEW x \in {Documents[f] : f \in DOMAIN Documents}
      PROVE  Found(x)' /\ (KeysOf(x)' # {} => InLeftover(x)')
  <2>1. x \in Content /\ Found(x) /\ (KeysOf(x) # {} => InLeftover(x))
    BY ServerAssumption DEF FoundInv
  <2>2. Found(x)'
    BY <1>6, <2>1, FoundStays
  <2>3. KeysOf(x)' # {} => InLeftover(x)
    BY <1>4, <1>7, <2>1
  <2> QED BY <2>2, <2>3, LeftoversKept
<1> QED BY <1>8 DEF FoundInv

\* A decryption is complete: the document stands at what its key restored, and what the
\* document was is none of the contents that are looked for, or lies in a file left over.
LEMMA RemovalKeepsFound ==
  ASSUME IInv, IInv', DeliveryInv, OneKey, DigestsDiffer, LeftoversStay, FoundInv,
         CoreRemovesKey
  PROVE  FoundInv'
<1>1. PICK before : before = call.before
  OBVIOUS
<1>2. /\ call.file \in DocumentPath /\ Exists(call.file) /\ before \in Content
      /\ StandsAt(call.file) = before
      /\ \A g \in DocumentPath : g = call.file => StandsAt(g)' = Restored(before)
      /\ call.key \in KeysOf(before)
      /\ Restored(before) = GammaFile(before, disk[call.key])
      /\ DOMAIN disk' = DOMAIN disk \ {call.key} /\ \A p \in DOMAIN disk' : disk'[p] = disk[p]
      /\ \A g \in DocumentPath : g # call.key
      /\ \A g \in DocumentPath \ {call.file} : Exists(g) => StandsAt(g)' = StandsAt(g)
  BY <1>1, RemovedKey
<1>3. \A x : KeysOf(x)' \subseteq KeysOf(x)
  BY <1>2 DEF KeysOf
<1>4. \A x \in Content : x # before => KeysOf(x)' = KeysOf(x)
  <2>1. \A x \in Content : x # before => call.key \notin KeysOf(x)
    BY <1>2 DEF KeysOf, DigestsDiffer
  <2> QED BY <1>2, <2>1 DEF KeysOf
<1>5. ASSUME NEW A \in SUBSET Content, KeysClosed(A)' PROVE KeysClosed(A \cup {before})
  <2>1. \A c \in Content : OnDisk(c)' => c \in A
    BY <1>5 DEF KeysClosed
  <2>2. \A c \in A : \A p \in KeysOf(c)' : GammaFile(c, disk'[p]) \in A
    BY <1>5 DEF KeysClosed
  <2>3. ASSUME NEW c \in Content, OnDisk(c) PROVE c \in A \cup {before}
    <3>1. CASE InLeftover(c)
      BY <2>1, <3>1, LeftoversKept
    <3>2. ASSUME NEW g \in DocumentPath, Exists(g), StandsAt(g) = c, g # call.file
          PROVE  c \in A
      <4>1. Exists(g)' /\ StandsAt(g)' = c
        BY <1>2, <3>2 DEF Exists
      <4>2. OnDisk(c)'
        BY <4>1 DEF OnDisk
      <4> QED BY <2>1, <4>2
    <3> QED BY <1>2, <2>3, <3>1, <3>2 DEF OnDisk, InLeftover
  <2>4. Restored(before) \in A
    <3>1. PICK g, d : g = call.file /\ d = Restored(before)
      OBVIOUS
    <3>2. Exists(g)' /\ StandsAt(g)' = d /\ d \in Content
      <4>1. disk[call.key] \in Content
        BY <1>2 DEF IInv, TypeOK, KeysOf
      <4> QED BY <1>2, <3>1, <4>1, GammaFileContent DEF Exists
    <3>3. OnDisk(d)'
      BY <1>2, <3>1, <3>2 DEF OnDisk
    <3> QED BY <2>1, <3>1, <3>2, <3>3
  <2>5. ASSUME NEW c \in A \cup {before}, NEW p \in KeysOf(c)
        PROVE  GammaFile(c, disk[p]) \in A \cup {before}
    <3>1. CASE c = before
      <4>1. GammaFile(c, disk[p]) = Restored(before)
        BY <1>2, <3>1, OneKeyOf
      <4> QED BY <2>4, <4>1
    <3>2. CASE c # before
      <4>1. p \in KeysOf(c)' /\ p \in DOMAIN disk'
        BY <1>4, <3>2 DEF KeysOf
      <4>2. disk'[p] = disk[p] /\ GammaFile(c, disk'[p]) \in A
        BY <1>2, <2>2, <3>2, <4>1
      <4> QED BY <4>2
    <3> QED BY <3>1, <3>2
  <2> QED BY <2>3, <2>5 DEF KeysClosed
<1>6. ASSUME NEW x \in {Documents[f] : f \in DOMAIN Documents}
      PROVE  Found(x)' /\ (KeysOf(x)' # {} => InLeftover(x)')
  <2>1. x \in Content /\ Found(x) /\ (KeysOf(x) # {} => InLeftover(x))
    BY ServerAssumption DEF FoundInv
  <2>2. ASSUME NEW A \in SUBSET Content, KeysClosed(A)' PROVE x \in A
    <3>1. x \in A \cup {before}
      <4>1. A \cup {before} \in SUBSET Content
        BY <1>2
      <4> QED BY <1>5, <2>1, <2>2, <4>1 DEF Found
    <3>2. CASE x = before
      <4>1. InLeftover(x)
        BY <1>2, <2>1, <3>2
      <4>2. OnDisk(x)'
        BY <4>1, LeftoversKept
      <4> QED BY <2>1, <2>2, <4>2 DEF KeysClosed
    <3> QED BY <3>1, <3>2
  <2>3. KeysOf(x)' # {} => InLeftover(x)
    BY <1>3, <2>1
  <2> QED BY <2>2, <2>3, LeftoversKept DEF Found
<1> QED BY <1>6 DEF FoundInv

LEMMA FoundStep ==
  ASSUME IInv, IInv', DeliveryInv, DeliveryInv', VaultInv, CipheredIsNew, VaultConditions,
         FoundInv, [Next]_vars
  PROVE  FoundInv'
<1>1. OneKey /\ NewKeyInFolder /\ DigestsDiffer
  BY DEF VaultInv, VaultConditions
<1>2. LeftoversStay
  <2>1. ~ PowerLoss /\ ~ \E f, g \in DocumentPath : UserCopies(f, g)
    BY DEF VaultConditions, PowerLoss, UserCopies
  <2> QED BY <1>1, <2>1, LeftoversStep
<1> QED BY <1>1, <1>2, StepKinds, StoreKeepsFound, RemovalKeepsFound, FailureKeepsFound,
           QuietKeepsFound, MoveKeepsFound

LEMMA FoundBegins == Init => FoundInv
<1> SUFFICES ASSUME Init PROVE FoundInv
  OBVIOUS
<1>1. disk = Documents /\ DOMAIN disk \subseteq DocumentPath /\ step = "closed"
  BY ServerAssumption DEF Init
<1>2. ASSUME NEW f \in DOMAIN Documents
      PROVE  Found(Documents[f]) /\ KeysOf(Documents[f]) = {}
  <2>1. StandsAt(f) = Documents[f] /\ f \in DocumentPath /\ Documents[f] \in Content
    BY <1>1, ServerAssumption DEF StandsAt, InWork
  <2>2. OnDisk(Documents[f])
    BY <1>1, <2>1 DEF OnDisk, Exists
  <2>3. \A p \in DOMAIN disk : p.name \notin KeyName
    BY <1>1, NameAssumption DEF DocumentPath
  <2> QED BY <2>1, <2>2, <2>3, NameAssumption DEF Found, KeysClosed, KeysOf
<1> QED BY <1>2 DEF FoundInv

-----------------------------------------------------------------------------
(***************************************************************************)
(* What is found can be read: the keys are not empty, and lead to it in no *)
(* more turns than there were calls.                                       *)
(***************************************************************************)
NewKeyFits ==
  step \in WorkSteps /\ Encrypting => DOMAIN disk[call.key] = DOMAIN call.before

KeysFilled ==
  NewKeyFits /\ \A p \in DOMAIN disk : p.name \in KeyName => disk[p] # <<>>

\* The steps that end within the work of the core.
LEMMA StepsOfWork ==
  ASSUME [Next]_vars, step' \in WorkSteps
  PROVE  CreateKeyFile \/ LocateKey \/ CipherPortion \/ CoreCiphered
         \/ (disk' = disk /\ call' = call /\ step' = step)
         \/ \E f, g \in DocumentPath : UserMoves(f, g) \/ UserCopies(f, g)
<1>1. CASE KernelStep
  BY <1>1
     DEF KernelStep, CopyPortion, CommitBackup, CoreStep, CoreThrows, NoPlaceForKey, KeyMissing,
         KeyNameTaken, CoreBreaks, KeyWriteFails, Throw, EndCall, CoreStoresKey, StoreKey,
         CoreRemovesKey, RemoveKey, OverwriteBackup, RemoveBackup, SaveKeyStoragePath,
         RemovePreviousPath, DriverFails, WorkSteps
<1>2. CASE ClientStep
  BY <1>2
     DEF ClientStep, EncryptFile, DecryptFile, BeginCall, SetKeyStoragePath, SetWipeMethod,
         SetCipher, Construct, ConstructFails, Close, coreVars, driverVars, WorkSteps
<1>3. CASE EnvironmentStep
  BY <1>3
     DEF EnvironmentStep, Crash, PowerLoss, UserDeletesKeyFolder, coreVars, WorkSteps
<1> QED BY <1>1, <1>2, <1>3 DEF Next, vars, coreVars, driverVars

LEMMA NewKeyFitsStep ==
  ASSUME IInv, NewKeyFits, [Next]_vars
  PROVE  NewKeyFits'
<1> SUFFICES ASSUME step' \in WorkSteps, Encrypting'
             PROVE  DOMAIN disk'[call'.key] = DOMAIN call'.before
  BY DEF NewKeyFits
<1>1. CASE CreateKeyFile
  <2>1. PICK p \in FreeTempPaths(Resolve(storagePath)),
             k \in GeneratedKeys(calls, disk[call.file]) :
          CreateFile(p, k) /\ call' = [call EXCEPT !.key = p, !.cursor = FirstPortion]
    BY <1>1 DEF CreateKeyFile
  <2>2. call \in FileCall /\ call.before \in Content
    BY <1>1, FilesOfCall DEF CreateKeyFile
  <2>3. call'.key = p /\ call'.before = call.before /\ disk'[p] = k
    BY <2>1, <2>2 DEF FileCall, CreateFile, With
  <2>4. disk[call.file] = call.before /\ calls \in 0..MaxCalls
    BY <1>1 DEF CreateKeyFile, IInv, CopyInProgress, TypeOK
  <2> QED BY <2>2, <2>3, <2>4, GeneratedKeysAssumption
<1>2. CASE LocateKey
  <2>1. call \in FileCall /\ ~ Encrypting
    BY <1>2, FilesOfCall DEF LocateKey, Decrypting, Encrypting
  <2>2. ~ Encrypting'
    BY <1>2, <2>1 DEF LocateKey, FileCall, Encrypting
  <2> QED BY <2>2
<1>3. CASE CipherPortion
  <2>1. call \in FileCall /\ call.key # call.file /\ step \in WorkSteps
    <3>1. step \in WorkSteps
      BY <1>3 DEF CipherPortion, WorkSteps
    <3>2. call \in FileCall /\ call.file \in DocumentPath
      BY <3>1, FilesOfCall
    <3> QED BY <3>1, <3>2 DEF IInv, KeyInUse, DocumentPath
  <2>2. call'.key = call.key /\ call'.operation = call.operation /\ call'.before = call.before
    BY <1>3, <2>1 DEF CipherPortion, FileCall
  <2>3. disk'[call.key] = disk[call.key]
    BY <1>3, <2>1 DEF CipherPortion, WriteFile, IInv, KeyInUse, Exists
  <2> QED BY <2>1, <2>2, <2>3 DEF NewKeyFits, Encrypting
<1>4. CASE CoreCiphered
  BY <1>4 DEF NewKeyFits, CoreCiphered, CipherReturns, Encrypting, WorkSteps, driverVars
<1>5. CASE disk' = disk /\ call' = call /\ step' = step
  BY <1>5 DEF NewKeyFits, Encrypting
<1>6. CASE \E f, g \in DocumentPath : UserMoves(f, g) \/ UserCopies(f, g)
  <2>1. step \notin WorkSteps /\ step' = step
    BY <1>6 DEF UserMoves, UserCopies, coreVars, Busy, WorkSteps
  <2> QED BY <2>1
<1> QED BY <1>1, <1>2, <1>3, <1>4, <1>5, <1>6, StepsOfWork

LEMMA FilledStep ==
  ASSUME IInv, IInv', DeliveryInv, DeliveryInv', VaultInv, CipheredIsNew, VaultConditions,
         KeysFilled, [Next]_vars
  PROVE  KeysFilled'
<1>1. NewKeyFits' /\ NewKeyFits /\ OneKey /\ NewKeyInFolder
  BY NewKeyFitsStep DEF KeysFilled, VaultInv
<1>2. \A p \in DOMAIN disk' : p \in Path
  BY DEF IInv, TypeOK
<1>3. CASE CoreStoresKey
  <2>1. PICK f, e, q : f = call.file /\ e = disk[f] /\ q = call'.key
    OBVIOUS
  <2>2. /\ e \in Content /\ call.before \in Content /\ e # call.before
        /\ q \in DOMAIN disk' /\ GammaFile(e, disk'[q]) = call.before
        /\ \A p \in Path : p # q /\ p.name \notin TempName => SameFile(p)
    BY <1>1, <1>3, <2>1, StoredKey
  <2>3. step \in WorkSteps /\ Encrypting /\ disk'[q] = disk[call.key]
    BY <1>3, <2>1 DEF CoreStoresKey, StoreKey, RenameFile, With, DeliveryInv, CipherCompletes,
                     WorkSteps
  <2>4. DOMAIN disk'[q] = DOMAIN call.before
    BY <1>1, <2>3 DEF NewKeyFits
  <2>5. disk'[q] # <<>>
    <3> SUFFICES ASSUME disk'[q] = <<>> PROVE FALSE
      OBVIOUS
    <3>1. DOMAIN call.before = {}
      BY <2>4
    <3>2. DOMAIN e = {}
      BY <2>1, <2>3, <3>1 DEF IInv, WorkInPlace, WorkSteps
    <3>3. call.before = <<>> /\ e = <<>>
      <4>1. \A c \in Content : DOMAIN c = {} => c = <<>>
        <5> SUFFICES ASSUME NEW c \in Content, DOMAIN c = {} PROVE c = <<>>
          OBVIOUS
        <5>1. c \in [1..Len(c) -> Chunk]
          BY ContentLength
        <5> QED BY <5>1
      <4> QED BY <2>2, <3>1, <3>2, <4>1
    <3> QED BY <2>2, <3>3
  <2>6. \A p \in DOMAIN disk' : p.name \in KeyName => disk'[p] # <<>>
    BY <1>2, <2>2, <2>5, NameAssumption DEF SameFile, KeysFilled
  <2> QED BY <1>1, <2>6 DEF KeysFilled
<1>4. CASE CoreRemovesKey
  <2>1. DOMAIN disk' \subseteq DOMAIN disk /\ \A p \in DOMAIN disk' : disk'[p] = disk[p]
    BY <1>4 DEF CoreRemovesKey, RemoveKey, RemoveFile, Without, Restrict
  <2> QED BY <1>1, <2>1 DEF KeysFilled
<1>5. CASE SameKeys
  BY <1>1, <1>2, <1>5 DEF SameKeys, SameFile, KeysFilled
<1>6. CASE WorkEnds
  BY <1>5, <1>6 DEF WorkEnds, DriverFails, Crash, driverVars, SameKeys, SameFile
<1>7. CASE \E f, g \in DocumentPath : UserMoves(f, g)
  BY <1>5, <1>7, MovedDocument
<1> QED BY <1>3, <1>4, <1>5, <1>6, <1>7, StepKinds DEF Quiet

\* A content of rank r that was reached from a file has left r turns for its keys.
LEMMA FoundIsReadable ==
  ASSUME IInv, VaultInv, KeysFilled, NEW x \in Content, Found(x)
  PROVE  x \in Readable
<1>1. DriverType /\ MaxCalls \in Nat
  BY TypesOfDriver, CoreAssumption DEF IInv, TypeOK, DriverType
<1>2. PICK rank : Ranks(rank) /\ \A c \in Content : rank[c] \in 0..MaxCalls
  <2>1. PICK owner \in [Content -> DocumentPath \cup {NoFile}], rank \in [Content -> 0..KeyCalls] :
          Ownership(owner) /\ Ranks(rank)
    BY DEF VaultInv, Graph
  <2>2. 0..KeyCalls \subseteq 0..MaxCalls
    <3>1. calls \in Nat /\ calls <= MaxCalls
      BY <1>1 DEF IInv, TypeOK
    <3> QED BY <1>1, <3>1 DEF KeyCalls
  <2> HIDE DEF KeyCalls
  <2>3. \A c \in Content : rank[c] \in 0..MaxCalls
    BY <2>2
  <2> QED BY <2>1, <2>3
<1>3. /\ \A p \in DOMAIN disk : disk[p] \in ReadWith[0]
      /\ \A n \in 1..MaxCalls : ReadWith[n] = ReadMore(ReadWith[n - 1])
      /\ \A n \in 0..MaxCalls : \A m \in 0..n : ReadWith[m] \subseteq ReadWith[n]
  BY ReadWithGrows
<1>4. \A n \in 0..MaxCalls : ReadWith[0] \subseteq ReadWith[n]
  BY <1>1, <1>3
<1>5. \A n \in 0..MaxCalls : \A m \in 0..n : ReadWith[m] \subseteq ReadWith[n]
  BY <1>3
<1>6. PICK A : A = {c \in Content : c \in ReadWith[MaxCalls - rank[c]]}
  OBVIOUS
<1>7. \A p \in DOMAIN disk : disk[p] \in A
  <2>1. \A c \in Content : MaxCalls - rank[c] \in 0..MaxCalls
    BY <1>1, <1>2
  <2> QED BY <1>1, <1>3, <1>4, <1>6, <2>1 DEF DriverType
<1>8. ASSUME NEW c \in Content, OnDisk(c) PROVE c \in A
  <2>1. CASE InLeftover(c)
    BY <1>7, <2>1 DEF InLeftover
  <2>2. ASSUME NEW f \in DocumentPath, Exists(f), StandsAt(f) = c PROVE c \in A
    <3>1. CASE ~ InWork(f)
      BY <1>7, <2>2, <3>1 DEF StandsAt, Exists
    <3>2. CASE InWork(f)
      <4>1. Exists(call.backup) /\ disk[call.backup] = call.before
        BY <3>2, FilesOfCall DEF InWork, WorkSteps
      <4> QED BY <1>7, <2>2, <3>2, <4>1 DEF StandsAt, Exists
    <3> QED BY <3>1, <3>2
  <2> QED BY <1>8, <2>1, <2>2 DEF OnDisk, InLeftover
<1>9. ASSUME NEW c \in A, NEW p \in KeysOf(c) PROVE GammaFile(c, disk[p]) \in A
  <2>1. PICK d : d = GammaFile(c, disk[p])
    OBVIOUS
  <2>2. /\ c \in Content /\ d \in Content /\ c \in ReadWith[MaxCalls - rank[c]]
        /\ p \in DOMAIN disk /\ p.name = Md5(c) /\ rank[d] < rank[c]
    BY <1>1, <1>2, <1>6, <2>1, GammaFileContent DEF KeysOf, DriverType, Ranks
  <2>3. disk[p] \in Keys
    <3>1. p.name \in KeyName
      BY <2>2, NameAssumption
    <3>2. disk[p] # <<>> /\ p.name \notin DocumentName
      BY <2>2, <3>1, NameAssumption DEF KeysFilled
    <3> QED BY <2>2, <3>2 DEF Keys, KeyFiles
  <2>4. d \in ReadMore(ReadWith[MaxCalls - rank[c]])
    BY <2>1, <2>2, <2>3 DEF ReadMore
  <2>5. PICK n : n = MaxCalls - rank[c] + 1
    OBVIOUS
  <2>6. /\ n \in 1..MaxCalls /\ n - 1 = MaxCalls - rank[c]
        /\ MaxCalls - rank[d] \in 0..MaxCalls /\ n \in 0..(MaxCalls - rank[d])
    <3>1. rank[c] \in 0..MaxCalls /\ rank[d] \in 0..MaxCalls
      BY <1>2, <2>2
    <3> QED BY <1>1, <2>2, <2>5, <3>1
  <2>7. d \in ReadWith[n]
    BY <1>3, <2>4, <2>6
  <2>8. d \in ReadWith[MaxCalls - rank[d]]
    BY <1>5, <2>6, <2>7
  <2> QED BY <1>6, <2>1, <2>2, <2>8
<1>10. x \in A
  <2>1. A \in SUBSET Content
    BY <1>6
  <2>2. KeysClosed(A)
    BY <1>8, <1>9 DEF KeysClosed
  <2> QED BY <2>1, <2>2 DEF Found
<1>11. /\ MaxCalls - rank[x] \in 0..MaxCalls /\ MaxCalls \in 0..MaxCalls
  BY <1>1, <1>2
<1> QED BY <1>5, <1>6, <1>10, <1>11 DEF Readable

LEMMA FilledBegins == Init => KeysFilled
<1> SUFFICES ASSUME Init PROVE KeysFilled
  OBVIOUS
<1>1. DOMAIN disk \subseteq DocumentPath /\ step \notin WorkSteps
  BY ServerAssumption DEF Init, WorkSteps
<1> QED BY <1>1, NameAssumption DEF KeysFilled, NewKeyFits, DocumentPath

LEMMA FoundIsNotLost == IInv /\ VaultInv /\ KeysFilled /\ FoundInv => NeverLost
<1> SUFFICES ASSUME IInv, VaultInv, KeysFilled, FoundInv, NEW f \in DOMAIN Documents
             PROVE  Retrievable(Documents[f])
  BY DEF NeverLost
<1>1. Documents[f] \in Content /\ Found(Documents[f])
  BY ServerAssumption DEF FoundInv
<1> QED BY <1>1, FoundIsReadable DEF Retrievable

\* No document is lost, for any number of documents, key folders, portions, calls and
\* failures: whatever fails and whenever the process dies, what a document of the user held
\* at first lies in a file, or comes out of one with key files that exist
\* (ServerCommunicator.cpp:213-240 with AbsoluteSecurityCore.cpp:70-106).
THEOREM NothingIsLost == LuckySpec => []NeverLost
<1>1. VaultConditions => NoStop
  BY DEF VaultConditions
<1>2. IInv /\ IInv' /\ DeliveryInv /\ DeliveryInv' /\ VaultInv /\ CipheredIsNew
        /\ VaultConditions /\ KeysFilled /\ FoundInv /\ [Next]_vars
        => KeysFilled' /\ FoundInv'
  BY FilledStep, FoundStep
<1> QED BY <1>1, <1>2, FilledBegins, FoundBegins, FoundIsNotLost, VaultInvariant,
           InvariantHolds, DeliveryHolds, PTL DEF LuckySpec, DeliverySpec, Spec
=============================================================================
