--------------------------- MODULE SituationProofs ---------------------------
(***************************************************************************)
(* What two processes that share a disk do to the documents and to their   *)
(* keys, told without the variables of either: a situation is a record,    *)
(* and a step of one process takes it to another.  TwoInstancesProofs      *)
(* shows that the steps of the two are such steps.                         *)
(*                                                                         *)
(* The argument: the keys a document is in need of lead from what it       *)
(* stands for to what it was, one after another, and no key of them is     *)
(* one that another document is in need of, or that a process works with   *)
(* for itself; and the keys that have a name are there and fit.            *)
(***************************************************************************)
EXTENDS ServerCommunicatorProofs

-----------------------------------------------------------------------------
(***************************************************************************)
(* Chains of keys.                                                         *)
(***************************************************************************)
\* The disk d holds contents.
Filled(D) == \A p \in DOMAIN D : D[p] \in Content

\* Key files k[1], ..., k[m] of disk D make x of b, one after another; c[i] is what i of them
\* make of it.
Links(D, k, c, m, b, x) ==
  /\ m \in Nat /\ c[0] = b /\ c[m] = x
  /\ \A i \in 0..m : c[i] \in Content /\ DOMAIN c[i] = DOMAIN x
  /\ \A i \in 1..m : /\ k[i] \in DOMAIN D /\ k[i].name \notin DocumentName
                     /\ DOMAIN D[k[i]] = DOMAIN x
                     /\ c[i] = GammaFile(c[i - 1], D[k[i]])
  /\ \A i, j \in 1..m : k[i] = k[j] => i = j

\* At most n keys make x of b, those of U among them and none of Z.
Leads(D, b, x, n, U, Z) ==
  \E k, c, m :
    /\ Links(D, k, c, m, b, x) /\ m <= n
    /\ \A p \in U : \E i \in 1..m : p = k[i]
    /\ \A i \in 1..m : k[i] \notin Z

\* A chain of no key.
LEMMA LeadsNowhere ==
  ASSUME NEW D, NEW x \in Content, NEW n \in Nat, NEW Z
  PROVE  Leads(D, x, x, n, {}, Z)
<1>1. Links(D, <<>>, [i \in {0} |-> x], 0, x, x)
  BY DEF Links
<1> QED BY <1>1 DEF Leads

\* It stays while nobody touches its keys.
LEMMA LeadsStill ==
  ASSUME NEW D, NEW D1, NEW b, NEW x, NEW n \in Int, NEW n1 \in Int, NEW U, NEW U1, NEW Z, NEW Z1,
         Leads(D, b, x, n, U, Z), n <= n1, U1 \subseteq U,
         \A p \in Z1 : p \in Z \/ p \notin DOMAIN D,
         \A p \in DOMAIN D : p \notin Z /\ p.name \notin DocumentName =>
           p \in DOMAIN D1 /\ D1[p] = D[p]
  PROVE  Leads(D1, b, x, n1, U1, Z1)
<1>1. PICK k, c, m :
        /\ Links(D, k, c, m, b, x) /\ m <= n
        /\ \A p \in U : \E i \in 1..m : p = k[i]
        /\ \A i \in 1..m : k[i] \notin Z
  BY DEF Leads
<1>2. \A i \in 1..m : k[i] \in DOMAIN D1 /\ D1[k[i]] = D[k[i]] /\ k[i] \notin Z1
  BY <1>1 DEF Links
<1>3. Links(D1, k, c, m, b, x)
  BY <1>1, <1>2 DEF Links
<1>4. m <= n1
  BY <1>1 DEF Links
<1>5. \A p \in U1 : \E i \in 1..m : p = k[i]
  BY <1>1
<1> QED BY <1>2, <1>3, <1>4, <1>5 DEF Leads

\* A new key is used on the document.
LEMMA LeadsLonger ==
  ASSUME NEW D, NEW b, NEW x, NEW n \in Int, NEW n1 \in Int, NEW U, NEW U1, NEW Z, NEW Z1,
         NEW l \in DOMAIN D,
         Filled(D), Leads(D, b, x, n, U, Z), n + 1 <= n1, U1 \subseteq U \cup {l},
         \A p \in Z1 : p \in Z /\ p # l,
         l \in Z, l.name \notin DocumentName, DOMAIN D[l] = DOMAIN x
  PROVE  Leads(D, GammaFile(b, D[l]), x, n1, U1, Z1)
<1>1. PICK k, c, m :
        /\ Links(D, k, c, m, b, x) /\ m <= n
        /\ \A p \in U : \E i \in 1..m : p = k[i]
        /\ \A i \in 1..m : k[i] \notin Z
  BY DEF Leads
<1> DEFINE k1 == [i \in 1..m + 1 |-> IF i = 1 THEN l ELSE k[i - 1]]
           b1 == GammaFile(b, D[l])
           c1 == [i \in 0..m + 1 |-> IF i = 0 THEN b1 ELSE c[i - 1]]
<1>2. /\ m \in Nat /\ c[0] = b /\ c[m] = x
      /\ \A i \in 0..m : c[i] \in Content /\ DOMAIN c[i] = DOMAIN x
      /\ \A i \in 1..m : /\ k[i] \in DOMAIN D /\ k[i].name \notin DocumentName
                         /\ DOMAIN D[k[i]] = DOMAIN x
                         /\ c[i] = GammaFile(c[i - 1], D[k[i]])
      /\ \A i, j \in 1..m : k[i] = k[j] => i = j
  BY <1>1 DEF Links
<1>3. b \in Content /\ DOMAIN b = DOMAIN x /\ D[l] \in Content
  BY <1>2 DEF Filled
<1>4. b1 \in Content /\ DOMAIN b1 = DOMAIN x /\ GammaFile(b1, D[l]) = b
  BY <1>3, GammaOfSameSize, GammaFileContent
<1> HIDE DEF b1
<1>5. /\ \A i \in 1..m + 1 : k1[i] = IF i = 1 THEN l ELSE k[i - 1]
      /\ \A i \in 0..m + 1 : c1[i] = IF i = 0 THEN b1 ELSE c[i - 1]
  OBVIOUS
<1> HIDE DEF k1, c1
<1>6. \A i \in 1..m + 1 : i = 1 \/ i - 1 \in 1..m
  BY <1>2
<1>7. c1[0] = b1 /\ c1[m + 1] = x /\ \A i \in 0..m + 1 : c1[i] \in Content /\ DOMAIN c1[i] = DOMAIN x
  BY <1>2, <1>4, <1>5
<1>8. ASSUME NEW i \in 1..m + 1
      PROVE  /\ k1[i] \in DOMAIN D /\ k1[i].name \notin DocumentName
             /\ DOMAIN D[k1[i]] = DOMAIN x
             /\ c1[i] = GammaFile(c1[i - 1], D[k1[i]])
             /\ k1[i] \notin Z1
  <2>1. CASE i = 1
    BY <1>2, <1>4, <1>5, <2>1
  <2>2. CASE i # 1
    <3>1. i - 1 \in 1..m /\ c1[i] = c[i - 1] /\ c1[i - 1] = c[i - 1 - 1] /\ k1[i] = k[i - 1]
      BY <1>2, <1>5, <2>2
    <3> QED BY <1>1, <1>2, <3>1
  <2> QED BY <2>1, <2>2
<1>9. \A i \in 1..m : k[i] # l
  BY <1>1
<1>10. \A i, j \in 1..m + 1 : k1[i] = k1[j] => i = j
  BY <1>2, <1>5, <1>6, <1>9
<1>11. Links(D, k1, c1, m + 1, b1, x)
  BY <1>2, <1>7, <1>8, <1>10 DEF Links
<1>12. ASSUME NEW p \in U1
       PROVE  \E i \in 1..m + 1 : p = k1[i]
  <2>1. CASE p = l
    <3>1. 1 \in 1..m + 1 /\ p = k1[1]
      BY <1>2, <1>5, <2>1
    <3> QED BY <3>1
  <2>2. CASE p # l
    <3>1. PICK i \in 1..m : p = k[i]
      BY <1>1, <2>2
    <3>2. i + 1 \in 1..m + 1 /\ p = k1[i + 1]
      BY <1>2, <1>5, <3>1
    <3> QED BY <3>2
  <2> QED BY <2>1, <2>2
<1>13. m + 1 <= n1
  BY <1>1, <1>2
<1>14. Leads(D, b1, x, n1, U1, Z1)
  BY <1>8, <1>11, <1>12, <1>13 DEF Leads
<1> QED BY <1>14 DEF b1

\* A key of the chain is used on the document a second time.
LEMMA LeadsShorter ==
  ASSUME GammaCommutesOn(Chunk),
         NEW D, NEW b, NEW x, NEW n \in Int, NEW n1 \in Int, NEW U, NEW U1, NEW Z, NEW Z1, NEW l \in U,
         Filled(D), Leads(D, b, x, n, U, Z), n <= n1, U1 \subseteq U \ {l},
         \A p \in Z1 : p \in Z \/ p = l
  PROVE  Leads(D, GammaFile(b, D[l]), x, n1, U1, Z1)
<1>1. PICK k, c, m :
        /\ Links(D, k, c, m, b, x) /\ m <= n
        /\ \A p \in U : \E i \in 1..m : p = k[i]
        /\ \A i \in 1..m : k[i] \notin Z
  BY DEF Leads
<1>2. /\ m \in Nat /\ c[0] = b /\ c[m] = x
      /\ \A i \in 0..m : c[i] \in Content /\ DOMAIN c[i] = DOMAIN x
      /\ \A i \in 1..m : /\ k[i] \in DOMAIN D /\ k[i].name \notin DocumentName
                         /\ DOMAIN D[k[i]] = DOMAIN x
                         /\ c[i] = GammaFile(c[i - 1], D[k[i]])
      /\ \A i, j \in 1..m : k[i] = k[j] => i = j
  BY <1>1 DEF Links
<1>3. PICK t \in 1..m : l = k[t]
  BY <1>1
<1> DEFINE g(i) == GammaFile(c[i], D[l])
           k1 == [i \in 1..m - 1 |-> IF i < t THEN k[i] ELSE k[i + 1]]
           c1 == [i \in 0..m - 1 |-> IF i < t THEN g(i) ELSE c[i + 1]]
<1>4. D[l] \in Content /\ DOMAIN D[l] = DOMAIN x
  BY <1>2, <1>3 DEF Filled
<1>5. \A i \in 0..m : g(i) \in Content /\ DOMAIN g(i) = DOMAIN x
  BY <1>2, <1>4, GammaOfSameSize
<1>6. g(t - 1) = c[t]
  BY <1>2, <1>3
<1>7. ASSUME NEW i \in 1..m
      PROVE  g(i) = GammaFile(g(i - 1), D[k[i]])
  <2>1. /\ i - 1 \in 0..m /\ c[i - 1] \in Content /\ DOMAIN c[i - 1] = DOMAIN x
        /\ D[k[i]] \in Content /\ DOMAIN D[k[i]] = DOMAIN x
        /\ c[i] = GammaFile(c[i - 1], D[k[i]])
    BY <1>2 DEF Filled
  <2>2. GammaFile(GammaFile(c[i - 1], D[k[i]]), D[l]) = GammaFile(GammaFile(c[i - 1], D[l]), D[k[i]])
    BY <1>4, <2>1, GammaSwapped
  <2> QED BY <2>1, <2>2
<1>8. c1[0] = GammaFile(b, D[l]) /\ c1[m - 1] = x /\ m - 1 \in Nat
  <2>1. 0 < t /\ m - 1 \in Nat /\ 0 \in 0..m - 1 /\ m - 1 \in 0..m - 1
    BY <1>2, <1>3
  <2>2. c1[0] = GammaFile(b, D[l])
    BY <1>2, <2>1
  <2>3. c1[m - 1] = x
    <3>1. CASE m - 1 < t
      <4>1. m - 1 = t - 1 /\ t = m
        BY <1>2, <1>3, <3>1
      <4>2. c1[m - 1] = g(t - 1)
        BY <2>1, <3>1, <4>1
      <4> QED BY <1>2, <1>6, <4>1, <4>2
    <3>2. CASE ~ (m - 1 < t)
      <4>1. c1[m - 1] = c[(m - 1) + 1] /\ (m - 1) + 1 = m
        BY <1>2, <2>1, <3>2
      <4> QED BY <1>2, <4>1
    <3> QED BY <3>1, <3>2
  <2> QED BY <2>1, <2>2, <2>3
<1> HIDE DEF g
<1>9. \A i \in 0..m - 1 : c1[i] \in Content /\ DOMAIN c1[i] = DOMAIN x
  BY <1>2, <1>3, <1>5
<1>10. ASSUME NEW i \in 1..m - 1
       PROVE  /\ k1[i] \in DOMAIN D /\ k1[i].name \notin DocumentName
              /\ DOMAIN D[k1[i]] = DOMAIN x
              /\ c1[i] = GammaFile(c1[i - 1], D[k1[i]])
              /\ k1[i] \notin Z1
  <2>1. CASE i < t
    <3>1. i \in 1..m /\ k1[i] = k[i] /\ c1[i] = g(i) /\ c1[i - 1] = g(i - 1)
      BY <1>2, <1>3, <2>1
    <3> QED BY <1>1, <1>2, <1>3, <1>7, <2>1, <3>1
  <2>2. CASE i = t
    <3>1. i + 1 \in 1..m /\ k1[i] = k[i + 1] /\ c1[i] = c[i + 1] /\ c1[i - 1] = g(t - 1) /\ c[t] = c[(i + 1) - 1]
      BY <1>2, <1>3, <2>2
    <3> QED BY <1>1, <1>2, <1>3, <1>6, <2>2, <3>1
  <2>3. CASE i > t
    <3>1. i + 1 \in 1..m /\ k1[i] = k[i + 1] /\ c1[i] = c[i + 1] /\ c1[i - 1] = c[(i - 1) + 1]
          /\ (i - 1) + 1 = (i + 1) - 1
      BY <1>2, <1>3, <2>3
    <3> QED BY <1>1, <1>2, <1>3, <2>3, <3>1
  <2> QED BY <1>3, <2>1, <2>2, <2>3
<1>11. \A i, j \in 1..m - 1 : k1[i] = k1[j] => i = j
  BY <1>2, <1>3
<1>12. Links(D, k1, c1, m - 1, GammaFile(b, D[l]), x)
  BY <1>8, <1>9, <1>10, <1>11 DEF Links
<1>13. ASSUME NEW p \in U1
       PROVE  \E i \in 1..m - 1 : p = k1[i]
  <2>1. PICK i \in 1..m : p = k[i] /\ i # t
    BY <1>1, <1>3
  <2>2. CASE i < t
    <3>1. i \in 1..m - 1 /\ p = k1[i]
      BY <1>2, <1>3, <2>1, <2>2
    <3> QED BY <3>1
  <2>3. CASE i > t
    <3>1. i - 1 \in 1..m - 1 /\ p = k1[i - 1]
      BY <1>2, <1>3, <2>1, <2>3
    <3> QED BY <3>1
  <2> QED BY <1>3, <2>1, <2>2, <2>3
<1>14. m - 1 <= n1
  BY <1>1, <1>2
<1> HIDE DEF k1, c1
<1> QED BY <1>10, <1>12, <1>13, <1>14 DEF Leads

\* A key of the chain gets a new name.
LEMMA LeadsRenamed ==
  ASSUME NEW D, NEW D1, NEW b, NEW x, NEW n \in Int, NEW n1 \in Int, NEW U, NEW U1, NEW Z, NEW Z1,
         NEW l, NEW l1,
         Leads(D, b, x, n, U, Z), n <= n1, U1 \subseteq (U \ {l}) \cup {l1}, l \in U,
         l1 \notin DOMAIN D, l1 \in DOMAIN D1, D1[l1] = D[l], l1.name \notin DocumentName, l1 \notin Z1,
         \A p \in Z1 : p \in Z \/ p = l,
         \A p \in DOMAIN D : p # l => p \in DOMAIN D1 /\ D1[p] = D[p]
  PROVE  Leads(D1, b, x, n1, U1, Z1)
<1>1. PICK k, c, m :
        /\ Links(D, k, c, m, b, x) /\ m <= n
        /\ \A p \in U : \E i \in 1..m : p = k[i]
        /\ \A i \in 1..m : k[i] \notin Z
  BY DEF Leads
<1>2. /\ m \in Nat /\ c[0] = b /\ c[m] = x
      /\ \A i \in 0..m : c[i] \in Content /\ DOMAIN c[i] = DOMAIN x
      /\ \A i \in 1..m : /\ k[i] \in DOMAIN D /\ k[i].name \notin DocumentName
                         /\ DOMAIN D[k[i]] = DOMAIN x
                         /\ c[i] = GammaFile(c[i - 1], D[k[i]])
      /\ \A i, j \in 1..m : k[i] = k[j] => i = j
  BY <1>1 DEF Links
<1> DEFINE k1 == [i \in 1..m |-> IF k[i] = l THEN l1 ELSE k[i]]
<1>3. \A i \in 1..m : k1[i] = IF k[i] = l THEN l1 ELSE k[i]
  OBVIOUS
<1> HIDE DEF k1
<1>4. \A i \in 1..m : /\ k1[i] \in DOMAIN D1 /\ k1[i].name \notin DocumentName
                      /\ D1[k1[i]] = D[k[i]] /\ k1[i] \notin Z1
  BY <1>1, <1>2, <1>3
<1>5. \A i, j \in 1..m : k1[i] = k1[j] => i = j
  BY <1>2, <1>3
<1>6. Links(D1, k1, c, m, b, x)
  BY <1>2, <1>4, <1>5 DEF Links
<1>7. ASSUME NEW p \in U1
      PROVE  \E i \in 1..m : p = k1[i]
  <2>1. PICK i \in 1..m : k[i] = IF p = l1 THEN l ELSE p
    BY <1>1
  <2>2. p # l
    BY <1>2, <1>1
  <2>3. p = k1[i]
    BY <1>3, <2>1, <2>2
  <2> QED BY <2>3
<1>8. m <= n1
  BY <1>1, <1>2
<1> QED BY <1>4, <1>6, <1>7, <1>8 DEF Leads

-----------------------------------------------------------------------------
(***************************************************************************)
(* A situation s: the disk, the keys that have a name (`named'), `sealed', *)
(* `calls', what the process that makes the next step and the other one    *)
(* do (`mine', `theirs'), the documents only one of them has worked on     *)
(* (`free'), those that both were decrypting (`twice') and those whose     *)
(* loss nothing excuses (`safe').                                          *)
(***************************************************************************)
\* The files nobody else may touch.
UsedBy(v, p) ==
  \/ v.step \in FileSteps /\ p = v.call.backup
  \/ v.step \in {"cipher", "store"} /\ v.call.operation = "encrypt" /\ p = v.call.key
  \/ v.step = "backup" /\ p = v.call.file
  \/ v.step = "cipher" /\ v.call.cursor.position > 1 /\ p \in {v.call.file, v.call.key}

\* What SharedInv says of it.
Sound(D, v) ==
  /\ v.step \in FileSteps =>
       /\ v.call.operation \in {"encrypt", "decrypt"} /\ v.call.file \in DocumentPath
       /\ v.call.backup.name \in TempName /\ v.call.cursor.position \in Nat \ {0}
  /\ v.step \in {"backup", "core"} \cup WorkSteps => v.call.file \in DOMAIN D
  /\ v.step = "backup" => D[v.call.file] = v.call.before
  /\ v.step \in {"core"} \cup WorkSteps => D[v.call.backup] = v.call.before
  /\ v.step \in WorkSteps =>
       /\ v.call.key # v.call.backup
       /\ v.call.operation = "encrypt" => v.call.key.name \in TempName
       /\ v.call.operation = "decrypt" => v.call.key.name \in KeyName
  /\ v.step = "store" => v.call.operation = "encrypt"
  /\ v.step = "remove_key" => v.call.operation = "decrypt"
  /\ \A p : UsedBy(v, p) => p \in DOMAIN D

SameDocument(s) == /\ s.mine.step \in FileSteps /\ s.theirs.step \in FileSteps
                   /\ s.mine.call.file = s.theirs.call.file

Proper(s) ==
  /\ Filled(s.disk) /\ Sound(s.disk, s.mine) /\ Sound(s.disk, s.theirs)
  /\ \A p : ~ (UsedBy(s.mine, p) /\ UsedBy(s.theirs, p))
  /\ s.calls \in Nat /\ s.sealed \in [DocumentPath -> Seq(Content)]
  /\ s.free \subseteq s.safe /\ s.safe \subseteq DocumentPath /\ s.safe \cap s.twice = {}
  /\ SameDocument(s) =>
       /\ s.mine.call.file \notin s.free
       /\ s.mine.call.operation = "decrypt" /\ s.theirs.call.operation = "decrypt" =>
            s.mine.call.file \in s.twice

\* What a step does to the keys that have a name.
Renamed(D, N, twice, v, v1) ==
  CASE v.step = "store" /\ v1.step = "wipe" -> [N EXCEPT ![v.call.file] = @ \cup {v1.call.key}]
    [] v.step = "remove_key" /\ v1.step = "remove" /\ v.call.file \in twice ->
         [N EXCEPT ![v.call.file] = @ \ {v.call.key}]
    [] v.step = "cipher" /\ v1.step = "remove_key" /\ v.call.file \notin twice ->
         [N EXCEPT ![v.call.file] = @ \ {v.call.key}]
    [] /\ v.step = "cipher" /\ v1.step \in {"idle", "closed"} /\ v.call.file \notin twice
       /\ v.call.cursor.position > 1 /\ D[v.call.file] # v.call.before ->
         [N EXCEPT ![v.call.file] =
            IF v.call.cursor.position \in DOMAIN D[v.call.file] THEN {} ELSE @ \ {v.call.key}]
    [] OTHER -> N

\* NoCoincidence, for a step of v.
Lucky(s, v, v1) ==
  /\ v.step = "core" /\ v1.step = "cipher" /\ v.call.operation = "decrypt" =>
       v1.call.key \in s.named[v.call.file]
  /\ v.step = "store" /\ v1.step = "wipe" =>
       /\ v.call.file \in s.free => \A p \in DOMAIN s.disk : p.name # v1.call.key.name
       /\ s.theirs.step \in WorkSteps /\ s.theirs.call.operation = "decrypt" =>
            s.theirs.call.key # v1.call.key

\* The step of a process from s to s1.
Happens(s, s1) ==
  /\ Proper(s) /\ Proper(s1) /\ s1.theirs = s.theirs
  /\ Moves(s.disk, s1.disk, s.sealed, s1.sealed, s.calls, s1.calls, s.mine, s1.mine)
  /\ s1.named = Renamed(s.disk, s.named, s.twice, s.mine, s1.mine)
  /\ s1.free \subseteq s.free /\ s1.safe \subseteq s.safe /\ s.twice \subseteq s1.twice
  /\ Lucky(s, s.mine, s1.mine)
  /\ /\ s.mine.step = "cipher" /\ s.mine.call.cursor.position > 1
     /\ s1.mine.step \in {"idle", "closed"} /\ s.mine.call.file \in s1.safe
     => s.mine.call.file \in s1.free

-----------------------------------------------------------------------------
(***************************************************************************)
(* What a document stands for, and the keys that matter for it.            *)
(***************************************************************************)
Midway(v, f) == v.step = "cipher" /\ v.call.cursor.position > 1 /\ v.call.file = f

\* The document with the portions the cursor has passed turned back.
Undone(D, c) ==
  [i \in DOMAIN D[c.file] |->
     IF i < c.cursor.position THEN GammaChunk(D[c.file][i], KeyAt(D[c.key], i)) ELSE D[c.file][i]]

Base(s, f) ==
  IF Midway(s.mine, f) THEN Undone(s.disk, s.mine.call)
  ELSE IF Midway(s.theirs, f) THEN Undone(s.disk, s.theirs.call) ELSE s.disk[f]

\* The keys a process works with for the document, and the files it works with for itself.
Own(v, f) ==
  IF /\ v.step = "store" \/ (v.step = "cipher" /\ v.call.operation = "decrypt")
     /\ v.call.file = f
  THEN {v.call.key} ELSE {}

Foreign(v) ==
  (IF v.step \in FileSteps THEN {v.call.backup} ELSE {})
  \cup (IF v.step = "remove_key" \/ (v.step = "cipher" /\ v.call.operation = "encrypt")
        THEN {v.call.key} ELSE {})

\* The keys the document is in need of; the files that are not for it, and those nobody may
\* count on when a process has left it half done.
Claims(s, f) == s.named[f] \cup Own(s.mine, f) \cup Own(s.theirs, f)

Danger(s, f) == Foreign(s.mine) \cup Foreign(s.theirs)
                \cup UNION {Claims(s, g) : g \in DocumentPath \ {f}}

Claimed(s) == Foreign(s.mine) \cup Foreign(s.theirs) \cup UNION {Claims(s, g) : g \in DocumentPath}

\* A key that is still to be made.
Pending(v, f) ==
  IF v.step \in {"backup", "core", "cipher"} /\ v.call.operation = "encrypt" /\ v.call.file = f
  THEN 1 ELSE 0

KeysMade(s, f) == s.calls - Pending(s.mine, f) - Pending(s.theirs, f)

-----------------------------------------------------------------------------
(***************************************************************************)
(* The invariant.                                                          *)
(***************************************************************************)
\* The keys that have a name are there, and each fits one document.
NamesInv(s) ==
  /\ DOMAIN s.named = DocumentPath
  /\ \A f \in DOMAIN Documents : f \in DOMAIN s.disk /\ DOMAIN s.disk[f] = DOMAIN Documents[f]
  /\ \A f \in DocumentPath : \A p \in s.named[f] :
       /\ f \in DOMAIN s.disk /\ p \in DOMAIN s.disk
       /\ p.name \in KeyName /\ DOMAIN s.disk[p] = DOMAIN s.disk[f]
  /\ \A f, g \in DocumentPath : \A p : p \in s.named[f] /\ p \in s.named[g] => f = g

\* The document as it was before the cipher.
Before(D, v) == IF v.step = "cipher" /\ v.call.cursor.position > 1 THEN Undone(D, v.call)
                ELSE D[v.call.file]

\* The key of a process.
KeyInv(s, v) ==
  /\ v.step = "cipher" => ~ v.call.cursor.stop
  /\ v.step \in {"cipher", "store"} /\ v.call.operation = "encrypt" =>
       DOMAIN s.disk[v.call.key] = DOMAIN s.disk[v.call.file]
  /\ v.step = "cipher" /\ v.call.operation = "decrypt" =>
       /\ \A g \in DocumentPath : v.call.key \in s.named[g] => g = v.call.file
       /\ v.call.file \in s.safe => v.call.key \in s.named[v.call.file]
       /\ v.call.file \in s.free => v.call.key.name = Md5(v.call.before)
  /\ v.step = "remove_key" =>
       \A g \in DocumentPath : v.call.key \in s.named[g] => g = v.call.file /\ g \in s.twice
  /\ v.step \in {"backup", "core", "cipher"} /\ v.call.file \in s.free =>
       v.call.before = Before(s.disk, v)
  /\ v.step = "store" /\ v.call.file \in s.free =>
       v.call.before = GammaFile(s.disk[v.call.file], s.disk[v.call.key])

KeysInv(s) == NamesInv(s) /\ KeyInv(s, s.mine) /\ KeyInv(s, s.theirs)

\* The keys the document is in need of, and no file that is not for it, lead from what
\* it stands for to what it was.
Whole(s, f) ==
  Leads(s.disk, Base(s, f), Documents[f], KeysMade(s, f), Claims(s, f), Danger(s, f))

\* Or there is a file nobody works with from which it can be had.
LeftOver(s, f) ==
  \E p \in DOMAIN s.disk : /\ p \notin Claimed(s) /\ p.name \notin DocumentName
                           /\ Leads(s.disk, s.disk[p], Documents[f], s.calls, {}, Claimed(s))

WholeInv(s) ==
  \A f \in DOMAIN Documents : f \in s.safe /\ Documents[f] # <<>> => Whole(s, f) \/ LeftOver(s, f)

\* The levels of a document that is encrypted: what it stands for, or is about to, and what
\* each decryption makes of it; and the key of each.
Level(s, f) ==
  IF s.mine.step = "store" /\ s.mine.call.file = f THEN s.mine.call.before
  ELSE IF s.theirs.step = "store" /\ s.theirs.call.file = f THEN s.theirs.call.before
  ELSE Base(s, f)

Levels(s, f) == <<Level(s, f)>> \o s.sealed[f]

\* Each level but the last has one key, called by its digest, which makes the next one of it.
Restores(D, N, q) ==
  /\ \A p, r \in N : p.name = r.name => p = r
  /\ \A i \in 1..Len(q) - 1 : \E p \in N : p.name = Md5(q[i]) /\ GammaFile(q[i], D[p]) = q[i + 1]
  /\ \A i, j \in 1..Len(q) - 1 : Md5(q[i]) = Md5(q[j]) => i = j

HistoryInv(s) ==
  \A f \in s.free : /\ s.sealed[f] # <<>> => f \in DOMAIN s.disk
                    /\ Restores(s.disk, s.named[f], Levels(s, f))

-----------------------------------------------------------------------------
(***************************************************************************)
(* The files a step changes.                                               *)
(***************************************************************************)
LEMMA NamesApart ==
  \A p : /\ p.name \in TempName => p.name \notin KeyName /\ p.name \notin DocumentName
         /\ p.name \in KeyName => p.name \notin DocumentName
         /\ p \in DocumentPath => p.name \in DocumentName
BY NameAssumption DEF DocumentPath

LEMMA KeysUntouched ==
  ASSUME NEW s, NEW s1, Happens(s, s1), NEW p \in DOMAIN s.disk,
         p.name \notin DocumentName, p \notin Foreign(s.mine),
         ~ (s.mine.step = "store" /\ p = s.mine.call.key)
  PROVE  Untouched(s.disk, s1.disk, p)
<1> DEFINE D == s.disk
           D1 == s1.disk
           v == s.mine
           v1 == s1.mine
<1>1. /\ v.step \in FileSteps => p # v.call.backup
      /\ v.step = "remove_key" => p # v.call.key
  BY DEF Foreign
<1>2. v.step = "cipher" => p # v.call.file
  BY NamesApart DEF Happens, Proper, Sound, FileSteps, WorkSteps
<1>3. Moves(s.disk, s1.disk, s.sealed, s1.sealed, s.calls, s1.calls, s.mine, s1.mine)
  BY DEF Happens
<1>4. CASE \/ Begins(D, D1, s.calls, s1.calls, v, v1) \/ Copies(D, D1, v, v1)
           \/ MakesKey(D, D1, v, v1) \/ FindsKey(D, D1, v, v1) \/ Turns(D, D1, v, v1)
  BY <1>1, <1>2, <1>4 DEF Begins, Copies, MakesKey, FindsKey, Turns, Untouched, FileSteps
<1>5. CASE \/ DropsKey(D, D1, v, v1) \/ Disposes(D, D1, v, v1) \/ Rests(D, D1, v, v1)
           \/ CipherEnds(D, D1, v, v1) \/ NamesKey(D, D1, v, v1) \/ GivesUp(D, D1, v, v1)
  BY <1>1, <1>2, <1>5 DEF DropsKey, Disposes, Rests, CipherEnds, NamesKey, GivesUp, Untouched, FileSteps
<1> QED BY <1>3, <1>4, <1>5 DEF Moves

LEMMA DocumentsUntouched ==
  ASSUME NEW s, NEW s1, Happens(s, s1), NEW p \in DOMAIN s.disk, p.name \in DocumentName
  PROVE  /\ p \in DOMAIN s1.disk /\ DOMAIN s1.disk[p] = DOMAIN s.disk[p]
         /\ \/ s.mine.step = "cipher" /\ s1.mine.step = "cipher" /\ p = s.mine.call.file
            \/ Untouched(s.disk, s1.disk, p)
<1> DEFINE D == s.disk
           D1 == s1.disk
           v == s.mine
           v1 == s1.mine
<1>1. /\ v.step \in FileSteps => p # v.call.backup
      /\ v.step \in WorkSteps => p # v.call.key
  BY NamesApart DEF Happens, Proper, Sound, FileSteps, WorkSteps
<1>2. Moves(s.disk, s1.disk, s.sealed, s1.sealed, s.calls, s1.calls, s.mine, s1.mine)
  BY DEF Happens
<1>3. CASE \/ Begins(D, D1, s.calls, s1.calls, v, v1) \/ Copies(D, D1, v, v1)
           \/ MakesKey(D, D1, v, v1) \/ FindsKey(D, D1, v, v1) \/ Turns(D, D1, v, v1)
  BY <1>1, <1>3 DEF Begins, Copies, MakesKey, FindsKey, Turns, Untouched, FileSteps, WorkSteps
<1>4. CASE \/ DropsKey(D, D1, v, v1) \/ Disposes(D, D1, v, v1) \/ Rests(D, D1, v, v1)
           \/ CipherEnds(D, D1, v, v1) \/ NamesKey(D, D1, v, v1) \/ GivesUp(D, D1, v, v1)
  BY <1>1, <1>4 DEF DropsKey, Disposes, Rests, CipherEnds, NamesKey, GivesUp, Untouched, FileSteps, WorkSteps
<1> QED BY <1>2, <1>3, <1>4 DEF Moves

\* What the other process works with.
LEMMA TheirsUntouched ==
  ASSUME NEW s, NEW s1, Happens(s, s1), NEW p, UsedBy(s.theirs, p)
  PROVE  p \in DOMAIN s.disk /\ Untouched(s.disk, s1.disk, p)
<1>1. /\ p \in DOMAIN s.disk /\ ~ UsedBy(s.mine, p)
      /\ p \in DOMAIN s1.disk /\ ~ UsedBy(s1.mine, p)
  BY DEF Happens, Proper, Sound
<1>2. CASE p.name \in DocumentName
  <2>1. ~ (s.mine.step = "cipher" /\ s1.mine.step = "cipher" /\ p = s.mine.call.file)
    <3> SUFFICES ASSUME s.mine.step = "cipher", s1.mine.step = "cipher", p = s.mine.call.file
                 PROVE  FALSE
      OBVIOUS
    <3>1. s1.mine.call.file = p /\ s1.mine.call.cursor.position > 1
      <4>1. Turns(s.disk, s1.disk, s.mine, s1.mine)
        BY DEF Happens, Moves, Begins, Copies, MakesKey, FindsKey, DropsKey, Disposes, Rests,
               CipherEnds, NamesKey, GivesUp, FileSteps, WorkSteps
      <4>2. s.mine.call.cursor.position \in Nat \ {0}
        BY DEF Happens, Proper, Sound, FileSteps, WorkSteps
      <4> QED BY <4>1, <4>2 DEF Turns, SameFiles
    <3> QED BY <1>1, <3>1 DEF UsedBy
  <2> QED BY <1>1, <1>2, <2>1, DocumentsUntouched
<1>3. CASE p.name \notin DocumentName
  <2>1. CASE s.mine.step = "remove_key" /\ p = s.mine.call.key
    <3>1. DropsKey(s.disk, s1.disk, s.mine, s1.mine) \/ GivesUp(s.disk, s1.disk, s.mine, s1.mine)
      BY <2>1 DEF Happens, Moves, Begins, Copies, MakesKey, FindsKey, Turns, Disposes, Rests,
             CipherEnds, NamesKey, FileSteps, WorkSteps
    <3> QED BY <1>1, <2>1, <3>1 DEF DropsKey, GivesUp
  <2>2. CASE ~ (s.mine.step = "remove_key" /\ p = s.mine.call.key)
    <3>1. p \notin Foreign(s.mine) /\ ~ (s.mine.step = "store" /\ p = s.mine.call.key)
      BY <1>1, <2>2 DEF Foreign, UsedBy, Happens, Proper, Sound, FileSteps, WorkSteps
    <3> QED BY <1>1, <1>3, <3>1, KeysUntouched
  <2> QED BY <2>1, <2>2
<1> QED BY <1>2, <1>3

-----------------------------------------------------------------------------
(***************************************************************************)
(* What a step does to the accounts.                                       *)
(***************************************************************************)
\* The cipher of an encryption or of a decryption ends, and its key changes hands.
EndsEncrypting(s, s1) ==
  s.mine.step = "cipher" /\ s1.mine.step = "store" /\ s.mine.call.operation = "encrypt"

EndsDecrypting(s, s1) ==
  s.mine.step = "cipher" /\ s1.mine.step = "remove_key" /\ s.mine.call.operation = "decrypt"

LEMMA ForeignAfter ==
  ASSUME NEW s, NEW s1, Happens(s, s1), NEW p \in Foreign(s1.mine)
  PROVE  \/ p \in Foreign(s.mine)
         \/ p \notin DOMAIN s.disk /\ s.mine.step \in {"idle", "core"}
         \/ EndsDecrypting(s, s1) /\ p = s.mine.call.key
<1> DEFINE D == s.disk
           D1 == s1.disk
           v == s.mine
           v1 == s1.mine
<1>1. v.step \in FileSteps => v.call.operation \in {"encrypt", "decrypt"}
  BY DEF Happens, Proper, Sound
<1>2. Moves(s.disk, s1.disk, s.sealed, s1.sealed, s.calls, s1.calls, s.mine, s1.mine)
  BY DEF Happens
<1>3. CASE \/ Begins(D, D1, s.calls, s1.calls, v, v1) \/ Copies(D, D1, v, v1)
           \/ MakesKey(D, D1, v, v1) \/ FindsKey(D, D1, v, v1) \/ Turns(D, D1, v, v1)
  BY <1>3 DEF Begins, Copies, MakesKey, FindsKey, Turns, Foreign, SameFiles, FileSteps, WorkSteps
<1>4. CASE \/ DropsKey(D, D1, v, v1) \/ Disposes(D, D1, v, v1) \/ Rests(D, D1, v, v1)
           \/ CipherEnds(D, D1, v, v1) \/ NamesKey(D, D1, v, v1) \/ GivesUp(D, D1, v, v1)
  BY <1>1, <1>4 DEF DropsKey, Disposes, Rests, CipherEnds, NamesKey, GivesUp, Foreign, SameFiles,
     FileSteps, WorkSteps, EndsDecrypting
<1> QED BY <1>2, <1>3, <1>4 DEF Moves

LEMMA OwnAfter ==
  ASSUME NEW s, NEW s1, Happens(s, s1), NEW f, NEW p \in Own(s1.mine, f)
  PROVE  \/ p \in Own(s.mine, f) \/ p \in s.named[f]
         \/ EndsEncrypting(s, s1) /\ p = s.mine.call.key /\ f = s.mine.call.file
<1> DEFINE D == s.disk
           D1 == s1.disk
           v == s.mine
           v1 == s1.mine
<1>1. v.step \in FileSteps => v.call.operation \in {"encrypt", "decrypt"}
  BY DEF Happens, Proper, Sound
<1>2. /\ Moves(s.disk, s1.disk, s.sealed, s1.sealed, s.calls, s1.calls, s.mine, s1.mine)
      /\ Lucky(s, s.mine, s1.mine)
  BY DEF Happens
<1>3. CASE \/ Begins(D, D1, s.calls, s1.calls, v, v1) \/ Copies(D, D1, v, v1)
           \/ MakesKey(D, D1, v, v1) \/ Turns(D, D1, v, v1)
  BY <1>3 DEF Begins, Copies, MakesKey, Turns, Own, SameFiles, FileSteps, WorkSteps
<1>4. CASE FindsKey(D, D1, v, v1)
  BY <1>2, <1>4 DEF FindsKey, Own, SameFiles, Lucky
<1>5. CASE \/ DropsKey(D, D1, v, v1) \/ Disposes(D, D1, v, v1) \/ Rests(D, D1, v, v1)
           \/ CipherEnds(D, D1, v, v1) \/ NamesKey(D, D1, v, v1) \/ GivesUp(D, D1, v, v1)
  BY <1>1, <1>5 DEF DropsKey, Disposes, Rests, CipherEnds, NamesKey, GivesUp, Own, SameFiles,
     FileSteps, WorkSteps, EndsEncrypting
<1> QED BY <1>2, <1>3, <1>4, <1>5 DEF Moves

\* What the names become, case by case.
LEMMA NamesAfter ==
  ASSUME NEW s, NEW s1, Happens(s, s1), NamesInv(s)
  PROVE  /\ DOMAIN s1.named = DocumentPath
         /\ s.mine.step \notin {"cipher", "store", "remove_key"} => s1.named = s.named
         /\ s1.mine.step = "cipher" => s1.named = s.named
         /\ s.mine.step = "remove_key" /\ (s.mine.call.file \notin s.twice \/ s1.mine.step # "remove")
              => s1.named = s.named
         /\ s.mine.step = "remove_key" /\ s1.mine.step = "remove" /\ s.mine.call.file \in s.twice =>
              s1.named[s.mine.call.file] = s.named[s.mine.call.file] \ {s.mine.call.key}
         /\ s.mine.step = "cipher" /\ s1.mine.step = "store" => s1.named = s.named
         /\ s.mine.step = "store" /\ s1.mine.step \in {"idle", "closed"} => s1.named = s.named
         /\ s.mine.step = "store" /\ s1.mine.step = "wipe" =>
              s1.named[s.mine.call.file] = s.named[s.mine.call.file] \cup {s1.mine.call.key}
         /\ s.mine.step = "cipher" /\ s1.mine.step = "remove_key" /\ s.mine.call.file \notin s.twice =>
              s1.named[s.mine.call.file] = s.named[s.mine.call.file] \ {s.mine.call.key}
         /\ s.mine.step = "cipher" /\ s1.mine.step = "remove_key" /\ s.mine.call.file \in s.twice =>
              s1.named = s.named
         /\ s.mine.step = "cipher" /\ s1.mine.step \in {"idle", "closed"} =>
              /\ \/ ~ (s.mine.call.cursor.position > 1)
                 \/ s.disk[s.mine.call.file] = s.mine.call.before
                 => s1.named = s.named
              /\ /\ s.mine.call.cursor.position > 1 /\ s.mine.call.file \notin s.twice
                 /\ s.disk[s.mine.call.file] # s.mine.call.before
                 => s1.named[s.mine.call.file] =
                      IF s.mine.call.cursor.position \in DOMAIN s.disk[s.mine.call.file] THEN {}
                      ELSE s.named[s.mine.call.file] \ {s.mine.call.key}
<1>1. s1.named = Renamed(s.disk, s.named, s.twice, s.mine, s1.mine) /\ DOMAIN s.named = DocumentPath
  BY DEF Happens, NamesInv
<1>2. s.mine.step \in {"cipher", "store", "remove_key"} => s.mine.call.file \in DocumentPath
  BY DEF Happens, Proper, Sound, FileSteps, WorkSteps
<1> QED BY <1>1, <1>2 DEF Renamed

LEMMA NamesOfOthers ==
  ASSUME NEW s, NEW s1, Happens(s, s1), NamesInv(s), NEW g \in DocumentPath, g # s.mine.call.file
  PROVE  s1.named[g] = s.named[g]
<1>1. s1.named = Renamed(s.disk, s.named, s.twice, s.mine, s1.mine) /\ DOMAIN s.named = DocumentPath
  BY DEF Happens, NamesInv
<1> QED BY <1>1 DEF Renamed

LEMMA NamedAfterStep ==
  ASSUME NEW s, NEW s1, Happens(s, s1), NamesInv(s), NEW f \in DocumentPath, NEW p \in s1.named[f]
  PROVE  \/ p \in s.named[f]
         \/ /\ NamesKey(s.disk, s1.disk, s.mine, s1.mine)
            /\ p = s1.mine.call.key /\ f = s.mine.call.file /\ p \notin DOMAIN s.disk
<1>1. CASE s.mine.step = "store" /\ s1.mine.step = "wipe"
  <2>1. NamesKey(s.disk, s1.disk, s.mine, s1.mine)
    BY <1>1 DEF Happens, Moves, Begins, Copies, MakesKey, FindsKey, Turns, DropsKey, Disposes, Rests,
             CipherEnds, GivesUp, FileSteps, WorkSteps
  <2>2. s.mine.call.file # f => s1.named[f] = s.named[f]
    BY NamesOfOthers
  <2>3. s1.named[s.mine.call.file] = s.named[s.mine.call.file] \cup {s1.mine.call.key}
    BY <1>1, NamesAfter
  <2> QED BY <2>1, <2>2, <2>3 DEF NamesKey
<1>2. CASE ~ (s.mine.step = "store" /\ s1.mine.step = "wipe")
  <2>1. s1.named = Renamed(s.disk, s.named, s.twice, s.mine, s1.mine) /\ DOMAIN s.named = DocumentPath
    BY DEF Happens, NamesInv
  <2> QED BY <1>2, <2>1 DEF Renamed
<1> QED BY <1>1, <1>2

\* The count of the keys that can have been made.
LEMMA PendingAfter ==
  ASSUME NEW s, NEW s1, Happens(s, s1), NEW f
  PROVE  /\ Pending(s.mine, f) \in {0, 1} /\ Pending(s1.mine, f) \in {0, 1}
         /\ s.calls \in Nat /\ s1.calls \in Nat /\ s.calls <= s1.calls
         /\ s.calls - Pending(s.mine, f) <= s1.calls - Pending(s1.mine, f)
         /\ /\ s.mine.step = "cipher" /\ s1.mine.step # "cipher"
            /\ s.mine.call.operation = "encrypt" /\ s.mine.call.file = f
            => (s.calls - Pending(s.mine, f)) + 1 <= s1.calls - Pending(s1.mine, f)
<1> DEFINE D == s.disk
           D1 == s1.disk
           v == s.mine
           v1 == s1.mine
<1>1. /\ Moves(s.disk, s1.disk, s.sealed, s1.sealed, s.calls, s1.calls, s.mine, s1.mine)
      /\ s.calls \in Nat /\ s1.calls \in Nat
  BY DEF Happens, Proper
<1>2. s.calls <= s1.calls
  BY <1>1 DEF Moves
<1>3. Pending(s.mine, f) \in {0, 1} /\ Pending(s1.mine, f) \in {0, 1}
  BY DEF Pending
<1>4. CASE Begins(D, D1, s.calls, s1.calls, v, v1)
  <2>1. Pending(v, f) = 0 /\ s1.calls = s.calls + 1 /\ v.step # "cipher"
    BY <1>4 DEF Begins, Pending
  <2> QED BY <1>1, <1>2, <1>3, <2>1
<1>5. CASE \/ Copies(D, D1, v, v1) \/ MakesKey(D, D1, v, v1) \/ FindsKey(D, D1, v, v1)
           \/ Turns(D, D1, v, v1)
  <2>1. Pending(v, f) = Pending(v1, f) /\ (v.step = "cipher" => v1.step = "cipher")
    BY <1>5 DEF Copies, MakesKey, FindsKey, Turns, SameFiles, Pending
  <2> QED BY <1>1, <1>2, <1>3, <2>1
<1>6. CASE \/ DropsKey(D, D1, v, v1) \/ Disposes(D, D1, v, v1) \/ Rests(D, D1, v, v1)
           \/ CipherEnds(D, D1, v, v1) \/ NamesKey(D, D1, v, v1) \/ GivesUp(D, D1, v, v1)
  <2>1. Pending(v1, f) = 0
    BY <1>6 DEF DropsKey, Disposes, Rests, CipherEnds, NamesKey, GivesUp, Pending, FileSteps, WorkSteps
  <2>2. v.step = "cipher" /\ v.call.operation = "encrypt" /\ v.call.file = f => Pending(v, f) = 1
    BY DEF Pending
  <2> QED BY <1>1, <1>2, <1>3, <2>1, <2>2
<1> QED BY <1>1, <1>4, <1>5, <1>6 DEF Moves

-----------------------------------------------------------------------------
(***************************************************************************)
(* What a document stands for.                                             *)
(***************************************************************************)
\* The kinds of steps, by where they begin and end.
LEMMA KindOfStep ==
  ASSUME NEW s, NEW s1, Happens(s, s1)
  PROVE  /\ s.mine.step = "cipher" /\ s1.mine.step = "cipher" =>
              Turns(s.disk, s1.disk, s.mine, s1.mine) /\ s1.sealed = s.sealed
         /\ s.mine.step = "cipher" /\ s1.mine.step \in {"store", "remove_key"} =>
              /\ CipherEnds(s.disk, s1.disk, s.mine, s1.mine)
              /\ s1.sealed = Uncovered(s.disk, s.sealed, s.mine)
         /\ s.mine.step = "cipher" =>
              s1.mine.step \in {"cipher", "store", "remove_key", "idle", "closed"}
         /\ s.mine.step \in FileSteps /\ s1.mine.step \in {"idle", "closed"} =>
              \/ /\ GivesUp(s.disk, s1.disk, s.mine, s1.mine)
                 /\ s1.sealed = GivenUp(s.disk, s.sealed, s.mine)
              \/ Disposes(s.disk, s1.disk, s.mine, s1.mine) /\ s1.sealed = s.sealed
         /\ s.mine.step # "cipher" /\ s1.mine.step = "cipher" =>
              /\ s.mine.step = "core" /\ s1.mine.call.cursor.position = 1
              /\ SameFiles(s.mine.call, s1.mine.call) /\ s1.sealed = s.sealed
              /\ \/ MakesKey(s.disk, s1.disk, s.mine, s1.mine)
                 \/ FindsKey(s.disk, s1.disk, s.mine, s1.mine)
<1> DEFINE D == s.disk
           D1 == s1.disk
           v == s.mine
           v1 == s1.mine
<1>1. /\ Moves(s.disk, s1.disk, s.sealed, s1.sealed, s.calls, s1.calls, s.mine, s1.mine)
      /\ v.step \in FileSteps => v.call.operation \in {"encrypt", "decrypt"}
  BY DEF Happens, Proper, Sound
<1>2. CASE \/ Begins(D, D1, s.calls, s1.calls, v, v1) \/ Copies(D, D1, v, v1)
           \/ DropsKey(D, D1, v, v1) \/ Rests(D, D1, v, v1)
  BY <1>2 DEF Begins, Copies, DropsKey, Rests, FileSteps, WorkSteps
<1>3. CASE (MakesKey(D, D1, v, v1) \/ FindsKey(D, D1, v, v1)) /\ s1.sealed = s.sealed
  BY <1>3 DEF MakesKey, FindsKey
<1>4. CASE (Turns(D, D1, v, v1) \/ Disposes(D, D1, v, v1)) /\ s1.sealed = s.sealed
  BY <1>4 DEF Turns, Disposes
<1>5. CASE CipherEnds(D, D1, v, v1) /\ s1.sealed = Uncovered(s.disk, s.sealed, s.mine)
  BY <1>5 DEF CipherEnds
<1>6. CASE NamesKey(D, D1, v, v1)
  BY <1>6 DEF NamesKey
<1>7. CASE GivesUp(D, D1, v, v1) /\ s1.sealed = GivenUp(s.disk, s.sealed, s.mine)
  BY <1>7 DEF GivesUp
<1> QED BY <1>1, <1>2, <1>3, <1>4, <1>5, <1>6, <1>7 DEF Moves

\* The key the cipher of a document works with is as long as it.
LEMMA KeyFits ==
  ASSUME NEW s, Proper(s), NamesInv(s), KeyInv(s, s.mine),
         s.mine.step = "cipher", s.mine.call.file \in s.safe
  PROVE  /\ s.mine.call.key \in DOMAIN s.disk \/ s.mine.call.operation = "encrypt"
         /\ DOMAIN s.disk[s.mine.call.key] = DOMAIN s.disk[s.mine.call.file]
         /\ s.mine.call.key \in DOMAIN s.disk
         /\ s.disk[s.mine.call.key] \in Content /\ s.disk[s.mine.call.file] \in Content
         /\ s.mine.call.key # s.mine.call.file /\ s.mine.call.file \in DocumentPath
         /\ s.mine.call.key.name \notin DocumentName
<1> DEFINE v == s.mine
<1>1. /\ v.call.operation \in {"encrypt", "decrypt"} /\ v.call.file \in DocumentPath
      /\ v.call.file \in DOMAIN s.disk
      /\ v.call.operation = "encrypt" => v.call.key.name \in TempName
      /\ v.call.operation = "decrypt" => v.call.key.name \in KeyName
  BY DEF Proper, Sound, FileSteps, WorkSteps
<1>2. CASE v.call.operation = "encrypt"
  <2>1. UsedBy(v, v.call.key)
    BY <1>2 DEF UsedBy
  <2>2. v.call.key \in DOMAIN s.disk
    BY <2>1 DEF Proper, Sound
  <2> QED BY <1>1, <1>2, <2>2, NamesApart DEF KeyInv, Proper, Filled
<1>3. CASE v.call.operation = "decrypt"
  <2>1. v.call.key \in s.named[v.call.file]
    BY <1>3 DEF KeyInv
  <2>2. v.call.key \in DOMAIN s.disk /\ DOMAIN s.disk[v.call.key] = DOMAIN s.disk[v.call.file]
    BY <1>1, <2>1 DEF NamesInv
  <2> QED BY <1>1, <1>3, <2>2, NamesApart DEF Proper, Filled
<1> QED BY <1>1, <1>2, <1>3

LEMMA KeyAtInside ==
  ASSUME NEW k, NEW i \in DOMAIN k, NEW c, c.position = i
  PROVE  KeyAt(k, i) = k[i] /\ KeyBuffer(c, k) = k[i]
BY DEF KeyAt, KeyBuffer

\* A turn of the cipher.
LEMMA TurnUndone ==
  ASSUME NEW s, NEW s1, Happens(s, s1), NamesInv(s), KeyInv(s, s.mine),
         s.mine.step = "cipher", s1.mine.step = "cipher", s.mine.call.file \in s.safe
  PROVE  Undone(s1.disk, s1.mine.call) = Undone(s.disk, s.mine.call)
<1> DEFINE D == s.disk
           D1 == s1.disk
           f == s.mine.call.file
           k == s.mine.call.key
           n == s.mine.call.cursor.position
<1>1. Turns(D, D1, s.mine, s1.mine)
  BY KindOfStep
<1>2. /\ k \in DOMAIN D /\ DOMAIN D[k] = DOMAIN D[f] /\ k # f
      /\ D[k] \in Content /\ D[f] \in Content
  BY KeyFits DEF Happens
<1>3. n \in Nat \ {0} /\ DOMAIN D[f] = 1..Len(D[f]) /\ Len(D[f]) \in Nat
  BY <1>2, ContentLength, MaxPortionsAssumption DEF Happens, Proper, Sound, FileSteps, WorkSteps
<1>4. /\ s1.mine.call.file = f /\ s1.mine.call.key = k /\ s1.mine.call.cursor.position = n + 1
      /\ D1[k] = D[k] /\ DOMAIN D1[f] = DOMAIN D[f] /\ n \in DOMAIN D[f]
  BY <1>1, <1>2 DEF Turns, SameFiles, Untouched
<1>5. ASSUME NEW i \in DOMAIN D[f]
      PROVE  Undone(D1, s1.mine.call)[i] = Undone(D, s.mine.call)[i]
  <2>1. /\ Undone(D, s.mine.call)[i] = IF i < n THEN GammaChunk(D[f][i], KeyAt(D[k], i)) ELSE D[f][i]
        /\ Undone(D1, s1.mine.call)[i] =
             IF i < n + 1 THEN GammaChunk(D1[f][i], KeyAt(D[k], i)) ELSE D1[f][i]
    BY <1>4 DEF Undone
  <2>2. D[f][i] \in Chunk /\ D[k][i] \in Chunk
    BY <1>2, ContentLength
  <2>3. CASE i = n
    <3>1. KeyAt(D[k], i) = D[k][i] /\ KeyBuffer(s.mine.call.cursor, D[k]) = D[k][i]
      BY <1>2, <2>3, KeyAtInside
    <3>2. D1[f][i] = GammaChunk(D[f][i], D[k][i])
      BY <1>1, <2>3, <3>1 DEF Turns
    <3>3. i < n + 1 /\ ~ (i < n)
      BY <1>3, <2>3
    <3>4. GammaChunk(GammaChunk(D[f][i], D[k][i]), D[k][i]) = D[f][i]
      BY <2>2, GammaAssumption
    <3>5. Undone(D1, s1.mine.call)[i] = GammaChunk(GammaChunk(D[f][i], D[k][i]), D[k][i])
      BY <2>1, <3>1, <3>2, <3>3
    <3>6. Undone(D, s.mine.call)[i] = D[f][i]
      BY <2>1, <3>3
    <3> QED BY <3>4, <3>5, <3>6
  <2>4. CASE i # n
    <3>1. D1[f][i] = D[f][i]
      BY <1>1, <2>4 DEF Turns
    <3>2. i < n <=> i < n + 1
      BY <1>3, <2>4
    <3> QED BY <2>1, <3>1, <3>2
  <2> QED BY <2>3, <2>4
<1> QED BY <1>4, <1>5 DEF Undone

\* Before the first turn nothing is to be turned back.
LEMMA UndoneAtFirst ==
  ASSUME NEW D, NEW c, D[c.file] \in Content, c.cursor.position = 1
  PROVE  Undone(D, c) = D[c.file]
<1>1. D[c.file] \in [1..Len(D[c.file]) -> Chunk] /\ DOMAIN D[c.file] = 1..Len(D[c.file])
      /\ Len(D[c.file]) \in Nat
  BY ContentLength, MaxPortionsAssumption
<1>2. \A i \in DOMAIN D[c.file] : ~ (i < 1)
  BY <1>1
<1> QED BY <1>1, <1>2 DEF Undone

LEMMA BeforeIsUndone ==
  ASSUME NEW s, Proper(s), s.mine.step = "cipher"
  PROVE  /\ Before(s.disk, s.mine) = Undone(s.disk, s.mine.call)
         /\ ~ Midway(s.theirs, s.mine.call.file) \/ s.mine.call.cursor.position = 1
         /\ ~ Midway(s.theirs, s.mine.call.file) =>
              Base(s, s.mine.call.file) = Undone(s.disk, s.mine.call)
<1>1. /\ s.mine.call.file \in DOMAIN s.disk /\ s.mine.call.cursor.position \in Nat \ {0}
      /\ s.disk[s.mine.call.file] \in Content
  BY DEF Proper, Sound, FileSteps, WorkSteps, Filled
<1>2. CASE s.mine.call.cursor.position = 1
  BY <1>1, <1>2, UndoneAtFirst DEF Before, Base, Midway
<1>3. CASE s.mine.call.cursor.position > 1
  <2>1. ~ Midway(s.theirs, s.mine.call.file)
    BY <1>3 DEF Proper, UsedBy, Midway
  <2> QED BY <1>3, <2>1 DEF Before, Base, Midway
<1> QED BY <1>1, <1>2, <1>3

LEMMA TheirsUndone ==
  ASSUME NEW s, NEW s1, Happens(s, s1), s.theirs.step = "cipher", s.theirs.call.cursor.position > 1
  PROVE  Undone(s1.disk, s1.theirs.call) = Undone(s.disk, s.theirs.call)
<1>1. UsedBy(s.theirs, s.theirs.call.file) /\ UsedBy(s.theirs, s.theirs.call.key)
  BY DEF UsedBy
<1>2. s1.disk[s.theirs.call.file] = s.disk[s.theirs.call.file]
      /\ s1.disk[s.theirs.call.key] = s.disk[s.theirs.call.key]
  BY <1>1, TheirsUntouched DEF Untouched
<1>3. s1.theirs = s.theirs
  BY DEF Happens
<1> QED BY <1>2, <1>3 DEF Undone

\* Nothing but the end of the cipher changes what the document stands for.
LEMMA BaseKept ==
  ASSUME NEW s, NEW s1, Happens(s, s1), NamesInv(s), KeyInv(s, s.mine),
         NEW f \in DocumentPath, f \in DOMAIN s.disk, f \in s.safe,
         ~ (s.mine.step = "cipher" /\ s1.mine.step # "cipher" /\ s.mine.call.file = f)
  PROVE  Base(s1, f) = Base(s, f)
<1>1. Proper(s) /\ Proper(s1) /\ s1.theirs = s.theirs
  BY DEF Happens
<1>2. CASE s.mine.step = "cipher" /\ s1.mine.step = "cipher" /\ s.mine.call.file = f
  <2>1. Turns(s.disk, s1.disk, s.mine, s1.mine)
    BY <1>2, KindOfStep
  <2>2. s1.mine.call.cursor.position > 1 /\ s1.mine.call.file = f
    BY <1>1, <1>2, <2>1 DEF Turns, SameFiles, Proper, Sound, FileSteps, WorkSteps
  <2>3. ~ Midway(s.theirs, f)
    BY <1>1, <1>2, <2>2 DEF Proper, UsedBy, Midway
  <2>4. Base(s, f) = Undone(s.disk, s.mine.call)
    BY <1>1, <1>2, <2>3, BeforeIsUndone
  <2>5. Base(s1, f) = Undone(s1.disk, s1.mine.call)
    BY <1>2, <2>2 DEF Base, Midway
  <2> QED BY <1>2, <2>4, <2>5, TurnUndone
<1>3. CASE ~ (s.mine.step = "cipher" /\ s1.mine.step = "cipher" /\ s.mine.call.file = f)
  <2>1. ~ Midway(s.mine, f)
    BY <1>3 DEF Midway
  <2>2. ~ Midway(s1.mine, f)
    <3> SUFFICES ASSUME Midway(s1.mine, f) PROVE FALSE
      OBVIOUS
    <3>1. s1.mine.step = "cipher" /\ s1.mine.call.cursor.position > 1 /\ s1.mine.call.file = f
      BY DEF Midway
    <3>2. s.mine.step = "cipher"
      BY <3>1, KindOfStep
    <3>3. s.mine.call.file = f
      BY <3>1, <3>2, KindOfStep DEF Turns, SameFiles
    <3> QED BY <1>3, <3>1, <3>2, <3>3
  <2>3. s1.disk[f] = s.disk[f]
    BY <1>3, DocumentsUntouched, NamesApart DEF Untouched
  <2>4. Midway(s.theirs, f) => Undone(s1.disk, s1.theirs.call) = Undone(s.disk, s.theirs.call)
    BY TheirsUndone DEF Midway
  <2> QED BY <1>1, <2>1, <2>2, <2>3, <2>4 DEF Base
<1> QED BY <1>2, <1>3

\* The cipher has come to the end of the document.
LEMMA EndOfCipher ==
  ASSUME NEW s, Proper(s), NamesInv(s), KeyInv(s, s.mine), s.mine.step = "cipher",
         s.mine.call.file \in s.safe,
         s.mine.call.cursor.position \notin DOMAIN s.disk[s.mine.call.file]
  PROVE  /\ Undone(s.disk, s.mine.call) =
              GammaFile(s.disk[s.mine.call.file], s.disk[s.mine.call.key])
         /\ GammaFile(Undone(s.disk, s.mine.call), s.disk[s.mine.call.key]) =
              s.disk[s.mine.call.file]
<1> DEFINE D == s.disk
           f == s.mine.call.file
           k == s.mine.call.key
           n == s.mine.call.cursor.position
<1>1. DOMAIN D[k] = DOMAIN D[f] /\ D[k] \in Content /\ D[f] \in Content
  BY KeyFits
<1>2. n \in Nat \ {0}
  BY DEF Proper, Sound, FileSteps, WorkSteps
<1>3. DOMAIN D[f] = 1..Len(D[f]) /\ Len(D[f]) \in Nat
  BY <1>1, ContentLength, MaxPortionsAssumption
<1>4. \A i \in DOMAIN D[f] : i < n
  BY <1>2, <1>3
<1>5. Undone(D, s.mine.call) = GammaFile(D[f], D[k])
  BY <1>4 DEF Undone, GammaFile
<1>6. GammaFile(GammaFile(D[f], D[k]), D[k]) = D[f]
  BY <1>1, GammaFileContent
<1> QED BY <1>5, <1>6

-----------------------------------------------------------------------------
(***************************************************************************)
(* No document loses what it can be had from.                              *)
(***************************************************************************)
\* The temporary files a process works with are nobody else's.
LEMMA TempIsOwn ==
  ASSUME NEW s, Proper(s), NamesInv(s), NEW p, UsedBy(s.mine, p), p.name \in TempName
  PROVE  /\ p \notin Foreign(s.theirs)
         /\ \A g : p \notin Own(s.theirs, g)
         /\ \A g \in DocumentPath : p \notin s.named[g]
<1>1. ~ UsedBy(s.theirs, p) /\ p.name \notin KeyName
  BY NamesApart DEF Proper
<1>2. /\ s.theirs.step = "store" => s.theirs.call.operation = "encrypt"
      /\ s.theirs.step \in WorkSteps /\ s.theirs.call.operation = "decrypt" =>
           s.theirs.call.key.name \in KeyName
      /\ s.theirs.step = "remove_key" => s.theirs.call.operation = "decrypt"
  BY DEF Proper, Sound
<1>3. p \notin Foreign(s.theirs)
  BY <1>1, <1>2 DEF Foreign, UsedBy, WorkSteps
<1>4. \A g : p \notin Own(s.theirs, g)
  BY <1>1, <1>2 DEF Own, UsedBy, WorkSteps
<1> QED BY <1>1, <1>3, <1>4 DEF NamesInv

LEMMA TempFilesOfCall ==
  ASSUME NEW s, Proper(s)
  PROVE  /\ s.mine.step \in FileSteps =>
              UsedBy(s.mine, s.mine.call.backup) /\ s.mine.call.backup.name \in TempName
         /\ s.mine.step \in {"cipher", "store"} /\ s.mine.call.operation = "encrypt" =>
              /\ UsedBy(s.mine, s.mine.call.key) /\ s.mine.call.key.name \in TempName
              /\ s.mine.call.key # s.mine.call.backup
BY DEF Proper, Sound, UsedBy, WorkSteps

LEMMA ClaimsAfter ==
  ASSUME NEW s, NEW s1, Happens(s, s1), NamesInv(s), NEW f \in DocumentPath, NEW p \in Claims(s1, f)
  PROVE  \/ p \in Claims(s, f)
         \/ EndsEncrypting(s, s1) /\ p = s.mine.call.key /\ f = s.mine.call.file
         \/ /\ NamesKey(s.disk, s1.disk, s.mine, s1.mine) /\ s.mine.step = "store"
            /\ p = s1.mine.call.key /\ f = s.mine.call.file /\ p \notin DOMAIN s.disk
<1>1. s1.theirs = s.theirs
  BY DEF Happens
<1>2. CASE p \in s1.named[f]
  BY <1>2, NamedAfterStep DEF Claims, NamesKey
<1>3. CASE p \in Own(s1.mine, f)
  BY <1>3, OwnAfter DEF Claims
<1>4. CASE p \in Own(s1.theirs, f)
  BY <1>1, <1>4 DEF Claims
<1> QED BY <1>2, <1>3, <1>4 DEF Claims

LEMMA DangerAfter ==
  ASSUME NEW s, NEW s1, Happens(s, s1), NamesInv(s), NEW f \in DocumentPath, NEW p \in Danger(s1, f)
  PROVE  \/ p \in Danger(s, f)
         \/ p \notin DOMAIN s.disk /\ s.mine.step \in {"idle", "core", "store"}
         \/ EndsDecrypting(s, s1) /\ p = s.mine.call.key /\ f = s.mine.call.file
<1>1. s1.theirs = s.theirs
  BY DEF Happens
<1>2. s.mine.step = "cipher" => s.mine.call.file \in DocumentPath
  BY DEF Happens, Proper, Sound, FileSteps, WorkSteps
<1>3. CASE p \in Foreign(s1.mine)
  <2>1. CASE EndsDecrypting(s, s1) /\ p = s.mine.call.key
    <3>1. p \in Claims(s, s.mine.call.file)
      BY <2>1 DEF EndsDecrypting, Claims, Own
    <3> QED BY <1>2, <2>1, <3>1 DEF Danger, EndsDecrypting
  <2> QED BY <1>3, <2>1, ForeignAfter DEF Danger
<1>4. CASE p \in Foreign(s1.theirs)
  BY <1>1, <1>4 DEF Danger
<1>5. CASE \E g \in DocumentPath \ {f} : p \in Claims(s1, g)
  <2>1. PICK g \in DocumentPath \ {f} : p \in Claims(s1, g)
    BY <1>5
  <2>2. CASE p \in Claims(s, g)
    BY <2>1, <2>2 DEF Danger
  <2>3. CASE EndsEncrypting(s, s1) /\ p = s.mine.call.key
    BY <2>3 DEF EndsEncrypting, Danger, Foreign
  <2> QED BY <2>1, <2>2, <2>3, ClaimsAfter
<1> QED BY <1>3, <1>4, <1>5 DEF Danger

LEMMA ClaimedSplits ==
  ASSUME NEW s, NEW f \in DocumentPath
  PROVE  \A p : p \in Claimed(s) <=> p \in Danger(s, f) \/ p \in Claims(s, f)
BY DEF Claimed, Danger

LEMMA ClaimedAfter ==
  ASSUME NEW s, NEW s1, Happens(s, s1), NamesInv(s), NEW f \in DocumentPath, NEW p \in Claimed(s1)
  PROVE  p \in Claimed(s) \/ p \notin DOMAIN s.disk
<1>1. CASE p \in Danger(s1, f)
  <2>1. EndsDecrypting(s, s1) /\ f = s.mine.call.file => s.mine.call.key \in Claims(s, f)
    BY DEF EndsDecrypting, Claims, Own
  <2> QED BY <1>1, <2>1, DangerAfter, ClaimedSplits
<1>2. CASE p \in Claims(s1, f)
  <2>1. EndsEncrypting(s, s1) => s.mine.call.key \in Claimed(s)
    BY DEF EndsEncrypting, Claimed, Foreign
  <2> QED BY <1>2, <2>1, ClaimsAfter, ClaimedSplits
<1> QED BY <1>1, <1>2, ClaimedSplits

LEMMA LeftOverKept ==
  ASSUME NEW s, NEW s1, Happens(s, s1), NamesInv(s), NEW f \in DocumentPath, LeftOver(s, f)
  PROVE  LeftOver(s1, f)
<1>1. PICK p \in DOMAIN s.disk :
        /\ p \notin Claimed(s) /\ p.name \notin DocumentName
        /\ Leads(s.disk, s.disk[p], Documents[f], s.calls, {}, Claimed(s))
  BY DEF LeftOver
<1>2. s.calls \in Int /\ s1.calls \in Int /\ s.calls <= s1.calls
  BY PendingAfter
<1>3. s.mine.step \in FileSteps => s.mine.call.file \in DocumentPath
  BY DEF Happens, Proper, Sound
<1>4. ASSUME NEW q \in DOMAIN s.disk, q \notin Claimed(s), q.name \notin DocumentName
      PROVE  q \in DOMAIN s1.disk /\ s1.disk[q] = s.disk[q]
  <2>1. q \notin Foreign(s.mine)
    BY <1>4 DEF Claimed
  <2>2. s.mine.step = "store" => q # s.mine.call.key
    <3>1. s.mine.step = "store" => s.mine.call.key \in Claims(s, s.mine.call.file)
      BY DEF Claims, Own
    <3> QED BY <1>3, <1>4, <3>1 DEF Claimed, FileSteps, WorkSteps
  <2> QED BY <1>4, <2>1, <2>2, KeysUntouched DEF Untouched
<1>5. \A q \in Claimed(s1) : q \in Claimed(s) \/ q \notin DOMAIN s.disk
  BY ClaimedAfter
<1>6. Leads(s1.disk, s.disk[p], Documents[f], s1.calls, {}, Claimed(s1))
  BY <1>1, <1>2, <1>4, <1>5, LeadsStill
<1>7. p \in DOMAIN s1.disk /\ s1.disk[p] = s.disk[p] /\ p \notin Claimed(s1)
  BY <1>1, <1>4, <1>5
<1> QED BY <1>1, <1>6, <1>7 DEF LeftOver

LEMMA KeysMadeAfter ==
  ASSUME NEW s, NEW s1, Happens(s, s1), NEW f
  PROVE  /\ KeysMade(s, f) \in Int /\ KeysMade(s1, f) \in Int /\ KeysMade(s, f) <= KeysMade(s1, f)
         /\ /\ s.mine.step = "cipher" /\ s1.mine.step # "cipher"
            /\ s.mine.call.operation = "encrypt" /\ s.mine.call.file = f
            => KeysMade(s, f) + 1 <= KeysMade(s1, f)
         /\ KeysMade(s, f) <= s.calls /\ s.calls \in Int
<1>1. s1.theirs = s.theirs /\ Pending(s.theirs, f) \in {0, 1}
  BY DEF Happens, Pending
<1> QED BY <1>1, PendingAfter DEF KeysMade

\* A step that leaves the document to itself.
LEMMA WholeQuiet ==
  ASSUME NEW s, NEW s1, Happens(s, s1), KeysInv(s),
         NEW f \in DocumentPath, f \in DOMAIN s.disk, f \in s.safe, Whole(s, f),
         Base(s1, f) = Base(s, f),
         ~ (s.mine.step = "cipher" /\ s1.mine.step \in {"store", "remove_key"} /\ s.mine.call.file = f),
         ~ (s.mine.step = "store" /\ s1.mine.step = "wipe" /\ s.mine.call.file = f)
  PROVE  Whole(s1, f)
<1>1. NamesInv(s)
  BY DEF KeysInv
<1>2. s.mine.step \in FileSteps => s.mine.call.file \in DocumentPath
  BY DEF Happens, Proper, Sound
<1>3. ASSUME NEW q \in DOMAIN s.disk, q \notin Danger(s, f), q.name \notin DocumentName
      PROVE  q \in DOMAIN s1.disk /\ s1.disk[q] = s.disk[q]
  <2>1. q \notin Foreign(s.mine)
    BY <1>3 DEF Danger
  <2>2. CASE s.mine.step = "store" /\ s.mine.call.file = f
    <3>1. GivesUp(s.disk, s1.disk, s.mine, s1.mine)
      BY <2>2 DEF Happens, Moves, Begins, Copies, MakesKey, FindsKey, Turns, DropsKey, Disposes, Rests,
             CipherEnds, NamesKey, FileSteps, WorkSteps
    <3> QED BY <1>3, <3>1 DEF GivesUp, Untouched
  <2>3. CASE ~ (s.mine.step = "store" /\ s.mine.call.file = f)
    <3>1. s.mine.step = "store" => s.mine.call.key \in Claims(s, s.mine.call.file)
      BY DEF Claims, Own
    <3>2. ~ (s.mine.step = "store" /\ q = s.mine.call.key)
      BY <1>2, <1>3, <2>3, <3>1 DEF Danger, FileSteps, WorkSteps
    <3> QED BY <1>3, <2>1, <3>2, KeysUntouched DEF Untouched
  <2> QED BY <2>2, <2>3
<1>4. \A q \in Danger(s1, f) : q \in Danger(s, f) \/ q \notin DOMAIN s.disk
  BY <1>1, DangerAfter DEF EndsDecrypting
<1>5. Claims(s1, f) \subseteq Claims(s, f)
  BY <1>1, ClaimsAfter DEF EndsEncrypting, NamesKey
<1>6. KeysMade(s, f) \in Int /\ KeysMade(s1, f) \in Int /\ KeysMade(s, f) <= KeysMade(s1, f)
  BY KeysMadeAfter
<1>7. Leads(s.disk, Base(s, f), Documents[f], KeysMade(s, f), Claims(s, f), Danger(s, f))
  BY DEF Whole
<1>8. Leads(s1.disk, Base(s, f), Documents[f], KeysMade(s1, f), Claims(s1, f), Danger(s1, f))
  BY <1>3, <1>4, <1>5, <1>6, <1>7, LeadsStill
<1> QED BY <1>8 DEF Whole

\* A key gets its name.
LEMMA WholeNamed ==
  ASSUME NEW s, NEW s1, Happens(s, s1), KeysInv(s),
         NEW f \in DocumentPath, f \in DOMAIN s.disk, f \in s.safe, Whole(s, f),
         Base(s1, f) = Base(s, f),
         s.mine.step = "store", s1.mine.step = "wipe", s.mine.call.file = f
  PROVE  Whole(s1, f)
<1> DEFINE l == s.mine.call.key
           l1 == s1.mine.call.key
<1>1. NamesInv(s) /\ Proper(s) /\ s1.theirs = s.theirs /\ Filled(s.disk)
  BY DEF KeysInv, Happens, Proper
<1>2. NamesKey(s.disk, s1.disk, s.mine, s1.mine)
  BY DEF Happens, Moves, Begins, Copies, MakesKey, FindsKey, Turns, DropsKey, Disposes, Rests,
         CipherEnds, GivesUp, FileSteps, WorkSteps
<1>3. /\ l \in DOMAIN s.disk /\ l1 \in DOMAIN s1.disk /\ l1 \notin DOMAIN s.disk
      /\ s1.disk[l1] = s.disk[l] /\ l1.name = Md5(s.disk[f])
      /\ \A p \in DOMAIN s.disk : p # l => p \in DOMAIN s1.disk /\ s1.disk[p] = s.disk[p]
  BY <1>2 DEF NamesKey, Untouched
<1>4. l1.name \in KeyName
  BY <1>1, <1>3, NameAssumption DEF Filled
<1>5. /\ UsedBy(s.mine, l) /\ l.name \in TempName /\ s.mine.call.operation = "encrypt"
      /\ s1.mine.call.backup = s.mine.call.backup /\ s.mine.call.backup.name \in TempName
  BY <1>1, <1>2 DEF Proper, Sound, UsedBy, NamesKey, SameFiles, FileSteps, WorkSteps
<1>6. /\ l \notin Foreign(s.theirs)
      /\ \A g : l \notin Own(s.theirs, g)
      /\ \A g \in DocumentPath : l \notin s.named[g]
  BY <1>1, <1>5, TempIsOwn
<1>7. /\ \A g \in DocumentPath : g # f => s1.named[g] = s.named[g]
      /\ s1.named[f] = s.named[f] \cup {l1}
  <2>1. \A g \in DocumentPath : g # f => s1.named[g] = s.named[g]
    BY <1>1, NamesOfOthers
  <2>2. s1.named[s.mine.call.file] = s.named[s.mine.call.file] \cup {s1.mine.call.key}
    BY <1>1, NamesAfter
  <2> QED BY <2>1, <2>2
<1>8. /\ \A g : Own(s1.mine, g) = {}
      /\ Foreign(s1.mine) = {s.mine.call.backup} /\ Foreign(s.mine) = {s.mine.call.backup}
      /\ l \in Own(s.mine, f)
  BY <1>5 DEF Own, Foreign, FileSteps, WorkSteps
<1> HIDE DEF l, l1
<1>9. Claims(s1, f) \subseteq (Claims(s, f) \ {l}) \cup {l1} /\ l \in Claims(s, f)
  BY <1>1, <1>6, <1>7, <1>8 DEF Claims
<1>10. \A p \in Danger(s1, f) : p \in Danger(s, f)
  BY <1>1, <1>7, <1>8 DEF Danger, Claims
<1>11. l1 \notin Danger(s1, f)
  <2>1. /\ s.theirs.step \in FileSteps => s.theirs.call.backup.name \in TempName
        /\ s.theirs.step \in WorkSteps /\ s.theirs.call.operation = "encrypt" =>
             s.theirs.call.key.name \in TempName
        /\ s.theirs.step = "store" => s.theirs.call.operation = "encrypt"
        /\ s.theirs.step = "remove_key" => s.theirs.call.operation = "decrypt"
    BY <1>1 DEF Proper, Sound
  <2>2. s.theirs.step \in WorkSteps /\ s.theirs.call.operation = "decrypt" => s.theirs.call.key # l1
    BY DEF Happens, Lucky, l1
  <2>3. l1.name \notin TempName
    BY <1>4, NamesApart
  <2>4. l1 \notin Foreign(s.theirs)
    BY <2>1, <2>2, <2>3 DEF Foreign, WorkSteps
  <2>5. \A g : l1 \notin Own(s.theirs, g)
    BY <2>1, <2>2, <2>3 DEF Own, WorkSteps
  <2>6. \A g \in DocumentPath : l1 \notin s.named[g]
    BY <1>1, <1>3 DEF NamesInv
  <2> QED BY <1>1, <1>5, <1>7, <1>8, <2>3, <2>4, <2>5, <2>6 DEF Danger, Claims
<1>12. l1.name \notin DocumentName
  BY <1>4, NamesApart
<1>13. KeysMade(s, f) \in Int /\ KeysMade(s1, f) \in Int /\ KeysMade(s, f) <= KeysMade(s1, f)
  BY KeysMadeAfter
<1>14. Leads(s.disk, Base(s, f), Documents[f], KeysMade(s, f), Claims(s, f), Danger(s, f))
  BY DEF Whole
<1>15. Leads(s1.disk, Base(s, f), Documents[f], KeysMade(s1, f), Claims(s1, f), Danger(s1, f))
  BY <1>3, <1>9, <1>10, <1>11, <1>12, <1>13, <1>14, LeadsRenamed
<1> QED BY <1>15 DEF Whole

\* The cipher has passed the whole document when its step ends.
LEMMA WholeEnds ==
  ASSUME GammaCommutesOn(Chunk), NEW s, NEW s1, Happens(s, s1), KeysInv(s),
         NEW f \in DocumentPath, f \in s.safe, Whole(s, f),
         s.mine.step = "cipher", s1.mine.step # "cipher", s.mine.call.file = f,
         s.mine.call.cursor.position > 1, s.mine.call.cursor.position \notin DOMAIN s.disk[f],
         s1.disk = s.disk, DOMAIN s.disk[f] = DOMAIN Documents[f],
         s1.mine.step = "store" => s.mine.call.operation = "encrypt",
         s.mine.call.operation = "decrypt" => s1.named[f] = s.named[f] \ {s.mine.call.key}
  PROVE  Whole(s1, f)
<1> DEFINE k == s.mine.call.key
           b == Base(s, f)
<1>1. NamesInv(s) /\ Proper(s) /\ s1.theirs = s.theirs /\ Filled(s.disk) /\ KeyInv(s, s.mine)
  BY DEF KeysInv, Happens, Proper
<1>2. /\ k \in DOMAIN s.disk /\ DOMAIN s.disk[k] = DOMAIN Documents[f]
      /\ k.name \notin DocumentName /\ s.mine.call.operation \in {"encrypt", "decrypt"}
  BY <1>1, KeyFits DEF Proper, Sound, FileSteps, WorkSteps
<1>3. ~ Midway(s.theirs, f) /\ b = Undone(s.disk, s.mine.call)
  BY <1>1, BeforeIsUndone
<1>4. Base(s1, f) = s.disk[f]
  BY <1>1, <1>3 DEF Base, Midway
<1>5. GammaFile(b, s.disk[k]) = Base(s1, f)
  BY <1>1, <1>3, <1>4, EndOfCipher
<1>6. /\ KeysMade(s, f) \in Int /\ KeysMade(s1, f) \in Int /\ KeysMade(s, f) <= KeysMade(s1, f)
      /\ s.mine.call.operation = "encrypt" => KeysMade(s, f) + 1 <= KeysMade(s1, f)
  BY KeysMadeAfter
<1>7. Leads(s.disk, b, Documents[f], KeysMade(s, f), Claims(s, f), Danger(s, f))
  BY DEF Whole
<1>8. CASE s.mine.call.operation = "encrypt"
  <2>1. /\ UsedBy(s.mine, k) /\ k.name \in TempName /\ k # s.mine.call.backup
    BY <1>1, <1>8, TempFilesOfCall
  <2>2. /\ k \notin Foreign(s.theirs)
        /\ \A g : k \notin Own(s.theirs, g)
        /\ \A g \in DocumentPath : k \notin s.named[g]
    BY <1>1, <2>1, TempIsOwn
  <2>3. k \in Danger(s, f)
    BY <1>8 DEF Danger, Foreign
  <2>4. Claims(s1, f) \subseteq Claims(s, f) \cup {k}
    BY <1>1, ClaimsAfter
  <2>5. \A p \in Danger(s1, f) : p \in Danger(s, f)
    BY <1>1, <1>8, DangerAfter DEF EndsDecrypting
  <2>6. \A g \in DocumentPath : g # f => s1.named[g] = s.named[g]
    BY <1>1, NamesOfOthers
  <2>7. k \notin Foreign(s1.mine)
    <3>1. CASE s1.mine.step = "store"
      <4>1. s1.mine.call = s.mine.call
        BY <3>1, KindOfStep DEF CipherEnds
      <4> QED BY <2>1, <3>1, <4>1 DEF Foreign
    <3>2. CASE s1.mine.step # "store"
      <4>1. s1.mine.step \in {"remove_key", "idle", "closed"}
        BY <3>2, KindOfStep
      <4>2. s1.mine.step # "remove_key"
        BY <1>8, <4>1, KindOfStep DEF CipherEnds
      <4> QED BY <4>1, <4>2 DEF Foreign, FileSteps, WorkSteps
    <3> QED BY <3>1, <3>2
  <2>8. \A g : g # f => Own(s1.mine, g) = {}
    <3>1. CASE s1.mine.step = "store"
      <4>1. s1.mine.call = s.mine.call
        BY <3>1, KindOfStep DEF CipherEnds
      <4> QED BY <3>1, <4>1 DEF Own
    <3> QED BY <3>1 DEF Own
  <2>9. k \notin Danger(s1, f)
    BY <1>1, <2>2, <2>6, <2>7, <2>8 DEF Danger, Claims
  <2> HIDE DEF k, b
  <2>10. \A p \in Danger(s1, f) : p \in Danger(s, f) /\ p # k
    BY <2>5, <2>9
  <2>11. Leads(s.disk, GammaFile(b, s.disk[k]), Documents[f], KeysMade(s1, f), Claims(s1, f), Danger(s1, f))
    BY <1>1, <1>2, <1>6, <1>7, <1>8, <2>3, <2>4, <2>10, LeadsLonger
  <2> QED BY <1>5, <2>11 DEF Whole
<1>9. CASE s.mine.call.operation = "decrypt"
  <2>1. k \in s.named[f] /\ s1.named[f] = s.named[f] \ {k}
    BY <1>1, <1>9 DEF KeyInv
  <2>2. k \in Claims(s, f)
    BY <2>1 DEF Claims
  <2>3. k \notin Own(s.theirs, f)
    <3>1. CASE s.theirs.step = "store"
      <4>1. s.theirs.call.key.name \in TempName /\ k.name \in KeyName
        BY <1>1, <1>9, <3>1 DEF Proper, Sound, WorkSteps
      <4> QED BY <4>1, NamesApart DEF Own
    <3>2. CASE s.theirs.step # "store"
      <4>1. ~ (s.theirs.step = "cipher" /\ s.theirs.call.operation = "decrypt" /\ s.theirs.call.file = f)
        BY <1>1, <1>9 DEF Proper, SameDocument, FileSteps, WorkSteps
      <4> QED BY <3>2, <4>1 DEF Own
    <3> QED BY <3>1, <3>2
  <2>4. Own(s1.mine, f) = {}
    BY <1>9 DEF Own
  <2>5. Claims(s1, f) \subseteq Claims(s, f) \ {k}
    BY <1>1, <2>1, <2>3, <2>4 DEF Claims
  <2>6. \A p \in Danger(s1, f) : p \in Danger(s, f) \/ p = k
    BY <1>1, DangerAfter
  <2> HIDE DEF k, b
  <2>7. Leads(s.disk, GammaFile(b, s.disk[k]), Documents[f], KeysMade(s1, f), Claims(s1, f), Danger(s1, f))
    BY <1>1, <1>6, <1>7, <2>2, <2>5, <2>6, LeadsShorter
  <2> QED BY <1>5, <2>7 DEF Whole
<1> QED BY <1>2, <1>8, <1>9

\* The cipher returns.
LEMMA WholeCiphered ==
  ASSUME GammaCommutesOn(Chunk), NEW s, NEW s1, Happens(s, s1), KeysInv(s),
         NEW f \in DocumentPath, f \in s.safe, Whole(s, f),
         s.mine.step = "cipher", s1.mine.step \in {"store", "remove_key"}, s.mine.call.file = f,
         DOMAIN s.disk[f] = DOMAIN Documents[f], 1 \in DOMAIN Documents[f]
  PROVE  Whole(s1, f)
<1>1. /\ CipherEnds(s.disk, s1.disk, s.mine, s1.mine) /\ ~ s.mine.call.cursor.stop
      /\ NamesInv(s)
  BY KindOfStep DEF KeysInv, KeyInv
<1>2. /\ s1.disk = s.disk /\ s.mine.call.cursor.position \notin DOMAIN s.disk[f]
      /\ s1.mine.step = IF s.mine.call.operation = "encrypt" THEN "store" ELSE "remove_key"
  BY <1>1 DEF CipherEnds
<1>3. s.mine.call.cursor.position > 1
  <2>1. s.mine.call.cursor.position \in Nat \ {0}
    BY DEF Happens, Proper, Sound, FileSteps, WorkSteps
  <2> QED BY <1>2, <2>1
<1>4. s.mine.call.operation = "decrypt" => s1.named[f] = s.named[f] \ {s.mine.call.key}
  <2>1. f \notin s.twice
    BY DEF Happens, Proper
  <2> QED BY <1>1, <1>2, <2>1, NamesAfter
<1> QED BY <1>2, <1>3, <1>4, WholeEnds

\* The call fails or the process dies while the cipher is at work.
LEMMA WholeGivenUp ==
  ASSUME GammaCommutesOn(Chunk), NEW s, NEW s1, Happens(s, s1), KeysInv(s),
         NEW f \in DocumentPath, f \in DOMAIN s.disk, f \in s1.safe, Whole(s, f),
         s.mine.step = "cipher", s1.mine.step \in {"idle", "closed"}, s.mine.call.file = f,
         DOMAIN s.disk[f] = DOMAIN Documents[f]
  PROVE  Whole(s1, f) \/ LeftOver(s1, f)
<1>1. /\ NamesInv(s) /\ KeyInv(s, s.mine) /\ Proper(s) /\ f \in s.safe /\ Filled(s.disk)
      /\ s1.theirs = s.theirs /\ f \notin s.twice
  BY DEF Happens, Proper, KeysInv
<1>2. s1.disk = s.disk
  BY KindOfStep DEF GivesUp, Disposes, FileSteps, WorkSteps
<1>3. s.mine.call.cursor.position \in Nat \ {0}
  BY <1>1 DEF Proper, Sound, FileSteps, WorkSteps
<1>4. CASE s.mine.call.cursor.position = 1
  <2>1. Base(s1, f) = Base(s, f)
    BY <1>1, <1>2, <1>4 DEF Base, Midway
  <2> QED BY <1>1, <2>1, WholeQuiet
<1>5. CASE s.mine.call.cursor.position > 1
  <2>1. f \in s.free
    BY <1>5 DEF Happens
  <2>2. /\ ~ Midway(s.theirs, f) /\ Base(s, f) = Undone(s.disk, s.mine.call)
        /\ Before(s.disk, s.mine) = Undone(s.disk, s.mine.call)
    BY <1>1, <1>5, BeforeIsUndone
  <2>3. s.mine.call.before = Base(s, f)
    BY <1>1, <2>1, <2>2 DEF KeyInv
  <2>4. Base(s1, f) = s.disk[f]
    BY <1>1, <1>2, <2>2 DEF Base, Midway
  <2>5. CASE s.disk[f] = s.mine.call.before
    BY <1>1, <2>3, <2>4, <2>5, WholeQuiet
  <2>6. CASE s.disk[f] # s.mine.call.before /\ s.mine.call.cursor.position \notin DOMAIN s.disk[f]
    <3>1. s1.named[f] = s.named[f] \ {s.mine.call.key}
      BY <1>1, <1>5, <2>6, NamesAfter
    <3> QED BY <1>1, <1>2, <1>5, <2>6, <3>1, WholeEnds
  <2>7. CASE s.disk[f] # s.mine.call.before /\ s.mine.call.cursor.position \in DOMAIN s.disk[f]
    <3> DEFINE p == s.mine.call.backup
    <3>1. s1.named[f] = {}
      BY <1>1, <1>5, <2>7, NamesAfter
    <3>2. UsedBy(s.mine, p) /\ p.name \in TempName
      BY <1>1, TempFilesOfCall DEF FileSteps, WorkSteps
    <3>3. p \in DOMAIN s.disk /\ s.disk[p] = Base(s, f)
      BY <1>1, <2>3, <3>2 DEF Proper, Sound, WorkSteps
    <3>4. Foreign(s1.mine) = {} /\ \A g : Own(s1.mine, g) = {}
      BY DEF Foreign, Own, FileSteps, WorkSteps
    <3>5. Own(s.theirs, f) = {}
      BY <1>1, <2>1 DEF Proper, SameDocument, Own, FileSteps, WorkSteps
    <3>6. Claims(s1, f) = {}
      BY <1>1, <3>1, <3>4, <3>5 DEF Claims
    <3>7. \A q \in Claimed(s1) : q \in Danger(s1, f)
      BY <3>6, ClaimedSplits
    <3>8. \A q \in Claimed(s1) : q \in Danger(s, f)
      BY <1>1, <3>7, DangerAfter DEF EndsDecrypting
    <3>9. /\ p \notin Foreign(s.theirs)
          /\ \A g : p \notin Own(s.theirs, g)
          /\ \A g \in DocumentPath : p \notin s.named[g]
      BY <1>1, <3>2, TempIsOwn
    <3>10. \A g \in DocumentPath : g # f => s1.named[g] = s.named[g]
      BY <1>1, NamesOfOthers
    <3>11. p \notin Claimed(s1)
      BY <1>1, <3>4, <3>6, <3>9, <3>10 DEF Claimed, Claims
    <3> HIDE DEF p
    <3>12. KeysMade(s, f) \in Int /\ s1.calls \in Int /\ KeysMade(s, f) <= s1.calls
      <4>1. KeysMade(s, f) \in Int /\ KeysMade(s, f) <= s.calls /\ s.calls \in Int
        BY KeysMadeAfter
      <4>2. s1.calls \in Int /\ s.calls <= s1.calls
        BY PendingAfter
      <4> QED BY <4>1, <4>2
    <3>13. Leads(s.disk, Base(s, f), Documents[f], KeysMade(s, f), Claims(s, f), Danger(s, f))
      BY DEF Whole
    <3>14. Leads(s.disk, Base(s, f), Documents[f], s1.calls, {}, Claimed(s1))
      BY <3>8, <3>12, <3>13, LeadsStill
    <3>15. p.name \notin DocumentName
      BY <3>2, NamesApart
    <3> QED BY <1>2, <3>3, <3>11, <3>14, <3>15 DEF LeftOver
  <2> QED BY <2>5, <2>6, <2>7
<1> QED BY <1>3, <1>4, <1>5

LEMMA WholeInvKept ==
  ASSUME GammaCommutesOn(Chunk), NEW s, NEW s1, Happens(s, s1), KeysInv(s), WholeInv(s)
  PROVE  WholeInv(s1)
<1> SUFFICES ASSUME NEW f \in DOMAIN Documents, f \in s1.safe, Documents[f] # <<>>
             PROVE  Whole(s1, f) \/ LeftOver(s1, f)
  BY DEF WholeInv
<1>1. /\ NamesInv(s) /\ KeyInv(s, s.mine) /\ f \in s.safe /\ f \in DocumentPath
      /\ f \in DOMAIN s.disk /\ DOMAIN s.disk[f] = DOMAIN Documents[f]
  BY ServerAssumption DEF Happens, KeysInv, NamesInv
<1>2. 1 \in DOMAIN Documents[f]
  <2>1. Documents[f] \in Content
    BY ServerAssumption
  <2>2. /\ Len(Documents[f]) \in Nat /\ DOMAIN Documents[f] = 1..Len(Documents[f])
        /\ Documents[f] \in [1..Len(Documents[f]) -> Chunk]
    BY <2>1, ContentLength, MaxPortionsAssumption
  <2>3. Len(Documents[f]) # 0
    BY <2>2
  <2> QED BY <2>2, <2>3
<1>3. CASE LeftOver(s, f)
  BY <1>1, <1>3, LeftOverKept
<1>4. CASE Whole(s, f)
  <2>1. CASE s.mine.step = "cipher" /\ s1.mine.step # "cipher" /\ s.mine.call.file = f
    <3>1. s1.mine.step \in {"store", "remove_key", "idle", "closed"}
      BY <2>1, KindOfStep
    <3> QED BY <1>1, <1>2, <1>4, <2>1, <3>1, WholeCiphered, WholeGivenUp
  <2>2. CASE ~ (s.mine.step = "cipher" /\ s1.mine.step # "cipher" /\ s.mine.call.file = f)
    <3>1. Base(s1, f) = Base(s, f)
      BY <1>1, <2>2, BaseKept
    <3>2. CASE s.mine.step = "store" /\ s1.mine.step = "wipe" /\ s.mine.call.file = f
      BY <1>1, <1>4, <3>1, <3>2, WholeNamed
    <3>3. CASE ~ (s.mine.step = "store" /\ s1.mine.step = "wipe" /\ s.mine.call.file = f)
      BY <1>1, <1>4, <2>2, <3>1, <3>3, WholeQuiet
    <3> QED BY <3>2, <3>3
  <2> QED BY <2>1, <2>2
<1> QED BY <1>1, <1>3, <1>4 DEF WholeInv

-----------------------------------------------------------------------------
(***************************************************************************)
(* The keys stay what they are.                                            *)
(***************************************************************************)
LEMMA NamedUntouched ==
  ASSUME NEW s, NEW s1, Happens(s, s1), KeysInv(s), NEW f \in DocumentPath,
         NEW p \in s.named[f], p \in s1.named[f]
  PROVE  p \in DOMAIN s.disk /\ Untouched(s.disk, s1.disk, p)
<1>1. p \in DOMAIN s.disk /\ p.name \in KeyName
  BY DEF KeysInv, NamesInv
<1>2. p.name \notin DocumentName /\ p.name \notin TempName
  BY <1>1, NamesApart
<1>3. /\ s.mine.step \in FileSteps => s.mine.call.backup.name \in TempName
      /\ s.mine.step = "cipher" /\ s.mine.call.operation = "encrypt" => s.mine.call.key.name \in TempName
      /\ s.mine.step = "store" => s.mine.call.key.name \in TempName
  BY DEF Happens, Proper, Sound, WorkSteps
<1>4. CASE s.mine.step = "remove_key" /\ p = s.mine.call.key
  <2>1. f = s.mine.call.file /\ f \in s.twice
    BY <1>4 DEF KeysInv, KeyInv
  <2>2. s1.mine.step # "remove"
    <3>1. s1.mine.step = "remove" => s1.named[s.mine.call.file] = s.named[s.mine.call.file] \ {s.mine.call.key}
      BY <1>4, <2>1, NamesAfter DEF KeysInv
    <3> QED BY <1>4, <2>1, <3>1
  <2>3. GivesUp(s.disk, s1.disk, s.mine, s1.mine)
    BY <1>4, <2>2 DEF Happens, Moves, Begins, Copies, MakesKey, FindsKey, Turns, DropsKey, Disposes, Rests,
           CipherEnds, NamesKey, FileSteps, WorkSteps
  <2> QED BY <1>1, <1>2, <1>3, <1>4, <2>3 DEF GivesUp, Untouched, FileSteps, WorkSteps
<1>5. CASE ~ (s.mine.step = "remove_key" /\ p = s.mine.call.key)
  <2>1. p \notin Foreign(s.mine) /\ ~ (s.mine.step = "store" /\ p = s.mine.call.key)
    BY <1>2, <1>3, <1>5 DEF Foreign
  <2> QED BY <1>1, <1>2, <2>1, KeysUntouched
<1> QED BY <1>4, <1>5

LEMMA NamesInvKept ==
  ASSUME NEW s, NEW s1, Happens(s, s1), KeysInv(s)
  PROVE  NamesInv(s1)
<1>1. NamesInv(s) /\ Proper(s) /\ Filled(s.disk)
  BY DEF KeysInv, Happens, Proper
<1>2. DOMAIN s1.named = DocumentPath
  BY <1>1, NamesAfter
<1>3. \A f \in DOMAIN Documents : f \in DOMAIN s1.disk /\ DOMAIN s1.disk[f] = DOMAIN Documents[f]
  <2> TAKE f \in DOMAIN Documents
  <2>1. f \in DOMAIN s.disk /\ DOMAIN s.disk[f] = DOMAIN Documents[f] /\ f.name \in DocumentName
    BY <1>1, ServerAssumption, NamesApart DEF NamesInv
  <2> QED BY <2>1, DocumentsUntouched
<1>4. ASSUME NEW f \in DocumentPath, NEW p \in s1.named[f]
      PROVE  /\ f \in DOMAIN s1.disk /\ p \in DOMAIN s1.disk
             /\ p.name \in KeyName /\ DOMAIN s1.disk[p] = DOMAIN s1.disk[f]
  <2>1. CASE p \in s.named[f]
    <3>1. /\ f \in DOMAIN s.disk /\ p.name \in KeyName /\ DOMAIN s.disk[p] = DOMAIN s.disk[f]
          /\ f.name \in DocumentName
      BY <1>1, <2>1, NamesApart DEF NamesInv
    <3>2. f \in DOMAIN s1.disk /\ DOMAIN s1.disk[f] = DOMAIN s.disk[f]
      BY <3>1, DocumentsUntouched
    <3>3. p \in DOMAIN s1.disk /\ s1.disk[p] = s.disk[p]
      BY <2>1, NamedUntouched DEF Untouched
    <3> QED BY <3>1, <3>2, <3>3
  <2>2. CASE /\ NamesKey(s.disk, s1.disk, s.mine, s1.mine)
             /\ p = s1.mine.call.key /\ f = s.mine.call.file
    <3>1. /\ s.mine.step = "store" /\ p \in DOMAIN s1.disk
          /\ s1.disk[p] = s.disk[s.mine.call.key] /\ p.name = Md5(s.disk[f])
      BY <2>2 DEF NamesKey
    <3>2. /\ f \in DOMAIN s.disk /\ f.name \in DocumentName /\ s.disk[f] \in Content
          /\ s.mine.call.operation = "encrypt"
      BY <1>1, <2>2, <3>1, NamesApart DEF Proper, Sound, Filled, WorkSteps
    <3>3. DOMAIN s.disk[s.mine.call.key] = DOMAIN s.disk[f]
      BY <2>2, <3>1, <3>2 DEF KeysInv, KeyInv
    <3>4. f \in DOMAIN s1.disk /\ DOMAIN s1.disk[f] = DOMAIN s.disk[f]
      BY <3>2, DocumentsUntouched
    <3>5. p.name \in KeyName
      BY <3>1, <3>2, NameAssumption
    <3> QED BY <3>1, <3>3, <3>4, <3>5
  <2> QED BY <1>1, <2>1, <2>2, NamedAfterStep
<1>5. ASSUME NEW f \in DocumentPath, NEW g \in DocumentPath, NEW p, p \in s1.named[f], p \in s1.named[g]
      PROVE  f = g
  <2> DEFINE New(h) == h = s.mine.call.file /\ p \notin DOMAIN s.disk
  <2>1. p \in s.named[f] \/ New(f)
    BY <1>1, <1>5, NamedAfterStep
  <2>2. p \in s.named[g] \/ New(g)
    BY <1>1, <1>5, NamedAfterStep
  <2>3. p \in s.named[f] \/ p \in s.named[g] => p \in DOMAIN s.disk
    BY <1>1 DEF NamesInv
  <2> QED BY <1>1, <2>1, <2>2, <2>3 DEF NamesInv
<1> QED BY <1>2, <1>3, <1>4, <1>5 DEF NamesInv

LEMMA MyKeyKept ==
  ASSUME NEW s, NEW s1, Happens(s, s1), KeysInv(s)
  PROVE  KeyInv(s1, s1.mine)
<1> DEFINE v == s.mine
           v1 == s1.mine
<1>1. /\ NamesInv(s) /\ KeyInv(s, v) /\ Proper(s) /\ Proper(s1)
      /\ s1.free \subseteq s.free /\ s1.safe \subseteq s.safe /\ s.free \subseteq s.safe
  BY DEF KeysInv, Happens, Proper
<1>2. v1.step \in FileSteps => v1.call.operation \in {"encrypt", "decrypt"}
  BY <1>1 DEF Proper, Sound
<1>3. CASE v1.step \notin {"backup", "core"} \cup WorkSteps
  BY <1>3 DEF KeyInv, WorkSteps
<1>4. CASE v1.step = "backup"
  BY <1>1, <1>4 DEF KeyInv, Before, Proper, Sound
<1>5. CASE v1.step = "core"
  <2>1. Copies(s.disk, s1.disk, v, v1)
    BY <1>5 DEF Happens, Moves, Begins, MakesKey, FindsKey, Turns, DropsKey, Disposes, Rests,
           CipherEnds, GivesUp, NamesKey, FileSteps, WorkSteps
  <2>2. v.step = "backup" /\ SameFiles(v.call, v1.call)
    BY <2>1 DEF Copies
  <2>3. /\ v.call.file \in DOMAIN s.disk /\ s.disk[v.call.file] = v.call.before
        /\ v.call.file.name \in DocumentName
    BY <1>1, <2>2, NamesApart DEF Proper, Sound, FileSteps
  <2>4. s1.disk[v.call.file] = s.disk[v.call.file]
    BY <2>2, <2>3, DocumentsUntouched DEF Untouched
  <2> QED BY <1>5, <2>2, <2>3, <2>4 DEF KeyInv, Before, SameFiles
<1>6. CASE v1.step = "cipher" /\ v.step # "cipher"
  <2>1. /\ v.step = "core" /\ v1.call.cursor.position = 1 /\ SameFiles(v.call, v1.call)
        /\ MakesKey(s.disk, s1.disk, v, v1) \/ FindsKey(s.disk, s1.disk, v, v1)
    BY <1>6, KindOfStep
  <2>2. /\ v.call.file \in DOMAIN s.disk /\ v.call.file.name \in DocumentName
        /\ v.call.file \in DocumentPath
    BY <1>1, <2>1, NamesApart DEF Proper, Sound, FileSteps
  <2>3. s1.disk[v.call.file] = s.disk[v.call.file]
    BY <2>1, <2>2, DocumentsUntouched DEF Untouched
  <2>4. v.call.file \in s.free => v.call.before = s.disk[v.call.file]
    BY <1>1, <2>1 DEF KeyInv, Before
  <2>5. s1.named = s.named
    BY <1>1, <2>1, NamesAfter
  <2>6. v1.step = "cipher" /\ v1.call.file = v.call.file /\ v1.call.before = v.call.before
        /\ v1.call.operation = v.call.operation /\ ~ v1.call.cursor.stop
        /\ Before(s1.disk, v1) = s1.disk[v1.call.file]
    BY <1>6, <2>1 DEF SameFiles, Before, MakesKey, FindsKey
  <2>7. v1.call.operation = "encrypt" => DOMAIN s1.disk[v1.call.key] = DOMAIN s1.disk[v1.call.file]
    BY <2>1, <2>3, <2>6 DEF MakesKey, FindsKey
  <2>8. ASSUME v1.call.operation = "decrypt"
        PROVE  /\ \A g \in DocumentPath : v1.call.key \in s1.named[g] => g = v1.call.file
               /\ v1.call.key \in s1.named[v1.call.file]
               /\ v1.call.file \in s1.free => v1.call.key.name = Md5(v1.call.before)
    <3>1. v1.call.key \in s.named[v.call.file] /\ v1.call.key.name = Md5(s.disk[v.call.file])
      BY <1>6, <2>1, <2>6, <2>8 DEF Happens, Lucky, FindsKey, MakesKey
    <3>2. \A g \in DocumentPath : v1.call.key \in s.named[g] => g = v.call.file
      BY <1>1, <2>2, <3>1 DEF NamesInv
    <3> QED BY <1>1, <2>4, <2>5, <2>6, <3>1, <3>2
  <2>9. v1.call.file \in s1.free => v1.call.before = Before(s1.disk, v1)
    BY <1>1, <2>3, <2>4, <2>6
  <2> HIDE DEF v, v1
  <2> QED BY <2>6, <2>7, <2>8, <2>9 DEF KeyInv, v1
<1>7. CASE v1.step = "cipher" /\ v.step = "cipher"
  <2>1. Turns(s.disk, s1.disk, v, v1)
    BY <1>7, KindOfStep
  <2>2. s1.named = s.named
    BY <1>1, <1>7, NamesAfter
  <2>3. /\ v1.call.file = v.call.file /\ v1.call.before = v.call.before
        /\ v1.call.operation = v.call.operation /\ ~ v1.call.cursor.stop
        /\ v1.call.key = v.call.key
        /\ DOMAIN s1.disk[v.call.file] = DOMAIN s.disk[v.call.file]
    BY <2>1 DEF SameFiles, Turns
  <2>4. v1.call.operation = "encrypt" => DOMAIN s1.disk[v1.call.key] = DOMAIN s1.disk[v1.call.file]
    <3> SUFFICES ASSUME v1.call.operation = "encrypt"
                 PROVE  DOMAIN s1.disk[v1.call.key] = DOMAIN s1.disk[v1.call.file]
      OBVIOUS
    <3>1. v.call.key \in DOMAIN s.disk /\ v.call.key.name \in TempName /\ v.call.file \in DocumentPath
      BY <1>1, <1>7, <2>3 DEF Proper, Sound, UsedBy, FileSteps, WorkSteps
    <3>2. v.call.key # v.call.file
      BY <3>1, NamesApart
    <3>3. s1.disk[v.call.key] = s.disk[v.call.key]
      BY <2>1, <3>1, <3>2 DEF Turns, Untouched
    <3> QED BY <1>1, <1>7, <2>3, <3>3 DEF KeyInv
  <2>5. v1.call.file \in s1.free => v1.call.before = Before(s1.disk, v1)
    <3> SUFFICES ASSUME v1.call.file \in s1.free PROVE v1.call.before = Before(s1.disk, v1)
      OBVIOUS
    <3>1. v.call.file \in s.safe /\ v.call.file \in s.free
      BY <1>1, <2>3
    <3>2. Undone(s1.disk, v1.call) = Undone(s.disk, v.call)
      BY <1>1, <1>7, <3>1, TurnUndone
    <3>3. Before(s1.disk, v1) = Undone(s1.disk, v1.call) /\ Before(s.disk, v) = Undone(s.disk, v.call)
      BY <1>1, <1>7, BeforeIsUndone
    <3>4. v.call.before = Before(s.disk, v)
      BY <1>1, <1>7, <3>1 DEF KeyInv
    <3> QED BY <2>3, <3>2, <3>3, <3>4
  <2> QED BY <1>1, <1>7, <2>2, <2>3, <2>4, <2>5 DEF KeyInv
<1>8. CASE v1.step = "store"
  <2>1. v.step = "cipher"
    BY <1>8 DEF Happens, Moves, Begins, Copies, MakesKey, FindsKey, Turns, DropsKey, Disposes, Rests,
           CipherEnds, GivesUp, NamesKey, FileSteps, WorkSteps
  <2>2. CipherEnds(s.disk, s1.disk, v, v1)
    BY <1>8, <2>1, KindOfStep
  <2>3. /\ v1.call = v.call /\ s1.disk = s.disk /\ v.call.operation = "encrypt"
        /\ v.call.cursor.position \notin DOMAIN s.disk[v.call.file]
    BY <1>1, <1>8, <2>1, <2>2 DEF CipherEnds, KeyInv
  <2>4. DOMAIN s.disk[v.call.key] = DOMAIN s.disk[v.call.file]
    BY <1>1, <2>1, <2>3 DEF KeyInv
  <2>5. v.call.file \in s.free => v.call.before = GammaFile(s.disk[v.call.file], s.disk[v.call.key])
    <3> SUFFICES ASSUME v.call.file \in s.free
                 PROVE  v.call.before = GammaFile(s.disk[v.call.file], s.disk[v.call.key])
      OBVIOUS
    <3>1. v.call.file \in s.safe
      BY <1>1
    <3>2. v.call.before = Before(s.disk, v)
      BY <1>1, <2>1 DEF KeyInv
    <3>3. Before(s.disk, v) = Undone(s.disk, v.call)
      BY <1>1, <2>1, BeforeIsUndone
    <3>4. Undone(s.disk, v.call) = GammaFile(s.disk[v.call.file], s.disk[v.call.key])
      BY <1>1, <2>1, <2>3, <3>1, EndOfCipher
    <3> QED BY <3>2, <3>3, <3>4
  <2> QED BY <1>1, <1>8, <2>3, <2>4, <2>5 DEF KeyInv
<1>9. CASE v1.step = "remove_key"
  <2>1. v.step = "cipher"
    BY <1>9 DEF Happens, Moves, Begins, Copies, MakesKey, FindsKey, Turns, DropsKey, Disposes, Rests,
           CipherEnds, GivesUp, NamesKey, FileSteps, WorkSteps
  <2>2. CipherEnds(s.disk, s1.disk, v, v1)
    BY <1>9, <2>1, KindOfStep
  <2>3. v1.call = v.call /\ v.call.operation = "decrypt"
    <3>1. v1.call = v.call /\ v.call.operation # "encrypt"
      BY <1>9, <2>2 DEF CipherEnds
    <3> QED BY <1>2, <1>9, <3>1 DEF FileSteps, WorkSteps
  <2>4. v.call.file \notin s.twice => s1.named[v.call.file] = s.named[v.call.file] \ {v.call.key}
    BY <1>1, <1>9, <2>1, NamesAfter
  <2>5. \A g \in DocumentPath : g # v.call.file => s1.named[g] = s.named[g]
    BY <1>1, NamesOfOthers
  <2>6. \A g \in DocumentPath : v.call.key \in s.named[g] => g = v.call.file
    BY <1>1, <2>1, <2>3 DEF KeyInv
  <2>7. v.call.file \in s.twice => s1.named = s.named
    BY <1>1, <1>9, <2>1, NamesAfter
  <2>8. s.twice \subseteq s1.twice
    BY DEF Happens
  <2>9. \A g \in DocumentPath : v1.call.key \in s1.named[g] => g = v1.call.file /\ g \in s1.twice
    BY <2>3, <2>4, <2>5, <2>6, <2>7, <2>8
  <2> QED BY <1>9, <2>9 DEF KeyInv
<1> QED BY <1>3, <1>4, <1>5, <1>6, <1>7, <1>8, <1>9 DEF WorkSteps

LEMMA TheirKeyKept ==
  ASSUME NEW s, NEW s1, Happens(s, s1), KeysInv(s)
  PROVE  KeyInv(s1, s1.theirs)
<1> DEFINE v == s.mine
           w == s.theirs
<1>1. /\ NamesInv(s) /\ KeyInv(s, w) /\ Proper(s) /\ Proper(s1) /\ s1.theirs = w
      /\ s1.free \subseteq s.free /\ s1.safe \subseteq s.safe /\ s.free \subseteq s.safe
  BY DEF KeysInv, Happens, Proper
<1>2. /\ w.step \in {"backup", "core"} \cup WorkSteps =>
           /\ w.call.file \in DOMAIN s.disk /\ w.call.file.name \in DocumentName
           /\ w.call.file \in DocumentPath /\ w.step \in FileSteps
      /\ w.step = "remove_key" => w.call.operation = "decrypt"
      /\ w.step = "store" => w.call.operation = "encrypt"
  BY <1>1, NamesApart DEF Proper, Sound, FileSteps, WorkSteps
<1>3. ASSUME w.step \in {"backup", "core"} \cup WorkSteps
      PROVE  DOMAIN s1.disk[w.call.file] = DOMAIN s.disk[w.call.file]
  BY <1>2, <1>3, DocumentsUntouched
<1>4. ASSUME w.step \in {"backup", "core"} \cup WorkSteps, w.call.file \in s1.free
      PROVE  s1.disk[w.call.file] = s.disk[w.call.file]
  <2>1. ~ (v.step = "cipher" /\ w.call.file = v.call.file)
    BY <1>1, <1>2, <1>4 DEF Proper, SameDocument, FileSteps, WorkSteps
  <2> QED BY <1>2, <1>4, <2>1, DocumentsUntouched DEF Untouched
<1>5. ASSUME w.step \in {"cipher", "store"}, w.call.operation = "encrypt"
      PROVE  s1.disk[w.call.key] = s.disk[w.call.key]
  <2>1. UsedBy(w, w.call.key)
    BY <1>5 DEF UsedBy
  <2> QED BY <2>1, TheirsUntouched DEF Untouched
<1>6. ASSUME w.step \in WorkSteps, w.call.operation = "decrypt", NEW g \in DocumentPath,
             w.call.key \in s1.named[g]
      PROVE  w.call.key \in s.named[g]
  <2>1. s.mine.step = "store" /\ s1.mine.step = "wipe" => w.call.key # s1.mine.call.key
    BY <1>6 DEF Happens, Lucky
  <2> QED BY <1>1, <1>6, <2>1, NamedAfterStep DEF NamesKey
<1>7. ASSUME w.step = "cipher", w.call.operation = "decrypt", w.call.file \in s1.safe
      PROVE  w.call.key \in s1.named[w.call.file]
  <2>1. w.call.key \in s.named[w.call.file] /\ w.call.file \in DocumentPath
    BY <1>1, <1>2, <1>7 DEF KeyInv, WorkSteps
  <2>2. CASE w.call.file # v.call.file
    BY <1>1, <2>1, <2>2, NamesOfOthers
  <2>3. CASE w.call.file = v.call.file /\ v.step \in {"cipher", "store"}
    <3>1. w.call.file \notin s.free /\ v.call.operation = "encrypt"
      <4>1. /\ SameDocument(s) /\ v.call.operation \in {"encrypt", "decrypt"}
        BY <1>1, <1>7, <2>3 DEF SameDocument, FileSteps, WorkSteps, Proper, Sound
      <4>2. /\ v.call.file \notin s.free
            /\ v.call.operation = "decrypt" /\ w.call.operation = "decrypt" => v.call.file \notin s.safe
        BY <1>1, <4>1 DEF Proper
      <4>3. v.call.file \in s.safe
        BY <1>1, <1>7, <2>3
      <4> HIDE DEF v, w
      <4> QED BY <1>7, <2>3, <4>1, <4>2, <4>3
    <3>2. CASE v.step = "store" /\ s1.mine.step = "wipe"
      <4>1. s1.named[s.mine.call.file] = s.named[s.mine.call.file] \cup {s1.mine.call.key}
        BY <1>1, <3>2, NamesAfter
      <4> QED BY <2>1, <2>3, <4>1
    <3>3. CASE v.step = "cipher" /\ s1.mine.step = "remove_key"
      <4>1. CipherEnds(s.disk, s1.disk, v, s1.mine)
        BY <3>3, KindOfStep
      <4> QED BY <3>1, <3>3, <4>1 DEF CipherEnds
    <3>4. CASE v.step = "cipher" /\ s1.mine.step \in {"idle", "closed"}
      <4>1. ~ (v.call.cursor.position > 1)
        BY <1>1, <1>7, <2>3, <3>1, <3>4 DEF Happens
      <4>2. s1.named = s.named
        BY <1>1, <3>4, <4>1, NamesAfter
      <4> QED BY <2>1, <4>2
    <3>5. CASE /\ ~ (v.step = "store" /\ s1.mine.step = "wipe")
               /\ ~ (v.step = "cipher" /\ s1.mine.step \in {"remove_key", "idle", "closed"})
      <4>1. s1.named = s.named
        BY <2>3, <3>5 DEF Happens, Renamed
      <4> QED BY <2>1, <4>1
    <3> QED BY <3>2, <3>3, <3>4, <3>5
  <2>4. CASE w.call.file = v.call.file /\ v.step \notin {"cipher", "store"}
    <3>1. w.call.file \notin s.twice
      BY <1>1, <1>7 DEF Proper
    <3>2. s1.named = s.named
      BY <1>1, <2>4, <3>1, NamesAfter
    <3> QED BY <2>1, <3>2
  <2> QED BY <2>2, <2>3, <2>4
<1>8. w.step \in {"backup", "core", "cipher"} /\ w.call.file \in s1.free =>
        w.call.before = Before(s1.disk, w)
  <2> SUFFICES ASSUME w.step \in {"backup", "core", "cipher"}, w.call.file \in s1.free
               PROVE  w.call.before = Before(s1.disk, w)
    OBVIOUS
  <2>1. w.call.before = Before(s.disk, w)
    BY <1>1 DEF KeyInv
  <2>2. CASE w.step = "cipher" /\ w.call.cursor.position > 1
    <3>1. Undone(s1.disk, w.call) = Undone(s.disk, w.call)
      BY <1>1, <2>2, TheirsUndone
    <3> QED BY <2>1, <2>2, <3>1 DEF Before
  <2>3. CASE ~ (w.step = "cipher" /\ w.call.cursor.position > 1)
    <3>1. s1.disk[w.call.file] = s.disk[w.call.file]
      BY <1>4 DEF WorkSteps
    <3> QED BY <2>1, <2>3, <3>1 DEF Before
  <2> QED BY <2>2, <2>3
<1>9. w.step = "store" /\ w.call.file \in s1.free =>
        w.call.before = GammaFile(s1.disk[w.call.file], s1.disk[w.call.key])
  BY <1>1, <1>2, <1>4, <1>5 DEF KeyInv, WorkSteps
<1>10. w.step \in {"cipher", "store"} /\ w.call.operation = "encrypt" =>
         DOMAIN s1.disk[w.call.key] = DOMAIN s1.disk[w.call.file]
  BY <1>1, <1>3, <1>5 DEF KeyInv, WorkSteps
<1>11. w.step = "remove_key" =>
         \A g \in DocumentPath : w.call.key \in s1.named[g] => g = w.call.file /\ g \in s1.twice
  <2>1. s.twice \subseteq s1.twice
    BY DEF Happens
  <2> QED BY <1>1, <1>2, <1>6, <2>1 DEF KeyInv, WorkSteps
<1>12. w.step = "cipher" /\ w.call.operation = "decrypt" =>
         /\ \A g \in DocumentPath : w.call.key \in s1.named[g] => g = w.call.file
         /\ w.call.file \in s1.safe => w.call.key \in s1.named[w.call.file]
         /\ w.call.file \in s1.free => w.call.key.name = Md5(w.call.before)
  BY <1>1, <1>6, <1>7 DEF KeyInv, WorkSteps
<1>13. w.step = "cipher" => ~ w.call.cursor.stop
  BY <1>1 DEF KeyInv
<1> QED BY <1>1, <1>8, <1>9, <1>10, <1>11, <1>12, <1>13 DEF KeyInv

LEMMA KeysInvKept ==
  ASSUME NEW s, NEW s1, Happens(s, s1), KeysInv(s)
  PROVE  KeysInv(s1)
BY NamesInvKept, MyKeyKept, TheirKeyKept DEF KeysInv

-----------------------------------------------------------------------------
(***************************************************************************)
(* The levels of an encrypted document.                                    *)
(***************************************************************************)
LEMMA OneMore ==
  ASSUME NEW l, NEW Q \in Seq(Content)
  PROVE  /\ Len(Q) \in Nat /\ Len(<<l>> \o Q) = Len(Q) + 1 /\ (<<l>> \o Q)[1] = l
         /\ \A i \in 1..Len(Q) : (<<l>> \o Q)[i + 1] = Q[i]
<1>1. <<l>> \o Q = [i \in 1..Len(Q) + 1 |-> IF i <= 1 THEN <<l>>[i] ELSE Q[i - 1]] /\ Len(Q) \in Nat
  OBVIOUS
<1> QED BY <1>1

\* A document that is not encrypted has nothing to restore.
LEMMA RestoresNothing ==
  ASSUME NEW D, NEW N, NEW l, \A p, r \in N : p.name = r.name => p = r
  PROVE  Restores(D, N, <<l>> \o <<>>)
<1>1. <<>> \in Seq(Content) /\ Len(<<>>) = 0
  OBVIOUS
<1>2. Len(<<l>> \o <<>>) - 1 = 0
  BY <1>1, OneMore
<1> QED BY <1>2 DEF Restores

LEMMA RestoresStill ==
  ASSUME NEW D, NEW D1, NEW N, NEW q, Restores(D, N, q), \A p \in N : D1[p] = D[p]
  PROVE  Restores(D1, N, q)
BY DEF Restores

\* A key gets its name.
LEMMA RestoresMore ==
  ASSUME NEW D, NEW D1, NEW N, NEW l, NEW Q \in Seq(Content), NEW x, NEW p,
         Restores(D, N, <<l>> \o Q), l \in Content,
         \A r \in N : D1[r] = D[r] /\ r.name # p.name,
         p.name = Md5(x), GammaFile(x, D1[p]) = l
  PROVE  Restores(D1, N \cup {p}, <<x>> \o (<<l>> \o Q))
<1> DEFINE q == <<l>> \o Q
           q1 == <<x>> \o q
<1>1. /\ q \in Seq(Content) /\ Len(Q) \in Nat /\ Len(q) = Len(Q) + 1 /\ q[1] = l
  BY OneMore
<1>2. /\ Len(q1) = Len(q) + 1 /\ q1[1] = x /\ \A i \in 1..Len(q) : q1[i + 1] = q[i]
  BY <1>1, OneMore
<1>3. /\ \A r, t \in N : r.name = t.name => r = t
      /\ \A i \in 1..Len(q) - 1 : \E r \in N : r.name = Md5(q[i]) /\ GammaFile(q[i], D[r]) = q[i + 1]
      /\ \A i, j \in 1..Len(q) - 1 : Md5(q[i]) = Md5(q[j]) => i = j
  BY DEF Restores
<1> HIDE DEF q, q1
<1>4. \A i \in 1..Len(q1) - 1 : i = 1 \/ (i - 1 \in 1..Len(q) - 1 /\ q1[i] = q[i - 1] /\ q1[i + 1] = q[(i - 1) + 1])
  <2> TAKE i \in 1..Len(q1) - 1
  <2>1. CASE i # 1
    <3>1. i - 1 \in 1..Len(q) - 1 /\ i - 1 \in 1..Len(q) /\ (i - 1) + 1 \in 1..Len(q)
      BY <1>1, <1>2, <2>1
    <3>2. q1[(i - 1) + 1] = q[i - 1] /\ q1[((i - 1) + 1) + 1] = q[(i - 1) + 1]
      BY <1>2, <3>1
    <3>3. (i - 1) + 1 = i
      BY <1>1, <1>2
    <3> QED BY <3>1, <3>2, <3>3
  <2> QED BY <2>1
<1>5. \A r, t \in N \cup {p} : r.name = t.name => r = t
  BY <1>3
<1>6. ASSUME NEW i \in 1..Len(q1) - 1
      PROVE  \E r \in N \cup {p} : r.name = Md5(q1[i]) /\ GammaFile(q1[i], D1[r]) = q1[i + 1]
  <2>1. CASE i = 1
    <3>1. q1[1 + 1] = l
      BY <1>1, <1>2
    <3> QED BY <1>2, <2>1, <3>1
  <2>2. CASE i # 1
    <3>1. PICK r \in N : r.name = Md5(q[i - 1]) /\ GammaFile(q[i - 1], D[r]) = q[(i - 1) + 1]
      BY <1>3, <1>4, <2>2
    <3> QED BY <1>4, <2>2, <3>1
  <2> QED BY <2>1, <2>2
<1>7. \A i \in 1..Len(q1) - 1 : i # 1 => Md5(q1[i]) # Md5(x)
  <2> SUFFICES ASSUME NEW i \in 1..Len(q1) - 1, i # 1 PROVE Md5(q1[i]) # Md5(x)
    OBVIOUS
  <2>1. PICK r \in N : r.name = Md5(q[i - 1])
    BY <1>3, <1>4
  <2> QED BY <1>4, <2>1
<1>8. ASSUME NEW i \in 1..Len(q1) - 1, NEW j \in 1..Len(q1) - 1, Md5(q1[i]) = Md5(q1[j])
      PROVE  i = j
  <2>1. CASE i = 1 \/ j = 1
    BY <1>2, <1>7, <1>8, <2>1
  <2>2. CASE i # 1 /\ j # 1
    <3>1. i - 1 = j - 1
      BY <1>3, <1>4, <1>8, <2>2
    <3> QED BY <1>1, <1>2, <3>1
  <2> QED BY <2>1, <2>2
<1>9. Restores(D1, N \cup {p}, q1)
  BY <1>5, <1>6, <1>8 DEF Restores
<1> QED BY <1>9 DEF q, q1

\* The key called by the digest of the first level is used up.
LEMMA RestoresLess ==
  ASSUME NEW D, NEW N, NEW l, NEW Q \in Seq(Content), Q # <<>>, NEW p \in N,
         Restores(D, N, <<l>> \o Q), p.name = Md5(l)
  PROVE  Restores(D, N \ {p}, <<GammaFile(l, D[p])>> \o Tail(Q))
<1> DEFINE q == <<l>> \o Q
<1>1. /\ Len(Q) \in Nat /\ Len(Q) # 0 /\ Len(q) = Len(Q) + 1 /\ q[1] = l
      /\ \A i \in 1..Len(Q) : q[i + 1] = Q[i]
  BY OneMore
<1>2. /\ \A r, t \in N : r.name = t.name => r = t
      /\ \A i \in 1..Len(q) - 1 : \E r \in N : r.name = Md5(q[i]) /\ GammaFile(q[i], D[r]) = q[i + 1]
      /\ \A i, j \in 1..Len(q) - 1 : Md5(q[i]) = Md5(q[j]) => i = j
  BY DEF Restores
<1> HIDE DEF q
<1>3. 1 \in 1..Len(q) - 1 /\ 1 \in 1..Len(Q)
  BY <1>1
<1>4. GammaFile(l, D[p]) = Q[1]
  <2>1. PICK r \in N : r.name = Md5(q[1]) /\ GammaFile(q[1], D[r]) = q[1 + 1]
    BY <1>2, <1>3
  <2>2. r = p
    BY <1>1, <1>2, <2>1
  <2> QED BY <1>1, <1>3, <2>1, <2>2
<1>5. <<Q[1]>> \o Tail(Q) = Q
  <2>1. Tail(Q) \in Seq(Content) /\ Len(Tail(Q)) = Len(Q) - 1 /\ \A i \in 1..Len(Q) - 1 : Tail(Q)[i] = Q[i + 1]
    BY <1>1
  <2>2. /\ <<Q[1]>> \o Tail(Q) \in Seq(Content)
    BY <1>3, <2>1
  <2>3. /\ Len(<<Q[1]>> \o Tail(Q)) = Len(Q) /\ (<<Q[1]>> \o Tail(Q))[1] = Q[1]
        /\ \A i \in 1..Len(Q) - 1 : (<<Q[1]>> \o Tail(Q))[i + 1] = Q[i + 1]
    BY <1>1, <2>1, OneMore
  <2>4. ASSUME NEW i \in 1..Len(Q) PROVE (<<Q[1]>> \o Tail(Q))[i] = Q[i]
    <3>1. CASE i = 1
      BY <2>3, <3>1
    <3>2. CASE i # 1
      <4>1. i - 1 \in 1..Len(Q) - 1 /\ (i - 1) + 1 = i
        BY <1>1, <3>2
      <4> QED BY <2>3, <4>1
    <3> QED BY <3>1, <3>2
  <2> QED BY <2>2, <2>3, <2>4
<1>6. ASSUME NEW i \in 1..Len(Q) - 1
      PROVE  /\ i + 1 \in 1..Len(q) - 1 /\ i + 1 # 1 /\ Q[i] = q[i + 1] /\ Q[i + 1] = q[(i + 1) + 1]
             /\ \E r \in N \ {p} : r.name = Md5(Q[i]) /\ GammaFile(Q[i], D[r]) = Q[i + 1]
  <2>1. i + 1 \in 1..Len(q) - 1 /\ i + 1 # 1 /\ i \in 1..Len(Q) /\ i + 1 \in 1..Len(Q)
    BY <1>1
  <2>2. Q[i] = q[i + 1] /\ Q[i + 1] = q[(i + 1) + 1]
    BY <1>1, <2>1
  <2>3. PICK r \in N : r.name = Md5(q[i + 1]) /\ GammaFile(q[i + 1], D[r]) = q[(i + 1) + 1]
    BY <1>2, <2>1
  <2>4. Md5(q[i + 1]) # Md5(q[1])
    BY <1>2, <1>3, <2>1
  <2>5. r # p
    BY <1>1, <2>3, <2>4
  <2> QED BY <2>1, <2>2, <2>3, <2>5
<1>7. ASSUME NEW i \in 1..Len(Q) - 1, NEW j \in 1..Len(Q) - 1, Md5(Q[i]) = Md5(Q[j])
      PROVE  i = j
  <2>1. i + 1 = j + 1
    BY <1>2, <1>6, <1>7
  <2> QED BY <1>1, <2>1
<1>8. Restores(D, N \ {p}, Q)
  BY <1>2, <1>6, <1>7 DEF Restores
<1> QED BY <1>4, <1>5, <1>8

\* Only one process works on a document that is free.
LEMMA FreeIsAlone ==
  ASSUME NEW s, Proper(s), NEW f \in s.free, s.mine.step \in FileSteps, s.mine.call.file = f
  PROVE  ~ (s.theirs.step \in FileSteps /\ s.theirs.call.file = f)
BY DEF Proper, SameDocument

\* The first level stays while no key is named and no cipher ends.
LEMMA LevelKept ==
  ASSUME NEW s, NEW s1, Happens(s, s1), KeysInv(s), NEW f \in s1.free, f \in DOMAIN s.disk,
         ~ (s.mine.step = "store" /\ s.mine.call.file = f),
         ~ (s.mine.step = "cipher" /\ s1.mine.step # "cipher" /\ s.mine.call.file = f)
  PROVE  Level(s1, f) = Level(s, f)
<1>1. /\ NamesInv(s) /\ KeyInv(s, s.mine) /\ Proper(s) /\ Proper(s1) /\ s1.theirs = s.theirs
      /\ f \in s.safe /\ f \in DocumentPath
  BY DEF KeysInv, Happens, Proper
<1>2. Base(s1, f) = Base(s, f)
  BY <1>1, BaseKept
<1>3. s1.mine.step = "store" => s.mine.step = "cipher" /\ s1.mine.call = s.mine.call
  BY DEF Happens, Moves, Begins, Copies, MakesKey, FindsKey, Turns, DropsKey, Disposes, Rests,
         CipherEnds, GivesUp, NamesKey, FileSteps, WorkSteps
<1>4. ~ (s1.mine.step = "store" /\ s1.mine.call.file = f)
  BY <1>3
<1> QED BY <1>1, <1>2, <1>4 DEF Level

\* The document's key gets its name.
LEMMA HistoryNamed ==
  ASSUME NEW s, NEW s1, Happens(s, s1), KeysInv(s), HistoryInv(s), NEW f \in s1.free,
         s.mine.step = "store", s1.mine.step = "wipe", s.mine.call.file = f
  PROVE  f \in DOMAIN s1.disk /\ Restores(s1.disk, s1.named[f], Levels(s1, f))
<1> DEFINE l == s.mine.call.key
           l1 == s1.mine.call.key
           before == s.mine.call.before
<1>1. /\ NamesInv(s) /\ KeyInv(s, s.mine) /\ Proper(s) /\ Proper(s1) /\ s1.theirs = s.theirs
      /\ f \in s.free /\ f \in DocumentPath /\ Filled(s.disk) /\ f.name \in DocumentName
      /\ f \in DOMAIN s.disk /\ s.sealed \in [DocumentPath -> Seq(Content)]
  BY NamesApart DEF KeysInv, Happens, Proper, Sound, FileSteps, WorkSteps
<1>2. /\ NamesKey(s.disk, s1.disk, s.mine, s1.mine)
      /\ s1.sealed = [s.sealed EXCEPT ![f] = <<before>> \o @]
  BY DEF Happens, Moves, Begins, Copies, MakesKey, FindsKey, Turns, DropsKey, Disposes, Rests,
         CipherEnds, GivesUp, FileSteps, WorkSteps
<1>3. /\ l \in DOMAIN s.disk /\ l1 \in DOMAIN s1.disk /\ l1 \notin DOMAIN s.disk
      /\ s1.disk[l1] = s.disk[l] /\ l1.name = Md5(s.disk[f]) /\ SameFiles(s.mine.call, s1.mine.call)
  BY <1>2 DEF NamesKey
<1>4. f \in DOMAIN s1.disk /\ s1.disk[f] = s.disk[f]
  BY <1>1, DocumentsUntouched DEF Untouched
<1>5. before = GammaFile(s.disk[f], s.disk[l]) /\ DOMAIN s.disk[l] = DOMAIN s.disk[f] /\ before \in Content
  <2>1. s.mine.call.operation = "encrypt"
    BY <1>1 DEF Proper, Sound
  <2>2. before = GammaFile(s.disk[f], s.disk[l]) /\ DOMAIN s.disk[l] = DOMAIN s.disk[f]
    BY <1>1, <2>1 DEF KeyInv
  <2>3. s.disk[f] \in Content /\ s.disk[l] \in Content
    BY <1>1, <1>3 DEF Filled
  <2> HIDE DEF l, before
  <2> QED BY <2>2, <2>3, GammaOfSameSize
<1>6. /\ Levels(s, f) = <<before>> \o s.sealed[f] /\ s.sealed[f] \in Seq(Content)
      /\ Restores(s.disk, s.named[f], Levels(s, f))
  BY <1>1 DEF Levels, Level, HistoryInv
<1>7. Levels(s1, f) = <<s.disk[f]>> \o (<<before>> \o s.sealed[f])
  <2>1. /\ ~ (s.theirs.step \in FileSteps /\ s.theirs.call.file = f)
    BY <1>1, FreeIsAlone DEF FileSteps, WorkSteps
  <2>2. ~ (s.theirs.step = "store" /\ s.theirs.call.file = f) /\ ~ Midway(s.theirs, f)
    BY <2>1 DEF Midway, FileSteps, WorkSteps
  <2>3. Level(s1, f) = s.disk[f]
    BY <1>1, <1>4, <2>2 DEF Level, Base, Midway
  <2>4. s1.sealed[f] = <<before>> \o s.sealed[f]
    BY <1>1, <1>2
  <2> QED BY <2>3, <2>4 DEF Levels
<1>8. s1.named[f] = s.named[f] \cup {l1}
  BY <1>1, NamesAfter
<1>9. \A p \in DOMAIN s.disk : p.name # l1.name
  BY <1>1 DEF Happens, Lucky
<1>10. \A r \in s.named[f] : s1.disk[r] = s.disk[r] /\ r.name # l1.name
  <2> TAKE r \in s.named[f]
  <2>1. r \in DOMAIN s.disk /\ s1.disk[r] = s.disk[r]
    BY <1>1, <1>8, NamedUntouched DEF Untouched
  <2> QED BY <1>9, <2>1
<1> HIDE DEF l, l1, before
<1>11. Restores(s1.disk, s.named[f] \cup {l1}, <<s.disk[f]>> \o (<<before>> \o s.sealed[f]))
  <2> DEFINE N == s.named[f]
             Q == s.sealed[f]
             x == s.disk[f]
             D1 == s1.disk
  <2>1. /\ Restores(s.disk, N, <<before>> \o Q) /\ Q \in Seq(Content)
        /\ \A r \in N : D1[r] = s.disk[r] /\ r.name # l1.name
        /\ before \in Content /\ l1.name = Md5(x)
    BY <1>3, <1>5, <1>6, <1>10
  <2>2. GammaFile(x, D1[l1]) = before
    BY <1>3, <1>5
  <2> HIDE DEF N, Q, x, D1
  <2>3. Restores(D1, N \cup {l1}, <<x>> \o (<<before>> \o Q))
    BY <2>1, <2>2, RestoresMore
  <2> QED BY <2>3 DEF N, Q, x, D1
<1> QED BY <1>4, <1>7, <1>8, <1>11

\* The document's key has been used.
LEMMA HistoryDecrypted ==
  ASSUME NEW s, NEW s1, Happens(s, s1), KeysInv(s), HistoryInv(s), NEW f \in s1.free,
         s.mine.step = "cipher", s1.mine.step \in {"store", "remove_key"},
         s.mine.call.operation = "decrypt", s.mine.call.file = f, s1.sealed[f] # <<>>
  PROVE  f \in DOMAIN s1.disk /\ Restores(s1.disk, s1.named[f], Levels(s1, f))
<1> DEFINE k == s.mine.call.key
           b == s.mine.call.before
<1>1. /\ NamesInv(s) /\ KeyInv(s, s.mine) /\ Proper(s) /\ Proper(s1) /\ s1.theirs = s.theirs
      /\ f \in s.free /\ f \in s.safe /\ f \in DocumentPath
      /\ f \in DOMAIN s.disk /\ s.sealed \in [DocumentPath -> Seq(Content)]
  BY DEF KeysInv, Happens, Proper, Sound, FileSteps, WorkSteps
<1>2. /\ CipherEnds(s.disk, s1.disk, s.mine, s1.mine)
      /\ s1.sealed = Uncovered(s.disk, s.sealed, s.mine)
  BY KindOfStep
<1>3. /\ s1.disk = s.disk /\ s1.mine.step = "remove_key"
      /\ s.mine.call.cursor.position \notin DOMAIN s.disk[f]
  BY <1>1, <1>2 DEF CipherEnds, KeyInv
<1>4. s.sealed[f] # <<>> /\ s1.sealed[f] = Tail(s.sealed[f])
  BY <1>1, <1>2, <1>3 DEF Uncovered
<1>5. k \in s.named[f] /\ k.name = Md5(b) /\ b = Before(s.disk, s.mine)
  BY <1>1 DEF KeyInv
<1>6. ~ (s.theirs.step \in FileSteps /\ s.theirs.call.file = f)
  BY <1>1, FreeIsAlone DEF FileSteps, WorkSteps
<1>7. ~ (s.theirs.step = "store" /\ s.theirs.call.file = f) /\ ~ Midway(s.theirs, f)
  BY <1>6 DEF Midway, FileSteps, WorkSteps
<1>8. Before(s.disk, s.mine) = Undone(s.disk, s.mine.call) /\ Base(s, f) = Undone(s.disk, s.mine.call)
  BY <1>1, <1>7, BeforeIsUndone
<1>9. Levels(s, f) = <<b>> \o s.sealed[f] /\ Restores(s.disk, s.named[f], Levels(s, f))
  BY <1>1, <1>5, <1>7, <1>8 DEF Levels, Level, HistoryInv
<1>10. Level(s1, f) = s.disk[f]
  BY <1>1, <1>3, <1>7 DEF Level, Base, Midway
<1>11. GammaFile(b, s.disk[k]) = s.disk[f]
  BY <1>1, <1>3, <1>5, <1>8, EndOfCipher
<1>12. s1.named[f] = s.named[f] \ {k}
  <2>1. f \notin s.twice
    BY <1>1 DEF Proper
  <2> QED BY <1>1, <1>3, <2>1, NamesAfter
<1>13. s.sealed[f] \in Seq(Content)
  BY <1>1
<1>14. Levels(s1, f) = <<s.disk[f]>> \o Tail(s.sealed[f])
  BY <1>4, <1>10 DEF Levels
<1> HIDE DEF k, b
<1>15. Restores(s.disk, s.named[f] \ {k}, <<GammaFile(b, s.disk[k])>> \o Tail(s.sealed[f]))
  BY <1>4, <1>5, <1>9, <1>13, RestoresLess
<1> QED BY <1>1, <1>3, <1>11, <1>12, <1>14, <1>15

\* No two keys of a document have one name.
LEMMA KeyNamesDiffer ==
  ASSUME NEW s, NEW s1, Happens(s, s1), KeysInv(s), HistoryInv(s), NEW f \in s1.free
  PROVE  \A p, q \in s1.named[f] : p.name = q.name => p = q
<1> SUFFICES ASSUME NEW p \in s1.named[f], NEW q \in s1.named[f], p.name = q.name
             PROVE  p = q
  OBVIOUS
<1>1. NamesInv(s) /\ f \in s.free /\ f \in DocumentPath
  BY DEF KeysInv, Happens, Proper
<1>2. \A r, t \in s.named[f] : r.name = t.name => r = t
  BY <1>1 DEF HistoryInv, Restores
<1>3. \A r \in s.named[f] : r \in DOMAIN s.disk
  BY <1>1 DEF NamesInv
<1> DEFINE key == s1.mine.call.key
           Names == s.mine.step = "store" /\ s1.mine.step = "wipe" /\ f = s.mine.call.file
<1>4. p \in s.named[f] \/ (Names /\ p = key)
  BY <1>1, NamedAfterStep DEF NamesKey
<1>5. q \in s.named[f] \/ (Names /\ q = key)
  BY <1>1, NamedAfterStep DEF NamesKey
<1>6. Names => \A r \in DOMAIN s.disk : r.name # key.name
  BY <1>1 DEF Happens, Lucky
<1> HIDE DEF key, Names
<1>7. CASE p \in s.named[f] /\ q \in s.named[f]
  BY <1>2, <1>7
<1>8. CASE ~ (p \in s.named[f] /\ q \in s.named[f])
  BY <1>3, <1>4, <1>5, <1>6, <1>8
<1> QED BY <1>7, <1>8

\* Nothing that matters for the history of the document happens.
LEMMA HistoryQuiet ==
  ASSUME NEW s, NEW s1, Happens(s, s1), KeysInv(s), HistoryInv(s), NEW f \in s1.free,
         s1.sealed[f] # <<>>,
         ~ (s.mine.step = "store" /\ s1.mine.step = "wipe" /\ s.mine.call.file = f),
         ~ /\ s.mine.step = "cipher" /\ s1.mine.step \in {"store", "remove_key"}
           /\ s.mine.call.operation = "decrypt" /\ s.mine.call.file = f
  PROVE  f \in DOMAIN s1.disk /\ Restores(s1.disk, s1.named[f], Levels(s1, f))
<1>1. /\ NamesInv(s) /\ KeyInv(s, s.mine) /\ Proper(s) /\ Proper(s1) /\ s1.theirs = s.theirs
      /\ f \in s.free /\ f \in s.safe /\ f \in DocumentPath /\ f.name \in DocumentName
      /\ s.sealed \in [DocumentPath -> Seq(Content)]
      /\ s.mine.step \in FileSteps => s.mine.call.file \in DocumentPath
      /\ s.mine.step \in FileSteps => s.mine.call.operation \in {"encrypt", "decrypt"}
  BY NamesApart DEF KeysInv, Happens, Proper, Sound
<1>2. s1.sealed[f] = s.sealed[f]
  <2>1. CASE CipherEnds(s.disk, s1.disk, s.mine, s1.mine) /\ s1.sealed = Uncovered(s.disk, s.sealed, s.mine)
    <3>1. s.mine.step = "cipher" /\ s1.mine.step \in {"store", "remove_key"}
      BY <2>1 DEF CipherEnds
    <3>2. s.mine.call.operation = "encrypt" \/ s.mine.call.file # f
      BY <1>1, <3>1 DEF FileSteps, WorkSteps
    <3> QED BY <1>1, <2>1, <3>2 DEF Uncovered
  <2>2. CASE /\ NamesKey(s.disk, s1.disk, s.mine, s1.mine)
             /\ s1.sealed = [s.sealed EXCEPT ![s.mine.call.file] = <<s.mine.call.before>> \o @]
    BY <1>1, <2>2 DEF NamesKey
  <2>3. CASE GivesUp(s.disk, s1.disk, s.mine, s1.mine) /\ s1.sealed = GivenUp(s.disk, s.sealed, s.mine)
    BY <1>1, <2>3 DEF GivenUp, GivesUp
  <2> QED BY <2>1, <2>2, <2>3 DEF Happens, Moves
<1>3. f \in DOMAIN s.disk /\ Restores(s.disk, s.named[f], <<Level(s, f)>> \o s.sealed[f])
  BY <1>1, <1>2 DEF HistoryInv, Levels
<1>4. f \in DOMAIN s1.disk
  BY <1>1, <1>3, DocumentsUntouched
<1>5. s1.named[f] = s.named[f] /\ Level(s1, f) = Level(s, f)
  <2>1. CASE s.mine.step = "store" /\ s.mine.call.file = f
    <3>1. s1.mine.step \in {"idle", "closed", "wipe"}
      BY <2>1 DEF Happens, Moves, Begins, Copies, MakesKey, FindsKey, Turns, DropsKey, Disposes, Rests,
             CipherEnds, GivesUp, NamesKey, FileSteps, WorkSteps
    <3>2. s1.mine.step \in {"idle", "closed"}
      BY <2>1, <3>1
    <3>3. s1.sealed = GivenUp(s.disk, s.sealed, s.mine)
      BY <2>1, <3>2, KindOfStep DEF Disposes, FileSteps, WorkSteps
    <3> QED BY <1>1, <2>1, <3>3 DEF GivenUp
  <2>2. CASE s.mine.step = "cipher" /\ s1.mine.step # "cipher" /\ s.mine.call.file = f
    <3>1. ~ (s.theirs.step \in FileSteps /\ s.theirs.call.file = f)
      BY <1>1, <2>2, FreeIsAlone DEF FileSteps, WorkSteps
    <3>2. ~ (s.theirs.step = "store" /\ s.theirs.call.file = f) /\ ~ Midway(s.theirs, f)
      BY <3>1 DEF Midway, FileSteps, WorkSteps
    <3>3. s.mine.call.before = Base(s, f)
      BY <1>1, <2>2, <3>2, BeforeIsUndone DEF KeyInv
    <3>4. Level(s, f) = s.mine.call.before
      BY <2>2, <3>2, <3>3 DEF Level
    <3>5. CASE s1.mine.step \in {"store", "remove_key"}
      <4>1. CipherEnds(s.disk, s1.disk, s.mine, s1.mine)
        BY <2>2, <3>5, KindOfStep
      <4>2. s1.mine.step = "store" /\ s1.mine.call = s.mine.call
        BY <1>1, <2>2, <3>5, <4>1 DEF CipherEnds, FileSteps, WorkSteps
      <4>3. s1.named = s.named
        BY <1>1, <2>2, <4>2, NamesAfter
      <4> QED BY <2>2, <3>4, <4>2, <4>3 DEF Level
    <3>6. CASE s1.mine.step \in {"idle", "closed"}
      <4>1. /\ GivesUp(s.disk, s1.disk, s.mine, s1.mine)
            /\ s1.sealed = GivenUp(s.disk, s.sealed, s.mine)
        BY <2>2, <3>6, KindOfStep DEF Disposes, FileSteps, WorkSteps
      <4>2. s1.disk = s.disk /\ s.disk[f] = s.mine.call.before
        BY <1>1, <2>2, <4>1 DEF GivesUp, GivenUp
      <4>3. s1.named = s.named
        BY <1>1, <2>2, <3>6, <4>2, NamesAfter
      <4>4. Level(s1, f) = s.disk[f]
        BY <1>1, <3>2, <3>6, <4>2 DEF Level, Base, Midway
      <4> QED BY <3>4, <4>2, <4>3, <4>4
    <3> QED BY <2>2, <3>5, <3>6, KindOfStep
  <2>3. CASE /\ ~ (s.mine.step = "store" /\ s.mine.call.file = f)
             /\ ~ (s.mine.step = "cipher" /\ s1.mine.step # "cipher" /\ s.mine.call.file = f)
    <3>1. Level(s1, f) = Level(s, f)
      BY <1>3, <2>3, LevelKept
    <3>2. CASE s.mine.step \in {"store", "cipher"} /\ s.mine.call.file # f
      <4>1. s1.named[f] = s.named[f]
        BY <1>1, <3>2, NamesOfOthers
      <4> QED BY <3>1, <4>1
    <3>3. CASE s.mine.step \notin {"cipher", "store", "remove_key"} \/ s1.mine.step = "cipher"
      <4>1. s1.named = s.named
        BY <1>1, <3>3, NamesAfter
      <4> QED BY <3>1, <4>1
    <3>4. CASE s.mine.step = "remove_key"
      <4>1. f \notin s.twice
        BY <1>1 DEF Proper
      <4>2. s.mine.call.file = f => s1.named = s.named
        BY <1>1, <3>4, <4>1, NamesAfter
      <4>3. s.mine.call.file # f => s1.named[f] = s.named[f]
        BY <1>1, NamesOfOthers
      <4> QED BY <3>1, <4>2, <4>3
    <3> QED BY <2>3, <3>2, <3>3, <3>4
  <2> QED BY <2>1, <2>2, <2>3
<1>6. \A p \in s.named[f] : s1.disk[p] = s.disk[p]
  BY <1>1, <1>5, NamedUntouched DEF Untouched
<1>7. Restores(s1.disk, s.named[f], <<Level(s, f)>> \o s.sealed[f])
  BY <1>3, <1>6, RestoresStill
<1> QED BY <1>2, <1>4, <1>5, <1>7 DEF Levels

LEMMA HistoryInvKept ==
  ASSUME NEW s, NEW s1, Happens(s, s1), KeysInv(s), HistoryInv(s)
  PROVE  HistoryInv(s1)
<1> SUFFICES ASSUME NEW f \in s1.free
             PROVE  /\ s1.sealed[f] # <<>> => f \in DOMAIN s1.disk
                    /\ Restores(s1.disk, s1.named[f], Levels(s1, f))
  BY DEF HistoryInv
<1>1. CASE s1.sealed[f] = <<>>
  <2>1. Levels(s1, f) = <<Level(s1, f)>> \o <<>>
    BY <1>1 DEF Levels
  <2>2. \A p, q \in s1.named[f] : p.name = q.name => p = q
    BY KeyNamesDiffer
  <2>3. Restores(s1.disk, s1.named[f], <<Level(s1, f)>> \o <<>>)
    BY <2>2, RestoresNothing
  <2> QED BY <1>1, <2>1, <2>3
<1>2. CASE s1.sealed[f] # <<>>
  BY <1>2, HistoryNamed, HistoryDecrypted, HistoryQuiet
<1> QED BY <1>1, <1>2

-----------------------------------------------------------------------------
(***************************************************************************)
(* The same situation, seen by the other process.                          *)
(***************************************************************************)
Turned(s, t) ==
  /\ t.disk = s.disk /\ t.named = s.named /\ t.sealed = s.sealed /\ t.calls = s.calls
  /\ t.free = s.free /\ t.safe = s.safe /\ t.twice = s.twice
  /\ t.mine = s.theirs /\ t.theirs = s.mine

LEMMA TurnedProper ==
  ASSUME NEW s, NEW t, Turned(s, t), Proper(s)
  PROVE  Proper(t)
BY DEF Turned, Proper, SameDocument

LEMMA TurnedBase ==
  ASSUME NEW s, NEW t, Turned(s, t), Proper(s), NEW f
  PROVE  Base(t, f) = Base(s, f)
<1>1. ~ (Midway(s.mine, f) /\ Midway(s.theirs, f))
  BY DEF Proper, Midway, UsedBy
<1> QED BY <1>1 DEF Turned, Base

LEMMA TurnedClaims ==
  ASSUME NEW s, NEW t, Turned(s, t)
  PROVE  /\ \A f : Claims(t, f) = Claims(s, f)
         /\ \A f : Danger(t, f) = Danger(s, f)
         /\ Claimed(t) = Claimed(s)
<1>1. \A f : Claims(t, f) = Claims(s, f)
  BY DEF Turned, Claims
<1>2. \A f : Danger(t, f) = Danger(s, f)
  BY <1>1 DEF Turned, Danger
<1>3. Claimed(t) = Claimed(s)
  BY <1>1 DEF Turned, Claimed
<1> QED BY <1>1, <1>2, <1>3

LEMMA TurnedKeysMade ==
  ASSUME NEW s, NEW t, Turned(s, t), Proper(s), NEW f
  PROVE  KeysMade(t, f) = KeysMade(s, f)
<1>1. s.calls \in Nat /\ Pending(s.mine, f) \in {0, 1} /\ Pending(s.theirs, f) \in {0, 1}
  BY DEF Proper, Pending
<1> QED BY <1>1 DEF Turned, KeysMade

LEMMA TurnedKeysInv ==
  ASSUME NEW s, NEW t, Turned(s, t), KeysInv(s)
  PROVE  KeysInv(t)
<1>1. NamesInv(t)
  BY DEF Turned, KeysInv, NamesInv
<1>2. ASSUME NEW v, KeyInv(s, v)
      PROVE  KeyInv(t, v)
  <2>1. /\ t.disk = s.disk /\ t.named = s.named
        /\ t.free = s.free /\ t.safe = s.safe /\ t.twice = s.twice
    BY DEF Turned
  <2> QED BY <1>2, <2>1 DEF KeyInv
<1> QED BY <1>1, <1>2 DEF Turned, KeysInv

LEMMA TurnedWholeInv ==
  ASSUME NEW s, NEW t, Turned(s, t), Proper(s), WholeInv(s)
  PROVE  WholeInv(t)
<1> SUFFICES ASSUME NEW f \in DOMAIN Documents, f \in t.safe, Documents[f] # <<>>
             PROVE  Whole(t, f) \/ LeftOver(t, f)
  BY DEF WholeInv
<1>1. /\ f \in s.safe /\ t.disk = s.disk /\ t.calls = s.calls
  BY DEF Turned
<1>2. /\ Base(t, f) = Base(s, f) /\ KeysMade(t, f) = KeysMade(s, f)
      /\ Claims(t, f) = Claims(s, f) /\ Danger(t, f) = Danger(s, f) /\ Claimed(t) = Claimed(s)
  BY TurnedBase, TurnedKeysMade, TurnedClaims
<1>3. Whole(s, f) => Whole(t, f)
  BY <1>1, <1>2 DEF Whole
<1>4. LeftOver(s, f) => LeftOver(t, f)
  BY <1>1, <1>2 DEF LeftOver
<1> QED BY <1>1, <1>3, <1>4 DEF WholeInv

LEMMA TurnedHistoryInv ==
  ASSUME NEW s, NEW t, Turned(s, t), Proper(s), HistoryInv(s)
  PROVE  HistoryInv(t)
<1> SUFFICES ASSUME NEW f \in t.free
             PROVE  /\ t.sealed[f] # <<>> => f \in DOMAIN t.disk
                    /\ Restores(t.disk, t.named[f], Levels(t, f))
  BY DEF HistoryInv
<1>1. f \in s.free /\ t.disk = s.disk /\ t.named = s.named /\ t.sealed = s.sealed
  BY DEF Turned
<1>2. ~ (s.mine.step = "store" /\ s.mine.call.file = f /\ s.theirs.step = "store" /\ s.theirs.call.file = f)
  BY <1>1 DEF Proper, SameDocument, FileSteps, WorkSteps
<1>3. Level(t, f) = Level(s, f)
  BY <1>2, TurnedBase DEF Turned, Level
<1> QED BY <1>1, <1>3 DEF HistoryInv, Levels

-----------------------------------------------------------------------------
(***************************************************************************)
(* At the start.                                                           *)
(***************************************************************************)
Fresh(s) ==
  /\ s.disk = Documents /\ s.named = [f \in DocumentPath |-> {}]
  /\ s.sealed = [f \in DocumentPath |-> <<>>] /\ s.calls \in Nat
  /\ s.mine.step = "closed" /\ s.theirs.step = "closed"
  /\ s.free \subseteq DocumentPath

LEMMA FreshInv ==
  ASSUME NEW s, Fresh(s)
  PROVE  KeysInv(s) /\ WholeInv(s) /\ HistoryInv(s)
<1>1. KeysInv(s)
  BY ServerAssumption DEF Fresh, KeysInv, NamesInv, KeyInv
<1>2. \A f : ~ Midway(s.mine, f) /\ ~ Midway(s.theirs, f)
  BY DEF Fresh, Midway
<1>3. \A f : Base(s, f) = Documents[f]
  BY <1>2 DEF Fresh, Base
<1>4. \A f \in DocumentPath : Claims(s, f) = {}
  BY DEF Fresh, Claims, Own
<1>5. \A f : KeysMade(s, f) \in Nat
  BY DEF Fresh, KeysMade, Pending
<1>6. ASSUME NEW f \in DOMAIN Documents
      PROVE  Whole(s, f)
  <2>1. Documents[f] \in Content /\ f \in DocumentPath
    BY ServerAssumption
  <2>2. Leads(s.disk, Documents[f], Documents[f], KeysMade(s, f), {}, Danger(s, f))
    BY <1>5, <2>1, LeadsNowhere
  <2> QED BY <1>3, <1>4, <2>1, <2>2 DEF Whole
<1>7. WholeInv(s)
  BY <1>6 DEF WholeInv
<1>8. ASSUME NEW f \in s.free
      PROVE  s.sealed[f] = <<>> /\ Restores(s.disk, s.named[f], Levels(s, f))
  <2>1. s.sealed[f] = <<>> /\ s.named[f] = {}
    BY DEF Fresh
  <2>2. \A p, q \in s.named[f] : p.name = q.name => p = q
    BY <2>1
  <2>3. Restores(s.disk, s.named[f], <<Level(s, f)>> \o <<>>)
    BY <2>2, RestoresNothing
  <2> QED BY <2>1, <2>3 DEF Levels
<1>9. HistoryInv(s)
  BY <1>8 DEF HistoryInv
<1> QED BY <1>1, <1>7, <1>9
=============================================================================
