------------------------ MODULE MCServerCommunicator ------------------------
(***************************************************************************)
(* Chunks are sets of atoms and the gamma is the symmetric difference: a   *)
(* portion of a document has an atom of its own, and so has the key of     *)
(* every call, as if long keys never coincided.                            *)
(***************************************************************************)
EXTENDS ServerVault, TLC

CONSTANTS docs, keysA, keysB, relativeA, a, b, c, t1, t2, t3

MCDirectory == {docs, keysA, keysB}
MCDocumentName == {a, b}
MCThreeNames == {a, b, c}
MCTempName == {t1, t2, t3}

\* Atoms 0..MaxCalls belong to keys, 10 and 20 to the documents.
MCChunk == SUBSET ((0..MaxCalls) \cup {10, 20})
MCZeroChunk == {}
MCGammaChunk(m, k) == (m \ k) \cup (k \ m)
MCMd5(content) == content
MCKeyName == Content
MCGeneratedKeys(n, content) == {[i \in DOMAIN content |-> {n}]}

\* Temporary names are interchangeable.
MCSymmetry == Permutations(MCTempName)

\* The default folder has a relative name and an absolute one, which are two strings.
MCStoragePath == {relativeA, keysA, keysB}
MCResolve(s) == IF s = relativeA THEN keysA ELSE s

MCDocuments == [p \in {At(docs, n) : n \in {a, b}} |->
                  IF p.name = a THEN <<{10}, {}>> ELSE <<{20}>>]
\* Keys that may coincide, so that ciphered contents and the names of keys collide.
MCCollidingKeys(n, content) ==
  {[i \in DOMAIN content |-> atoms] : atoms \in {{0}, {0, 10, 20}}}

\* Two documents of one portion.
MCSmallDocuments == [p \in {At(docs, n) : n \in {a, b}} |->
                       IF p.name = a THEN <<{10}>> ELSE <<{20}>>]

\* One document; a second name it can be moved or copied to.
MCOneDocument == [p \in {At(docs, a)} |-> <<{10}, {}>>]
=============================================================================
