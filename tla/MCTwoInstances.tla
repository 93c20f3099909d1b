--------------------------- MODULE MCTwoInstances ---------------------------
(***************************************************************************)
(* Chunks are sets of atoms, as in MCServerCommunicator: a document holds  *)
(* its own name, and the keys of the two processes have different atoms.   *)
(***************************************************************************)
EXTENDS TwoInstances, TLC

CONSTANTS docs, keysA, keysB, a, b, t1, t2, t3

MCDirectory == {docs, keysA, keysB}
MCDocumentName == {a, b}
MCTempName == {t1, t2, t3}

MCChunk == SUBSET ((0..2 * MaxCalls) \cup DocumentName)
MCZeroChunk == {}
MCGammaChunk(m, k) == (m \ k) \cup (k \ m)
MCMd5(content) == content
MCKeyName == Content
MCKeysOfFirst(n, content) == {[i \in DOMAIN content |-> {n}]}
MCKeysOfSecond(n, content) == {[i \in DOMAIN content |-> {MaxCalls + n}]}

MCStoragePath == {keysA, keysB}
MCResolve(s) == s

\* Two portions, so that the cipher of one process has a middle for the other one to meet.
MCDocuments == [p \in {At(docs, n) : n \in MCDocumentName} |-> <<{p.name}, {p.name}>>]

\* Temporary names are interchangeable, and so are the documents.
MCSymmetry == Permutations(MCTempName) \cup Permutations(MCDocumentName)
=============================================================================
