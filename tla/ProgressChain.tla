--------------------------- MODULE ProgressChain ---------------------------
(***************************************************************************)
(* How progress finds its way out of the kernel.  The communicator holds   *)
(* the client's handler and owns two dispatchers that forward to it, one   *)
(* for the core and one for the wiper; the core owns a third one, which    *)
(* forwards what the cipher reports to the core's own handler.  A core or  *)
(* a wiper that has just been built knows no dispatcher.                   *)
(***************************************************************************)
EXTENDS Integers, Sequences

CONSTANTS Handler, NoHandler

ASSUME HandlerAssumption == NoHandler \notin Handler

Target == Handler \cup {NoHandler}

Source == {"server", "core", "cipher", "wiper"}

(***************************************************************************)
(* The three pointers to a handler that the communicator and its two       *)
(* dispatchers keep, and whether the core, the cipher and the wiper were   *)
(* given their dispatcher.                                                 *)
(***************************************************************************)
Chain == [server_progress : Target, core_progress : Target, wiper_progress : Target,
          core : BOOLEAN, cipher : BOOLEAN, wiper : BOOLEAN]

NewChain == [server_progress |-> NoHandler, core_progress |-> NoHandler,
             wiper_progress |-> NoHandler,
             core |-> FALSE, cipher |-> FALSE, wiper |-> FALSE]

(***************************************************************************)
(* Where a report arrives; without a handler it is answered "quiet".  A    *)
(* dispatcher forwards to the pointer it keeps, if the part that reports   *)
(* was given the dispatcher at all.                                        *)
(***************************************************************************)
\* CoreProgressDispatcher.
CoreReaches(chain) == IF chain.core THEN chain.core_progress ELSE NoHandler

\* CipherProgressDispatcher, whose pointer is the core's own handler.
CipherReaches(chain) == IF chain.cipher THEN CoreReaches(chain) ELSE NoHandler

\* WiperProgressDispatcher.
WiperReaches(chain) == IF chain.wiper THEN chain.wiper_progress ELSE NoHandler

Reaches(chain, source) ==
  [server |-> chain.server_progress, core |-> CoreReaches(chain),
   cipher |-> CipherReaches(chain), wiper |-> WiperReaches(chain)][source]

\* A mutation of WithHandler: the wiper is not given its dispatcher again.
WithHandlerExceptWiper(chain, handler) ==
  [server_progress |-> handler, core_progress |-> handler, wiper_progress |-> handler,
   core |-> TRUE, cipher |-> TRUE, wiper |-> chain.wiper]

\* ServerCommunicator::ISetProgressHandler, with AbsoluteSecurityCore's.
WithHandler(chain, handler) ==
  [server_progress |-> handler, core_progress |-> handler, wiper_progress |-> handler,
   core |-> TRUE, cipher |-> TRUE, wiper |-> TRUE]

\* ISetWipeMethod builds a new wiper.
WithNewWiper(chain) == [chain EXCEPT !.wiper = FALSE]

-----------------------------------------------------------------------------
(***************************************************************************)
(* What a call reports of a file of n portions, in order.  A report of a   *)
(* portion counts in portions; an operation is started with its size.      *)
(***************************************************************************)
Report == [source : Source, kind : {"started", "portion"}, size : Nat]

Started(source, n) == <<[source |-> source, kind |-> "started", size |-> n]>>

Portions(source, n) == [i \in 1..n |-> [source |-> source, kind |-> "portion", size |-> 1]]

\* CopyFile reports also the read that returns nothing.
BackupReports(n) ==
  Started("server", n) \o Portions("server", n)
    \o <<[source |-> "server", kind |-> "portion", size |-> 0]>>

\* A wiper that overwrites reports its portions, one that removes reports nothing.
EncryptReports(n, wiped) ==
  BackupReports(n) \o Started("server", n)
    \o Started("core", 0)
    \o Started("core", n) \o Portions("core", n)
    \o Started("core", n) \o Portions("cipher", n)
    \o Started("server", n) \o Portions("wiper", wiped)

DecryptReports(n) ==
  BackupReports(n) \o Started("server", n)
    \o Started("core", 0)
    \o Started("core", n) \o Portions("cipher", n)
    \o Started("core", n)
    \o Started("server", n)

CallReports(n) == {EncryptReports(n, 0), EncryptReports(n, n), DecryptReports(n)}
=============================================================================
