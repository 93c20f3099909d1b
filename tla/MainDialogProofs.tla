-------------------------- MODULE MainDialogProofs --------------------------
(***************************************************************************)
(* The main dialog's types and buttons, for any documents, key folders,    *)
(* wipe methods and failures.                                              *)
(***************************************************************************)
EXTENDS MainDialog, TLAPS

Entry == [inside : Inside \cup {Absent}, locks : Seq(Folder)]

LEMMA LocksReplaced ==
  ASSUME VaultTypeOK, NEW f \in Document, NEW locks \in Seq(Folder)
  PROVE  [vault EXCEPT ![f].locks = locks] \in [Document -> Entry]
<1>1. vault[f] \in Entry
  BY DEF VaultTypeOK, Entry
<1>2. [vault[f] EXCEPT !.locks = locks] \in Entry
  BY <1>1 DEF Entry
<1>3. [vault EXCEPT ![f].locks = locks] = [vault EXCEPT ![f] = [vault[f] EXCEPT !.locks = locks]]
  BY DEF VaultTypeOK
<1> QED BY <1>2, <1>3 DEF VaultTypeOK, Entry

LEMMA LocksOfLocked ==
  ASSUME VaultTypeOK, NEW f \in Document, Locked(f)
  PROVE  Tail(vault[f].locks) \in Seq(Folder)
BY DEF VaultTypeOK, Locked, LockedIn

LEMMA EffectType ==
  ASSUME VaultTypeOK, work \in Call, NEW f \in Document, Lock(f) \/ Unlock(f)
  PROVE  VaultTypeOK' /\ work' \in Call
<1>1. PICK locks \in Seq(Folder) : Effect(f, locks)
  <2>1. CASE Lock(f)
    <3>1. <<FolderInUse>> \o vault[f].locks \in Seq(Folder)
      BY VaultAssumption DEF VaultTypeOK, FolderInUse
    <3> QED BY <2>1, <3>1 DEF Lock
  <2>2. CASE Unlock(f)
    BY <2>2, LocksOfLocked DEF Unlock
  <2> QED BY <2>1, <2>2
<1>2. work' \in Call
  BY <1>1 DEF Effect, Call
<1>3. vault' \in [Document -> Entry]
  BY <1>1, LocksReplaced DEF Effect
<1> QED BY <1>1, <1>2, <1>3 DEF Effect, VaultTypeOK, Entry

LEMMA FailType ==
  ASSUME VaultTypeOK, Fail
  PROVE  VaultTypeOK' /\ work' = Idle
<1>1. vault' \in [Document -> Entry]
  <2>1. CASE UNCHANGED vault
    BY <2>1 DEF VaultTypeOK, Entry
  <2>2. ASSUME NEW f \in Document, Ruined(f)
        PROVE  vault' \in [Document -> Entry]
    <3>1. PICK inside \in Inside : vault' = [vault EXCEPT ![f] = Unlocked(inside)]
      BY <2>2 DEF Ruined
    <3>2. Unlocked(inside) \in Entry
      BY DEF Unlocked, Entry
    <3> QED BY <3>1, <3>2 DEF VaultTypeOK, Entry
  <2>3. ASSUME NEW f \in Document, Locked(f), vault' = [vault EXCEPT ![f].locks = Tail(@)]
        PROVE  vault' \in [Document -> Entry]
    BY <2>3, LocksOfLocked, LocksReplaced
  <2> QED BY <2>1, <2>2, <2>3 DEF Fail
<1> QED BY <1>1 DEF Fail, VaultTypeOK, Entry

LEMMA MoveType ==
  ASSUME VaultTypeOK, NEW f \in Document, NEW g \in Document, Move(f, g)
  PROVE  VaultTypeOK'
<1>1. vault[f] \in Entry /\ vault[g] \in Entry
  BY DEF VaultTypeOK, Entry
<1>2. vault' \in [Document -> Entry]
  BY <1>1 DEF VaultTypeOK, Move, Entry
<1> QED BY <1>2 DEF VaultTypeOK, Move, Entry

LEMMA SettingType ==
  ASSUME VaultTypeOK,
         \/ SaveStorage \/ (\E s \in Storage : UseStorage(s))
         \/ \E p \in Place : Restart(p) \/ GoTo(p)
  PROVE  VaultTypeOK'
BY DEF VaultTypeOK, SaveStorage, UseStorage, Restart, GoTo

LEMMA BeginType ==
  ASSUME VaultTypeOK, NEW operation \in Operation, NEW f \in Document, Begin(operation, f)
  PROVE  VaultTypeOK' /\ work' \in Call /\ work'.file = f /\ ~ work'.effective
BY DEF VaultTypeOK, Begin, Call

LEMMA ReturnType ==
  ASSUME VaultTypeOK, Return \/ Refuse
  PROVE  VaultTypeOK' /\ work' = Idle
BY DEF VaultTypeOK, Return, Refuse

-----------------------------------------------------------------------------
LEMMA ButtonsUpdated ==
  ASSUME UpdateButtonsState,
         encrypt_enabled \in BOOLEAN, decrypt_enabled \in BOOLEAN
  PROVE  /\ encrypt_enabled' \in BOOLEAN /\ decrypt_enabled' \in BOOLEAN
         /\ current' \in BOOLEAN
         /\ current' => ButtonsFit'
<1>1. TextLocked' \in BOOLEAN
  BY DEF TextLocked
<1>2. Readable' => TextLocked' = LockedIn(text, place)'
  BY DEF TextLocked, Readable, Locked, LockedIn
<1> QED BY <1>1, <1>2, Zenon DEF UpdateButtonsState, ButtonsFit, ButtonsFitIn

LEMMA ButtonsKept ==
  ASSUME ButtonsFit,
         UNCHANGED <<vault, storage, place, text, encrypt_enabled, decrypt_enabled>>
  PROVE  ButtonsFit'
BY DEF ButtonsFit, ButtonsFitIn, Readable, LockedIn

LEMMA PlaceKept ==
  ASSUME RestorerKeepsPlace, screen # "browsing", screen' # "browsing",
         screen = "closed" => screen' = "closed",
         UNCHANGED <<place, restorer, started>>
  PROVE  RestorerKeepsPlace' /\ ButtonsFitOnReturn'
BY DEF RestorerKeepsPlace, SessionKeepsPlace, ButtonsFitOnReturn

LEMMA VaultKept == VaultTypeOK /\ UNCHANGED vaultVars => VaultTypeOK'
BY DEF VaultTypeOK, vaultVars

LEMMA OpeningType ==
  ASSUME VaultTypeOK, wiper \in WipeMethod
  PROVE  Opening \in [settings : [storage : Storage, saved : Storage, wiper : WipeMethod],
                      failures : Nat]
BY DEF VaultTypeOK, Opening, Settings

LEMMA InitInvariant == Init => IInv
<1> SUFFICES ASSUME Init PROVE IInv
  OBVIOUS
<1>1. \A inside \in Inside \cup {Absent} : Unlocked(inside) \in Entry
  BY DEF Unlocked, Entry
<1>2. VaultTypeOK
  <2>1. vault \in [Document -> Entry]
    BY <1>1 DEF Init, VaultInit
  <2> QED BY <2>1, VaultAssumption DEF Init, VaultInit, VaultTypeOK, Entry
<1>3. TypeOK
  BY <1>2, OpeningType DEF Init, TypeOK, VaultTypeOK
<1> QED BY <1>3 DEF Init, VaultInit, IInv, WorkMatchesScreen, ButtonsFitUntilEffect,
                   NothingPromisedWhileSaving, RestorerKeepsPlace, SessionKeepsPlace,
                   ButtonsFitOnReturn

-----------------------------------------------------------------------------
LEMMA LaunchStep ==
  ASSUME IInv, NEW p \in Place, Launch(p)
  PROVE  IInv'
<1>1. VaultTypeOK'
  BY SettingType DEF IInv, TypeOK, Launch
<1>2. /\ encrypt_enabled' \in BOOLEAN /\ decrypt_enabled' \in BOOLEAN
      /\ current' \in BOOLEAN
      /\ current' => ButtonsFit'
  BY ButtonsUpdated DEF IInv, TypeOK, Launch
<1>3. TypeOK'
  BY <1>1, <1>2 DEF IInv, TypeOK, Launch
<1>4. WorkMatchesScreen'
  BY DEF Launch, Restart, WorkMatchesScreen
<1>5. NothingPromisedWhileSaving'
  BY DEF Launch, NothingPromisedWhileSaving
<1>6. RestorerKeepsPlace' /\ ButtonsFitOnReturn'
  BY DEF Launch, Restart, RestorerKeepsPlace, SessionKeepsPlace, ButtonsFitOnReturn
<1> QED BY <1>2, <1>3, <1>4, <1>5, <1>6, Zenon DEF IInv, ButtonsFitUntilEffect

LEMMA EditStep ==
  ASSUME IInv, NEW t \in Document \cup {NoDocument}, Edit(t)
  PROVE  IInv'
<1>1. VaultTypeOK'
  BY VaultKept DEF IInv, TypeOK, Edit
<1>2. /\ encrypt_enabled' \in BOOLEAN /\ decrypt_enabled' \in BOOLEAN
      /\ current' \in BOOLEAN
      /\ current' => ButtonsFit'
  BY ButtonsUpdated DEF IInv, TypeOK, Edit
<1>3. TypeOK'
  BY <1>1, <1>2 DEF IInv, TypeOK, Edit, placeVars
<1>4. WorkMatchesScreen'
  BY DEF IInv, Edit, WorkMatchesScreen, vaultVars
<1>5. NothingPromisedWhileSaving'
  BY DEF Edit, NothingPromisedWhileSaving
<1>6. RestorerKeepsPlace' /\ ButtonsFitOnReturn'
  BY PlaceKept DEF IInv, Edit, vaultVars, placeVars
<1> QED BY <1>2, <1>3, <1>4, <1>5, <1>6, Zenon DEF IInv, ButtonsFitUntilEffect

LEMMA BrowseOpensStep ==
  ASSUME IInv, BrowseOpens
  PROVE  IInv'
<1>1. VaultTypeOK'
  BY VaultKept DEF IInv, TypeOK, BrowseOpens
<1>2. TypeOK'
  BY <1>1 DEF IInv, TypeOK, VaultTypeOK, BrowseOpens, buttonVars
<1>3. WorkMatchesScreen'
  BY DEF IInv, BrowseOpens, WorkMatchesScreen, vaultVars
<1>4. RestorerKeepsPlace'
  BY DEF IInv, BrowseOpens, RestorerKeepsPlace, SessionKeepsPlace
<1>5. ButtonsFitOnReturn'
  BY DEF IInv, BrowseOpens, ButtonsFitUntilEffect, ButtonsFitOnReturn, ButtonsFit,
         ButtonsFitIn, Readable, LockedIn, vaultVars, buttonVars
<1> QED BY <1>2, <1>3, <1>4, <1>5
        DEF IInv, BrowseOpens, ButtonsFitUntilEffect, NothingPromisedWhileSaving

LEMMA BrowseGoesToStep ==
  ASSUME IInv, NEW p \in Place, BrowseGoesTo(p)
  PROVE  IInv'
<1>1. VaultTypeOK'
  BY SettingType DEF IInv, TypeOK, BrowseGoesTo
<1>2. TypeOK'
  BY <1>1 DEF IInv, TypeOK, BrowseGoesTo, dialogVars, buttonVars, placeVars
<1>3. WorkMatchesScreen'
  BY DEF IInv, BrowseGoesTo, GoTo, WorkMatchesScreen, dialogVars
<1>4. RestorerKeepsPlace'
  BY DEF IInv, BrowseGoesTo, RestorerKeepsPlace, dialogVars, placeVars
<1>5. ButtonsFitOnReturn'
  BY DEF IInv, BrowseGoesTo, GoTo, ButtonsFitOnReturn, ButtonsFitIn, Readable, LockedIn,
         dialogVars, buttonVars, placeVars
<1> QED BY <1>2, <1>3, <1>4, <1>5
        DEF IInv, BrowseGoesTo, ButtonsFitUntilEffect, NothingPromisedWhileSaving, dialogVars

\* The destructor of the CWDRestorer.
LEMMA RestoredPlace ==
  ASSUME IInv, screen = "browsing", Restored
  PROVE  /\ VaultTypeOK' /\ work' = Idle
         /\ place' = started /\ restorer' = NoPlace
         /\ UNCHANGED <<vault, storage>>
<1>1. restorer \in Place
  BY DEF IInv, TypeOK, RestorerKeepsPlace
<1> QED BY <1>1, SettingType DEF IInv, TypeOK, Restored, GoTo, RestorerKeepsPlace

LEMMA BrowseSelectsStep ==
  ASSUME IInv, NEW t \in Document, BrowseSelects(t)
  PROVE  IInv'
<1>1. VaultTypeOK' /\ work' = Idle /\ place' = started /\ restorer' = NoPlace
  BY RestoredPlace DEF BrowseSelects
<1>2. /\ encrypt_enabled' \in BOOLEAN /\ decrypt_enabled' \in BOOLEAN
      /\ current' \in BOOLEAN
      /\ current' => ButtonsFit'
  BY ButtonsUpdated DEF IInv, TypeOK, BrowseSelects
<1>3. TypeOK'
  BY <1>1, <1>2 DEF IInv, TypeOK, BrowseSelects
<1>4. WorkMatchesScreen' /\ NothingPromisedWhileSaving'
  BY <1>1 DEF BrowseSelects, WorkMatchesScreen, NothingPromisedWhileSaving
<1>5. RestorerKeepsPlace' /\ ButtonsFitOnReturn'
  BY <1>1 DEF BrowseSelects, RestorerKeepsPlace, SessionKeepsPlace, ButtonsFitOnReturn
<1> QED BY <1>2, <1>3, <1>4, <1>5, Zenon DEF IInv, ButtonsFitUntilEffect

LEMMA BrowseCancelledStep ==
  ASSUME IInv, BrowseCancelled
  PROVE  IInv'
<1>1. /\ VaultTypeOK' /\ work' = Idle /\ place' = started /\ restorer' = NoPlace
      /\ UNCHANGED <<vault, storage>>
  BY RestoredPlace DEF BrowseCancelled
<1>2. TypeOK'
  BY <1>1 DEF IInv, TypeOK, BrowseCancelled, buttonVars
<1>3. WorkMatchesScreen' /\ NothingPromisedWhileSaving'
  BY <1>1 DEF BrowseCancelled, WorkMatchesScreen, NothingPromisedWhileSaving
<1>4. RestorerKeepsPlace' /\ ButtonsFitOnReturn'
  BY <1>1 DEF BrowseCancelled, RestorerKeepsPlace, SessionKeepsPlace, ButtonsFitOnReturn
<1>5. current' => ButtonsFit'
  BY <1>1 DEF IInv, BrowseCancelled, RestorerKeepsPlace, ButtonsFitOnReturn, ButtonsFit,
              ButtonsFitIn, Readable, LockedIn, buttonVars
<1> QED BY <1>2, <1>3, <1>4, <1>5 DEF IInv, ButtonsFitUntilEffect

LEMMA RestoringFailsStep ==
  ASSUME IInv, RestoringFails
  PROVE  IInv'
<1>1. VaultTypeOK' /\ work' = Idle
  BY FailType DEF IInv, TypeOK, RestoringFails
<1>2. TypeOK'
  BY <1>1 DEF IInv, TypeOK, RestoringFails, buttonVars
<1> QED BY <1>1, <1>2
        DEF IInv, RestoringFails, WorkMatchesScreen, ButtonsFitUntilEffect,
            NothingPromisedWhileSaving, RestorerKeepsPlace, SessionKeepsPlace,
            ButtonsFitOnReturn

LEMMA PressStep ==
  ASSUME IInv, NEW operation \in Operation, Press(operation)
  PROVE  IInv'
<1>1. text \in Document
  BY DEF Press, Readable
<1>2. VaultTypeOK' /\ work' \in Call /\ work'.file = text /\ ~ work'.effective
  BY <1>1, BeginType DEF IInv, TypeOK, Press
<1>3. TypeOK'
  BY <1>2 DEF IInv, TypeOK, Press, buttonVars, placeVars
<1>4. WorkMatchesScreen'
  BY <1>2 DEF Press, WorkMatchesScreen, Call
<1>5. ButtonsFitUntilEffect'
  <2>1. current' => current /\ screen = "main"
    BY DEF Press, buttonVars
  <2>2. UNCHANGED <<vault, storage, place, text, encrypt_enabled, decrypt_enabled>>
    BY DEF Press, Begin, buttonVars
  <2> QED BY <2>1, <2>2, ButtonsKept DEF IInv, ButtonsFitUntilEffect
<1>6. NothingPromisedWhileSaving'
  BY DEF Press, NothingPromisedWhileSaving
<1>7. RestorerKeepsPlace' /\ ButtonsFitOnReturn'
  BY PlaceKept DEF IInv, Press, Begin, placeVars
<1> QED BY <1>3, <1>4, <1>5, <1>6, <1>7 DEF IInv

LEMMA TakesEffectStep ==
  ASSUME IInv, TakesEffect
  PROVE  IInv'
<1>1. PICK f \in Document : Lock(f) \/ Unlock(f)
  BY DEF TakesEffect
<1>2. work \in Call /\ work.file = text
  BY DEF IInv, TakesEffect, WorkMatchesScreen
<1>3. VaultTypeOK' /\ work' \in Call
  BY <1>1, <1>2, EffectType DEF IInv, TypeOK
<1>4. work'.file = text /\ work'.effective
  BY <1>1, <1>2 DEF Lock, Unlock, Effect, Call
<1>5. UNCHANGED dialogVars
  BY DEF TakesEffect
<1>6. TypeOK'
  BY <1>3, <1>5 DEF IInv, TypeOK, dialogVars, buttonVars, placeVars
<1>7. NothingPromisedWhileSaving'
  BY DEF TakesEffect, dialogVars, NothingPromisedWhileSaving
<1>8. RestorerKeepsPlace' /\ ButtonsFitOnReturn'
  <2>1. UNCHANGED place
    BY <1>1 DEF Lock, Unlock, Effect
  <2> QED BY <2>1, <1>5, PlaceKept DEF IInv, TakesEffect, dialogVars, placeVars
<1> QED BY <1>3, <1>4, <1>5, <1>6, <1>7, <1>8
        DEF IInv, TakesEffect, WorkMatchesScreen, ButtonsFitUntilEffect, dialogVars

LEMMA SucceedsStep ==
  ASSUME IInv, Succeeds
  PROVE  IInv'
<1>1. VaultTypeOK' /\ work' = Idle
  BY ReturnType DEF IInv, TypeOK, Succeeds
<1>2. /\ encrypt_enabled' \in BOOLEAN /\ decrypt_enabled' \in BOOLEAN
      /\ current' \in BOOLEAN
      /\ current' => ButtonsFit'
  BY ButtonsUpdated DEF IInv, TypeOK, Succeeds
<1>3. text \in Document
  BY DEF IInv, Succeeds, WorkMatchesScreen, Call
<1>4. TypeOK'
  BY <1>1, <1>2, <1>3 DEF IInv, TypeOK, Succeeds, placeVars
<1>5. WorkMatchesScreen'
  BY <1>1 DEF Succeeds, WorkMatchesScreen
<1>6. NothingPromisedWhileSaving'
  BY DEF Succeeds, NothingPromisedWhileSaving
<1>7. RestorerKeepsPlace' /\ ButtonsFitOnReturn'
  BY PlaceKept DEF IInv, Succeeds, Return, placeVars
<1> QED BY <1>2, <1>4, <1>5, <1>6, <1>7, Zenon DEF IInv, ButtonsFitUntilEffect

LEMMA FailsStep ==
  ASSUME IInv, Fails
  PROVE  IInv'
<1>1. VaultTypeOK' /\ work' = Idle
  BY ReturnType, FailType DEF IInv, TypeOK, Fails
<1>2. TypeOK'
  BY <1>1 DEF IInv, TypeOK, Fails, placeVars
<1>3. WorkMatchesScreen'
  BY <1>1 DEF Fails, WorkMatchesScreen
<1>4. ButtonsFitUntilEffect'
  <2>1. CASE Refuse /\ UNCHANGED current
    <3>1. UNCHANGED <<vault, storage, place, text, encrypt_enabled, decrypt_enabled>>
      BY <2>1 DEF Fails, Refuse
    <3>2. current' => ButtonsFit
      BY <2>1 DEF IInv, Fails, Refuse, ButtonsFitUntilEffect
    <3> QED BY <3>1, <3>2, ButtonsKept DEF ButtonsFitUntilEffect
  <2>2. CASE current' = FALSE
    BY <2>2 DEF ButtonsFitUntilEffect
  <2> QED BY <2>1, <2>2 DEF Fails
<1>5. NothingPromisedWhileSaving'
  BY DEF Fails, NothingPromisedWhileSaving
<1>6. RestorerKeepsPlace' /\ ButtonsFitOnReturn'
  BY PlaceKept DEF IInv, Fails, Refuse, Fail, placeVars
<1> QED BY <1>2, <1>3, <1>4, <1>5, <1>6 DEF IInv

LEMMA DiesStep ==
  ASSUME IInv, Dies
  PROVE  IInv'
<1>1. VaultTypeOK' /\ work' = Idle
  BY FailType DEF IInv, TypeOK, Dies
<1>2. TypeOK'
  BY <1>1 DEF IInv, TypeOK, Dies, buttonVars, placeVars
<1>3. RestorerKeepsPlace' /\ ButtonsFitOnReturn'
  BY PlaceKept DEF IInv, Dies, Fail, placeVars
<1> QED BY <1>1, <1>2, <1>3 DEF IInv, Dies, WorkMatchesScreen, ButtonsFitUntilEffect,
                                NothingPromisedWhileSaving

LEMMA OpenAndCloseStep ==
  ASSUME IInv, OpenSettings \/ CloseSettings \/ CloseMain
  PROVE  IInv'
<1>1. UNCHANGED <<vaultVars, text, buttonVars, last_used, wiper, placeVars>>
  BY DEF OpenSettings, CloseSettings, CloseMain
<1>2. VaultTypeOK'
  BY <1>1, VaultKept DEF IInv, TypeOK
<1>3. TypeOK'
  BY <1>1, <1>2, OpeningType
     DEF IInv, TypeOK, OpenSettings, CloseSettings, CloseMain, buttonVars,
                placeVars
<1>4. WorkMatchesScreen'
  BY <1>1 DEF IInv, WorkMatchesScreen, OpenSettings, CloseSettings, CloseMain, vaultVars
<1>5. ButtonsFitUntilEffect'
  <2>1. current' /\ screen' \in {"main", "settings", "progress"} => ButtonsFit
    BY <1>1 DEF IInv, ButtonsFitUntilEffect, OpenSettings, CloseSettings, CloseMain,
                buttonVars
  <2> QED BY <1>1, <2>1, ButtonsKept DEF ButtonsFitUntilEffect, vaultVars, buttonVars
<1>6. NothingPromisedWhileSaving'
  BY DEF OpenSettings, CloseSettings, CloseMain, NothingPromisedWhileSaving
<1>7. RestorerKeepsPlace' /\ ButtonsFitOnReturn'
  BY <1>1, PlaceKept DEF IInv, OpenSettings, CloseSettings, CloseMain, vaultVars, placeVars
<1> QED BY <1>3, <1>4, <1>5, <1>6, <1>7 DEF IInv

LEMMA ConfirmStep ==
  ASSUME IInv, NEW method \in WipeMethod, NEW s \in Storage, Confirm(method, s)
  PROVE  IInv'
<1>1. CASE s = storage
  <2>1. screen' = "main" /\ UNCHANGED <<vaultVars, current>>
    BY <1>1 DEF Confirm
  <2>2. VaultTypeOK'
    BY <2>1, VaultKept DEF IInv, TypeOK
  <2>3. TypeOK'
    BY <2>1, <2>2 DEF IInv, TypeOK, Confirm, placeVars
  <2>4. WorkMatchesScreen'
    BY <2>1 DEF IInv, WorkMatchesScreen, Confirm, vaultVars
  <2>5. ButtonsFitUntilEffect'
    <3>1. current' => ButtonsFit
      BY <2>1 DEF IInv, ButtonsFitUntilEffect, Confirm
    <3> QED BY <2>1, <3>1, ButtonsKept DEF Confirm, ButtonsFitUntilEffect, vaultVars
  <2>6. NothingPromisedWhileSaving'
    BY <2>1 DEF NothingPromisedWhileSaving
  <2>7. RestorerKeepsPlace' /\ ButtonsFitOnReturn'
    BY <2>1, PlaceKept DEF IInv, Confirm, vaultVars, placeVars
  <2> QED BY <2>3, <2>4, <2>5, <2>6, <2>7 DEF IInv
<1>2. CASE s # storage
  <2>1. screen' = "saving" /\ UseStorage(s) /\ current' = FALSE
    BY <1>2 DEF Confirm
  <2>2. VaultTypeOK'
    BY <2>1, SettingType DEF IInv, TypeOK
  <2>3. TypeOK'
    BY <2>1, <2>2 DEF IInv, TypeOK, Confirm, placeVars
  <2>4. RestorerKeepsPlace' /\ ButtonsFitOnReturn'
    BY <2>1, PlaceKept DEF IInv, Confirm, UseStorage, placeVars
  <2> QED BY <2>1, <2>3, <2>4
          DEF IInv, WorkMatchesScreen, ButtonsFitUntilEffect, UseStorage,
              NothingPromisedWhileSaving
<1> QED BY <1>1, <1>2

LEMMA ConfirmFailsStep ==
  ASSUME IInv, NEW method \in WipeMethod, ConfirmFails(method)
  PROVE  IInv'
<1>1. VaultTypeOK' /\ work' = Idle
  BY FailType DEF IInv, TypeOK, ConfirmFails
<1>2. UNCHANGED <<vault, storage, place, screen, text, buttonVars>>
  <2>1. work = Idle
    BY DEF IInv, ConfirmFails, WorkMatchesScreen
  <2>2. UNCHANGED vault
    BY <2>1 DEF ConfirmFails, Fail, Pending, Idle, Operation
  <2> QED BY <2>2 DEF ConfirmFails, Fail
<1>3. TypeOK'
  BY <1>1, <1>2 DEF IInv, TypeOK, ConfirmFails, buttonVars, placeVars
<1>4. WorkMatchesScreen'
  BY <1>1, <1>2 DEF ConfirmFails, WorkMatchesScreen
<1>5. ButtonsFitUntilEffect'
  BY <1>2, ButtonsKept DEF IInv, ConfirmFails, ButtonsFitUntilEffect, buttonVars
<1>6. NothingPromisedWhileSaving'
  BY DEF ConfirmFails, NothingPromisedWhileSaving
<1>7. RestorerKeepsPlace' /\ ButtonsFitOnReturn'
  BY <1>2, PlaceKept DEF IInv, ConfirmFails, placeVars
<1> QED BY <1>3, <1>4, <1>5, <1>6, <1>7 DEF IInv

LEMMA SavingStep ==
  ASSUME IInv, SettingsSaved \/ SavingFails
  PROVE  IInv'
<1>1. VaultTypeOK'
  <2>1. CASE SettingsSaved
    BY <2>1, SettingType DEF IInv, TypeOK, SettingsSaved
  <2>2. CASE SavingFails
    BY <2>2 DEF IInv, TypeOK, VaultTypeOK, SavingFails
  <2> QED BY <2>1, <2>2
<1>2. TypeOK'
  BY <1>1 DEF IInv, TypeOK, SettingsSaved, SavingFails, buttonVars, placeVars
<1>3. WorkMatchesScreen'
  BY DEF IInv, WorkMatchesScreen, SettingsSaved, SavingFails, SaveStorage
<1>4. ~ current'
  BY DEF IInv, NothingPromisedWhileSaving, SettingsSaved, SavingFails, buttonVars
<1>5. RestorerKeepsPlace' /\ ButtonsFitOnReturn'
  BY PlaceKept DEF IInv, SettingsSaved, SavingFails, SaveStorage, placeVars
<1> QED BY <1>2, <1>3, <1>4, <1>5
        DEF IInv, ButtonsFitUntilEffect, NothingPromisedWhileSaving

LEMMA UserMovesStep ==
  ASSUME IInv, UserMoves
  PROVE  IInv'
<1>1. VaultTypeOK'
  BY MoveType DEF IInv, TypeOK, UserMoves
<1>2. TypeOK'
  BY <1>1 DEF IInv, TypeOK, UserMoves, placeVars
<1>3. RestorerKeepsPlace' /\ ButtonsFitOnReturn'
  BY DEF IInv, UserMoves, Move, placeVars, RestorerKeepsPlace, SessionKeepsPlace,
         ButtonsFitOnReturn
<1> QED BY <1>2, <1>3 DEF IInv, UserMoves, Move, WorkMatchesScreen, ButtonsFitUntilEffect,
                           NothingPromisedWhileSaving

LEMMA NextInvariant == IInv /\ [Next]_vars => IInv'
<1> SUFFICES ASSUME IInv, [Next]_vars PROVE IInv'
  OBVIOUS
<1>1. CASE UNCHANGED vars
  <2>1. VaultTypeOK'
    BY <1>1, VaultKept DEF IInv, TypeOK, vars
  <2>2. UNCHANGED <<vault, storage, place, text, encrypt_enabled, decrypt_enabled>>
    BY <1>1 DEF vars, vaultVars, dialogVars, buttonVars
  <2> QED BY <1>1, <2>1, <2>2, ButtonsKept
          DEF IInv, TypeOK, WorkMatchesScreen, ButtonsFitUntilEffect,
              NothingPromisedWhileSaving, RestorerKeepsPlace, SessionKeepsPlace,
              ButtonsFitOnReturn, ButtonsFitIn, Readable, LockedIn,
              vars, vaultVars, dialogVars, buttonVars, placeVars
<1>2. CASE \E p \in Place : Launch(p) \/ BrowseGoesTo(p)
  BY <1>2, LaunchStep, BrowseGoesToStep
<1>3. CASE \E t \in Document \cup {NoDocument} : Edit(t)
  BY <1>3, EditStep
<1>4. CASE \/ BrowseOpens \/ BrowseCancelled \/ RestoringFails
         \/ \E t \in Document : BrowseSelects(t)
  BY <1>4, BrowseOpensStep, BrowseSelectsStep, BrowseCancelledStep, RestoringFailsStep
<1>5. CASE \E operation \in Operation : Press(operation)
  BY <1>5, PressStep
<1>6. CASE TakesEffect
  BY <1>6, TakesEffectStep
<1>7. CASE Succeeds
  BY <1>7, SucceedsStep
<1>8. CASE Fails
  BY <1>8, FailsStep
<1>9. CASE Dies
  BY <1>9, DiesStep
<1>10. CASE OpenSettings \/ CloseSettings \/ CloseMain
  BY <1>10, OpenAndCloseStep
<1>11. CASE \E method \in WipeMethod, s \in Storage : Confirm(method, s)
  BY <1>11, ConfirmStep
<1>12. CASE \E method \in WipeMethod : ConfirmFails(method)
  BY <1>12, ConfirmFailsStep
<1>13. CASE SettingsSaved \/ SavingFails
  BY <1>13, SavingStep
<1>14. CASE UserMoves
  BY <1>14, UserMovesStep
<1> QED BY <1>1, <1>2, <1>3, <1>4, <1>5, <1>6, <1>7, <1>8, <1>9, <1>10, <1>11, <1>12,
           <1>13, <1>14 DEF Next

-----------------------------------------------------------------------------
LEMMA LockShows ==
  ASSUME VaultTypeOK, NEW f \in Document, Lock(f)
  PROVE  Locked(f)'
<1> DEFINE locks == <<FolderInUse>> \o vault[f].locks
<1>1. locks # <<>> /\ Head(locks) = FolderInUse
  BY VaultAssumption DEF VaultTypeOK, FolderInUse
<1>2. vault'[f].locks = locks /\ UNCHANGED <<storage, place>>
  BY DEF Lock, Effect, VaultTypeOK
<1> HIDE DEF locks
<1> QED BY <1>1, <1>2 DEF Locked, LockedIn, FolderInUse

LEMMA EffectIsLockStep ==
  ASSUME IInv, EffectIsLock, [Next]_vars
  PROVE  EffectIsLock'
<1> SUFFICES ASSUME screen' = "progress", work'.operation = "encrypt", work'.effective
             PROVE  Locked(text)'
  BY DEF EffectIsLock
<1>1. CASE UNCHANGED vars
  BY <1>1 DEF EffectIsLock, Locked, LockedIn, vars, vaultVars, dialogVars
<1>2. CASE \E operation \in Operation : Press(operation)
  BY <1>2 DEF Press, Begin
<1>3. CASE TakesEffect
  <2>1. PICK f \in Document : Lock(f) \/ Unlock(f)
    BY <1>3 DEF TakesEffect
  <2>2. text' = text /\ work.file = text /\ work \in Call
    BY <1>3 DEF IInv, WorkMatchesScreen, TakesEffect, dialogVars
  <2>3. CASE Lock(f)
    BY <2>2, <2>3, LockShows DEF IInv, TypeOK, Lock, Pending
  <2>4. CASE Unlock(f)
    BY <2>4 DEF Unlock, Pending, Effect
  <2> QED BY <2>1, <2>3, <2>4
<1>4. screen' # "progress" \/ UNCHANGED vars \/ TakesEffect
        \/ \E operation \in Operation : Press(operation)
  <2>1. CASE screen = "progress"
    BY <2>1 DEF Next, Launch, Edit, BrowseOpens, BrowseGoesTo, BrowseSelects,
                BrowseCancelled, RestoringFails, Succeeds, Fails, Dies, OpenSettings,
                Confirm, ConfirmFails, SettingsSaved, SavingFails, CloseSettings,
                CloseMain, UserMoves
  <2>2. CASE screen # "progress"
    BY <2>2 DEF Next, Launch, Edit, BrowseOpens, BrowseGoesTo, BrowseSelects,
                BrowseCancelled, RestoringFails, Succeeds, Fails, Dies, OpenSettings,
                Confirm, ConfirmFails, SettingsSaved, SavingFails, CloseSettings,
                CloseMain, UserMoves, dialogVars
  <2> QED BY <2>1, <2>2
<1> QED BY <1>1, <1>2, <1>3, <1>4

LEMMA SettingsKeptStep ==
  ASSUME IInv, SettingsKept, [Next]_vars
  PROVE  SettingsKept'
<1> SUFFICES ASSUME screen' \in {"settings", "saving"}
             PROVE  SettingsKept'
  BY DEF SettingsKept
<1>1. failures \in Nat /\ opened.failures \in Nat
  BY DEF IInv, TypeOK, VaultTypeOK
<1>2. CASE UNCHANGED vars
  BY <1>2 DEF SettingsKept, Settings, vars, vaultVars, dialogVars
<1>3. CASE OpenSettings
  BY <1>1, <1>3 DEF OpenSettings, Opening, Settings, SettingsKept, vaultVars
<1>4. CASE \E method \in WipeMethod, s \in Storage : Confirm(method, s)
  BY <1>4 DEF Confirm, UseStorage, SettingsKept
<1>5. CASE \E method \in WipeMethod : ConfirmFails(method)
  BY <1>1, <1>5 DEF ConfirmFails, Fail, SettingsKept
<1>6. CASE SavingFails
  BY <1>1, <1>6 DEF SavingFails, SettingsKept
<1>7. \/ UNCHANGED vars \/ OpenSettings \/ SavingFails
      \/ \E method \in WipeMethod, s \in Storage : Confirm(method, s)
      \/ \E method \in WipeMethod : ConfirmFails(method)
  BY DEF Next, Launch, Edit, BrowseOpens, BrowseGoesTo, BrowseSelects, BrowseCancelled,
         RestoringFails, Press, TakesEffect, Succeeds, Fails, Dies, SettingsSaved,
         CloseSettings, CloseMain, UserMoves, dialogVars
<1> QED BY <1>2, <1>3, <1>4, <1>5, <1>6, <1>7

LEMMA ActionInvariant == Spec => [](IInv /\ ActionInv)
<1>1. Init => IInv /\ ActionInv
  BY InitInvariant DEF Init, ActionInv, EffectIsLock, SettingsKept
<1>2. (IInv /\ ActionInv) /\ [Next]_vars => (IInv /\ ActionInv)'
  BY NextInvariant, EffectIsLockStep, SettingsKeptStep DEF ActionInv
<1> QED BY <1>1, <1>2, PTL DEF Spec

-----------------------------------------------------------------------------
\* The inductive invariant of the main dialog and its settings dialog.
THEOREM DialogInvariant == Spec => []IInv
<1>1. Init => IInv
  BY InitInvariant
<1>2. IInv /\ [Next]_vars => IInv'
  BY NextInvariant
<1> QED BY <1>1, <1>2, PTL DEF Spec

\* The types, among them that the path saved in the registry always names a document
\* (EncryptDialog.cpp:196-203).
THEOREM TypeCorrect == Spec => []TypeOK
<1>1. IInv => TypeOK
  BY DEF IInv
<1> QED BY <1>1, DialogInvariant, PTL

\* The buttons of the main dialog offer what the document needs, for any number of
\* documents, locks and failures (EncryptDialog.cpp:140-148, 196-199, 238-240).
THEOREM ButtonsAreRight == Spec => []ButtonsFitDocument
<1>1. IInv => ButtonsFitDocument
  BY DEF IInv, ButtonsFitUntilEffect, ButtonsFitDocument
<1> QED BY <1>1, DialogInvariant, PTL

\* Wherever file dialogs have been, the kernel is called in the directory in which the
\* session was started, so that a relative key storage path denotes one folder
\* (EncryptDialog.cpp:112-121, CWDRestorer.cpp:18-27).
THEOREM FolderIsStable == Spec => []SessionKeepsPlace
<1>1. IInv => SessionKeepsPlace
  BY DEF IInv, RestorerKeepsPlace, SessionKeepsPlace
<1> QED BY <1>1, DialogInvariant, PTL

\* An encryption that has succeeded is never offered again (EncryptDialog.cpp:196-199).
THEOREM UndoIsOffered == Spec => SuccessOffersUndo
<1> DEFINE Offered == screen = "progress" /\ screen' = "main" /\ current'
                        /\ work.operation = "encrypt" /\ work.effective
                      => decrypt_enabled' /\ ~ encrypt_enabled'
<1>1. IInv /\ ActionInv /\ [Next]_vars => Offered
  <2> SUFFICES ASSUME IInv, ActionInv, [Next]_vars, screen = "progress", screen' = "main",
                      current', work.operation = "encrypt", work.effective
               PROVE  decrypt_enabled' /\ ~ encrypt_enabled'
    OBVIOUS
  <2>1. Succeeds
    <3>1. Succeeds \/ Fails
      BY DEF Next, Launch, Edit, BrowseOpens, BrowseGoesTo, BrowseSelects,
             BrowseCancelled, RestoringFails, Press, TakesEffect, Dies, OpenSettings,
             Confirm, ConfirmFails, SettingsSaved, SavingFails, CloseSettings,
             CloseMain, UserMoves, vars, dialogVars
    <3>2. ~ Fails
      BY DEF Fails, Refuse
    <3> QED BY <3>1, <3>2
  <2>2. TextLocked'
    BY <2>1 DEF IInv, WorkMatchesScreen, Call, ActionInv, EffectIsLock, Succeeds, Return,
                TextLocked, Locked, LockedIn
  <2> QED BY <2>1, <2>2, Zenon DEF Succeeds, UpdateButtonsState
<1> QED BY <1>1, ActionInvariant, PTL DEF Spec, SuccessOffersUndo

\* A settings dialog that is closed without its button OK and without a report has
\* changed nothing (SettingsDialog.cpp:134-135, 167-172).
THEOREM ClosingChangesNothing == Spec => ClosedSettingsAreUnchanged
<1>1. IInv /\ ActionInv /\ CloseSettings /\ failures = opened.failures
        => Settings = opened.settings
  BY DEF ActionInv, SettingsKept, CloseSettings
<1> QED BY <1>1, ActionInvariant, PTL DEF Spec, ClosedSettingsAreUnchanged
=============================================================================
