----------------------- MODULE DriverLifecycleProofs -----------------------
(***************************************************************************)
(* Proofs of the safety properties of DriverLifecycle for every number of  *)
(* callouts, of starts of the engine and of clients.                       *)
(***************************************************************************)
EXTENDS DriverLifecycle, TLAPS

-----------------------------------------------------------------------------
(* Values.                                                                 *)

\* The five callbacks and the file filter.
LEMMA KindsFacts ==
    /\ Len(Kinds) = 5
    /\ \A n \in 1..5 : Kinds[n] \in Callbacks
    /\ "file" \in Callbacks
BY DEF Kinds, Callbacks

\* UnregisterWFP takes the three parts down in the order of Teardown.
LEMMA TeardownFacts ==
    /\ Len(Teardown) = 3 /\ DOMAIN Teardown = 1..3
    /\ Teardown[1] = "filters" /\ Teardown[2] = "callouts"
    /\ Teardown[3] = "provider"
BY DEF Teardown

\* The setup that does not run is one.
LEMMA IdleSetup == Idle \in Setups
BY LifecycleAssumption DEF Idle, Setups, Pcs

\* The index after a failure: one less, or out of the array.
LEMMA IndexBack ==
    ASSUME NEW i \in Keys
    PROVE  /\ (i - 1) % ULONGs \in 0..(ULONGs - 1)
           /\ IF i = 0 THEN (i - 1) % ULONGs \notin Keys
              ELSE (i - 1) % ULONGs = i - 1
BY LifecycleAssumption DEF Keys

\* The steps of DriverEntry apart from its call of SetupWFP.
EntryStep ==
    \/ Load \/ CreateDevice \/ CreateLink \/ InitGlobals \/ EntryFails
    \/ RegisterKind \/ RegisterFile \/ FsSetupFails \/ SubscribeFails
    \/ Subscribe \/ Initialized

\* A step is one of the entry, of a setup, of the engine, of a client or of
\* the unloading.
LEMMA StepKinds ==
    ASSUME [Next]_vars
    PROVE  \/ EntryStep \/ AskBfe \/ Unload \/ UnregisterMoonMon
           \/ \E t \in Threads : SetupWFP(t)
           \/ StartBfe \/ StopBfe
           \/ \E p \in Clients : Client(p)
           \/ UNCHANGED vars
BY DEF Next, DriverEntry, EntryStep

\* What the steps of each part leave alone.
LEMMA Frames ==
    /\ EntryStep => Unchanged
    /\ AskBfe => UNCHANGED <<engineVars, crashed, faults, raced, clientVars>>
    /\ \A t \in Threads : SetupWFP(t) =>
            UNCHANGED <<entryVars, bfe, starts, faults, raced, clientVars>>
    /\ StartBfe => UNCHANGED <<entryVars, provider, functions, callouts,
                               filters, faults, clientVars>>
    /\ StopBfe => UNCHANGED <<entryVars, starts, functions, crashed, faults,
                              raced, clientVars>>
    /\ \A p \in Clients : Client(p) =>
            UNCHANGED <<entryVars, engineVars, wfp, crashed, faults, raced>>
    /\ Unload => UNCHANGED <<globals, device, registered, State, subscribed,
                             engineVars, wfp, crashed, faults, clientVars>>
    /\ UnregisterMoonMon => UNCHANGED <<State, bfe, starts, wfp, raced,
                                        clientVars>>
<1>1. EntryStep => Unchanged
    BY DEF EntryStep, Load, CreateDevice, CreateLink, InitGlobals, EntryFails,
        RegisterKind, RegisterFile, FsSetupFails, SubscribeFails, Subscribe,
        Initialized
<1>2. AskBfe => UNCHANGED <<engineVars, crashed, faults, raced, clientVars>>
    BY DEF AskBfe
<1>3. ASSUME NEW t \in Threads, SetupWFP(t)
      PROVE  UNCHANGED <<entryVars, bfe, starts, faults, raced, clientVars>>
    BY <1>3 DEF SetupWFP, Open, AddProvider, Begin, RegisterCallout,
        RegisterFreed, AddCallout, AddNoCallout, Commit, AddFilters,
        CommitFilters, engineVars
<1>4. StartBfe => UNCHANGED <<entryVars, provider, functions, callouts,
                              filters, faults, clientVars>>
    BY DEF StartBfe
<1>5. StopBfe => UNCHANGED <<entryVars, starts, functions, crashed, faults,
                             raced, clientVars>>
    BY DEF StopBfe
<1>6. ASSUME NEW p \in Clients, Client(p)
      PROVE  UNCHANGED <<entryVars, engineVars, wfp, crashed, faults, raced>>
    BY <1>6 DEF Client, MoonMonDispatchCreate, BecomeClient,
        MoonMonDispatchClose, ClientExit, ClientStep
<1>7. Unload => UNCHANGED <<globals, device, registered, State, subscribed,
                            engineVars, wfp, crashed, faults, clientVars>>
    BY DEF Unload
<1>8. UnregisterMoonMon => UNCHANGED <<State, bfe, starts, wfp, raced,
                                       clientVars>>
    BY DEF UnregisterMoonMon, RemoveKind, RemoveFile, UnregisterWFP,
        Unsubscribe, UnloadConfig, DeleteDevice, DeleteFilters,
        DeleteCallouts, DeleteProvider, engineVars
<1> QED
    BY <1>1, <1>2, <1>3, <1>4, <1>5, <1>6, <1>7, <1>8

\* The three parts of UnregisterWFP.
LEMMA TeardownSteps ==
    ASSUME UnregisterWFP
    PROVE  /\ driver = "unload" /\ ~crashed
           /\ UNCHANGED <<driver, kind, globals, device, registered, State,
                          subscribed, bfe, starts, crashed>>
           /\ \/ at = "filters" /\ at' = "callouts"
              \/ at = "callouts" /\ at' = "provider"
              \/ at = "provider" /\ at' = "network"
           /\ \/ /\ ~(InTransaction(notify) /\ wfp[notify].session)
                 /\ faults' = faults
                 /\ at = "filters" => DeleteFilters
                 /\ at = "callouts" => DeleteCallouts
                 /\ at = "provider" => DeleteProvider
              \/ /\ faults' = TRUE
                 /\ UNCHANGED <<provider, functions, callouts, filters>>
<1>1. PICK n \in 1..3 :
        /\ at = Teardown[n]
        /\ at' = (IF n < 3 THEN Teardown[n + 1] ELSE "network")
        /\ \/ /\ ~(InTransaction(notify) /\ wfp[notify].session)
              /\ CASE Teardown[n] = "filters" -> DeleteFilters
                   [] Teardown[n] = "callouts" -> DeleteCallouts
                   [] Teardown[n] = "provider" -> DeleteProvider
              /\ UNCHANGED <<bfe, starts, faults>>
           \/ /\ faults' = TRUE
              /\ UNCHANGED engineVars
    BY TeardownFacts DEF UnregisterWFP
<1>2. /\ driver = "unload" /\ ~crashed
      /\ UNCHANGED <<driver, kind, globals, device, registered, State,
                     subscribed, crashed>>
    BY DEF UnregisterWFP
<1>3. CASE n = 1
    BY <1>1, <1>2, <1>3, TeardownFacts DEF engineVars
<1>4. CASE n = 2
    BY <1>1, <1>2, <1>4, TeardownFacts DEF engineVars
<1>5. CASE n = 3
    BY <1>1, <1>2, <1>5, TeardownFacts DEF engineVars
<1>6. n = 1 \/ n = 2 \/ n = 3
    OBVIOUS
<1> QED
    BY <1>3, <1>4, <1>5, <1>6

-----------------------------------------------------------------------------
(* The clients.                                                            *)

ClientTypes ==
    /\ clientpid \in Clients \cup {NoClient}
    /\ opening \subseteq Clients /\ exited \subseteq Clients
    /\ files \in [Clients -> 0..MaxFiles]

\* A process that takes the device has a file on it, and one that exits or
\* closes is no client any more.
LEMMA ClientsStep ==
    ASSUME ClientTypes, OpeningInv, ClientHasDevice, [Next]_vars
    PROVE  ClientTypes' /\ OpeningInv' /\ ClientHasDevice'
<1> USE DEF ClientTypes, OpeningInv, ClientHasDevice
<1>1. CASE UNCHANGED clientVars
    BY <1>1 DEF clientVars
<1>2. ASSUME NEW p \in Clients, MoonMonDispatchCreate(p)
      PROVE  ClientTypes' /\ OpeningInv' /\ ClientHasDevice'
    <2>1. files[p] < MaxFiles /\ p \notin opening \cup exited
            /\ UNCHANGED <<clientpid, exited>>
        BY <1>2 DEF MoonMonDispatchCreate
    <2>2. CASE opening' = opening \cup {p} /\ files' = files
        BY <2>1, <2>2
    <2>3. CASE files' = [files EXCEPT ![p] = @ + 1] /\ opening' = opening
        <3>1. files[p] + 1 \in 0..MaxFiles /\ files[p] + 1 > 0
            BY <2>1, LifecycleAssumption
        <3>2. \A q \in Clients :
                files'[q] = IF q = p THEN files[p] + 1 ELSE files[q]
            BY <2>3
        <3>3. ClientTypes'
            BY <2>1, <2>3, <3>1
        <3>4. OpeningInv'
            BY <2>1, <2>3, <3>2
        <3>5. ClientHasDevice'
            BY <2>1, <3>1, <3>2
        <3> QED
            BY <3>3, <3>4, <3>5
    <2> QED
        BY <1>2, <2>2, <2>3 DEF MoonMonDispatchCreate
<1>3. ASSUME NEW p \in Clients, BecomeClient(p)
      PROVE  ClientTypes' /\ OpeningInv' /\ ClientHasDevice'
    <2>1. /\ p \in opening /\ opening' = opening \ {p} /\ clientpid' = p
          /\ files' = [files EXCEPT ![p] = @ + 1] /\ exited' = exited
        BY <1>3 DEF BecomeClient
    <2>2. files[p] + 1 \in 0..MaxFiles /\ files[p] + 1 > 0
        BY <2>1, LifecycleAssumption
    <2>3. \A q \in Clients :
            files'[q] = IF q = p THEN files[p] + 1 ELSE files[q]
        BY <2>1
    <2>4. ClientTypes'
        BY <2>1, <2>2
    <2>5. OpeningInv'
        BY <2>1, <2>3
    <2>6. ClientHasDevice'
        BY <2>1, <2>2, <2>3
    <2> QED
        BY <2>4, <2>5, <2>6
<1>4. ASSUME NEW p \in Clients, MoonMonDispatchClose(p)
      PROVE  ClientTypes' /\ OpeningInv' /\ ClientHasDevice'
    <2>1. /\ files[p] > 0 /\ files' = [files EXCEPT ![p] = @ - 1]
          /\ clientpid' = NoClient /\ opening' = opening
          /\ exited' \subseteq exited
        BY <1>4 DEF MoonMonDispatchClose, AfterClose
    <2>2. files[p] - 1 \in 0..MaxFiles /\ files[p] - 1 < files[p]
        BY <2>1, LifecycleAssumption
    <2>3. \A q \in Clients :
            files'[q] = IF q = p THEN files[p] - 1 ELSE files[q]
        BY <2>1
    <2>4. ClientTypes'
        BY <2>1, <2>2
    <2>5. OpeningInv'
        BY <2>1, <2>2, <2>3, LifecycleAssumption
    <2> QED
        BY <2>1, <2>4, <2>5
<1>5. ASSUME NEW p \in Clients, ClientExit(p)
      PROVE  ClientTypes' /\ OpeningInv' /\ ClientHasDevice'
    BY <1>5 DEF ClientExit
<1>6. ASSUME NEW p \in Clients, Client(p)
      PROVE  ClientTypes' /\ OpeningInv' /\ ClientHasDevice'
    BY <1>2, <1>3, <1>4, <1>5, <1>6 DEF Client
<1>7. (\E p \in Clients : Client(p)) \/ UNCHANGED clientVars
    BY StepKinds, Frames DEF Unchanged, vars
<1> QED
    BY <1>1, <1>6, <1>7

-----------------------------------------------------------------------------
(* The types.                                                              *)

EntryTypes ==
    /\ driver \in {"off", "entry", "loaded", "unload", "gone"}
    /\ at \in Steps
    /\ kind \in 1..6
    /\ globals \in {"none", "set", "freed"}
    /\ device \in {"none", "device", "both"}
    /\ registered \subseteq Callbacks
    /\ State \in BOOLEAN /\ subscribed \in BOOLEAN

EngineTypes ==
    /\ bfe \in BOOLEAN /\ provider \in BOOLEAN
    /\ starts \in 0..MaxStarts
    /\ functions \subseteq Keys /\ callouts \subseteq Keys
    /\ filters \subseteq callouts

OtherTypes ==
    /\ wfp \in [Threads -> Setups]
    /\ crashed \in BOOLEAN /\ faults \in BOOLEAN /\ raced \in BOOLEAN

\* The type invariant by the parts of the driver.
LEMMA TypeParts ==
    TypeOK <=> EntryTypes /\ EngineTypes /\ OtherTypes /\ ClientTypes
BY KindsFacts DEF TypeOK, EntryTypes, EngineTypes, OtherTypes, ClientTypes

LEMMA EntryTypesStep ==
    ASSUME TypeOK, [Next]_vars
    PROVE  EntryTypes'
<1>1. EntryTypes
    BY TypeParts
<1> USE DEF EntryTypes
<1>2. CASE Load \/ CreateDevice \/ CreateLink \/ InitGlobals \/ EntryFails
    BY <1>1, <1>2 DEF Load, CreateDevice, CreateLink, InitGlobals, EntryFails,
        Steps
<1>3. CASE RegisterKind
    <2>1. kind \in 1..5 /\ Kinds[kind] \in Callbacks
        BY <1>1, <1>3, KindsFacts DEF RegisterKind
    <2> QED
        BY <1>1, <1>3, <2>1 DEF RegisterKind, KindFails
<1>4. CASE RegisterFile \/ FsSetupFails \/ SubscribeFails \/ Subscribe
            \/ Initialized \/ AskBfe
    BY <1>1, <1>4, KindsFacts DEF RegisterFile, FsSetupFails, SubscribeFails,
        Subscribe, Initialized, AskBfe, Steps
<1>5. CASE Unload
    BY <1>1, <1>5 DEF Unload, Steps
<1>6. CASE RemoveKind
    <2>1. kind \in 1..5
        BY <1>1, <1>6, KindsFacts DEF RemoveKind
    <2> QED
        BY <1>1, <1>6, <2>1 DEF RemoveKind, Steps
<1>7. CASE RemoveFile \/ Unsubscribe \/ UnloadConfig \/ DeleteDevice
    BY <1>1, <1>7, TeardownFacts DEF RemoveFile, Unsubscribe, UnloadConfig,
        DeleteDevice, Steps
<1>8. CASE UnregisterWFP
    BY <1>1, <1>8, TeardownSteps DEF Steps
<1>9. CASE UNCHANGED entryVars
    BY <1>1, <1>9 DEF entryVars
<1>10. UNCHANGED entryVars \/ EntryStep \/ AskBfe \/ Unload \/ UnregisterMoonMon
    BY StepKinds, Frames DEF vars
<1> QED
    BY <1>2, <1>3, <1>4, <1>5, <1>6, <1>7, <1>8, <1>9, <1>10
        DEF EntryStep, UnregisterMoonMon

\* Where a setup may go from where it is.
LEMMA SetupTypes ==
    ASSUME TypeOK, LoopInv, NEW t \in Threads, SetupWFP(t)
    PROVE  wfp' \in [Threads -> Setups]
<1> USE DEF TypeOK, LoopInv
<1>1. wfp[t] \in Setups
    OBVIOUS
<1>2. ASSUME NEW w \in Setups, Goes(t, w)
      PROVE  wfp' \in [Threads -> Setups]
    BY <1>2 DEF Goes
<1>3. ASSUME NEW pc \in Pcs
      PROVE  [wfp[t] EXCEPT !.pc = pc] \in Setups
    BY <1>1 DEF Setups
<1>4. ASSUME NEW pc \in Pcs, GoesTo(t, pc)
      PROVE  wfp' \in [Threads -> Setups]
    BY <1>2, <1>3, <1>4 DEF GoesTo
<1>5. Goes(t, Idle) => wfp' \in [Threads -> Setups]
    BY <1>2, IdleSetup
<1>6. 0 \in 0..(ULONGs - 1) /\ callout_count \in Nat /\ ULONGs \in Nat
        /\ callout_count < ULONGs - 2
    BY LifecycleAssumption
<1>7. CASE Open(t)
    <2>1. [Idle EXCEPT !.pc = "provider", !.session = TRUE] \in Setups
        BY <1>6 DEF Setups, Pcs, Idle
    <2> QED
        BY <1>2, <1>5, <1>7, <2>1 DEF Open
<1>8. CASE AddProvider(t)
    BY <1>4, <1>5, <1>8 DEF AddProvider, Pcs
<1>9. CASE Begin(t)
    <2>1. /\ [wfp[t] EXCEPT !.pc = "register", !.i = 0] \in Setups
          /\ [wfp[t] EXCEPT !.pc = "filter", !.tx = {}] \in Setups
        BY <1>1, <1>6 DEF Setups, Pcs
    <2> QED
        BY <1>2, <1>5, <1>9, <2>1 DEF Begin
<1>10. CASE RegisterCallout(t)
    <2>1. wfp[t].i \in Keys
        BY <1>10 DEF RegisterCallout, At
    <2>2. (wfp[t].i - 1) % ULONGs \in 0..(ULONGs - 1)
        BY <2>1, IndexBack
    <2>3. [wfp[t] EXCEPT !.pc = "add", !.i = (@ - 1) % ULONGs] \in Setups
        BY <1>1, <2>2 DEF Setups, Pcs
    <2> QED
        BY <1>2, <1>4, <1>10, <2>3 DEF RegisterCallout, CalloutFails, Pcs
<1>11. CASE RegisterFreed(t)
    BY <1>11 DEF RegisterFreed
<1>12. \A i : Counted(i) \in Pcs
    BY DEF Counted, Pcs
<1>13. CASE AddCallout(t)
    <2> DEFINE i == wfp[t].i
    <2>1. i \in Keys
        BY <1>13 DEF AddCallout
    <2>2. i + 1 \in 0..(ULONGs - 1)
        BY <1>6, <2>1 DEF Keys
    <2>3. [wfp[t] EXCEPT !.pc = Counted(i + 1), !.i = i + 1,
                         !.tx = @ \cup {i}] \in Setups
        BY <1>1, <1>12, <2>1, <2>2 DEF Setups
    <2> QED
        BY <1>2, <1>4, <1>12, <1>13, <2>3 DEF AddCallout
<1>14. CASE AddNoCallout(t)
    BY <1>4, <1>12, <1>14 DEF AddNoCallout
<1>15. CASE Commit(t)
    BY <1>4, <1>5, <1>15 DEF Commit, Pcs
<1>16. CASE AddFilters(t)
    <2>1. PICK fs \in SUBSET (callouts \ filters) :
            Goes(t, [wfp[t] EXCEPT !.pc = "commit2",
                                   !.tx = IF CanCall(t) THEN fs ELSE {}])
        BY <1>16 DEF AddFilters
    <2>2. [wfp[t] EXCEPT !.pc = "commit2",
                         !.tx = IF CanCall(t) THEN fs ELSE {}] \in Setups
        BY <1>1 DEF Setups, Pcs
    <2> QED
        BY <1>2, <2>1, <2>2
<1>17. CASE CommitFilters(t)
    BY <1>5, <1>17 DEF CommitFilters
<1> QED
    BY <1>7, <1>8, <1>9, <1>10, <1>11, <1>13, <1>14, <1>15, <1>16, <1>17
        DEF SetupWFP

LEMMA EngineTypesStep ==
    ASSUME TypeOK, LoopInv, [Next]_vars
    PROVE  EngineTypes'
<1>1. EngineTypes
    BY TypeParts
<1> USE DEF EngineTypes
<1>2. CASE UNCHANGED engineVars
    BY <1>1, <1>2 DEF engineVars
<1>3. ASSUME NEW t \in Threads, SetupWFP(t)
      PROVE  EngineTypes'
    <2>1. wfp[t].tx \subseteq Keys /\ wfp[t] \in Setups
        BY DEF TypeOK, Setups
    <2>2. CASE Open(t) \/ AddProvider(t) \/ Begin(t)
        BY <1>1, <2>2 DEF Open, AddProvider, Begin, engineVars
    <2>3. CASE RegisterCallout(t)
        <3>1. wfp[t].i \in Keys
            BY <2>3 DEF RegisterCallout, At, LoopInv
        <3> QED
            BY <1>1, <2>3, <3>1 DEF RegisterCallout
    <2>4. CASE RegisterFreed(t) \/ AddCallout(t) \/ AddNoCallout(t)
                \/ AddFilters(t)
        BY <1>1, <2>4 DEF RegisterFreed, AddCallout, AddNoCallout, AddFilters,
            engineVars
    <2>5. CASE Commit(t)
        BY <1>1, <2>1, <2>5 DEF Commit
    <2>6. CASE CommitFilters(t)
        <3>1. CanCall(t) => wfp[t].tx \subseteq callouts
            BY <2>6 DEF CommitFilters, At, CanCall, LoopInv
        <3> QED
            BY <1>1, <2>6, <3>1 DEF CommitFilters
    <2> QED
        BY <1>3, <2>2, <2>3, <2>4, <2>5, <2>6 DEF SetupWFP
<1>4. CASE StartBfe
    <2>1. starts + 1 \in 0..MaxStarts
        BY <1>1, <1>4, LifecycleAssumption DEF StartBfe
    <2> QED
        BY <1>1, <1>4, <2>1 DEF StartBfe
<1>5. CASE StopBfe
    BY <1>1, <1>5 DEF StopBfe
<1>6. CASE UnregisterMoonMon
    <2>1. CASE UnregisterWFP
        BY <1>1, <2>1, TeardownSteps DEF DeleteFilters, DeleteCallouts,
            DeleteProvider
    <2>2. CASE UNCHANGED engineVars
        BY <1>2, <2>2
    <2> QED
        BY <1>6, <2>1, <2>2 DEF UnregisterMoonMon, RemoveKind, RemoveFile,
            Unsubscribe, UnloadConfig, DeleteDevice
<1> QED
    BY <1>2, <1>3, <1>4, <1>5, <1>6, StepKinds, Frames DEF Unchanged, vars

LEMMA OtherTypesStep ==
    ASSUME TypeOK, LoopInv, [Next]_vars
    PROVE  OtherTypes'
<1>1. OtherTypes
    BY TypeParts
<1> USE DEF OtherTypes
<1>2. CASE UNCHANGED <<wfp, crashed, faults, raced>>
    BY <1>1, <1>2
<1>3. ASSUME NEW t \in Threads, StartSetup(t)
      PROVE  wfp' \in [Threads -> Setups]
    <2>1. [Idle EXCEPT !.pc = "open"] \in Setups
        BY IdleSetup DEF Setups, Pcs
    <2> QED
        BY <1>1, <1>3, <2>1 DEF StartSetup
<1>4. main \in Threads /\ notify \in Threads
    BY DEF Threads
<1>5. CASE AskBfe
    BY <1>1, <1>3, <1>4, <1>5 DEF AskBfe
<1>6. ASSUME NEW t \in Threads, SetupWFP(t)
      PROVE  OtherTypes'
    <2>1. wfp' \in [Threads -> Setups]
        BY <1>6, SetupTypes
    <2>2. crashed' \in BOOLEAN
        BY <1>1, <1>6 DEF SetupWFP, Open, AddProvider, Begin, RegisterCallout,
            RegisterFreed, AddCallout, AddNoCallout, Commit, AddFilters,
            CommitFilters
    <2> QED
        BY <1>1, <1>6, <2>1, <2>2, Frames
<1>7. CASE StartBfe
    <2>1. wfp' \in [Threads -> Setups]
        BY <1>1, <1>3, <1>4, <1>7 DEF StartBfe, BFECallback
    <2>2. crashed' \in BOOLEAN /\ raced' \in BOOLEAN /\ faults' \in BOOLEAN
        BY <1>1, <1>7 DEF StartBfe, BFECallback
    <2> QED
        BY <2>1, <2>2
<1>8. CASE StopBfe
    <2>1. \A t \in Threads : [wfp[t] EXCEPT !.session = FALSE] \in Setups
        BY <1>1 DEF Setups
    <2> QED
        BY <1>1, <1>8, <2>1 DEF StopBfe
<1>9. CASE Unload
    BY <1>1, <1>9 DEF Unload
<1>10. CASE UnregisterMoonMon
    <2>1. wfp' = wfp /\ raced' = raced
        BY <1>10, Frames
    <2>2. faults' \in BOOLEAN /\ crashed' \in BOOLEAN
        BY <1>1, <1>10 DEF UnregisterMoonMon, RemoveKind, RemoveFile,
            UnregisterWFP, Unsubscribe, UnloadConfig, DeleteDevice
    <2> QED
        BY <1>1, <2>1, <2>2
<1> QED
    BY <1>2, <1>5, <1>6, <1>7, <1>8, <1>9, <1>10, StepKinds, Frames
        DEF Unchanged, vars

-----------------------------------------------------------------------------
(* The provider as a lock.                                                 *)

\* Where a setup is after one of its steps: at most one of the two moves, and
\* it comes to hold the provider only by adding it.
LEMMA SetupMoves ==
    ASSUME TypeOK, NEW t \in Threads, SetupWFP(t)
    PROVE  /\ wfp[t].pc # "idle"
           /\ \A u \in Threads : u # t => wfp'[u] = wfp[u]
           /\ wfp'[t].session => wfp[t].session \/ wfp'[t].pc = "provider"
           /\ wfp'[t].session /\ wfp'[t].pc \notin {"idle", "open", "provider"}
                => Holds(t) \/ (~provider /\ provider')
           /\ provider => provider'
<1> USE DEF TypeOK, Goes, GoesTo, At, Holds
<1>1. CASE Open(t)
    <2>1. wfp[t].pc = "open" /\ provider' = provider
        BY <1>1 DEF Open, engineVars
    <2>2. CASE Goes(t, Idle)
        BY <2>1, <2>2 DEF Idle
    <2>3. CASE Goes(t, [Idle EXCEPT !.pc = "provider", !.session = TRUE])
        <3>1. [Idle EXCEPT !.pc = "provider", !.session = TRUE].pc = "provider"
            BY DEF Idle
        <3> QED
            BY <2>1, <2>3, <3>1
    <2> HIDE DEF Goes
    <2> QED
        BY <1>1, <2>2, <2>3 DEF Open
<1>2. CASE AddProvider(t)
    BY <1>2 DEF AddProvider, AddsProvider, Idle, Setups
<1>3. CASE Begin(t)
    <2>1. wfp[t].pc \in {"begin", "begin2"} /\ provider' = provider
        BY <1>3 DEF Begin, engineVars
    <2>2. CASE Goes(t, Idle)
        BY <2>1, <2>2 DEF Idle
    <2>3. CASE Goes(t, [wfp[t] EXCEPT !.pc = "register", !.i = 0])
        BY <2>1, <2>3 DEF Setups
    <2>4. CASE Goes(t, [wfp[t] EXCEPT !.pc = "filter", !.tx = {}])
        BY <2>1, <2>4 DEF Setups
    <2> HIDE DEF Goes
    <2> QED
        BY <1>3, <2>2, <2>3, <2>4 DEF Begin
<1>4. CASE RegisterCallout(t)
    <2>1. wfp[t].pc = "register" /\ provider' = provider
        BY <1>4 DEF RegisterCallout
    <2>2. CASE GoesTo(t, "add")
        BY <2>1, <2>2 DEF Setups
    <2>3. CASE CalloutFails(t)
        BY <2>1, <2>3 DEF CalloutFails, Setups
    <2> HIDE DEF GoesTo
    <2> QED
        BY <1>4, <2>2, <2>3 DEF RegisterCallout
<1>5. CASE RegisterFreed(t)
    BY <1>5 DEF RegisterFreed, engineVars
<1>6. CASE AddCallout(t)
    <2> DEFINE i == wfp[t].i
               added == [wfp[t] EXCEPT !.pc = Counted(i + 1), !.i = i + 1,
                                       !.tx = @ \cup {i}]
    <2>1. wfp[t].pc = "add" /\ provider' = provider
        BY <1>6 DEF AddCallout, engineVars
    <2>2. CASE Goes(t, added)
        <3>1. added.session = wfp[t].session
            BY DEF Setups
        <3> HIDE DEF added
        <3> QED
            BY <2>1, <2>2, <3>1
    <2>3. CASE GoesTo(t, Counted(i))
        BY <2>1, <2>3 DEF Setups
    <2> HIDE DEF Goes, GoesTo
    <2> QED
        BY <1>6, <2>2, <2>3 DEF AddCallout
<1>7. CASE AddNoCallout(t)
    <2>1. wfp[t].pc = "add" /\ provider' = provider
        BY <1>7 DEF AddNoCallout, engineVars
    <2>2. CASE GoesTo(t, Counted(wfp[t].i))
        BY <2>1, <2>2 DEF Setups
    <2>3. CASE wfp' = wfp
        BY <2>1, <2>3
    <2> HIDE DEF GoesTo
    <2> QED
        BY <1>7, <2>2, <2>3 DEF AddNoCallout
<1>8. CASE Commit(t)
    <2>1. wfp[t].pc = "commit" /\ provider' = provider
        BY <1>8 DEF Commit
    <2>2. CASE GoesTo(t, "begin2")
        BY <2>1, <2>2 DEF Setups
    <2>3. CASE Goes(t, Idle)
        BY <2>1, <2>3 DEF Idle
    <2> HIDE DEF Goes, GoesTo
    <2> QED
        BY <1>8, <2>2, <2>3 DEF Commit
<1>9. CASE AddFilters(t)
    BY <1>9 DEF AddFilters, engineVars, Setups
<1>10. CASE CommitFilters(t)
    BY <1>10 DEF CommitFilters, Idle
<1> QED
    BY <1>1, <1>2, <1>3, <1>4, <1>5, <1>6, <1>7, <1>8, <1>9, <1>10
        DEF SetupWFP

\* Nobody but the holder is behind the addition of the provider, and nothing
\* takes the provider away before the driver is unloaded.
LEMMA LockStep ==
    ASSUME IInv, [Next]_vars
    PROVE  ProviderHeld' /\ OneSetup'
<1> USE DEF IInv
<1>1. main \in Threads /\ notify \in Threads /\ main # notify
        /\ \A t \in Threads : t = main \/ t = notify
    BY DEF Threads, main, notify
<1>2. OneSetup <=> ~(Holds(main) /\ Holds(notify))
        /\ (OneSetup' <=> ~(Holds(main)' /\ Holds(notify)'))
    BY <1>1 DEF OneSetup, Holds
<1>3. driver' \in {"off", "entry", "loaded"}
            => driver \in {"off", "entry", "loaded"}
    <2>1. CASE driver' = driver
        BY <2>1 DEF TypeOK
    <2>2. CASE EntryStep
        BY <2>2 DEF EntryStep, Load, CreateDevice, CreateLink, InitGlobals,
            EntryFails, RegisterKind, RegisterFile, FsSetupFails,
            SubscribeFails, Subscribe, Initialized, In
    <2>3. CASE Unload
        BY <2>3 DEF Unload
    <2>4. CASE UnregisterMoonMon
        BY <2>4, TeardownSteps DEF UnregisterMoonMon, RemoveKind, RemoveFile,
            Unsubscribe, UnloadConfig, DeleteDevice
    <2>5. driver' = driver \/ EntryStep \/ Unload \/ UnregisterMoonMon
        BY StepKinds, Frames DEF AskBfe, entryVars, vars
    <2> QED
        BY <2>1, <2>2, <2>3, <2>4, <2>5
<1>4. ASSUME UNCHANGED wfp, provider => provider' \/ driver' = "unload"
      PROVE  ProviderHeld' /\ OneSetup'
    BY <1>3, <1>4 DEF ProviderHeld, OneSetup, Holds
<1>5. ASSUME NEW t \in Threads, SetupWFP(t)
      PROVE  ProviderHeld' /\ OneSetup'
    <2>1. driver' = driver
        BY <1>5, Frames DEF entryVars
    <2>2. /\ \A u \in Threads : u # t => wfp'[u] = wfp[u]
          /\ Holds(t)' => Holds(t) \/ (~provider /\ provider')
          /\ provider => provider'
          /\ wfp[t].pc # "idle"
        BY <1>5, SetupMoves DEF Holds
    <2>3. \A u \in Threads : u # t => (Holds(u)' <=> Holds(u))
        BY <2>2 DEF Holds
    <2>4. ProviderHeld'
        BY <2>1, <2>2, <2>3 DEF ProviderHeld
    <2>5. OneSetup'
        <3>1. CASE driver \in {"off", "entry", "loaded"}
            BY <1>1, <1>2, <2>2, <2>3, <3>1 DEF ProviderHeld
        <3>2. CASE driver \in {"unload", "gone"}
            <4>1. wfp[main] = Idle
                BY <3>2 DEF SetupsEnd
            <4>2. t # main /\ ~Holds(main)
                BY <2>2, <4>1 DEF Idle, Holds
            <4> QED
                BY <1>1, <1>2, <2>3, <4>2
        <3> QED
            BY <3>1, <3>2 DEF TypeOK
    <2> QED
        BY <2>4, <2>5
<1>6. ASSUME NEW t \in Threads, StartSetup(t), provider' = provider
      PROVE  ProviderHeld' /\ OneSetup'
    <2>1. ~Holds(t)' /\ \A u \in Threads : u # t => wfp'[u] = wfp[u]
        BY <1>6 DEF StartSetup, Holds, TypeOK, Idle
    <2>2. \A u \in Threads : Holds(u)' => Holds(u)
        BY <2>1 DEF Holds
    <2> QED
        BY <1>1, <1>2, <1>3, <1>6, <2>2 DEF ProviderHeld
<1>7. CASE AskBfe
    BY <1>1, <1>4, <1>6, <1>7 DEF AskBfe, engineVars
<1>8. CASE StartBfe
    BY <1>1, <1>4, <1>6, <1>8 DEF StartBfe, BFECallback
<1>9. CASE StopBfe
    <2>1. \A t \in Threads : ~Holds(t)'
        BY <1>9 DEF StopBfe, Holds, TypeOK, Setups
    <2> QED
        BY <1>1, <1>2, <2>1 DEF ProviderHeld
<1>10. CASE UnregisterMoonMon
    <2>1. wfp' = wfp
        BY <1>10, Frames
    <2>2. provider => provider' \/ driver' = "unload"
        BY <1>10, TeardownSteps DEF UnregisterMoonMon, RemoveKind, RemoveFile,
            Unsubscribe, UnloadConfig, DeleteDevice, engineVars
    <2> QED
        BY <1>4, <2>1, <2>2
<1>11. CASE UNCHANGED <<wfp, provider>>
    BY <1>4, <1>11
<1> QED
    BY <1>5, <1>7, <1>8, <1>9, <1>10, <1>11, StepKinds, Frames
        DEF Unchanged, engineVars, vars

\* Setups run in main only while DriverEntry waits, and in notify only while
\* subscribed.
LEMMA SetupsStep ==
    ASSUME IInv, [Next]_vars
    PROVE  SetupsEnd'
<1> USE DEF IInv, SetupsEnd
<1>1. main \in Threads /\ notify \in Threads /\ main # notify
        /\ \A t \in Threads : t = main \/ t = notify
    BY DEF Threads, main, notify
<1>2. CASE EntryStep
    <2>1. UNCHANGED <<wfp, faults, raced>>
        BY <1>2, Frames DEF Unchanged
    <2>2. CASE Load \/ CreateDevice \/ CreateLink \/ InitGlobals \/ EntryFails
        BY <2>1, <2>2 DEF Load, CreateDevice, CreateLink, InitGlobals,
            EntryFails, In
    <2>3. CASE RegisterKind \/ RegisterFile \/ FsSetupFails
        BY <2>1, <2>3 DEF RegisterKind, RegisterFile, FsSetupFails, KindFails,
            AfterKinds, In
    <2>4. CASE SubscribeFails \/ Subscribe \/ Initialized
        BY <2>1, <2>4 DEF SubscribeFails, Subscribe, Initialized, In
    <2> QED
        BY <1>2, <2>2, <2>3, <2>4 DEF EntryStep
<1>3. CASE AskBfe
    BY <1>1, <1>3 DEF AskBfe, StartSetup, In, TypeOK
<1>4. ASSUME NEW t \in Threads, SetupWFP(t)
      PROVE  SetupsEnd'
    <2>1. UNCHANGED <<driver, at, subscribed, faults, raced>>
        BY <1>4, Frames DEF entryVars
    <2>2. wfp[t] # Idle /\ \A u \in Threads : u # t => wfp'[u] = wfp[u]
        BY <1>4, SetupMoves DEF Idle
    <2> QED
        BY <1>1, <2>1, <2>2
<1>5. CASE StartBfe
    BY <1>1, <1>5 DEF StartBfe, BFECallback, StartSetup, TypeOK, entryVars
<1>6. CASE StopBfe
    <2>1. \A t \in Threads : wfp[t] = Idle => wfp'[t] = Idle
        <3>1. \A s \in Setups : ~s.session => [s EXCEPT !.session = FALSE] = s
            BY DEF Setups
        <3>2. Idle \in Setups /\ ~Idle.session
            BY IdleSetup DEF Idle
        <3> QED
            BY <1>6, <3>1, <3>2 DEF StopBfe
    <2> QED
        BY <1>1, <1>6, <2>1, Frames DEF entryVars
<1>7. CASE UNCHANGED <<driver, at, subscribed, faults, raced, wfp>>
    BY <1>7
<1>8. CASE Unload
    BY <1>1, <1>8 DEF Unload
<1>9. CASE UnregisterMoonMon
    <2>1. wfp' = wfp /\ raced' = raced /\ driver = "unload"
            /\ driver' \in {"unload", "gone"}
        BY <1>9, Frames, TeardownSteps DEF UnregisterMoonMon, RemoveKind,
            RemoveFile, Unsubscribe, UnloadConfig, DeleteDevice, In
    <2>2. subscribed' = subscribed \/ wfp[notify] = Idle
        BY <1>9, TeardownSteps DEF UnregisterMoonMon, RemoveKind,
            RemoveFile, Unsubscribe, UnloadConfig, DeleteDevice
    <2> QED
        BY <2>1, <2>2
<1> QED
    BY <1>2, <1>3, <1>4, <1>5, <1>6, <1>7, <1>8, <1>9, StepKinds, Frames
        DEF entryVars, vars

-----------------------------------------------------------------------------
(* The loop over callouts.                                                 *)

\* What the loop invariant says of a setup in the state w.
InLoop(w, fs) ==
    /\ w.tx \subseteq fs
    /\ w.pc = "register" => \A k \in Keys : k < w.i => k \in fs
    /\ w.pc = "add" /\ w.i \in Keys =>
            \A k \in Keys : k <= w.i => k \in fs

InBounds(w, cs) ==
    /\ w.pc = "register" => w.i \in Keys
    /\ w.pc = "commit2" /\ w.session => w.tx \subseteq cs

LEMMA LoopParts ==
    LoopInv <=>
        /\ \A t \in Threads : InBounds(wfp[t], callouts)
        /\ ~faults /\ ~raced => callouts \subseteq functions
                                    /\ \A t \in Threads : InLoop(wfp[t], functions)
BY DEF LoopInv, InBounds, InLoop

\* A setup keeps the loop invariant: a function that cannot be registered
\* sends the loop back to one that was, or out of the array.
LEMMA SetupLoop ==
    ASSUME TypeOK, LoopInv, NEW t \in Threads, SetupWFP(t)
    PROVE  /\ InBounds(wfp'[t], callouts')
           /\ callouts \subseteq callouts' /\ functions \subseteq functions'
           /\ ~faults /\ ~raced => callouts' \subseteq functions'
                                    /\ InLoop(wfp'[t], functions')
<1> USE DEF TypeOK, Goes, GoesTo, At
<1>1. InBounds(wfp[t], callouts) /\ (~faults /\ ~raced =>
                            callouts \subseteq functions /\ InLoop(wfp[t], functions))
    BY LoopParts
<1>2. wfp[t] \in Setups
    OBVIOUS
<1>3. callout_count \in Nat /\ ULONGs \in Nat /\ callout_count < ULONGs - 2
        /\ Keys = 0..(callout_count - 1)
    BY LifecycleAssumption DEF Keys
<1>4. ASSUME UNCHANGED <<functions, callouts>>, wfp'[t].tx = {},
             wfp'[t].pc \notin {"register", "add"}
      PROVE  /\ InBounds(wfp'[t], callouts')
             /\ ~faults /\ ~raced => InLoop(wfp'[t], functions')
    BY <1>4 DEF InBounds, InLoop
<1>5. CASE Open(t)
    <2>1. Idle.tx = {} /\ Idle.pc = "idle"
            /\ [Idle EXCEPT !.pc = "provider", !.session = TRUE].tx = {}
            /\ [Idle EXCEPT !.pc = "provider", !.session = TRUE].pc = "provider"
        BY DEF Idle
    <2> QED
        BY <1>1, <1>4, <1>5, <2>1 DEF Open, engineVars
<1>6. Idle.tx = {} /\ Idle.pc = "idle"
    BY DEF Idle
<1>7. CASE AddProvider(t)
    BY <1>1, <1>2, <1>6, <1>7 DEF AddProvider, Setups, InBounds, InLoop
<1>8. CASE Begin(t)
    <2>1. UNCHANGED <<functions, callouts>>
        BY <1>8 DEF Begin, engineVars
    <2>2. CASE Goes(t, Idle)
        BY <1>1, <1>4, <1>6, <2>1, <2>2
    <2>3. CASE Goes(t, [wfp[t] EXCEPT !.pc = "register", !.i = 0])
        <3>1. 0 \in Keys /\ \A k \in Keys : ~(k < 0)
            BY LifecycleAssumption, <1>3
        <3>2. wfp'[t].tx = wfp[t].tx /\ wfp'[t].pc = "register"
                /\ wfp'[t].i = 0
            BY <1>2, <2>3 DEF Setups
        <3> QED
            BY <1>1, <2>1, <3>1, <3>2 DEF InBounds, InLoop
    <2>4. CASE Goes(t, [wfp[t] EXCEPT !.pc = "filter", !.tx = {}])
        <3>1. wfp'[t].tx = {} /\ wfp'[t].pc = "filter"
            BY <1>2, <2>4 DEF Setups
        <3> QED
            BY <1>1, <1>4, <2>1, <3>1
    <2> HIDE DEF Goes
    <2> QED
        BY <1>8, <2>2, <2>3, <2>4 DEF Begin
<1>9. CASE RegisterCallout(t)
    <2> DEFINE i == wfp[t].i
    <2>1. i \in Keys /\ wfp[t].pc = "register" /\ callouts' = callouts
        BY <1>1, <1>9 DEF RegisterCallout, InBounds
    <2>2. CASE functions' = functions \cup {i} /\ GoesTo(t, "add")
        <3>1. wfp'[t].tx = wfp[t].tx /\ wfp'[t].pc = "add" /\ wfp'[t].i = i
            BY <1>2, <2>2 DEF Setups
        <3>2. \A k \in Keys : k <= i => k < i \/ k = i
            BY <1>3, <2>1
        <3> QED
            BY <1>1, <2>1, <2>2, <3>1, <3>2 DEF InBounds, InLoop
    <2>3. CASE CalloutFails(t) /\ functions' = functions
        <3> DEFINE j == (i - 1) % ULONGs
        <3>1. wfp'[t].tx = wfp[t].tx /\ wfp'[t].pc = "add" /\ wfp'[t].i = j
            BY <1>2, <2>3 DEF Setups, CalloutFails
        <3>2. IF i = 0 THEN j \notin Keys ELSE j = i - 1
            BY <2>1, IndexBack
        <3> HIDE DEF j
        <3>3. j \in Keys => \A k \in Keys : k <= j => k < i
            BY <1>3, <2>1, <3>2
        <3> QED
            BY <1>1, <2>1, <2>3, <3>1, <3>3 DEF InBounds, InLoop
    <2> QED
        BY <1>9, <2>2, <2>3 DEF RegisterCallout
<1>10. CASE RegisterFreed(t)
    BY <1>1, <1>10 DEF RegisterFreed, engineVars, InBounds, InLoop
<1>11. CASE AddCallout(t)
    <2> DEFINE i == wfp[t].i
    <2>1. i \in Keys /\ wfp[t].pc = "add" /\ UNCHANGED <<functions, callouts>>
        BY <1>11 DEF AddCallout, engineVars
    <2>2. CASE Goes(t, [wfp[t] EXCEPT !.pc = Counted(i + 1), !.i = i + 1,
                                      !.tx = @ \cup {i}])
        <3>1. wfp'[t].tx = wfp[t].tx \cup {i} /\ wfp'[t].i = i + 1
                /\ wfp'[t].pc = Counted(i + 1)
            BY <1>2, <2>2 DEF Setups
        <3>2. Counted(i + 1) = "register" => i + 1 \in Keys
            BY <1>3, <2>1 DEF Counted
        <3>3. Counted(i + 1) \in {"register", "commit"}
            BY DEF Counted
        <3>4. i <= i /\ \A k \in Keys : k < i + 1 => k <= i
            BY <1>3, <2>1
        <3> QED
            BY <1>1, <2>1, <3>1, <3>2, <3>3, <3>4 DEF InBounds, InLoop
    <2>3. CASE GoesTo(t, Counted(i))
        <3>1. wfp'[t].tx = wfp[t].tx /\ wfp'[t].i = i
                /\ wfp'[t].pc = "register"
            BY <1>2, <1>3, <2>1, <2>3 DEF Setups, Counted
        <3>2. \A k \in Keys : k < i => k <= i
            BY <1>3, <2>1
        <3> QED
            BY <1>1, <2>1, <3>1, <3>2 DEF InBounds, InLoop
    <2> HIDE DEF Goes, GoesTo
    <2> QED
        BY <1>11, <2>2, <2>3 DEF AddCallout
<1>12. CASE AddNoCallout(t)
    <2>1. wfp[t].i \notin Keys /\ wfp[t].pc = "add"
            /\ UNCHANGED <<functions, callouts>>
        BY <1>12 DEF AddNoCallout, engineVars
    <2>2. CASE wfp' = wfp
        BY <1>1, <2>1, <2>2 DEF InBounds, InLoop
    <2>3. CASE GoesTo(t, Counted(wfp[t].i))
        <3>1. Counted(wfp[t].i) = "commit"
            BY <1>2, <1>3, <2>1 DEF Counted, Setups
        <3>2. wfp'[t].tx = wfp[t].tx /\ wfp'[t].pc = "commit"
            BY <1>2, <2>3, <3>1 DEF Setups
        <3> QED
            BY <1>1, <2>1, <3>2 DEF InBounds, InLoop
    <2> QED
        BY <1>12, <2>2, <2>3 DEF AddNoCallout
<1>13. CASE Commit(t)
    <2>1. wfp[t].pc = "commit" /\ functions' = functions
        BY <1>13 DEF Commit
    <2>2. CASE GoesTo(t, "begin2") /\ callouts' = callouts \cup wfp[t].tx
        <3>1. wfp'[t].tx = wfp[t].tx /\ wfp'[t].pc = "begin2"
            BY <1>2, <2>2 DEF Setups
        <3> QED
            BY <1>1, <2>1, <2>2, <3>1 DEF InBounds, InLoop
    <2>3. CASE Goes(t, Idle) /\ callouts' = callouts
        <3>1. wfp'[t].tx = {} /\ wfp'[t].pc = "idle"
            BY <1>6, <2>3
        <3> QED
            BY <1>1, <2>1, <2>3, <3>1 DEF InBounds, InLoop
    <2> HIDE DEF Goes, GoesTo
    <2> QED
        BY <1>13, <2>2, <2>3 DEF Commit
<1>14. CASE AddFilters(t)
    <2>1. PICK fs \in SUBSET callouts :
            wfp' = [wfp EXCEPT ![t] = [wfp[t] EXCEPT !.pc = "commit2",
                                   !.tx = IF CanCall(t) THEN fs ELSE {}]]
        BY <1>14 DEF AddFilters
    <2>2. wfp'[t].tx \subseteq callouts /\ wfp'[t].pc = "commit2"
        BY <1>2, <2>1 DEF Setups
    <2>3. UNCHANGED <<functions, callouts>>
        BY <1>14 DEF AddFilters, engineVars
    <2> QED
        BY <1>1, <2>2, <2>3 DEF InBounds, InLoop
<1>15. CASE CommitFilters(t)
    BY <1>1, <1>4, <1>6, <1>15 DEF CommitFilters
<1> QED
    BY <1>5, <1>7, <1>8, <1>9, <1>10, <1>11, <1>12, <1>13, <1>14, <1>15
        DEF SetupWFP

\* Starting a setup and losing the sessions do not touch the loop.
LEMMA LoopStep ==
    ASSUME IInv, [Next]_vars
    PROVE  LoopInv'
<1> USE DEF IInv
<1>1. main \in Threads /\ notify \in Threads /\ main # notify
        /\ \A t \in Threads : t = main \/ t = notify
    BY DEF Threads, main, notify
<1>2. /\ \A t \in Threads : InBounds(wfp[t], callouts)
      /\ ~faults /\ ~raced => callouts \subseteq functions
                                /\ \A t \in Threads : InLoop(wfp[t], functions)
    BY LoopParts
<1>3. ASSUME \A t \in Threads : InBounds(wfp'[t], callouts'),
             ~faults' /\ ~raced' => callouts' \subseteq functions'
                        /\ \A t \in Threads : InLoop(wfp'[t], functions')
      PROVE  LoopInv'
    BY <1>3 DEF LoopInv, InBounds, InLoop
<1>4. ASSUME UNCHANGED <<callouts, functions, wfp>>,
             faults => faults', raced => raced'
      PROVE  LoopInv'
    BY <1>2, <1>3, <1>4
<1>5. ASSUME NEW t \in Threads, SetupWFP(t)
      PROVE  LoopInv'
    <2>1. /\ InBounds(wfp'[t], callouts')
          /\ callouts \subseteq callouts' /\ functions \subseteq functions'
          /\ ~faults /\ ~raced => callouts' \subseteq functions'
                                    /\ InLoop(wfp'[t], functions')
        BY <1>5, SetupLoop
    <2>2. /\ \A u \in Threads : u # t => wfp'[u] = wfp[u]
          /\ faults' = faults /\ raced' = raced
        BY <1>5, SetupMoves, Frames
    <2>3. \A w : InBounds(w, callouts) => InBounds(w, callouts')
        BY <2>1 DEF InBounds
    <2>4. \A w : InLoop(w, functions) => InLoop(w, functions')
        BY <2>1 DEF InLoop
    <2>5. \A u \in Threads : InBounds(wfp'[u], callouts')
        BY <1>2, <2>1, <2>2, <2>3
    <2>6. ~faults /\ ~raced => \A u \in Threads : InLoop(wfp'[u], functions')
        BY <1>2, <2>1, <2>2, <2>4
    <2> QED
        BY <1>3, <2>1, <2>2, <2>5, <2>6
<1>6. ASSUME NEW t \in Threads, StartSetup(t),
             UNCHANGED <<callouts, functions, faults>>, raced => raced'
      PROVE  LoopInv'
    <2>1. /\ wfp'[t] = [Idle EXCEPT !.pc = "open"]
          /\ \A u \in Threads : u # t => wfp'[u] = wfp[u]
        BY <1>6 DEF StartSetup, TypeOK
    <2>2. wfp'[t].pc = "open" /\ wfp'[t].tx = {}
        BY <2>1 DEF Idle
    <2>3. InBounds(wfp'[t], callouts) /\ InLoop(wfp'[t], functions)
        BY <2>2 DEF InBounds, InLoop
    <2> QED
        BY <1>2, <1>3, <1>6, <2>1, <2>3
<1>7. CASE AskBfe
    <2>1. UNCHANGED <<callouts, functions, faults, raced>>
        BY <1>7, Frames DEF engineVars
    <2> QED
        BY <1>1, <1>4, <1>6, <1>7, <2>1 DEF AskBfe
<1>8. CASE StartBfe
    <2>1. UNCHANGED <<callouts, functions, faults>> /\ (raced => raced')
        BY <1>8, Frames DEF StartBfe
    <2>2. wfp' = wfp \/ StartSetup(notify)
        BY <1>8 DEF StartBfe, BFECallback
    <2> QED
        BY <1>1, <1>4, <1>6, <2>1, <2>2
<1>9. CASE StopBfe
    <2>1. callouts' = {} /\ UNCHANGED <<functions, faults, raced>>
            /\ wfp' = [t \in Threads |-> [wfp[t] EXCEPT !.session = FALSE]]
        BY <1>9, Frames DEF StopBfe
    <2>2. ASSUME NEW t \in Threads
          PROVE  wfp'[t].tx = wfp[t].tx /\ wfp'[t].pc = wfp[t].pc
                    /\ wfp'[t].i = wfp[t].i /\ ~wfp'[t].session
        BY <2>1 DEF TypeOK, Setups
    <2>3. ASSUME NEW t \in Threads
          PROVE  /\ InBounds(wfp'[t], callouts')
                 /\ InLoop(wfp[t], functions) => InLoop(wfp'[t], functions')
        BY <1>2, <2>1, <2>2 DEF InBounds, InLoop
    <2> QED
        BY <1>2, <1>3, <2>1, <2>3
<1>10. CASE UnregisterMoonMon
    <2>1. wfp' = wfp /\ raced' = raced
        BY <1>10, Frames
    <2>2. CASE UnregisterWFP
        <3>1. /\ driver = "unload"
              /\ \/ /\ ~(InTransaction(notify) /\ wfp[notify].session)
                    /\ faults' = faults
                    /\ \/ at = "filters" /\ DeleteFilters
                       \/ at = "callouts" /\ DeleteCallouts
                       \/ at = "provider" /\ DeleteProvider
                 \/ /\ faults' = TRUE
                    /\ UNCHANGED <<functions, callouts>>
            BY <2>2, TeardownSteps
        <3>2. wfp[main] = Idle /\ (~raced => wfp[notify] = Idle)
            BY <3>1 DEF SetupsEnd
        <3>3. Idle.tx = {} /\ Idle.pc = "idle"
            BY DEF Idle
        <3>4. CASE faults' /\ UNCHANGED <<functions, callouts>>
            BY <1>4, <2>1, <3>4
        <3>5. CASE DeleteFilters \/ DeleteProvider
            BY <1>4, <2>1, <3>1, <3>5 DEF DeleteFilters, DeleteProvider
        <3>6. CASE at = "callouts" /\ DeleteCallouts /\ faults' = faults
                    /\ ~(InTransaction(notify) /\ wfp[notify].session)
            <4>1. callouts' = callouts \cap filters /\ functions' = {}
                BY <3>6 DEF DeleteCallouts
            <4>2. InBounds(wfp'[main], callouts')
                BY <2>1, <3>2, <3>3 DEF InBounds
            <4>3. InBounds(wfp'[notify], callouts')
                BY <1>1, <1>2, <2>1, <3>6 DEF InBounds, InTransaction
            <4>4. ~faults /\ ~raced => callouts' = {}
                BY <3>1, <3>6, <4>1 DEF UnloadProgress
            <4>5. ASSUME ~raced, NEW t \in Threads
                  PROVE  InLoop(wfp'[t], functions')
                BY <1>1, <2>1, <3>2, <3>3, <4>1, <4>5 DEF InLoop
            <4> QED
                BY <1>1, <1>3, <2>1, <3>6, <4>1, <4>2, <4>3, <4>4, <4>5
        <3> QED
            BY <3>1, <3>4, <3>5, <3>6
    <2>3. CASE UNCHANGED engineVars /\ (faults => faults')
        BY <1>4, <2>1, <2>3 DEF engineVars
    <2>4. CASE RemoveKind \/ RemoveFile \/ Unsubscribe
        BY <2>3, <2>4 DEF RemoveKind, RemoveFile, Unsubscribe
    <2>5. CASE UnloadConfig \/ DeleteDevice
        BY <2>3, <2>5 DEF UnloadConfig, DeleteDevice
    <2> QED
        BY <1>10, <2>2, <2>4, <2>5 DEF UnregisterMoonMon
<1>11. CASE Unload
    BY <1>2, <1>3, <1>11 DEF Unload, engineVars, SetupsEnd
<1>12. CASE UNCHANGED <<callouts, functions, wfp, faults, raced>>
    BY <1>4, <1>12
<1> QED
    BY <1>5, <1>7, <1>8, <1>9, <1>10, <1>11, <1>12, StepKinds, Frames
        DEF Unchanged, engineVars, vars

-----------------------------------------------------------------------------
(* Unloading.                                                              *)

\* What DriverUnload has taken away stays away as long as no call fails and
\* no setup comes in, to the end.
LEMMA UnloadStep ==
    ASSUME IInv, [Next]_vars
    PROVE  UnloadProgress' /\ FreedInUnload' /\ CleanUnload'
<1> USE DEF IInv, FreedInUnload
<1> DEFINE Goal == UnloadProgress' /\ FreedInUnload' /\ CleanUnload'
<1>1. driver \in {"off", "entry", "loaded"} => globals # "freed"
    OBVIOUS
<1>2. ASSUME driver' \in {"off", "entry", "loaded"}, globals' # "freed"
      PROVE  Goal
    BY <1>2 DEF UnloadProgress, CleanUnload
<1>3. ASSUME driver' = "gone", driver # "unload", globals' # "freed"
      PROVE  Goal
    BY <1>3 DEF UnloadProgress, CleanUnload
<1>4. ASSUME faults' \/ raced', FreedInUnload'
      PROVE  Goal
    BY <1>4 DEF UnloadProgress, CleanUnload
<1>5. ASSUME UNCHANGED <<entryVars, functions>>, provider' => provider,
             callouts' \subseteq callouts, filters' \subseteq filters,
             faults => faults', raced => raced'
      PROVE  Goal
    <2>1. FreedInUnload' /\ UnloadProgress'
        BY <1>5 DEF UnloadProgress, entryVars
    <2>2. CleanUnload'
        BY <1>5, SetupsStep DEF CleanUnload, SetupsEnd, entryVars
    <2> QED
        BY <2>1, <2>2
<1>6. CASE EntryStep
    BY <1>1, <1>2, <1>3, <1>6 DEF EntryStep, Load, CreateDevice, CreateLink,
        InitGlobals, EntryFails, RegisterKind, KindFails, RegisterFile,
        FsSetupFails, SubscribeFails, Subscribe, Initialized, In, AfterKinds,
        TypeOK
<1>7. CASE AskBfe
    BY <1>1, <1>2, <1>7 DEF AskBfe, In
<1>8. ASSUME NEW t \in Threads, SetupWFP(t)
      PROVE  Goal
    <2>1. UNCHANGED <<entryVars, faults, raced>> /\ wfp[t] # Idle
        BY <1>8, Frames, SetupMoves DEF Idle
    <2>2. CASE driver \in {"off", "entry", "loaded"}
        BY <1>1, <1>2, <2>1, <2>2 DEF entryVars
    <2>3. CASE driver \in {"unload", "gone"}
        <3>1. raced
            BY <2>1, <2>3 DEF SetupsEnd, Threads
        <3> QED
            BY <1>4, <2>1, <3>1 DEF entryVars
    <2> QED
        BY <2>2, <2>3 DEF TypeOK
<1>9. CASE StartBfe
    BY <1>5, <1>9 DEF StartBfe
<1>10. CASE StopBfe
    BY <1>5, <1>10 DEF StopBfe
<1>11. CASE UNCHANGED <<entryVars, engineVars, faults, raced>>
    BY <1>5, <1>11 DEF engineVars
<1>12. CASE Unload
    <2>1. registered \subseteq {Kinds[n] : n \in 1..Len(Kinds)} \cup {"file"}
        BY DEF TypeOK, Callbacks, Kinds
    <2>2. /\ driver' = "unload" /\ at' = "kinds" /\ kind' = 1
          /\ globals' = globals /\ registered' = registered
          /\ driver = "loaded"
        BY <1>12 DEF Unload
    <2> QED
        BY <1>1, <2>1, <2>2 DEF UnloadProgress, CleanUnload
<1>13. ASSUME driver = "unload", ~faults, ~raced, globals = "freed",
              at # "end"
       PROVE  FALSE
    BY <1>13 DEF UnloadProgress
<1>14. CASE RemoveKind
    <2>1. /\ driver = "unload" /\ driver' = "unload" /\ at = "kinds"
          /\ kind \in 1..5
          /\ UNCHANGED <<globals, engineVars, raced, wfp, subscribed>>
        BY <1>14, KindsFacts DEF RemoveKind, In, TypeOK
    <2>2. CASE faults' = TRUE
        BY <1>4, <2>1, <2>2
    <2>3. CASE /\ registered' = registered \ {k \in {Kinds[kind]} : Removes(k)}
               /\ kind' = kind + 1 /\ UNCHANGED <<at, faults>>
        <3>1. Kinds[kind] \notin registered'
            BY <2>3 DEF Removes
        <3>2. \A n \in kind..5 : n = kind \/ n \in (kind + 1)..5
            BY <2>1
        <3>3. ASSUME registered \subseteq
                        {Kinds[n] : n \in kind..5} \cup {"file"}
              PROVE  registered' \subseteq
                        {Kinds[n] : n \in (kind + 1)..5} \cup {"file"}
            BY <2>3, <3>1, <3>2, <3>3
        <3>4. UnloadProgress'
            BY <2>1, <2>3, <3>3, <1>13, KindsFacts
                DEF UnloadProgress, engineVars
        <3>5. CleanUnload'
            BY <1>13, <2>1, <2>3 DEF CleanUnload
        <3> QED
            BY <2>1, <3>4, <3>5
    <2> QED
        BY <1>14, <2>2, <2>3 DEF RemoveKind
<1>15. CASE RemoveFile
    <2>1. /\ driver = "unload" /\ driver' = "unload" /\ at = "kinds"
          /\ at' = "filters" /\ kind = 6
          /\ registered' = registered \ {"file"}
          /\ UNCHANGED <<globals, engineVars, raced, faults, wfp, subscribed>>
        BY <1>15, KindsFacts, TeardownFacts DEF RemoveFile, In, TypeOK
    <2>2. {Kinds[n] : n \in kind..Len(Kinds)} = {}
        BY <2>1, KindsFacts
    <2>3. ~faults /\ ~raced => registered' = {}
        BY <2>1, <2>2 DEF UnloadProgress
    <2>4. UnloadProgress'
        BY <1>13, <2>1, <2>3 DEF UnloadProgress
    <2>5. CleanUnload'
        BY <1>13, <2>1 DEF CleanUnload
    <2> QED
        BY <2>1, <2>4, <2>5
<1>16. CASE UnregisterWFP
    <2>1. /\ driver = "unload" /\ driver' = "unload"
          /\ UNCHANGED <<globals, raced, registered, wfp, subscribed>>
        BY <1>16, TeardownSteps, Frames DEF UnregisterMoonMon
    <2>2. CASE faults' = TRUE
        BY <1>4, <2>1, <2>2
    <2>3. CASE at = "filters" /\ at' = "callouts" /\ DeleteFilters
                    /\ faults' = faults
        BY <1>13, <2>1, <2>3 DEF DeleteFilters, UnloadProgress, CleanUnload
    <2>4. CASE at = "callouts" /\ at' = "provider" /\ DeleteCallouts
                    /\ faults' = faults
        BY <1>13, <2>1, <2>4 DEF DeleteCallouts, UnloadProgress, CleanUnload
    <2>5. CASE at = "provider" /\ at' = "network" /\ DeleteProvider
                    /\ faults' = faults
        BY <1>13, <2>1, <2>5 DEF DeleteProvider, UnloadProgress, CleanUnload
    <2> QED
        BY <1>16, <2>2, <2>3, <2>4, <2>5, TeardownSteps
<1>17. CASE Unsubscribe
    <2>1. /\ driver = "unload" /\ driver' = "unload" /\ at = "network"
          /\ at' = "config" /\ (subscribed' = FALSE \/ faults' = TRUE)
          /\ faults' = faults \/ faults' = TRUE
          /\ UNCHANGED <<globals, registered, engineVars, raced, wfp>>
        BY <1>17 DEF Unsubscribe, In
    <2>2. CASE faults' = TRUE
        BY <1>4, <2>1, <2>2
    <2>3. CASE faults' = faults /\ subscribed' = FALSE
        BY <1>13, <2>1, <2>3 DEF UnloadProgress, CleanUnload, engineVars
    <2> QED
        BY <2>1, <2>2, <2>3
<1>18. CASE UnloadConfig
    <2>1. /\ driver = "unload" /\ driver' = "unload" /\ at = "config"
          /\ at' = "end"
          /\ UNCHANGED <<registered, subscribed, engineVars, raced, faults, wfp>>
        BY <1>18 DEF UnloadConfig, In
    <2> QED
        BY <2>1 DEF UnloadProgress, CleanUnload, SetupsEnd, engineVars
<1>19. CASE DeleteDevice
    <2>1. /\ driver = "unload" /\ driver' = "gone" /\ device' = "none"
          /\ UNCHANGED <<globals, registered, subscribed, engineVars, raced,
                         faults, wfp>>
        BY <1>19 DEF DeleteDevice, In
    <2> QED
        BY <2>1 DEF UnloadProgress, CleanUnload, engineVars
<1> QED
    BY <1>6, <1>7, <1>8, <1>9, <1>10, <1>11, <1>12, <1>14, <1>15, <1>16, <1>17,
        <1>18, <1>19, StepKinds, Frames DEF UnregisterMoonMon, vars

-----------------------------------------------------------------------------
(* The theorems.                                                           *)

\* Before the driver is loaded there is nothing of it.
LEMMA InitOK ==
    ASSUME Init
    PROVE  IInv
<1> USE DEF Init
<1>1. TypeOK
    <2>1. ClientTypes
        BY LifecycleAssumption DEF ClientTypes
    <2>2. EntryTypes
        <3>1. kind \in 1..6 /\ at \in Steps /\ registered \subseteq Callbacks
            BY DEF Steps
        <3>2. State \in BOOLEAN /\ subscribed \in BOOLEAN
            BY Zenon
        <3> QED
            BY <3>1, <3>2 DEF EntryTypes
    <2>3. EngineTypes
        <3>1. starts \in 0..MaxStarts
            BY LifecycleAssumption
        <3>2. bfe \in BOOLEAN /\ provider \in BOOLEAN
            BY Zenon
        <3> QED
            BY <3>1, <3>2 DEF EngineTypes
    <2>4. OtherTypes
        BY IdleSetup DEF OtherTypes
    <2> QED
        BY <2>1, <2>2, <2>3, <2>4, TypeParts
<1>2. main \in Threads /\ notify \in Threads
    BY DEF Threads
<1>3. ProviderHeld /\ OneSetup
    BY <1>2 DEF ProviderHeld, Holds, OneSetup, Idle
<1>4. SetupsEnd
    BY <1>2 DEF SetupsEnd
<1>5. LoopInv
    BY DEF LoopInv, Idle
<1>6. UnloadProgress /\ FreedInUnload /\ CleanUnload /\ OpeningInv
        /\ ClientHasDevice
    BY DEF UnloadProgress, FreedInUnload, CleanUnload, OpeningInv,
        ClientHasDevice
<1> QED
    BY <1>1, <1>3, <1>4, <1>5, <1>6 DEF IInv

LEMMA Step ==
    ASSUME IInv, [Next]_vars
    PROVE  IInv'
<1>1. TypeOK /\ LoopInv
    BY DEF IInv
<1>2. ClientTypes' /\ OpeningInv' /\ ClientHasDevice'
    BY ClientsStep, TypeParts DEF IInv
<1>3. EntryTypes' /\ EngineTypes' /\ OtherTypes'
    BY <1>1, EntryTypesStep, EngineTypesStep, OtherTypesStep
<1>4. TypeOK'
    BY <1>2, <1>3, TypeParts, PTL
<1> QED
    BY <1>2, <1>4, LockStep, SetupsStep, LoopStep, UnloadStep DEF IInv

\* The invariant that the four safety properties rest on.
THEOREM Invariant == Spec => []IInv
BY InitOK, Step, PTL DEF Spec

\* Every variable has its type; a filter's callout was added before it.
THEOREM TypeCorrect == Spec => []TypeOK
BY Invariant, PTL DEF IInv

\* DriverEntry and BFECallback, in two threads and without a lock of their
\* own, never set up the network filters both: the engine adds the provider
\* once.
THEOREM SetupExclusive == Spec => []OneSetup
BY Invariant, PTL DEF IInv

\* However the index runs, whichever calls fail and whenever the engine stops,
\* a filter that is active has its callout's functions in the kernel.
THEOREM FiltersSafe == Spec => []FilterHasFunctions
<1>1. IInv => FilterHasFunctions
    BY DEF IInv, TypeOK, LoopInv, FilterHasFunctions
<1> QED
    BY <1>1, Invariant, PTL

\* DriverUnload leaves nothing behind that refers to the freed context, unless
\* one of its calls failed or a setup came in.
THEOREM UnloadClean == Spec => []CleanUnload
BY Invariant, PTL DEF IInv

\* The process that is taken for the client has the device open.
THEOREM ClientCorrect == Spec => []ClientHasDevice
BY Invariant, PTL DEF IInv

=============================================================================
