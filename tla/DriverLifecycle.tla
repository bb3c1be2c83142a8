--------------------------- MODULE DriverLifecycle ---------------------------
(***************************************************************************)
(* Loading and unloading the driver, and its network filters.              *)
(*                                                                         *)
(* DriverEntry and DriverUnload run in a thread of the system.  The Base   *)
(* Filtering Engine (BFE) starts and stops at any time and tells the       *)
(* driver in a thread of its own, which may set up the network filters     *)
(* at the same time as DriverEntry, or while they are taken down.          *)
(*                                                                         *)
(* The engine, the filter manager and the kernel are external: a call may  *)
(* fail, and what is said of them here is what the code relies on.         *)
(* Provider, callouts and filters of the engine are lost when it stops;    *)
(* a callout's functions are registered with the kernel and are not.  A    *)
(* key is added once, a filter needs its callout, and nothing that is      *)
(* referred to is deleted.  One transaction is open at a time.             *)
(***************************************************************************)
EXTENDS Integers, Sequences, FiniteSets

CONSTANTS
    callout_count,  \* 10 in registerCallouts
    ULONGs,         \* number of values of the index i, 2^32
    MaxStarts,      \* bound on starts of the engine
    Clients,        \* processes that may open the device
    NoClient,       \* clientpid = -1
    MaxFiles        \* bound on the files a process has open

ASSUME LifecycleAssumption ==
    /\ callout_count \in Nat \ {0}
    /\ ULONGs \in Nat /\ ULONGs > callout_count + 2
    /\ MaxStarts \in Nat
    /\ NoClient \notin Clients
    /\ MaxFiles \in Nat

\* The callbacks registered with the kernel, in the order of the code.  The
\* flags *_CALLBACK are TRUE: InitMoonMon sets them and nothing clears one.
Kinds == <<"process", "thread", "image", "object", "registry">>
Callbacks == {Kinds[n] : n \in DOMAIN Kinds} \cup {"file"}

main == "main"
notify == "notify"
Threads == {main, notify}
Keys == 0..(callout_count - 1)

VARIABLES
    driver,      \* "off", "entry", "loaded", "unload" or "gone"
    at,          \* where the thread main is
    kind,        \* which of Kinds it is about to register or remove
    globals,     \* GLOBAL_CONTEXT: "none", "set" or "freed"
    device,      \* the device object and its link: "none", "device", "both"
    registered,  \* callbacks registered with the kernel
    State,       \* State = INITIALIZED
    subscribed,  \* BFENotifyHandle
    bfe,         \* the engine runs
    starts,      \* history: number of its starts
    provider,    \* MM_WFP_PROVIDER is there
    functions,   \* callouts registered with the kernel
    callouts,    \* callouts added to the engine
    filters,     \* filters added to the engine
    wfp,         \* for each thread: where it is in SetupWFP
    crashed,     \* the machine stopped
    clientpid,   \* the process that is the client
    opening,     \* processes between the test and the store of clientpid
    files,       \* files each process has open on the device
    exited,      \* processes that exit: their files are closed after that
    faults,      \* history: some call of DriverUnload failed
    raced        \* history: SetupWFP ran in notify during DriverUnload

entryVars ==
    <<driver, at, kind, globals, device, registered, State, subscribed>>
engineVars == <<bfe, starts, provider, functions, callouts, filters>>
clientVars == <<clientpid, opening, files, exited>>
vars == <<entryVars, engineVars, wfp, crashed, clientVars, faults, raced>>

\* pc, the index i, the open session, what the transaction has added so far.
Idle == [pc |-> "idle", i |-> 0, session |-> FALSE, tx |-> {}]
InTransaction(t) ==
    wfp[t].pc \in {"register", "add", "commit", "filter", "commit2"}

Init ==
    /\ driver = "off"
    /\ at = "device"
    /\ kind = 1
    /\ globals = "none"
    /\ device = "none"
    /\ registered = {}
    /\ State = FALSE
    /\ subscribed = FALSE
    /\ bfe \in BOOLEAN
    /\ starts = 0
    /\ provider = FALSE
    /\ functions = {}
    /\ callouts = {}
    /\ filters = {}
    /\ wfp = [t \in Threads |-> Idle]
    /\ crashed = FALSE
    /\ clientpid = NoClient
    /\ opening = {}
    /\ files = [p \in Clients |-> 0]
    /\ exited = {}
    /\ faults = FALSE
    /\ raced = FALSE

-----------------------------------------------------------------------------
(* DriverEntry.                                                            *)

Unchanged == UNCHANGED <<engineVars, wfp, crashed, faults, raced, clientVars>>

Load ==
    /\ driver = "off"
    /\ driver' = "entry"
    /\ UNCHANGED <<at, kind, globals, device, registered, State, subscribed>>
    /\ Unchanged

In(d, where) == driver = d /\ at = where /\ ~crashed

CreateDevice ==
    /\ In("entry", "device")
    /\ at' = "link"
    /\ device' = "device"
    /\ UNCHANGED <<driver, kind, globals, registered, State, subscribed>>
    /\ Unchanged

CreateLink ==
    /\ In("entry", "link")
    /\ at' = "init"
    /\ device' = "both"
    /\ UNCHANGED <<driver, kind, globals, registered, State, subscribed>>
    /\ Unchanged

\* InitMoonMon allocates GLOBAL_CONTEXT.
InitGlobals ==
    /\ In("entry", "init")
    /\ at' = "kinds"
    /\ globals' = "set"
    /\ UNCHANGED <<driver, kind, device, registered, State, subscribed>>
    /\ Unchanged

\* DriverEntry returns an error and the system removes the driver.  The device
\* is deleted if it has no link yet.  registerCallbacks returns at its first
\* error and nothing is taken back.
EntryFails ==
    /\ \/ In("entry", "device") \/ In("entry", "link") \/ In("entry", "init")
       \/ (In("entry", "kinds") /\ kind = 1)
    /\ driver' = "gone"
    /\ device' = IF device = "both" THEN "both" ELSE "none"
    /\ UNCHANGED <<at, kind, globals, registered, State, subscribed>>
    /\ Unchanged

\* registerCallbacks returns, and so does DriverEntry.
KindFails == driver' = "gone" /\ UNCHANGED kind

\* One of the five registrations.
RegisterKind ==
    /\ In("entry", "kinds")
    /\ kind <= Len(Kinds)
    /\ \/ /\ registered' = registered \cup {Kinds[kind]}
          /\ kind' = kind + 1
          /\ UNCHANGED driver
       \/ /\ KindFails
          /\ UNCHANGED registered
    /\ UNCHANGED <<at, globals, device, State, subscribed>>
    /\ Unchanged

AfterKinds == In("entry", "kinds") /\ kind > Len(Kinds)

\* FltRegisterFilter and FltStartFiltering.
RegisterFile ==
    /\ AfterKinds
    /\ \/ /\ registered' = registered \cup {"file"}
          /\ at' = "network"
          /\ UNCHANGED driver
       \/ /\ driver' = "gone"
          /\ UNCHANGED <<at, registered>>
    /\ UNCHANGED <<kind, globals, device, State, subscribed>>
    /\ Unchanged

\* FsFilterRegistrySetup fails: registerCallbacks returns the status of the
\* step before it, which is a success, and leaves the network out.
FsSetupFails ==
    /\ AfterKinds
    /\ at' = "state"
    /\ UNCHANGED <<driver, kind, globals, device, registered, State, subscribed>>
    /\ Unchanged

\* FwpmBfeStateSubscribeChanges fails, which is no error.
SubscribeFails ==
    /\ In("entry", "network")
    /\ at' = "state"
    /\ UNCHANGED <<driver, kind, globals, device, registered, State, subscribed>>
    /\ Unchanged

Subscribe ==
    /\ In("entry", "network")
    /\ subscribed' = TRUE
    /\ at' = "bfe"
    /\ UNCHANGED <<driver, kind, globals, device, registered, State>>
    /\ Unchanged

StartSetup(t) == wfp' = [wfp EXCEPT ![t] = [Idle EXCEPT !.pc = "open"]]

\* FwpmBfeStateGet.
AskBfe ==
    /\ In("entry", "bfe")
    /\ at' = "state"
    /\ IF bfe THEN StartSetup(main) ELSE UNCHANGED wfp
    /\ UNCHANGED <<driver, kind, globals, device, registered, State, subscribed,
                   engineVars, crashed, faults, raced, clientVars>>

Initialized ==
    /\ In("entry", "state")
    /\ wfp[main] = Idle
    /\ State' = TRUE
    /\ driver' = "loaded"
    /\ UNCHANGED <<at, kind, globals, device, registered, subscribed>>
    /\ Unchanged

-----------------------------------------------------------------------------
(* SetupWFP, in either thread.                                             *)

At(t, pc) == wfp[t].pc = pc /\ ~crashed
Goes(t, w) == wfp' = [wfp EXCEPT ![t] = w]
GoesTo(t, pc) == Goes(t, [wfp[t] EXCEPT !.pc = pc])

\* A call of the engine can succeed in a session that is still open, while no
\* other thread has a transaction.
CanCall(t) ==
    /\ wfp[t].session
    /\ ~ \E u \in Threads \ {t} : InTransaction(u) /\ wfp[u].session

\* FwpmEngineOpen.
Open(t) ==
    /\ At(t, "open")
    /\ \/ /\ bfe
          /\ Goes(t, [Idle EXCEPT !.pc = "provider", !.session = TRUE])
       \/ Goes(t, Idle)
    /\ UNCHANGED <<entryVars, engineVars, crashed, faults, raced, clientVars>>

\* Variant of AddsProvider: an existing provider is as good as a new one.
AddsProviderOrFinds == TRUE

\* FwpmProviderAdd0 does not add a provider twice.
AddsProvider == ~provider

AddProvider(t) ==
    /\ At(t, "provider")
    /\ \/ /\ CanCall(t) /\ AddsProvider
          /\ provider' = TRUE
          /\ GoesTo(t, "begin")
       \/ /\ Goes(t, Idle)
          /\ UNCHANGED provider
    /\ UNCHANGED <<entryVars, bfe, starts, functions, callouts, filters,
                   crashed, faults, raced, clientVars>>

\* FwpmTransactionBegin, for the callouts and for the filters.
Begin(t) ==
    /\ \/ /\ At(t, "begin") /\ CanCall(t)
          /\ Goes(t, [wfp[t] EXCEPT !.pc = "register", !.i = 0])
       \/ /\ At(t, "begin2") /\ CanCall(t)
          /\ Goes(t, [wfp[t] EXCEPT !.pc = "filter", !.tx = {}])
       \/ /\ At(t, "begin") \/ At(t, "begin2")
          /\ Goes(t, Idle)
    /\ UNCHANGED <<entryVars, engineVars, crashed, faults, raced, clientVars>>

\* Variant of CalloutFails: the callout is tried again until it succeeds.
CalloutFailsAgain(t) == UNCHANGED wfp

\* --i, and the loop goes on to FwpmCalloutAdd with it.
CalloutFails(t) ==
    Goes(t, [wfp[t] EXCEPT !.pc = "add", !.i = (@ - 1) % ULONGs])

\* FwpsCalloutRegister.
RegisterCallout(t) ==
    /\ At(t, "register")
    /\ \/ /\ wfp[t].i \notin functions
          /\ functions' = functions \cup {wfp[t].i}
          /\ GoesTo(t, "add")
       \/ /\ CalloutFails(t)
          /\ UNCHANGED functions
    /\ UNCHANGED <<entryVars, bfe, starts, provider, callouts, filters, crashed,
                   faults, raced, clientVars>>

\* globals->Device of a context that was freed.
RegisterFreed(t) ==
    /\ At(t, "register")
    /\ globals = "freed"
    /\ crashed' = TRUE
    /\ UNCHANGED <<entryVars, engineVars, wfp, faults, raced, clientVars>>

Counted(i) == IF i < callout_count THEN "register" ELSE "commit"

\* FwpmCalloutAdd with callouts[i], and i++.  After a failure i is where it was.
AddCallout(t) ==
    /\ At(t, "add") /\ wfp[t].i \in Keys
    /\ LET i == wfp[t].i IN
        \/ /\ CanCall(t) /\ i \notin callouts \cup wfp[t].tx
           /\ Goes(t, [wfp[t] EXCEPT !.pc = Counted(i + 1), !.i = i + 1,
                                     !.tx = @ \cup {i}])
        \/ GoesTo(t, Counted(i))
    /\ UNCHANGED <<entryVars, engineVars, crashed, faults, raced, clientVars>>

\* callouts[i] with i = ULONG_MAX: the address is not mapped, or what is there
\* is no callout the engine accepts.
AddNoCallout(t) ==
    /\ At(t, "add") /\ wfp[t].i \notin Keys
    /\ \/ /\ GoesTo(t, Counted(wfp[t].i))
          /\ UNCHANGED crashed
       \/ /\ crashed' = TRUE
          /\ UNCHANGED wfp
    /\ UNCHANGED <<entryVars, engineVars, faults, raced, clientVars>>

\* FwpmTransactionCommit; closing the engine instead takes all of it back.
Commit(t) ==
    /\ At(t, "commit")
    /\ \/ /\ CanCall(t)
          /\ callouts' = callouts \cup wfp[t].tx
          /\ GoesTo(t, "begin2")
       \/ /\ Goes(t, Idle)
          /\ UNCHANGED callouts
    /\ UNCHANGED <<entryVars, bfe, starts, provider, functions, filters,
                   crashed, faults, raced, clientVars>>

\* setupFilters: each FwpmFilterAdd may fail.
AddFilters(t) ==
    /\ At(t, "filter")
    /\ \E fs \in SUBSET (callouts \ filters) :
        Goes(t, [wfp[t] EXCEPT !.pc = "commit2",
                               !.tx = IF CanCall(t) THEN fs ELSE {}])
    /\ UNCHANGED <<entryVars, engineVars, crashed, faults, raced, clientVars>>

CommitFilters(t) ==
    /\ At(t, "commit2")
    /\ Goes(t, Idle)
    /\ \/ /\ CanCall(t)
          /\ filters' = filters \cup wfp[t].tx
       \/ UNCHANGED filters
    /\ UNCHANGED <<entryVars, bfe, starts, provider, functions, callouts,
                   crashed, faults, raced, clientVars>>

SetupWFP(t) ==
    \/ Open(t) \/ AddProvider(t) \/ Begin(t) \/ RegisterCallout(t)
    \/ RegisterFreed(t) \/ AddCallout(t) \/ AddNoCallout(t) \/ Commit(t) \/ AddFilters(t)
    \/ CommitFilters(t)

-----------------------------------------------------------------------------
(* The engine.                                                             *)

\* WFP_Registered is never set.  A call into a driver that is gone stops the
\* machine; a context that was freed may be unreadable, its flag cleared, or as
\* it was.
BFECallback ==
    \/ ~subscribed /\ UNCHANGED <<wfp, crashed>>
    \/ /\ subscribed /\ driver # "gone"
       /\ wfp[notify] = Idle
       /\ StartSetup(notify)
       /\ UNCHANGED crashed
    \/ /\ subscribed
       /\ globals = "freed" \/ driver = "gone"
       /\ crashed' \in {TRUE, driver = "gone"}
       /\ UNCHANGED wfp

StartBfe ==
    /\ ~bfe /\ starts < MaxStarts /\ ~crashed
    /\ bfe' = TRUE
    /\ starts' = starts + 1
    /\ BFECallback
    /\ raced' = (raced \/ (subscribed /\ driver = "unload"))
    /\ UNCHANGED <<entryVars, provider, functions, callouts, filters, faults, clientVars>>

StopBfe ==
    /\ bfe /\ ~crashed
    /\ bfe' = FALSE
    /\ provider' = FALSE
    /\ callouts' = {}
    /\ filters' = {}
    /\ wfp' = [t \in Threads |-> [wfp[t] EXCEPT !.session = FALSE]]
    /\ UNCHANGED <<entryVars, starts, functions, crashed, faults, raced, clientVars>>

-----------------------------------------------------------------------------
(* The client.  The system gives the device to any process while the       *)
(* driver is loaded.                                                       *)

ClientStep(p) ==
    /\ driver = "loaded" /\ ~crashed
    /\ p \in Clients
    /\ UNCHANGED <<entryVars, engineVars, wfp, crashed, faults, raced>>

\* The test of clientpid is made without a lock.  When there is a client, the
\* handler returns STATUS_SUCCESS with an error in IoStatus, and the file may
\* be open or not.
MoonMonDispatchCreate(p) ==
    /\ ClientStep(p)
    /\ files[p] < MaxFiles
    /\ p \notin opening \cup exited
    /\ \/ /\ clientpid = NoClient
          /\ opening' = opening \cup {p}
          /\ UNCHANGED files
       \/ /\ clientpid # NoClient
          /\ files' = [files EXCEPT ![p] = @ + 1]
          /\ UNCHANGED opening
    /\ UNCHANGED <<clientpid, exited>>

BecomeClient(p) ==
    /\ ClientStep(p)
    /\ p \in opening
    /\ opening' = opening \ {p}
    /\ clientpid' = p
    /\ files' = [files EXCEPT ![p] = @ + 1]
    /\ UNCHANGED exited

\* Variant of AfterClose: a client stays one until it exits.
AfterCloseKept(p) == clientpid

\* Whoever closes a file, there is no client afterwards.
AfterClose(p) == NoClient

\* The files of a process that exits are closed one by one.
MoonMonDispatchClose(p) ==
    /\ ClientStep(p)
    /\ files[p] > 0
    /\ files' = [files EXCEPT ![p] = @ - 1]
    /\ clientpid' = AfterClose(p)
    /\ exited' = IF files[p] = 1 THEN exited \ {p} ELSE exited
    /\ UNCHANGED opening

\* The process callback, before the files are closed.  An exit of a process
\* that has no file changes nothing here.
ClientExit(p) ==
    /\ ClientStep(p)
    /\ files[p] > 0
    /\ p \notin opening \cup exited
    /\ clientpid' = IF clientpid = p THEN NoClient ELSE clientpid
    /\ exited' = exited \cup {p}
    /\ UNCHANGED <<opening, files>>

Client(p) ==
    \/ MoonMonDispatchCreate(p) \/ BecomeClient(p)
    \/ MoonMonDispatchClose(p) \/ ClientExit(p)

-----------------------------------------------------------------------------
(* DriverUnload.                                                           *)

\* The system unloads a driver when no file is open on its device.
Unload ==
    /\ driver = "loaded" /\ ~crashed
    /\ opening = {} /\ \A p \in Clients : files[p] = 0
    /\ driver' = "unload"
    /\ at' = "kinds"
    /\ kind' = 1
    /\ raced' = (wfp[notify] # Idle)
    /\ UNCHANGED <<globals, device, registered, State, subscribed, engineVars,
                   wfp, crashed, faults, clientVars>>

\* Variant of Removes: the registry's cookie is taken for none.
RemovesUnless(k) == k # "registry"

\* The last two only with the handle of their registration.
Removes(k) == k \in {"object", "registry"} => k \in registered

\* UnregisterMoonMon returns at its first error, and DriverUnload goes on.
RemoveKind ==
    /\ In("unload", "kinds")
    /\ kind <= Len(Kinds)
    /\ \/ /\ registered' = registered \ {k \in {Kinds[kind]} : Removes(k)}
          /\ kind' = kind + 1
          /\ UNCHANGED <<at, faults>>
       \/ /\ Kinds[kind] # "object"
          /\ at' = "end"
          /\ faults' = TRUE
          /\ UNCHANGED <<registered, kind>>
    /\ UNCHANGED <<driver, globals, device, State, subscribed, engineVars, wfp,
                   crashed, raced, clientVars>>

\* Variant of Teardown: the callouts first.
TeardownCalloutsFirst == <<"callouts", "filters", "provider">>

Teardown == <<"filters", "callouts", "provider">>

\* FltUnregisterFilter, also with a filter that was never registered.
RemoveFile ==
    /\ In("unload", "kinds")
    /\ kind > Len(Kinds)
    /\ at' = Teardown[1]
    /\ registered' = registered \ {"file"}
    /\ crashed' \in {FALSE, "file" \notin registered}
    /\ UNCHANGED <<driver, kind, globals, device, State, subscribed, engineVars,
                   wfp, faults, raced, clientVars>>

DeleteFilters ==
    /\ filters' = {}
    /\ UNCHANGED <<provider, callouts, functions>>

\* FwpmCalloutDeleteByKey and FwpsCalloutUnregisterByKey.
DeleteCallouts ==
    /\ callouts' = callouts \cap filters
    /\ functions' = {}
    /\ UNCHANGED <<provider, filters>>

DeleteProvider ==
    /\ provider' = (provider /\ callouts \cup filters # {})
    /\ UNCHANGED <<callouts, functions, filters>>

\* UnregisterWFP; each part has a session of its own, and does nothing if it
\* cannot open it.
UnregisterWFP ==
    /\ driver = "unload" /\ ~crashed
    /\ \E n \in DOMAIN Teardown :
        /\ at = Teardown[n]
        /\ at' = (IF n < Len(Teardown) THEN Teardown[n + 1] ELSE "network")
        /\ \/ /\ bfe
              /\ ~(InTransaction(notify) /\ wfp[notify].session)
              /\ CASE Teardown[n] = "filters" -> DeleteFilters
                   [] Teardown[n] = "callouts" -> DeleteCallouts
                   [] Teardown[n] = "provider" -> DeleteProvider
              /\ UNCHANGED <<bfe, starts, faults>>
           \/ /\ faults' = TRUE
              /\ UNCHANGED engineVars
    /\ UNCHANGED <<driver, kind, globals, device, registered, State, subscribed,
                   wfp, crashed, raced, clientVars>>

\* FwpmBfeStateUnsubscribeChanges waits for the callback.
Unsubscribe ==
    /\ In("unload", "network")
    /\ at' = "config"
    /\ \/ /\ wfp[notify] = Idle
          /\ subscribed' = FALSE
          /\ UNCHANGED faults
       \/ /\ subscribed
          /\ faults' = TRUE
          /\ UNCHANGED subscribed
    /\ UNCHANGED <<driver, kind, globals, device, registered, State, engineVars,
                   wfp, crashed, raced, clientVars>>

\* purgeConfigList for every list; the context itself is freed too.
UnloadConfig ==
    /\ In("unload", "config")
    /\ at' = "end"
    /\ globals' = "freed"
    /\ UNCHANGED <<driver, kind, device, registered, State, subscribed,
                   engineVars, wfp, crashed, faults, raced, clientVars>>

DeleteDevice ==
    /\ In("unload", "end")
    /\ driver' = "gone"
    /\ device' = "none"
    /\ crashed' = (wfp[notify] # Idle)
    /\ UNCHANGED <<at, kind, globals, registered, State, subscribed, engineVars,
                   wfp, faults, raced, clientVars>>

-----------------------------------------------------------------------------
DriverEntry ==
    \/ CreateDevice \/ CreateLink \/ InitGlobals \/ EntryFails \/ RegisterKind
    \/ RegisterFile \/ FsSetupFails \/ SubscribeFails \/ Subscribe \/ AskBfe
    \/ Initialized

UnregisterMoonMon ==
    \/ RemoveKind \/ RemoveFile \/ UnregisterWFP \/ Unsubscribe
    \/ UnloadConfig \/ DeleteDevice

Next ==
    \/ Load \/ DriverEntry \/ Unload \/ UnregisterMoonMon
    \/ \E t \in Threads : SetupWFP(t)
    \/ StartBfe \/ StopBfe
    \/ \E p \in Clients : Client(p)

Spec == Init /\ [][Next]_vars

\* The threads of the system run.
Fairness ==
    /\ WF_vars(DriverEntry) /\ WF_vars(UnregisterMoonMon)
    /\ \A t \in Threads : WF_vars(SetupWFP(t))

FairSpec == Spec /\ Fairness

-----------------------------------------------------------------------------
(* Properties.                                                             *)

Steps == {"device", "link", "init", "config", "kinds", "network", "bfe", "state", "filters",
          "callouts", "provider", "end"}
Pcs == {"idle", "open", "provider", "begin", "register", "add", "commit",
        "begin2", "filter", "commit2"}
Setups == [pc : Pcs, i : 0..(ULONGs - 1), session : BOOLEAN, tx : SUBSET Keys]

TypeOK ==
    /\ driver \in {"off", "entry", "loaded", "unload", "gone"}
    /\ at \in Steps
    /\ kind \in 1..(Len(Kinds) + 1)
    /\ globals \in {"none", "set", "freed"}
    /\ device \in {"none", "device", "both"}
    /\ registered \subseteq Callbacks
    /\ {State, subscribed, bfe, provider, crashed, faults, raced} \subseteq BOOLEAN
    /\ starts \in 0..MaxStarts
    /\ functions \subseteq Keys /\ callouts \subseteq Keys
    /\ filters \subseteq callouts
    /\ wfp \in [Threads -> Setups]
    /\ clientpid \in Clients \cup {NoClient}
    /\ opening \subseteq Clients /\ exited \subseteq Clients
    /\ files \in [Clients -> 0..MaxFiles]

\* The provider is the lock of SetupWFP: DriverEntry and BFECallback are never
\* both behind its addition in sessions that are open.
OneSetup ==
    ~ \A t \in Threads :
        wfp[t].session /\ wfp[t].pc \notin {"idle", "open", "provider"}

\* No filter sends traffic to a callout whose functions are not registered,
\* whichever calls of the two setups fail, with an index that runs back, and
\* whenever the engine restarts.  UnregisterMoonMon unsubscribes only after it
\* has removed the filters: a setup that comes in between is excepted.
FilterHasFunctions == ~faults /\ ~raced => filters \subseteq functions

\* Without a failing call and without a setup at the same time, nothing that
\* refers to the context is left when it is freed, and no device afterwards.
CleanUnload ==
    globals = "freed" /\ ~faults /\ ~raced =>
        /\ registered = {} /\ ~subscribed /\ wfp[notify] = Idle
        /\ ~provider /\ functions = {} /\ callouts = {} /\ filters = {}
        /\ driver = "gone" => device = "none"

\* clientpid keeps other processes out and turns access to the client away, so
\* it is never the id of a process that has closed the device or exits: in
\* whatever order processes open, close and end, and when two pass the test at
\* the same time, the next one to come is not held off by one that has left.
ClientHasDevice ==
    clientpid # NoClient => files[clientpid] > 0 /\ clientpid \notin exited

\* DriverEntry ends: no failure of the engine or of the callouts keeps it in
\* its loop for ever, whatever BFECallback does at the same time.
EntryEnds == driver = "entry" ~> driver # "entry" \/ crashed

-----------------------------------------------------------------------------
(* The inductive invariant behind the four safety properties.              *)

\* A setup behind the addition of the provider, in a session that is open.
Holds(t) == wfp[t].session /\ wfp[t].pc \notin {"idle", "open", "provider"}

\* Until the driver is unloaded the provider is there while a setup holds it;
\* UnregisterWFP may take it from one that runs in notify.
ProviderHeld ==
    driver \in {"off", "entry", "loaded"} =>
        \A t \in Threads : Holds(t) => provider

\* DriverEntry waits for its own setup, and FwpmBfeStateUnsubscribeChanges for
\* the one in notify; a setup that comes into DriverUnload is noted.
SetupsEnd ==
    /\ wfp[main] # Idle => driver = "entry" /\ at = "state"
    /\ ~subscribed => wfp[notify] = Idle
    /\ driver \in {"unload", "gone"} /\ ~raced => wfp[notify] = Idle
    /\ driver = "off" \/ (driver = "entry" /\ at \notin {"bfe", "state"})
            => ~subscribed
    /\ driver \in {"off", "entry", "loaded"} => ~faults /\ ~raced

\* In the loop over callouts the functions up to the index are registered,
\* also when it ran back; what a transaction adds to the engine is registered
\* with the kernel, and in the second one was added by the first.
LoopInv ==
    /\ \A t \in Threads :
        /\ wfp[t].pc = "register" => wfp[t].i \in Keys
        /\ wfp[t].pc = "commit2" /\ wfp[t].session => wfp[t].tx \subseteq callouts
    /\ ~faults /\ ~raced =>
        /\ callouts \subseteq functions
        /\ \A t \in Threads :
            /\ wfp[t].tx \subseteq functions
            /\ wfp[t].pc = "register" => \A k \in Keys : k < wfp[t].i => k \in functions
            /\ wfp[t].pc = "add" /\ wfp[t].i \in Keys =>
                    \A k \in Keys : k <= wfp[t].i => k \in functions

\* How far DriverUnload is when nothing failed and no setup came in.
UnloadProgress ==
    driver = "unload" /\ ~faults /\ ~raced =>
        /\ at \in {"kinds", "filters", "callouts", "provider", "network",
                   "config", "end"}
        /\ IF at = "kinds"
           THEN registered \subseteq
                    {Kinds[n] : n \in kind..Len(Kinds)} \cup {"file"}
           ELSE registered = {}
        /\ at \notin {"kinds", "filters"} => filters = {}
        /\ at \in {"provider", "network", "config", "end"} =>
                callouts = {} /\ functions = {}
        /\ at \in {"network", "config", "end"} => ~provider
        /\ at \in {"config", "end"} => ~subscribed
        /\ globals = "freed" => at = "end"

\* The context is freed by DriverUnload only.
FreedInUnload == globals = "freed" => driver \in {"unload", "gone"}

\* Between the test and the store a process has room for its file and does
\* not exit.
OpeningInv ==
    \A p \in opening : files[p] < MaxFiles /\ p \notin exited

IInv ==
    /\ TypeOK
    /\ ProviderHeld
    /\ OneSetup
    /\ SetupsEnd
    /\ LoopInv
    /\ UnloadProgress
    /\ FreedInUnload
    /\ CleanUnload
    /\ OpeningInv
    /\ ClientHasDevice

=============================================================================
