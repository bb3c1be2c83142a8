---------------------------- MODULE ProcessCache ----------------------------
(***************************************************************************)
(* The driver's cache of process information, globals->NEW_PROCS           *)
(* (MoonMon/Process.c), the startup enumeration and the callbacks that     *)
(* fill it, read it and purge it (MoonMon/MoonMon.c).                      *)
(*                                                                         *)
(* PCACHE_LOCK is held only while the array is searched, so each locked    *)
(* search is one step.  A slot is filled, marked InUse and released        *)
(* without the lock; each of these writes is a step of its own.            *)
(*                                                                         *)
(* A process is a pid and an incarnation of it: the kernel gives the pid   *)
(* of a finished process to a new one.  The information a slot points to   *)
(* is named by the incarnation it was allocated for.                       *)
(***************************************************************************)
EXTENDS Naturals

CONSTANTS
    Pids,            \* process handles
    NoPid,           \* a NULL handle
    NoInfo,          \* a NULL PPROC_INFO
    Callbacks,       \* kernel threads that run the driver's callbacks
    Running,         \* the processes that exist when the driver starts
    Blocked,         \* those of Running that match the process block list
    NEW_PROCS_MAX,   \* length of NEW_PROCS
    MaxIncarnations  \* bound on the processes that get one pid

Infos == [p : Pids, inc : 1..MaxIncarnations]

ASSUME ProcessCacheAssumption ==
    /\ NoPid \notin Pids
    /\ NoInfo \notin Infos
    /\ Blocked \subseteq Running
    /\ Running \subseteq Pids
    /\ NEW_PROCS_MAX \in Nat \ {0}
    /\ MaxIncarnations \in Nat \ {0}

VARIABLES
    NEW_PROCS,        \* the slots; magic is TRUE when it is CHARON
    NEW_PROCS_INDEX,  \* the slot taken last
    todo,             \* running processes the startup has still to look at
    registered,       \* the callbacks are registered, the startup is over
    proc,             \* the kernel's view of each pid
    pc, job,          \* where each callback is, and what it was called for
    held,             \* the slot a callback got from the cache or fills
    using,            \* the information it took from that slot
    opened,           \* history: slots marked InUse by opening the device
    firstSeen,        \* history: pids whose New status was removed
    clashed,          \* history: slots taken while in use or being filled
    left              \* history: slots a purge passed over, being in use

cacheVars == <<NEW_PROCS, NEW_PROCS_INDEX>>
startVars == <<todo, registered>>
localVars == <<pc, job, held, using>>
histVars == <<opened, firstSeen, clashed, left>>
vars == <<cacheVars, startVars, proc, localVars, histVars>>

Slots == 0..(NEW_PROCS_MAX - 1)
NoJob == [kind |-> "none", p |-> NoPid]
EmptySlot == [p |-> NoPid, New |-> FALSE, InUse |-> FALSE, PI |-> NoInfo,
              magic |-> FALSE]

Init ==
    /\ NEW_PROCS = [s \in Slots |-> EmptySlot]
    /\ NEW_PROCS_INDEX = 0
    /\ todo = Running
    /\ registered = FALSE
    /\ proc = [p \in Pids |->
                [state |-> IF p \in Running THEN "running" ELSE "none",
                 inc |-> IF p \in Running THEN 1 ELSE 0]]
    /\ pc = [c \in Callbacks |-> "idle"]
    /\ job = [c \in Callbacks |-> NoJob]
    /\ held = [c \in Callbacks |-> 0]
    /\ using = [c \in Callbacks |-> NoInfo]
    /\ opened = {}
    /\ firstSeen = {}
    /\ clashed = {}
    /\ left = {}

-----------------------------------------------------------------------------
InfoOf(p) == [p |-> p, inc |-> proc[p].inc]

\* The search of AddNewProcess looks at p alone, the others at the magic too.
CacheHit(p) == \E s \in Slots : NEW_PROCS[s].p = p
Matches(s, p) == NEW_PROCS[s].magic /\ NEW_PROCS[s].p = p
\* The loops go up from slot 0 and stop at the first match.
FirstMatch(s, p) ==
    /\ Matches(s, p)
    /\ \A r \in Slots : Matches(r, p) => s <= r
Cached(p) == \E s \in Slots : Matches(s, p)

\* The index wraps only once it is NEW_PROCS_MAX, one past the last slot.
NextIndex == IF NEW_PROCS_INDEX >= NEW_PROCS_MAX THEN 0 ELSE NEW_PROCS_INDEX + 1

Filling == {"release", "fill", "publish"}

\* The index came to a slot that is visible and in use, or that another
\* callback has taken and not filled yet.
Clashes(s) ==
    \/ NEW_PROCS[s].magic /\ NEW_PROCS[s].InUse
    \/ \E c \in Callbacks : pc[c] \in Filling /\ held[c] = s

\* What becomes of the slot that the index comes to does not depend on what
\* it held before, unless the two clash.
Taken ==
    /\ clashed' = IF NextIndex \in Slots /\ Clashes(NextIndex)
                  THEN clashed \cup {NextIndex} ELSE clashed \ {NextIndex}
    /\ left' = left \ {NextIndex}

Goto(c, l) == pc' = [pc EXCEPT ![c] = l]

\* The callback returns; what it was called for has then happened.
Return(c) ==
    /\ Goto(c, "idle")
    /\ job' = [job EXCEPT ![c] = NoJob]
    /\ held' = [held EXCEPT ![c] = 0]
    /\ using' = [using EXCEPT ![c] = NoInfo]

Start(c, kind, p, l) ==
    /\ registered
    /\ pc[c] = "idle"
    /\ Goto(c, l)
    /\ job' = [job EXCEPT ![c] = [kind |-> kind, p |-> p]]
    /\ UNCHANGED <<held, using>>

Busy(p, kinds) == \E c \in Callbacks : job[c].p = p /\ job[c].kind \in kinds

-----------------------------------------------------------------------------
(* Startup: InitMoonMon calls startupKillBlockedProcesses and then         *)
(* registerCallbacks.                                                      *)

\* One round of the enumeration; nothing else touches the cache yet, so
\* AddNewProcess is one step here.  The break after TerminateProcess leaves
\* the enumeration, not just this round.
StartupProcess(p) ==
    /\ ~registered
    /\ p \in todo
    /\ todo' = todo \ {p}
    /\ registered' = (p \in Blocked)
    /\ IF CacheHit(p)
       THEN UNCHANGED <<cacheVars, clashed, left>>
       ELSE /\ NEW_PROCS_INDEX' = NextIndex
            /\ Taken
            /\ NEW_PROCS' =
                IF NextIndex \notin Slots THEN NEW_PROCS
                ELSE [NEW_PROCS EXCEPT ![NextIndex] =
                        [p |-> p, New |-> TRUE, InUse |-> FALSE,
                         PI |-> InfoOf(p), magic |-> TRUE]]
    /\ UNCHANGED <<proc, localVars, opened, firstSeen>>

\* The snapshot is exhausted (or the lookup of the next process failed).
StartupDone ==
    /\ ~registered
    /\ todo = {}
    /\ registered' = TRUE
    /\ UNCHANGED <<cacheVars, todo, proc, localVars, histVars>>

-----------------------------------------------------------------------------
(* Process creation: ProcessNotifyCallbackRoutine and AddNewProcess.       *)

\* The kernel reuses a pid when nobody refers to its last process any more.
CreateProcess(c, p) ==
    /\ proc[p].state = "none"
    /\ proc[p].inc < MaxIncarnations
    /\ ~ \E d \in Callbacks : job[d].p = p
    /\ Start(c, "create", p, "add")
    /\ proc' = [proc EXCEPT ![p] = [state |-> "creating", inc |-> @.inc + 1]]
    /\ firstSeen' = firstSeen \ {p}
    /\ UNCHANGED <<cacheVars, startVars, opened, clashed, left>>

CreationDone(c) ==
    /\ Return(c)
    /\ proc' = [proc EXCEPT ![job[c].p].state = "running"]

\* PsLookupProcessByProcessId fails, or the pid is found in some slot.
NotAdded(c) ==
    /\ pc[c] = "add"
    /\ CreationDone(c)
    /\ UNCHANGED <<cacheVars, startVars, histVars>>

\* Take the next slot.  The continue for a slot in use leaves the do-while,
\* so such a slot is taken as well, with its magic left in place.
TakeSlot(c) ==
    /\ pc[c] = "add"
    /\ ~CacheHit(job[c].p)
    /\ NextIndex \in Slots
    /\ NEW_PROCS_INDEX' = NextIndex
    /\ held' = [held EXCEPT ![c] = NextIndex]
    /\ NEW_PROCS' = [NEW_PROCS EXCEPT ![NextIndex].magic = @ /\
                        NEW_PROCS[NextIndex].InUse]
    /\ Taken
    /\ Goto(c, "release")
    /\ UNCHANGED <<startVars, proc, job, using, opened, firstSeen>>

\* The slot is one past the array.  What is there is no PPROC_INFO; the
\* callback ends in the exception handler, or the machine stops.
TakeOutside(c) ==
    /\ pc[c] = "add"
    /\ ~CacheHit(job[c].p)
    /\ NextIndex \notin Slots
    /\ NEW_PROCS_INDEX' = NextIndex
    /\ CreationDone(c)
    /\ UNCHANGED <<NEW_PROCS, startVars, histVars>>

\* processInfoDelete and the NULL store, outside the lock.
ReleaseOld(c) ==
    /\ pc[c] = "release"
    /\ NEW_PROCS' = [NEW_PROCS EXCEPT ![held[c]].PI = NoInfo]
    /\ Goto(c, "fill")
    /\ UNCHANGED <<NEW_PROCS_INDEX, startVars, proc, job, held, using,
                   histVars>>

Fill(c) ==
    /\ pc[c] = "fill"
    /\ NEW_PROCS' = [NEW_PROCS EXCEPT ![held[c]].PI = InfoOf(job[c].p)]
    /\ Goto(c, "publish")
    /\ UNCHANGED <<NEW_PROCS_INDEX, startVars, proc, job, held, using,
                   histVars>>

\* The PROC_INFO cannot be allocated, or its UINF cannot: the slot keeps the
\* pid, the flags and the magic it had.
FillFails(c) ==
    /\ pc[c] = "fill"
    /\ \E pi \in {NoInfo, InfoOf(job[c].p)} :
            NEW_PROCS' = [NEW_PROCS EXCEPT ![held[c]].PI = pi]
    /\ CreationDone(c)
    /\ UNCHANGED <<NEW_PROCS_INDEX, startVars, histVars>>

Publish(c) ==
    /\ pc[c] = "publish"
    /\ NEW_PROCS' = [NEW_PROCS EXCEPT ![held[c]] =
                        [p |-> job[c].p, New |-> TRUE, InUse |-> FALSE,
                         PI |-> @.PI, magic |-> TRUE]]
    /\ CreationDone(c)
    /\ UNCHANGED <<NEW_PROCS_INDEX, startVars, histVars>>

-----------------------------------------------------------------------------
(* The callbacks that look a process up.                                   *)

\* The last thread of p exits: no callback runs on one of its threads.
ExitProcess(c, p) ==
    /\ proc[p].state = "running"
    /\ ~Busy(p, {"thread", "client"})
    /\ Start(c, "exit", p, "lookup")
    /\ proc' = [proc EXCEPT ![p].state = "exiting"]
    /\ UNCHANGED <<cacheVars, startVars, histVars>>

\* A handle to p is opened by another process.
ObjectCallback(c, p) ==
    /\ proc[p].state # "none"
    /\ Start(c, "object", p, "lookup")
    /\ UNCHANGED <<cacheVars, startVars, proc, histVars>>

\* A thread is created in p: IsNewProcess scans without the lock.  A thread
\* that p creates for itself is not logged, so nothing is looked up.
ThreadCreated(c, p) ==
    /\ proc[p].state = "running"
    /\ IF \E s \in Slots : Matches(s, p) /\ NEW_PROCS[s].New
       THEN Start(c, "thread", p, "clearNew")
       ELSE Start(c, "thread", p, "lookup")
    /\ UNCHANGED <<cacheVars, startVars, proc, histVars>>

\* Variant of NewCleared: the search ends after the first slot.
NewClearedFirst(p) ==
    [s \in Slots |-> IF s = 0 /\ Matches(s, p)
                     THEN [NEW_PROCS[s] EXCEPT !.New = FALSE]
                     ELSE NEW_PROCS[s]]

NewCleared(p) ==
    [s \in Slots |-> IF FirstMatch(s, p)
                     THEN [NEW_PROCS[s] EXCEPT !.New = FALSE]
                     ELSE NEW_PROCS[s]]

\* RemoveNewProcessStatus.
ClearNew(c) ==
    /\ pc[c] = "clearNew"
    /\ NEW_PROCS' = NewCleared(job[c].p)
    /\ firstSeen' = firstSeen \cup {job[c].p}
    /\ Return(c)
    /\ UNCHANGED <<NEW_PROCS_INDEX, startVars, proc, opened, clashed, left>>

\* MoonMonDispatchCreate and MoonMonDispatchClose, called by process p.
ClientCallback(c, p) ==
    /\ proc[p].state = "running"
    /\ Start(c, "client", p, "lookup")
    /\ UNCHANGED <<cacheVars, startVars, proc, histVars>>

\* GetCachedProcess; what the caller does with the pointer comes later.
Lookup(c) ==
    /\ pc[c] = "lookup"
    /\ \E s \in Slots :
        /\ FirstMatch(s, job[c].p)
        /\ held' = [held EXCEPT ![c] = s]
    /\ Goto(c, "check")
    /\ UNCHANGED <<cacheVars, startVars, proc, job, using, histVars>>

\* Without a cached entry the callback reads the process itself.
WithoutEntry(c) ==
    /\ IF job[c].kind = "exit"
       THEN Goto(c, "purge") /\ UNCHANGED <<job, held, using>>
       ELSE Return(c)
    /\ UNCHANGED <<cacheVars, startVars, proc, histVars>>

LookupMisses(c) ==
    /\ pc[c] = "lookup"
    /\ ~Cached(job[c].p)
    /\ WithoutEntry(c)

\* MM_TYPE_CHECK(cached, CHARON), outside the lock.
CheckHolds(c) ==
    /\ pc[c] = "check"
    /\ NEW_PROCS[held[c]].magic
    /\ Goto(c, "pin")
    /\ UNCHANGED <<cacheVars, startVars, proc, job, held, using, histVars>>

CheckFails(c) ==
    /\ pc[c] = "check"
    /\ ~NEW_PROCS[held[c]].magic
    /\ WithoutEntry(c)

\* InUse = TRUE and PI = cached->PI.
Pin(c) ==
    /\ pc[c] = "pin"
    /\ NEW_PROCS' = [NEW_PROCS EXCEPT ![held[c]].InUse = TRUE]
    /\ using' = [using EXCEPT ![c] = NEW_PROCS[held[c]].PI]
    /\ Goto(c, "use")
    /\ UNCHANGED <<NEW_PROCS_INDEX, startVars, proc, job, held, histVars>>

\* Variant of Unpinned: the type check is inverted.
UnpinnedInvalid(s) ==
    IF ~NEW_PROCS[s].magic THEN [NEW_PROCS EXCEPT ![s].InUse = FALSE]
    ELSE NEW_PROCS

Unpinned(s) ==
    IF NEW_PROCS[s].magic THEN [NEW_PROCS EXCEPT ![s].InUse = FALSE]
    ELSE NEW_PROCS

\* The __finally block: inspection and logging are over.
Unpin(c) ==
    /\ pc[c] = "use"
    /\ job[c].kind # "client"
    /\ NEW_PROCS' = Unpinned(held[c])
    /\ IF job[c].kind = "exit"
       THEN /\ Goto(c, "purge")
            /\ using' = [using EXCEPT ![c] = NoInfo]
            /\ UNCHANGED <<job, held>>
       ELSE Return(c)
    /\ UNCHANGED <<NEW_PROCS_INDEX, startVars, proc, histVars>>

\* Opening and closing the device do not reset InUse.
LeavePinned(c) ==
    /\ pc[c] = "use"
    /\ job[c].kind = "client"
    /\ opened' = opened \cup {held[c]}
    /\ Return(c)
    /\ UNCHANGED <<cacheVars, startVars, proc, firstSeen, clashed, left>>

\* Variant of Purgeable: the loop ends one slot early.
PurgeableShort(s, p) ==
    s + 1 # NEW_PROCS_MAX /\ Matches(s, p) /\ ~NEW_PROCS[s].InUse

\* PurgeCachedProcess: the first matching slot that is not in use.
Purgeable(s, p) == Matches(s, p) /\ ~NEW_PROCS[s].InUse

Purge(c) ==
    /\ pc[c] = "purge"
    /\ LET p == job[c].p IN
        /\ NEW_PROCS' = [s \in Slots |->
                IF /\ Purgeable(s, p)
                   /\ \A r \in Slots : Purgeable(r, p) => s <= r
                THEN EmptySlot ELSE NEW_PROCS[s]]
        /\ proc' = [proc EXCEPT ![p].state = "none"]
        /\ left' = {s \in Slots : IF Matches(s, p) THEN NEW_PROCS[s].InUse
                                  ELSE s \in left}
    /\ Return(c)
    /\ UNCHANGED <<NEW_PROCS_INDEX, startVars, opened, firstSeen, clashed>>

-----------------------------------------------------------------------------
CreateStep(c) ==
    \/ NotAdded(c) \/ TakeSlot(c) \/ TakeOutside(c)
    \/ ReleaseOld(c) \/ Fill(c) \/ FillFails(c) \/ Publish(c)

LookupStep(c) ==
    \/ ClearNew(c) \/ Lookup(c) \/ LookupMisses(c)
    \/ CheckHolds(c) \/ CheckFails(c) \/ Pin(c)
    \/ Unpin(c) \/ LeavePinned(c) \/ Purge(c)

Event(c, p) ==
    \/ CreateProcess(c, p) \/ ExitProcess(c, p) \/ ObjectCallback(c, p)
    \/ ThreadCreated(c, p) \/ ClientCallback(c, p)

Next ==
    \/ \E p \in Pids : StartupProcess(p)
    \/ StartupDone
    \/ \E c \in Callbacks : CreateStep(c) \/ LookupStep(c)
    \/ \E c \in Callbacks, p \in Pids : Event(c, p)

Spec == Init /\ [][Next]_vars

-----------------------------------------------------------------------------
(* Properties.                                                             *)

\* Every variable stays in its type; NEW_PROCS_INDEX may be one past the end.
TypeOK ==
    /\ NEW_PROCS \in [Slots -> [p : Pids \cup {NoPid}, New : BOOLEAN,
                                InUse : BOOLEAN, PI : Infos \cup {NoInfo},
                                magic : BOOLEAN]]
    /\ NEW_PROCS_INDEX \in 0..NEW_PROCS_MAX
    /\ todo \subseteq Running
    /\ registered \in BOOLEAN
    /\ proc \in [Pids -> [state : {"none", "creating", "running", "exiting"},
                          inc : 0..MaxIncarnations]]
    /\ pc \in [Callbacks -> {"idle", "add", "release", "fill", "publish",
                             "clearNew", "lookup", "check", "pin", "use",
                             "purge"}]
    /\ job \in [Callbacks ->
                    [kind : {"create", "exit", "object", "thread", "client"},
                     p : Pids] \cup {NoJob}]
    /\ held \in [Callbacks -> Slots]
    /\ using \in [Callbacks -> Infos \cup {NoInfo}]
    /\ opened \subseteq Slots
    /\ firstSeen \subseteq Pids
    /\ clashed \subseteq Slots
    /\ left \subseteq Slots

\* A process has at most one slot: the lookup, the purge and the removal of
\* the New status all stop at the first match.  It takes the hit test of
\* AddNewProcess, the order of its stores and the life of a pid to hold.
UniquePid ==
    \A r, s \in Slots :
        NEW_PROCS[r].p # NoPid /\ NEW_PROCS[r].p = NEW_PROCS[s].p => r = s

\* What a lookup can find in a slot is filled and about the pid it is found
\* under.  It is the information of the process that has the pid now, not of
\* an earlier one, and that process exists.  This holds also of a slot that
\* the index took over from a process that still runs, and whatever fails.
\* It does not hold where the code lets a slot be overwritten or kept:
\*   clashed  the slot was taken while it was in use (the continue of
\*            Process.c:82-84 does not pass over it) or while another callback
\*            filled it, and was not taken again without that since;
\*   left     the process exited while the slot was in use, so that
\*            PurgeCachedProcess passed over it (Process.c:140): the slot
\*            keeps information of that pid, for the next process too.
VisibleIsOwn ==
    \A s \in Slots \ clashed : NEW_PROCS[s].magic =>
        LET p == NEW_PROCS[s].p IN
        /\ NEW_PROCS[s].PI # NoInfo
        /\ NEW_PROCS[s].PI.p = p
        /\ s \notin left => NEW_PROCS[s].PI = InfoOf(p) /\ proc[p].state # "none"

\* A process has one slot, and what is found in it is its own information,
\* with the exceptions of VisibleIsOwn.
CacheSound == UniquePid /\ VisibleIsOwn

\* InUse does not outlive the callbacks that set it, except in a slot that
\* was marked by a client opening or closing the device.
PinsReleased ==
    \A s \in Slots : NEW_PROCS[s].magic /\ NEW_PROCS[s].InUse =>
        \/ s \in opened
        \/ \E c \in Callbacks : held[c] = s /\ pc[c] = "use"

\* Once the first thread of a process was seen, no later thread of it is
\* taken for the first one and left out of the remote thread events.
NewStatusOnce ==
    \A p \in firstSeen : \A s \in Slots : Matches(s, p) => ~NEW_PROCS[s].New

\* Comment at the top of MoonMon.c: callbacks use the cached information in
\* their logging.  The information is still there while they do.
InfoOutlivesUse ==
    \A c \in Callbacks : using[c] # NoInfo =>
        \E s \in Slots : NEW_PROCS[s].PI = using[c]

-----------------------------------------------------------------------------
(* The inductive invariant behind the three safety properties.             *)

Creating == {"add", "release", "fill", "publish"}

\* Where a callback is in the code fits what it was called for, and the
\* kernel calls it about a process that is in that part of its life.
JobsFit ==
    \A c \in Callbacks :
        /\ pc[c] = "idle" <=> job[c] = NoJob
        /\ pc[c] \in Creating <=> job[c].kind = "create"
        /\ pc[c] = "clearNew" => job[c].kind = "thread"
        /\ pc[c] = "purge" => job[c].kind = "exit"
        /\ job[c].kind = "create" =>
                proc[job[c].p].state = "creating" /\ proc[job[c].p].inc > 0
        /\ job[c].kind = "exit" => proc[job[c].p].state = "exiting"
        /\ job[c].kind = "thread" => proc[job[c].p].state = "running"

\* A process is created once, and exits once.
OneEach ==
    \A c, d \in Callbacks :
        /\ job[c].kind \in {"create", "exit"}
        /\ job[d].kind = job[c].kind /\ job[d].p = job[c].p
        => c = d

\* Until the callbacks are registered there are only the processes that ran.
StartupInv ==
    ~registered =>
        /\ \A c \in Callbacks : job[c] = NoJob
        /\ \A p \in Running : proc[p].inc = 1 /\ proc[p].state = "running"
        /\ firstSeen = {}

\* From the test of AddNewProcess to its stores no slot has the pid, and no
\* thread of the process has been seen.
PidIsNew ==
    \A c \in Callbacks :
        /\ pc[c] \in Filling => \A s \in Slots : NEW_PROCS[s].p # job[c].p
        /\ pc[c] \in Creating => job[c].p \notin firstSeen

\* A slot that was taken without a clash belongs to the callback that fills
\* it until it is visible.
SlotsOwned ==
    \A c \in Callbacks : pc[c] \in Filling /\ held[c] \notin clashed =>
        /\ ~NEW_PROCS[held[c]].magic
        /\ pc[c] = "publish" => NEW_PROCS[held[c]].PI = InfoOf(job[c].p)
        /\ \A d \in Callbacks :
                pc[d] \in Filling /\ held[d] = held[c] => c = d

IInv ==
    /\ TypeOK
    /\ JobsFit
    /\ OneEach
    /\ StartupInv
    /\ PidIsNew
    /\ SlotsOwned
    /\ UniquePid
    /\ VisibleIsOwn
    /\ PinsReleased
    /\ NewStatusOnce

=============================================================================
