------------------------- MODULE ProcessCacheProofs -------------------------
(***************************************************************************)
(* Proofs of the safety properties of ProcessCache for every number of     *)
(* slots, of callbacks that run at the same time, of pids and of times a   *)
(* pid is used again.                                                      *)
(***************************************************************************)
EXTENDS ProcessCache, TLAPS

-----------------------------------------------------------------------------
(* What the steps do to the array.                                         *)

SlotRecords ==
    [p : Pids \cup {NoPid}, New : BOOLEAN, InUse : BOOLEAN,
     PI : Infos \cup {NoInfo}, magic : BOOLEAN]

LEMMA SlotTyped ==
    ASSUME TypeOK
    PROVE  NEW_PROCS \in [Slots -> SlotRecords]
BY DEF TypeOK, SlotRecords

LEMMA EmptyTyped ==
    /\ EmptySlot \in SlotRecords
    /\ ~EmptySlot.magic /\ ~EmptySlot.New /\ ~EmptySlot.InUse
    /\ EmptySlot.p = NoPid /\ EmptySlot.PI = NoInfo
BY DEF EmptySlot, SlotRecords

\* The index stays within one past the end.
LEMMA IndexTyped ==
    ASSUME TypeOK
    PROVE  NextIndex \in 0..NEW_PROCS_MAX
BY ProcessCacheAssumption DEF TypeOK, NextIndex

\* The slots a step leaves alone, and the fields it leaves alone.
SameSlot(s) == NEW_PROCS'[s] = NEW_PROCS[s]

SamePid(s) == NEW_PROCS'[s].p = NEW_PROCS[s].p
SameNew(s) == NEW_PROCS'[s].New = NEW_PROCS[s].New
SameInUse(s) == NEW_PROCS'[s].InUse = NEW_PROCS[s].InUse
SamePI(s) == NEW_PROCS'[s].PI = NEW_PROCS[s].PI
SameMagic(s) == NEW_PROCS'[s].magic = NEW_PROCS[s].magic

LEMMA WritesPI ==
    ASSUME TypeOK, NEW s \in Slots, NEW pi \in Infos \cup {NoInfo},
           NEW_PROCS' = [NEW_PROCS EXCEPT ![s].PI = pi]
    PROVE  /\ NEW_PROCS' \in [Slots -> SlotRecords]
           /\ \A r \in Slots : r # s => SameSlot(r)
           /\ SamePid(s) /\ SameNew(s) /\ SameInUse(s) /\ SameMagic(s)
           /\ NEW_PROCS'[s].PI = pi
BY SlotTyped DEF SlotRecords, SameSlot, SamePid, SameNew, SameInUse, SameMagic

LEMMA WritesInUse ==
    ASSUME TypeOK, NEW s \in Slots, NEW b \in BOOLEAN,
           NEW_PROCS' = [NEW_PROCS EXCEPT ![s].InUse = b]
    PROVE  /\ NEW_PROCS' \in [Slots -> SlotRecords]
           /\ \A r \in Slots : r # s => SameSlot(r)
           /\ SamePid(s) /\ SameNew(s) /\ SamePI(s) /\ SameMagic(s)
           /\ NEW_PROCS'[s].InUse = b
BY SlotTyped DEF SlotRecords, SameSlot, SamePid, SameNew, SamePI, SameMagic

LEMMA WritesMagic ==
    ASSUME TypeOK, NEW s \in Slots,
           NEW_PROCS' = [NEW_PROCS EXCEPT ![s].magic = @ /\ NEW_PROCS[s].InUse]
    PROVE  /\ NEW_PROCS' \in [Slots -> SlotRecords]
           /\ \A r \in Slots : r # s => SameSlot(r)
           /\ SamePid(s) /\ SameNew(s) /\ SameInUse(s) /\ SamePI(s)
           /\ NEW_PROCS'[s].magic => NEW_PROCS[s].magic /\ NEW_PROCS[s].InUse
<1>1. NEW_PROCS' = [NEW_PROCS EXCEPT ![s] = [NEW_PROCS[s] EXCEPT !.magic =
                        NEW_PROCS[s].magic /\ NEW_PROCS[s].InUse]]
    OBVIOUS
<1>2. (NEW_PROCS[s].magic /\ NEW_PROCS[s].InUse) \in BOOLEAN
    OBVIOUS
<1> DEFINE m == NEW_PROCS[s].magic /\ NEW_PROCS[s].InUse
<1>3. m \in BOOLEAN /\ (m => NEW_PROCS[s].magic /\ NEW_PROCS[s].InUse)
    OBVIOUS
<1> HIDE DEF m
<1>4. NEW_PROCS' = [NEW_PROCS EXCEPT ![s] = [NEW_PROCS[s] EXCEPT !.magic = m]]
    BY <1>1 DEF m
<1> QED
    BY <1>3, <1>4, SlotTyped
        DEF SlotRecords, SameSlot, SamePid, SameNew, SameInUse, SamePI

\* Publish and the startup write a slot with New and the magic.
LEMMA WritesSlot ==
    ASSUME TypeOK, NEW s \in Slots, NEW q \in Pids,
           NEW pi \in Infos \cup {NoInfo},
           NEW_PROCS' = [NEW_PROCS EXCEPT ![s] =
                [p |-> q, New |-> TRUE, InUse |-> FALSE, PI |-> pi,
                 magic |-> TRUE]]
    PROVE  /\ NEW_PROCS' \in [Slots -> SlotRecords]
           /\ \A r \in Slots : r # s => SameSlot(r)
           /\ NEW_PROCS'[s].p = q /\ NEW_PROCS'[s].PI = pi
           /\ ~NEW_PROCS'[s].InUse
BY SlotTyped DEF SlotRecords, SameSlot

LEMMA ClearsNew ==
    ASSUME TypeOK, NEW q \in Pids, NEW_PROCS' = NewCleared(q)
    PROVE  /\ NEW_PROCS' \in [Slots -> SlotRecords]
           /\ \A s \in Slots :
                /\ SamePid(s) /\ SameInUse(s) /\ SamePI(s) /\ SameMagic(s)
                /\ NEW_PROCS'[s].New => NEW_PROCS[s].New
                /\ FirstMatch(s, q) => ~NEW_PROCS'[s].New
                /\ ~NEW_PROCS[s].magic => SameSlot(s)
<1>1. ASSUME NEW s \in Slots
      PROVE  NEW_PROCS'[s] = IF FirstMatch(s, q)
                             THEN [NEW_PROCS[s] EXCEPT !.New = FALSE]
                             ELSE NEW_PROCS[s]
    BY DEF NewCleared
<1>2. DOMAIN NEW_PROCS' = Slots /\ NEW_PROCS' = [s \in Slots |-> NEW_PROCS'[s]]
    BY DEF NewCleared
<1>3. \A s \in Slots : FirstMatch(s, q) => NEW_PROCS[s].magic
    BY DEF FirstMatch, Matches
<1>4. \A s \in Slots : NEW_PROCS[s] \in SlotRecords
    BY SlotTyped
<1> HIDE DEF FirstMatch
<1>5. \A s \in Slots : NEW_PROCS'[s] \in SlotRecords
    BY <1>1, <1>4 DEF SlotRecords
<1>6. \A s \in Slots :
        /\ SamePid(s) /\ SameInUse(s) /\ SamePI(s) /\ SameMagic(s)
        /\ NEW_PROCS'[s].New => NEW_PROCS[s].New
        /\ FirstMatch(s, q) => ~NEW_PROCS'[s].New
    BY <1>1, <1>4 DEF SlotRecords, SamePid, SameInUse, SamePI, SameMagic
<1>7. \A s \in Slots : ~NEW_PROCS[s].magic => SameSlot(s)
    BY <1>1, <1>3 DEF SameSlot
<1> QED
    BY <1>2, <1>5, <1>6, <1>7

\* A purged slot is empty, and it was one with the magic.
LEMMA PurgesSlot ==
    ASSUME TypeOK, NEW c \in Callbacks, Purge(c)
    PROVE  /\ NEW_PROCS' \in [Slots -> SlotRecords]
           /\ \A s \in Slots :
                \/ SameSlot(s)
                \/ NEW_PROCS'[s] = EmptySlot /\ NEW_PROCS[s].magic
<1> DEFINE First(s) == /\ Purgeable(s, job[c].p)
                       /\ \A r \in Slots : Purgeable(r, job[c].p) => s <= r
<1>1. NEW_PROCS' = [s \in Slots |-> IF First(s) THEN EmptySlot ELSE NEW_PROCS[s]]
    BY DEF Purge
<1>2. \A s \in Slots : First(s) => NEW_PROCS[s].magic
    BY DEF Purgeable, Matches
<1> HIDE DEF First
<1> QED
    BY <1>1, <1>2, SlotTyped, EmptyTyped DEF SameSlot

\* A slot that still shows the process after its purge was in use.
LEMMA PurgeLeaves ==
    ASSUME TypeOK, UniquePid, NEW c \in Callbacks, Purge(c),
           NEW s \in Slots, Matches(s, job[c].p), job[c].p \in Pids,
           NEW_PROCS'[s].magic
    PROVE  NEW_PROCS[s].InUse
<1> SUFFICES ASSUME ~NEW_PROCS[s].InUse
             PROVE  FALSE
    OBVIOUS
<1>1. \A r \in Slots : Purgeable(r, job[c].p) => r = s
    BY ProcessCacheAssumption DEF Purgeable, Matches, UniquePid
<1>2. Purgeable(s, job[c].p) /\ s <= s
    BY DEF Purgeable, Slots
<1>3. NEW_PROCS'[s] = EmptySlot
    BY <1>1, <1>2 DEF Purge
<1> QED
    BY <1>3, EmptyTyped

LEMMA UnpinsSlot ==
    ASSUME TypeOK, NEW s \in Slots, NEW_PROCS' = Unpinned(s)
    PROVE  /\ NEW_PROCS' \in [Slots -> SlotRecords]
           /\ \A r \in Slots : r # s => SameSlot(r)
           /\ SamePid(s) /\ SameNew(s) /\ SamePI(s) /\ SameMagic(s)
           /\ NEW_PROCS[s].magic => ~NEW_PROCS'[s].InUse
           /\ ~NEW_PROCS[s].magic => SameSlot(s)
<1>1. CASE NEW_PROCS[s].magic
    BY <1>1, WritesInUse DEF Unpinned
<1>2. CASE ~NEW_PROCS[s].magic
    BY <1>2, SlotTyped DEF Unpinned, SameSlot, SamePid, SameNew, SamePI, SameMagic
<1> QED
    BY <1>1, <1>2

-----------------------------------------------------------------------------
(* The steps and their types.                                              *)

\* A callback that returns has no job, and those that go on keep theirs.
LEMMA Returning ==
    ASSUME TypeOK, NEW c \in Callbacks, Return(c)
    PROVE  /\ pc'[c] = "idle" /\ job'[c] = NoJob
           /\ \A d \in Callbacks : d # c =>
                pc'[d] = pc[d] /\ job'[d] = job[d] /\ held'[d] = held[d]
           /\ 0 \in Slots => held' \in [Callbacks -> Slots]
           /\ pc' = [pc EXCEPT ![c] = "idle"]
           /\ job' = [job EXCEPT ![c] = NoJob]
           /\ using' = [using EXCEPT ![c] = NoInfo]
BY DEF Return, Goto, TypeOK

LEMMA SlotsThere == 0 \in Slots
BY ProcessCacheAssumption DEF Slots

JobRecords ==
    [kind : {"create", "exit", "object", "thread", "client"}, p : Pids]

LEMMA JobTyped ==
    ASSUME TypeOK, NEW c \in Callbacks
    PROVE  /\ job[c] = NoJob \/ job[c] \in JobRecords
           /\ job[c].kind \in {"create", "exit", "object", "thread", "client"}
                => job[c] \in JobRecords /\ job[c].p \in Pids
           /\ NoJob.kind = "none" /\ NoJob.p = NoPid
BY DEF TypeOK, JobRecords, NoJob

\* A callback that adds a process has a job for it, and the process has an
\* incarnation.
LEMMA CreatorJob ==
    ASSUME TypeOK, JobsFit, NEW c \in Callbacks, pc[c] \in Creating
    PROVE  /\ job[c].kind = "create" /\ job[c].p \in Pids
           /\ InfoOf(job[c].p) \in Infos
           /\ InfoOf(job[c].p).p = job[c].p
<1>1. job[c].kind = "create" /\ job[c].p \in Pids
    BY JobTyped DEF JobsFit
<1>2. proc[job[c].p].inc \in 1..MaxIncarnations
    BY <1>1, ProcessCacheAssumption DEF TypeOK, JobsFit
<1> QED
    BY <1>1, <1>2 DEF InfoOf, Infos

\* The array and its index.
LEMMA CacheTyped ==
    ASSUME TypeOK, JobsFit, StartupInv, [Next]_vars
    PROVE  /\ NEW_PROCS' \in [Slots -> SlotRecords]
           /\ NEW_PROCS_INDEX' \in 0..NEW_PROCS_MAX
<1> DEFINE Goal == /\ NEW_PROCS' \in [Slots -> SlotRecords]
                   /\ NEW_PROCS_INDEX' \in 0..NEW_PROCS_MAX
<1>1. NEW_PROCS_INDEX \in 0..NEW_PROCS_MAX /\ NEW_PROCS \in [Slots -> SlotRecords]
    BY SlotTyped DEF TypeOK
<1>2. CASE UNCHANGED cacheVars
    BY <1>1, <1>2 DEF cacheVars
<1>3. ASSUME NEW p \in Pids, StartupProcess(p)
      PROVE  Goal
    <2>1. CASE CacheHit(p)
        BY <1>2, <1>3, <2>1 DEF StartupProcess
    <2>2. CASE ~CacheHit(p)
        <3>1. NEW_PROCS_INDEX' = NextIndex
                /\ NEW_PROCS' =
                    IF NextIndex \notin Slots THEN NEW_PROCS
                    ELSE [NEW_PROCS EXCEPT ![NextIndex] =
                            [p |-> p, New |-> TRUE, InUse |-> FALSE,
                             PI |-> InfoOf(p), magic |-> TRUE]]
            BY <1>3, <2>2 DEF StartupProcess
        <3>2. proc[p].inc = 1 /\ 1 \in 1..MaxIncarnations
            BY <1>3, ProcessCacheAssumption
                DEF StartupProcess, StartupInv, TypeOK
        <3>3. InfoOf(p) \in Infos
            BY <3>2 DEF InfoOf, Infos
        <3> HIDE DEF NextIndex, InfoOf
        <3> QED
            BY <1>1, <3>1, <3>3, IndexTyped, WritesSlot
    <2> QED
        BY <2>1, <2>2
<1>4. ASSUME NEW c \in Callbacks, CreateStep(c)
      PROVE  Goal
    <2>1. CASE NotAdded(c)
        BY <1>2, <2>1 DEF NotAdded
    <2>2. CASE TakeSlot(c)
        BY <2>2, IndexTyped, WritesMagic DEF TakeSlot
    <2>3. CASE TakeOutside(c)
        BY <1>1, <2>3, IndexTyped DEF TakeOutside
    <2>4. held[c] \in Slots
        BY DEF TypeOK
    <2>5. CASE ReleaseOld(c)
        BY <1>1, <2>4, <2>5, WritesPI DEF ReleaseOld
    <2>6. CASE Fill(c)
        BY <1>1, <2>4, <2>6, WritesPI, CreatorJob DEF Fill, Creating
    <2>7. CASE FillFails(c)
        BY <1>1, <2>4, <2>7, WritesPI, CreatorJob DEF FillFails, Creating
    <2>8. CASE Publish(c)
        <3>1. NEW_PROCS[held[c]].PI \in Infos \cup {NoInfo}
            BY <2>4, SlotTyped DEF SlotRecords
        <3>2. job[c].p \in Pids
            BY <2>8, CreatorJob DEF Publish, Creating
        <3> QED
            BY <1>1, <2>4, <2>8, <3>1, <3>2, WritesSlot DEF Publish
    <2> QED
        BY <1>4, <2>1, <2>2, <2>3, <2>5, <2>6, <2>7, <2>8 DEF CreateStep
<1>5. ASSUME NEW c \in Callbacks, LookupStep(c)
      PROVE  Goal
    <2>1. held[c] \in Slots
        BY DEF TypeOK
    <2>2. CASE ClearNew(c)
        <3>1. job[c].p \in Pids
            BY <2>2, JobTyped DEF ClearNew, JobsFit
        <3> QED
            BY <1>1, <2>2, <3>1, ClearsNew DEF ClearNew
    <2>3. CASE Lookup(c) \/ LookupMisses(c) \/ CheckHolds(c) \/ CheckFails(c)
                \/ LeavePinned(c)
        BY <1>2, <2>3 DEF Lookup, LookupMisses, CheckHolds, CheckFails,
            LeavePinned, WithoutEntry
    <2>4. CASE Pin(c)
        BY <1>1, <2>1, <2>4, WritesInUse DEF Pin
    <2>5. CASE Unpin(c)
        BY <1>1, <2>1, <2>5, UnpinsSlot DEF Unpin
    <2>6. CASE Purge(c)
        <3>1. NEW_PROCS_INDEX' = NEW_PROCS_INDEX
            BY <2>6 DEF Purge
        <3> QED
            BY <1>1, <2>6, <3>1, PurgesSlot
    <2> QED
        BY <1>5, <2>2, <2>3, <2>4, <2>5, <2>6 DEF LookupStep
<1>6. ASSUME NEW c \in Callbacks, NEW p \in Pids, Event(c, p)
      PROVE  Goal
    BY <1>2, <1>6 DEF Event, CreateProcess, ExitProcess, ObjectCallback,
        ThreadCreated, ClientCallback
<1>7. CASE StartupDone \/ UNCHANGED vars
    BY <1>2, <1>7 DEF StartupDone, vars
<1> QED
    BY <1>3, <1>4, <1>5, <1>6, <1>7 DEF Next

\* The kernel's processes and the callbacks' own variables.
LEMMA LocalTyped ==
    ASSUME TypeOK, JobsFit, [Next]_vars
    PROVE  /\ todo' \subseteq Running /\ registered' \in BOOLEAN
           /\ pc' \in [Callbacks -> {"idle", "add", "release", "fill",
                        "publish", "clearNew", "lookup", "check", "pin",
                        "use", "purge"}]
           /\ job' \in [Callbacks -> JobRecords \cup {NoJob}]
           /\ held' \in [Callbacks -> Slots]
           /\ using' \in [Callbacks -> Infos \cup {NoInfo}]
           /\ opened' \subseteq Slots /\ firstSeen' \subseteq Pids
           /\ clashed' \subseteq Slots /\ left' \subseteq Slots
<1> DEFINE Places == {"idle", "add", "release", "fill", "publish", "clearNew",
                      "lookup", "check", "pin", "use", "purge"}
           Locals == /\ pc' \in [Callbacks -> Places]
                     /\ job' \in [Callbacks -> JobRecords \cup {NoJob}]
                     /\ held' \in [Callbacks -> Slots]
                     /\ using' \in [Callbacks -> Infos \cup {NoInfo}]
           Others == /\ todo' \subseteq Running /\ registered' \in BOOLEAN
                     /\ opened' \subseteq Slots /\ firstSeen' \subseteq Pids
                     /\ clashed' \subseteq Slots /\ left' \subseteq Slots
<1>1. /\ pc \in [Callbacks -> Places]
      /\ job \in [Callbacks -> JobRecords \cup {NoJob}]
      /\ held \in [Callbacks -> Slots]
      /\ using \in [Callbacks -> Infos \cup {NoInfo}]
    BY DEF TypeOK, JobRecords
<1>2. /\ todo \subseteq Running /\ registered \in BOOLEAN
      /\ opened \subseteq Slots /\ firstSeen \subseteq Pids
      /\ clashed \subseteq Slots /\ left \subseteq Slots
    BY DEF TypeOK
<1>3. ASSUME NEW c \in Callbacks, Return(c)
      PROVE  Locals
    BY <1>1, <1>3, SlotsThere, Returning
<1>4. ASSUME NEW c \in Callbacks, NEW l \in Places, Goto(c, l),
             UNCHANGED <<job, held, using>>
      PROVE  Locals
    BY <1>1, <1>4 DEF Goto
<1>5. ASSUME UNCHANGED localVars
      PROVE  Locals
    BY <1>1, <1>5 DEF localVars
<1>6. ASSUME NEW c \in Callbacks, NEW p \in Pids, Event(c, p)
      PROVE  Locals
    <2>1. ASSUME NEW k \in {"create", "exit", "object", "thread", "client"},
                 NEW l \in Places, Start(c, k, p, l)
          PROVE  Locals
        <3>1. [kind |-> k, p |-> p] \in JobRecords
            BY DEF JobRecords
        <3> QED
            BY <1>1, <2>1, <3>1 DEF Start, Goto
    <2> HIDE DEF Locals
    <2> QED
        BY <1>6, <2>1 DEF Event, CreateProcess, ExitProcess, ObjectCallback,
            ThreadCreated, ClientCallback
<1>7. ASSUME NEW c \in Callbacks, CreateStep(c)
      PROVE  Locals
    <2>1. CASE TakeSlot(c)
        BY <1>1, <2>1 DEF TakeSlot, Goto
    <2>2. CASE ReleaseOld(c) \/ Fill(c)
        BY <1>4, <2>2 DEF ReleaseOld, Fill
    <2>3. CASE NotAdded(c) \/ TakeOutside(c) \/ FillFails(c) \/ Publish(c)
        BY <1>3, <2>3 DEF NotAdded, TakeOutside, FillFails, Publish,
            CreationDone
    <2> QED
        BY <1>7, <2>1, <2>2, <2>3 DEF CreateStep
<1>8. ASSUME NEW c \in Callbacks, LookupStep(c)
      PROVE  Locals
    <2>1. CASE ClearNew(c) \/ LeavePinned(c) \/ Purge(c)
        BY <1>3, <2>1 DEF ClearNew, LeavePinned, Purge
    <2>2. CASE Lookup(c)
        BY <1>1, <2>2 DEF Lookup, Goto
    <2>3. CASE LookupMisses(c) \/ CheckFails(c)
        <3>1. Return(c) \/ (Goto(c, "purge") /\ UNCHANGED <<job, held, using>>)
            BY <2>3 DEF LookupMisses, CheckFails, WithoutEntry
        <3> QED
            BY <1>3, <1>4, <3>1
    <2>4. CASE CheckHolds(c)
        BY <1>4, <2>4 DEF CheckHolds
    <2>5. CASE Pin(c)
        <3>1. NEW_PROCS[held[c]].PI \in Infos \cup {NoInfo}
            BY <1>1, SlotTyped DEF SlotRecords
        <3> QED
            BY <1>1, <2>5, <3>1 DEF Pin, Goto
    <2>6. CASE Unpin(c)
        <3>1. CASE Return(c)
            BY <1>3, <3>1
        <3>2. CASE Goto(c, "purge") /\ using' = [using EXCEPT ![c] = NoInfo]
                    /\ UNCHANGED <<job, held>>
            BY <1>1, <3>2 DEF Goto
        <3> QED
            BY <2>6, <3>1, <3>2 DEF Unpin
    <2> QED
        BY <1>8, <2>1, <2>2, <2>3, <2>4, <2>5, <2>6 DEF LookupStep
<1>9. Locals
    BY <1>5, <1>6, <1>7, <1>8 DEF Next, StartupProcess, StartupDone, vars
<1>10. Others
    <2>1. CASE UNCHANGED <<startVars, histVars>>
        BY <1>2, <2>1 DEF startVars, histVars
    <2>11. ASSUME NEW c \in Callbacks, Purge(c)
           PROVE  Others
        BY <1>2, <2>11 DEF Purge, startVars
    <2>2. ASSUME NEW p \in Pids, StartupProcess(p)
          PROVE  Others
        BY <1>2, <2>2 DEF StartupProcess, Taken
    <2>3. ASSUME NEW c \in Callbacks, TakeSlot(c)
          PROVE  Others
        BY <1>2, <2>3 DEF TakeSlot, Taken, startVars
    <2>4. ASSUME NEW c \in Callbacks, ClearNew(c)
          PROVE  Others
        <3>1. job[c].p \in Pids
            BY <2>4, JobTyped DEF ClearNew, JobsFit
        <3> QED
            BY <1>2, <2>4, <3>1 DEF ClearNew, startVars
    <2>5. ASSUME NEW c \in Callbacks, LeavePinned(c)
          PROVE  Others
        BY <1>1, <1>2, <2>5 DEF LeavePinned, startVars
    <2>6. ASSUME NEW c \in Callbacks, NEW p \in Pids, CreateProcess(c, p)
          PROVE  Others
        BY <1>2, <2>6 DEF CreateProcess, startVars
    <2>7. ASSUME NEW c \in Callbacks, CreateStep(c)
          PROVE  TakeSlot(c) \/ UNCHANGED <<startVars, histVars>>
        BY <2>7 DEF CreateStep, NotAdded, TakeOutside, ReleaseOld, Fill,
            FillFails, Publish
    <2>8. ASSUME NEW c \in Callbacks, LookupStep(c)
          PROVE  ClearNew(c) \/ LeavePinned(c) \/ Purge(c)
                    \/ UNCHANGED <<startVars, histVars>>
        BY <2>8 DEF LookupStep, Lookup, LookupMisses, CheckHolds, CheckFails,
            Pin, Unpin, WithoutEntry
    <2>9. ASSUME NEW c \in Callbacks, NEW p \in Pids, Event(c, p)
          PROVE  CreateProcess(c, p) \/ UNCHANGED <<startVars, histVars>>
        BY <2>9 DEF Event, ExitProcess, ObjectCallback, ThreadCreated,
            ClientCallback
    <2>10. StartupDone => Others
        BY <1>2 DEF StartupDone, histVars
    <2> HIDE DEF Others
    <2> QED
        BY <2>1, <2>2, <2>3, <2>4, <2>5, <2>6, <2>7, <2>8, <2>9, <2>10,
            <2>11 DEF Next, vars
<1> QED
    BY <1>9, <1>10

-----------------------------------------------------------------------------
(* The callbacks and the life of a process.                                *)

\* What the steps do to the places, the jobs and the processes: a callback is
\* called, goes on, or returns.
Called(c, k, p, l) ==
    /\ pc[c] = "idle" /\ registered
    /\ pc' = [pc EXCEPT ![c] = l]
    /\ job' = [job EXCEPT ![c] = [kind |-> k, p |-> p]]
    /\ held' = held
    /\ registered' = registered

GoesOn(c) ==
    /\ \/ pc[c] \in Creating /\ pc'[c] \in Creating
       \/ pc[c] \in {"lookup", "check", "pin"} /\ pc'[c] \in {"check", "pin", "use"}
       \/ pc[c] \in {"lookup", "check", "use"} /\ pc'[c] = "purge"
            /\ job[c].kind = "exit"
    /\ pc' = [pc EXCEPT ![c] = pc'[c]]
    /\ job' = job
    /\ UNCHANGED <<proc, registered, firstSeen>>

Created(c) ==
    /\ pc[c] \in Creating
    /\ Return(c)
    /\ proc' = [proc EXCEPT ![job[c].p].state = "running"]
    /\ UNCHANGED <<registered, firstSeen>>

Looked(c) ==
    /\ pc[c] \notin Creating
    /\ Return(c)
    /\ \/ proc' = proc
       \/ pc[c] = "purge" /\ proc' = [proc EXCEPT ![job[c].p].state = "none"]
    /\ registered' = registered
    /\ \/ firstSeen' = firstSeen
       \/ pc[c] = "clearNew" /\ firstSeen' = firstSeen \cup {job[c].p}

Calls(c, p) ==
    \/ /\ proc[p].state = "none" /\ \A d \in Callbacks : job[d].p # p
       /\ Called(c, "create", p, "add")
       /\ proc' = [proc EXCEPT ![p] = [state |-> "creating", inc |-> @.inc + 1]]
       /\ proc[p].inc < MaxIncarnations
       /\ firstSeen' = firstSeen \ {p}
    \/ /\ proc[p].state = "running"
       /\ \A d \in Callbacks : job[d].p = p => job[d].kind # "thread"
       /\ Called(c, "exit", p, "lookup")
       /\ proc' = [proc EXCEPT ![p].state = "exiting"]
       /\ firstSeen' = firstSeen
    \/ /\ \/ Called(c, "object", p, "lookup") \/ Called(c, "client", p, "lookup")
          \/ /\ proc[p].state = "running"
             /\ Called(c, "thread", p, "lookup") \/ Called(c, "thread", p, "clearNew")
       /\ UNCHANGED <<proc, firstSeen>>

LEMMA LifeSteps ==
    ASSUME TypeOK, JobsFit, [Next]_vars
    PROVE  \/ \E c \in Callbacks : GoesOn(c) \/ Created(c) \/ Looked(c)
           \/ \E c \in Callbacks, p \in Pids : Calls(c, p)
           \/ /\ UNCHANGED <<proc, localVars, firstSeen>>
              /\ registered => registered'
<1>1. ASSUME NEW c \in Callbacks, CreateStep(c)
      PROVE  GoesOn(c) \/ Created(c)
    <2>1. CASE TakeSlot(c) \/ ReleaseOld(c) \/ Fill(c)
        BY <2>1 DEF TakeSlot, ReleaseOld, Fill, GoesOn, Goto, Creating, TypeOK,
            startVars, histVars
    <2>2. CASE NotAdded(c) \/ TakeOutside(c) \/ FillFails(c) \/ Publish(c)
        BY <2>2 DEF NotAdded, TakeOutside, FillFails, Publish, CreationDone,
            Created, Creating, startVars, histVars
    <2> QED
        BY <1>1, <2>1, <2>2 DEF CreateStep
<1>2. ASSUME NEW c \in Callbacks, LookupStep(c)
      PROVE  GoesOn(c) \/ Looked(c)
    <2>1. CASE ClearNew(c) \/ LeavePinned(c) \/ Purge(c)
        BY <2>1 DEF ClearNew, LeavePinned, Purge, Looked, Creating, startVars,
            histVars
    <2>2. CASE Lookup(c) \/ CheckHolds(c) \/ Pin(c)
        BY <2>2 DEF Lookup, CheckHolds, Pin, GoesOn, Goto, TypeOK, startVars,
            histVars
    <2>3. CASE LookupMisses(c) \/ CheckFails(c)
        <3>1. pc[c] \in {"lookup", "check"} /\ WithoutEntry(c)
            BY <2>3 DEF LookupMisses, CheckFails
        <3>2. CASE job[c].kind = "exit"
            BY <3>1, <3>2 DEF WithoutEntry, GoesOn, Goto, TypeOK, startVars,
                histVars
        <3>3. CASE job[c].kind # "exit"
            BY <3>1, <3>3 DEF WithoutEntry, Looked, Creating, startVars, histVars
        <3> QED
            BY <3>2, <3>3
    <2>4. CASE Unpin(c)
        <3>1. CASE job[c].kind = "exit"
            BY <2>4, <3>1 DEF Unpin, GoesOn, Goto, TypeOK, startVars, histVars
        <3>2. CASE job[c].kind # "exit"
            BY <2>4, <3>2 DEF Unpin, Looked, Creating, startVars, histVars
        <3> QED
            BY <3>1, <3>2
    <2> QED
        BY <1>2, <2>1, <2>2, <2>3, <2>4 DEF LookupStep
<1>3. ASSUME NEW c \in Callbacks, NEW p \in Pids, Event(c, p)
      PROVE  Calls(c, p)
    <2>1. CASE CreateProcess(c, p)
        BY <2>1 DEF CreateProcess, Start, Goto, Calls, Called, startVars
    <2>2. CASE ExitProcess(c, p)
        BY <2>2 DEF ExitProcess, Busy, Start, Goto, Calls, Called, startVars,
            histVars
    <2>3. CASE ObjectCallback(c, p) \/ ThreadCreated(c, p) \/ ClientCallback(c, p)
        BY <2>3 DEF ObjectCallback, ThreadCreated, ClientCallback, Start, Goto,
            Calls, Called, startVars, histVars
    <2> QED
        BY <1>3, <2>1, <2>2, <2>3 DEF Event
<1>4. (\E p \in Pids : StartupProcess(p)) \/ StartupDone \/ UNCHANGED vars
        => /\ UNCHANGED <<proc, localVars, firstSeen>>
           /\ registered => registered'
    BY DEF StartupProcess, StartupDone, vars, startVars, histVars
<1> QED
    BY <1>1, <1>2, <1>3, <1>4 DEF Next

LEMMA ProcTyped ==
    ASSUME TypeOK, JobsFit, [Next]_vars
    PROVE  proc' \in [Pids -> [state : {"none", "creating", "running", "exiting"},
                               inc : 0..MaxIncarnations]]
<1> DEFINE Procs == [state : {"none", "creating", "running", "exiting"},
                     inc : 0..MaxIncarnations]
<1>1. proc \in [Pids -> Procs]
    BY DEF TypeOK
<1>2. ASSUME NEW p \in Pids, NEW st \in {"none", "running", "exiting"},
             proc' = [proc EXCEPT ![p].state = st]
      PROVE  proc' \in [Pids -> Procs]
    BY <1>1, <1>2
<1>3. ASSUME NEW c \in Callbacks, Created(c) \/ Looked(c)
      PROVE  proc' \in [Pids -> Procs]
    <2>1. pc[c] \in Creating \cup {"purge"} => job[c].p \in Pids
        BY JobTyped DEF JobsFit
    <2> HIDE DEF Procs
    <2> QED
        BY <1>1, <1>2, <1>3, <2>1 DEF Created, Looked
<1>4. ASSUME NEW c \in Callbacks, NEW p \in Pids, Calls(c, p)
      PROVE  proc' \in [Pids -> Procs]
    <2>1. CASE proc[p].inc < MaxIncarnations
            /\ proc' = [proc EXCEPT ![p] = [state |-> "creating", inc |-> @.inc + 1]]
        <3>1. proc[p].inc + 1 \in 0..MaxIncarnations
            BY <1>1, <2>1, ProcessCacheAssumption
        <3> QED
            BY <1>1, <2>1, <3>1
    <2> HIDE DEF Procs
    <2> QED
        BY <1>1, <1>2, <1>4, <2>1 DEF Calls
<1> HIDE DEF Procs
<1> QED
    BY <1>1, <1>3, <1>4, LifeSteps DEF GoesOn, Procs

LEMMA TypeStep ==
    ASSUME TypeOK, JobsFit, StartupInv, [Next]_vars
    PROVE  TypeOK'
BY CacheTyped, LocalTyped, ProcTyped DEF TypeOK, SlotRecords, JobRecords

LEMMA JobsStep ==
    ASSUME TypeOK, JobsFit, OneEach, [Next]_vars
    PROVE  JobsFit' /\ OneEach'
<1> USE DEF JobsFit, OneEach
<1>1. /\ \A c \in Callbacks : job[c] = NoJob \/ job[c] \in JobRecords
      /\ NoJob.kind = "none" /\ NoJob.p = NoPid
      /\ \A j \in JobRecords : j # NoJob /\ j.kind # "none" /\ j.p \in Pids
    <2>1. NoJob.kind = "none" /\ NoJob.p = NoPid
        BY DEF NoJob
    <2>2. \A j \in JobRecords : j # NoJob /\ j.kind # "none" /\ j.p \in Pids
        BY <2>1 DEF JobRecords
    <2>3. \A c \in Callbacks : job[c] = NoJob \/ job[c] \in JobRecords
        BY JobTyped
    <2> QED
        BY <2>1, <2>2, <2>3
<1>2. /\ \A p \in Pids : proc[p].inc \in Nat
      /\ proc \in [Pids -> [state : {"none", "creating", "running", "exiting"},
                            inc : 0..MaxIncarnations]]
      /\ DOMAIN pc = Callbacks /\ DOMAIN job = Callbacks
    BY DEF TypeOK
<1>3. CASE UNCHANGED <<pc, job, proc>>
    BY <1>3
<1>4. ASSUME NEW c \in Callbacks, GoesOn(c)
      PROVE  JobsFit' /\ OneEach'
    <2>1. /\ \A d \in Callbacks : d # c => pc'[d] = pc[d]
          /\ job' = job /\ proc' = proc
        BY <1>2, <1>4 DEF GoesOn
    <2>2. \/ pc[c] \in Creating /\ pc'[c] \in Creating
          \/ pc[c] \in {"lookup", "check", "pin"}
                /\ pc'[c] \in {"check", "pin", "use"}
          \/ pc[c] \in {"lookup", "check", "use"} /\ pc'[c] = "purge"
                /\ job[c].kind = "exit"
        BY <1>4 DEF GoesOn
    <2>3. JobsFit'
        BY <2>1, <2>2 DEF Creating
    <2> QED
        BY <2>1, <2>3
<1>5. ASSUME NEW c \in Callbacks, Return(c), NEW st,
             job[c].kind \in {"create", "exit"},
             st = (IF job[c].kind = "create" THEN "running" ELSE "none"),
             proc' = [proc EXCEPT ![job[c].p].state = st]
      PROVE  JobsFit' /\ OneEach'
    <2>1. /\ pc'[c] = "idle" /\ job'[c] = NoJob
          /\ \A d \in Callbacks : d # c => pc'[d] = pc[d] /\ job'[d] = job[d]
        BY <1>5, Returning
    <2>2. job[c].p \in Pids
        BY <1>1, <1>5
    <2>3. \A p \in Pids : /\ proc'[p].inc = proc[p].inc
                          /\ p # job[c].p => proc'[p].state = proc[p].state
        BY <1>2, <1>5
    <2>4. \A d \in Callbacks : d # c /\ job[d].p = job[c].p =>
                job[d].kind \notin {"create", "exit", "thread"}
        BY <1>5
    <2>5. OneEach'
        BY <1>1, <2>1
    <2>6. ASSUME NEW d \in Callbacks
          PROVE  JobsFit!(d)'
        <3>1. CASE d = c
            BY <1>1, <2>1, <3>1 DEF Creating
        <3>2. CASE d # c /\ job[d] = NoJob
            BY <1>1, <2>1, <3>2
        <3>3. CASE d # c /\ job[d] \in JobRecords
            <4>1. job[d].p \in Pids
                BY <1>1, <3>3
            <4> QED
                BY <2>1, <2>3, <2>4, <3>3, <4>1
        <3> QED
            BY <1>1, <3>1, <3>2, <3>3
    <2> QED
        BY <2>5, <2>6
<1>6. ASSUME NEW c \in Callbacks, Return(c), proc' = proc
      PROVE  JobsFit' /\ OneEach'
    <2>1. /\ pc'[c] = "idle" /\ job'[c] = NoJob
          /\ \A d \in Callbacks : d # c => pc'[d] = pc[d] /\ job'[d] = job[d]
        BY <1>6, Returning
    <2>2. OneEach'
        BY <1>1, <2>1
    <2>3. JobsFit'
        BY <1>1, <1>6, <2>1 DEF Creating
    <2> QED
        BY <2>2, <2>3
<1>7. ASSUME NEW c \in Callbacks, Created(c) \/ Looked(c)
      PROVE  JobsFit' /\ OneEach'
    BY <1>5, <1>6, <1>7 DEF Created, Looked
<1>8. ASSUME NEW c \in Callbacks, NEW p \in Pids, Calls(c, p)
      PROVE  JobsFit' /\ OneEach'
    <2>1. PICK k \in {"create", "exit", "object", "thread", "client"},
               l \in {"add", "lookup", "clearNew"} :
            /\ Called(c, k, p, l)
            /\ l = "add" <=> k = "create"
            /\ l = "clearNew" => k = "thread"
        BY <1>8 DEF Calls
    <2>2. job'[c].kind = k /\ job'[c].p = p /\ pc'[c] = l /\ job[c] = NoJob
            /\ job'[c] \in JobRecords
            /\ \A d \in Callbacks : d # c => pc'[d] = pc[d] /\ job'[d] = job[d]
        BY <1>2, <2>1 DEF Called, JobRecords
    <2>3. /\ k = "create" =>
                /\ \A d \in Callbacks : job[d].p # p
                /\ proc' = [proc EXCEPT ![p] = [state |-> "creating",
                                                inc |-> @.inc + 1]]
          /\ k = "exit" =>
                /\ proc[p].state = "running"
                /\ \A d \in Callbacks : job[d].p = p => job[d].kind # "thread"
                /\ proc' = [proc EXCEPT ![p].state = "exiting"]
          /\ k \in {"object", "client", "thread"} => proc' = proc
          /\ k = "thread" => proc[p].state = "running"
        <3>1. job'[c].kind = k
            BY <2>2
        <3>2. ASSUME NEW k2, NEW l2, Called(c, k2, p, l2)
              PROVE  k2 = k
            BY <1>2, <2>2, <3>2 DEF Called
        <3> HIDE DEF Called
        <3> QED
            BY <1>8, <3>2 DEF Calls
    <2>4. \A q \in Pids : q # p => proc'[q] = proc[q]
        BY <1>2, <2>1, <2>3
    <2>5. k = "create" => proc'[p].state = "creating" /\ proc'[p].inc > 0
        BY <1>2, <2>3
    <2>6. k = "exit" => proc'[p].state = "exiting" /\ proc'[p].inc = proc[p].inc
        BY <1>2, <2>3
    <2>7. ASSUME NEW d \in Callbacks, d # c, job[d] \in JobRecords
          PROVE  JobsFit!(d)'
        <3>1. CASE job[d].p # p
            BY <1>1, <2>2, <2>4, <2>7, <3>1
        <3>2. CASE job[d].p = p
            <4>1. k # "create"
                BY <2>3, <3>2
            <4>2. /\ JobsFit!(d)
                  /\ pc'[d] = pc[d] /\ job'[d] = job[d]
                BY <2>2, <2>7
            <4>3. CASE k = "exit"
                <5>1. job[d].kind \notin {"create", "exit", "thread"}
                    BY <2>3, <3>2, <4>2, <4>3
                <5> QED
                    BY <4>2, <5>1
            <4>4. CASE k \in {"object", "client", "thread"}
                <5>1. proc' = proc
                    BY <2>3, <4>4
                <5> QED
                    BY <4>2, <5>1
            <4> QED
                BY <4>1, <4>3, <4>4
        <3> QED
            BY <3>1, <3>2
    <2>8. ASSUME NEW d \in Callbacks, d # c, job[d] = NoJob
          PROVE  JobsFit!(d)'
        BY <1>1, <2>2, <2>8
    <2>9. JobsFit!(c)'
        <3>1. /\ job'[c] # NoJob /\ pc'[c] # "idle" /\ pc'[c] # "purge"
              /\ pc'[c] \in Creating <=> k = "create"
            BY <1>1, <2>1, <2>2 DEF Creating
        <3> QED
            BY <2>1, <2>2, <2>3, <2>5, <2>6, <3>1
    <2>10. JobsFit'
        BY <1>1, <2>7, <2>8, <2>9
    <2>11. OneEach'
        <3>1. ASSUME NEW d \in Callbacks, d # c, k \in {"create", "exit"},
                     job[d].kind = k, job[d].p = p
              PROVE  FALSE
            BY <2>3, <3>1
        <3> QED
            BY <2>2, <3>1
    <2> QED
        BY <2>10, <2>11
<1> QED
    BY <1>3, <1>4, <1>7, <1>8, LifeSteps DEF localVars

LEMMA StartupStep ==
    ASSUME TypeOK, JobsFit, StartupInv, [Next]_vars
    PROVE  StartupInv'
<1>1. CASE UNCHANGED <<proc, localVars, firstSeen>> /\ (registered => registered')
    BY <1>1 DEF StartupInv, localVars
<1>2. CASE registered /\ registered' = registered
    BY <1>2 DEF StartupInv
<1>3. ASSUME NEW c \in Callbacks, LookupStep(c) \/ CreateStep(c)
      PROVE  pc[c] # "idle"
    BY <1>3 DEF LookupStep, CreateStep, ClearNew, Lookup, LookupMisses,
        CheckHolds, CheckFails, Pin, Unpin, LeavePinned, Purge, NotAdded,
        TakeSlot, TakeOutside, ReleaseOld, Fill, FillFails, Publish
<1>4. ASSUME NEW c \in Callbacks, pc[c] # "idle"
      PROVE  registered
    BY <1>4 DEF StartupInv, JobsFit
<1>5. ASSUME NEW c \in Callbacks, LookupStep(c) \/ CreateStep(c)
      PROVE  registered' = registered
    BY <1>5 DEF LookupStep, CreateStep, ClearNew, Lookup, LookupMisses,
        CheckHolds, CheckFails, Pin, Unpin, LeavePinned, Purge, NotAdded,
        TakeSlot, TakeOutside, ReleaseOld, Fill, FillFails, Publish,
        WithoutEntry, startVars
<1>6. ASSUME NEW c \in Callbacks, NEW p \in Pids, Event(c, p)
      PROVE  registered /\ registered' = registered
    BY <1>6 DEF Event, CreateProcess, ExitProcess, ObjectCallback,
        ThreadCreated, ClientCallback, Start, startVars
<1>7. (\E p \in Pids : StartupProcess(p)) \/ StartupDone \/ UNCHANGED vars
        => /\ UNCHANGED <<proc, localVars, firstSeen>>
           /\ registered => registered'
    BY DEF StartupProcess, StartupDone, vars, startVars, histVars
<1> QED
    BY <1>1, <1>2, <1>3, <1>4, <1>5, <1>6, <1>7 DEF Next

-----------------------------------------------------------------------------
(* The array.                                                              *)

\* What a step writes, and whether it clashes: a fresh entry for a process that has none, the magic of
\* a slot that is taken, the information of the slot a callback fills, its
\* entry, or less than was there.
Overwritten(s) ==
    /\ \A r \in Slots : r # s =>
        /\ r \in clashed' <=> r \in clashed
        /\ r \in left' <=> r \in left
    /\ s \notin left'
    /\ s \notin clashed' => ~Clashes(s)

Entered(s, q) ==
    /\ ~CacheHit(q) /\ ~registered
    /\ \A r \in Slots : r # s => SameSlot(r)
    /\ NEW_PROCS'[s].p = q /\ ~NEW_PROCS'[s].InUse
    /\ InfoOf(q) \in Infos /\ NEW_PROCS'[s].PI = InfoOf(q)
    /\ proc[q].state = "running"
    /\ Overwritten(s)
    /\ UNCHANGED <<pc, job, held, proc, firstSeen, opened>>

SlotTaken(c, s) ==
    /\ pc[c] = "add" /\ ~CacheHit(job[c].p)
    /\ \A r \in Slots : r # s => SameSlot(r)
    /\ SamePid(s) /\ SameNew(s) /\ SameInUse(s) /\ SamePI(s)
    /\ NEW_PROCS'[s].magic => NEW_PROCS[s].magic /\ NEW_PROCS[s].InUse
    /\ Overwritten(s)
    /\ pc' = [pc EXCEPT ![c] = "release"] /\ held' = [held EXCEPT ![c] = s]
    /\ UNCHANGED <<job, proc, firstSeen, opened>>

InfoWritten(c) ==
    /\ pc[c] \in {"release", "fill"}
    /\ \A r \in Slots : r # held[c] => SameSlot(r)
    /\ SamePid(held[c]) /\ SameNew(held[c]) /\ SameInUse(held[c])
    /\ SameMagic(held[c])
    /\ UNCHANGED <<clashed, left, firstSeen, opened>>
    /\ \/ /\ pc' = [pc EXCEPT ![c] = "fill"] /\ UNCHANGED <<job, held, proc>>
       \/ /\ pc' = [pc EXCEPT ![c] = "publish"] /\ UNCHANGED <<job, held, proc>>
          /\ NEW_PROCS'[held[c]].PI = InfoOf(job[c].p)
       \/ CreationDone(c)

Published(c) ==
    /\ pc[c] = "publish"
    /\ \A r \in Slots : r # held[c] => SameSlot(r)
    /\ NEW_PROCS'[held[c]].p = job[c].p /\ ~NEW_PROCS'[held[c]].InUse
    /\ SamePI(held[c])
    /\ UNCHANGED <<clashed, left, firstSeen, opened>>
    /\ CreationDone(c)

LEMMA TakenSlot ==
    ASSUME Taken, NextIndex \in Slots
    PROVE  Overwritten(NextIndex)
<1> DEFINE s == NextIndex
<1>1. clashed' = (IF Clashes(s) THEN clashed \cup {s} ELSE clashed \ {s})
        /\ left' = left \ {s}
    BY DEF Taken
<1> HIDE DEF s
<1>2. Overwritten(s)
    BY <1>1 DEF Overwritten
<1> QED
    BY <1>2 DEF s

LEMMA CreateWrites ==
    ASSUME TypeOK, JobsFit, StartupInv, NEW c \in Callbacks, CreateStep(c)
    PROVE  \/ \E s \in Slots : SlotTaken(c, s)
           \/ InfoWritten(c) \/ Published(c)
           \/ /\ pc[c] = "add" /\ CreationDone(c)
              /\ UNCHANGED <<NEW_PROCS, clashed, left, firstSeen, opened>>
<1>1. held[c] \in Slots
    BY DEF TypeOK
<1>2. CASE NotAdded(c) \/ TakeOutside(c)
    BY <1>2 DEF NotAdded, TakeOutside, cacheVars, histVars
<1>3. CASE TakeSlot(c)
    <2>1. NextIndex \in Slots
        BY <1>3 DEF TakeSlot
    <2>2. NEW_PROCS' = [NEW_PROCS EXCEPT ![NextIndex].magic = @ /\
                            NEW_PROCS[NextIndex].InUse]
        BY <1>3 DEF TakeSlot
    <2> HIDE DEF NextIndex
    <2>3. /\ \A r \in Slots : r # NextIndex => SameSlot(r)
          /\ SamePid(NextIndex) /\ SameNew(NextIndex) /\ SameInUse(NextIndex)
          /\ SamePI(NextIndex)
          /\ NEW_PROCS'[NextIndex].magic =>
                NEW_PROCS[NextIndex].magic /\ NEW_PROCS[NextIndex].InUse
        BY <2>1, <2>2, WritesMagic
    <2>4. Overwritten(NextIndex)
        BY <1>3, <2>1, TakenSlot DEF TakeSlot
    <2>5. SlotTaken(c, NextIndex)
        BY <1>3, <2>3, <2>4 DEF SlotTaken, TakeSlot, Goto
    <2> QED
        BY <2>1, <2>5
<1>4. CASE ReleaseOld(c)
    <2>1. NoInfo \in Infos \cup {NoInfo}
        OBVIOUS
    <2>2. NEW_PROCS' = [NEW_PROCS EXCEPT ![held[c]].PI = NoInfo]
        BY <1>4 DEF ReleaseOld
    <2>3. /\ \A r \in Slots : r # held[c] => SameSlot(r)
          /\ SamePid(held[c]) /\ SameNew(held[c]) /\ SameInUse(held[c])
          /\ SameMagic(held[c])
        BY <1>1, <2>1, <2>2, WritesPI
    <2>4. /\ pc[c] = "release" /\ pc' = [pc EXCEPT ![c] = "fill"]
          /\ UNCHANGED <<job, held, proc>>
          /\ UNCHANGED <<clashed, left, firstSeen, opened>>
        BY <1>4 DEF ReleaseOld, Goto, histVars
    <2>5. InfoWritten(c)
        BY <2>3, <2>4 DEF InfoWritten
    <2> QED
        BY <2>5
<1>5. CASE Fill(c)
    <2>1. InfoOf(job[c].p) \in Infos \cup {NoInfo}
        BY <1>5, CreatorJob DEF Fill, Creating
    <2>2. NEW_PROCS' = [NEW_PROCS EXCEPT ![held[c]].PI = InfoOf(job[c].p)]
        BY <1>5 DEF Fill
    <2> HIDE DEF InfoOf
    <2>3. /\ \A r \in Slots : r # held[c] => SameSlot(r)
          /\ SamePid(held[c]) /\ SameNew(held[c]) /\ SameInUse(held[c])
          /\ SameMagic(held[c])
          /\ NEW_PROCS'[held[c]].PI = InfoOf(job[c].p)
        BY <1>1, <2>1, <2>2, WritesPI
    <2>4. /\ pc[c] = "fill" /\ pc' = [pc EXCEPT ![c] = "publish"]
          /\ UNCHANGED <<job, held, proc>>
          /\ UNCHANGED <<clashed, left, firstSeen, opened>>
        BY <1>5 DEF Fill, Goto, histVars
    <2>5. InfoWritten(c)
        BY <2>3, <2>4 DEF InfoWritten
    <2> QED
        BY <2>5
<1>6. CASE FillFails(c)
    <2>1. InfoOf(job[c].p) \in Infos \cup {NoInfo}
        BY <1>6, CreatorJob DEF FillFails, Creating
    <2>2. PICK pi \in Infos \cup {NoInfo} :
            NEW_PROCS' = [NEW_PROCS EXCEPT ![held[c]].PI = pi]
        BY <1>6, <2>1 DEF FillFails
    <2> QED
        BY <1>1, <1>6, <2>2, WritesPI DEF FillFails, InfoWritten, histVars
<1>7. CASE Publish(c)
    <2>1. job[c].p \in Pids /\ NEW_PROCS[held[c]].PI \in Infos \cup {NoInfo}
        BY <1>1, <1>7, CreatorJob, SlotTyped DEF Publish, Creating, SlotRecords
    <2>2. NEW_PROCS' = [NEW_PROCS EXCEPT ![held[c]] =
                            [p |-> job[c].p, New |-> TRUE, InUse |-> FALSE,
                             PI |-> NEW_PROCS[held[c]].PI, magic |-> TRUE]]
        BY <1>1, <1>7, SlotTyped DEF Publish
    <2>3. /\ \A r \in Slots : r # held[c] => SameSlot(r)
          /\ NEW_PROCS'[held[c]].p = job[c].p /\ SamePI(held[c])
          /\ ~NEW_PROCS'[held[c]].InUse
        BY <1>1, <2>1, <2>2, WritesSlot DEF SamePI
    <2> QED
        BY <1>7, <2>3 DEF Publish, Published, histVars
<1> QED
    BY <1>2, <1>3, <1>4, <1>5, <1>6, <1>7 DEF CreateStep

LEMMA StartupWrites ==
    ASSUME TypeOK, StartupInv, NEW p \in Pids, StartupProcess(p)
    PROVE  \/ \E s \in Slots : Entered(s, p)
           \/ UNCHANGED <<NEW_PROCS, localVars, proc, histVars>>
<1>1. CASE CacheHit(p)
    BY <1>1 DEF StartupProcess, cacheVars, histVars
<1>2. CASE ~CacheHit(p) /\ NextIndex \notin Slots
    <2>1. clashed \ {NextIndex} = clashed /\ left \ {NextIndex} = left
        BY <1>2 DEF TypeOK
    <2> QED
        BY <1>2, <2>1 DEF StartupProcess, Taken, histVars
<1>3. CASE ~CacheHit(p) /\ NextIndex \in Slots
    <2>1. NEW_PROCS' = [NEW_PROCS EXCEPT ![NextIndex] =
                            [p |-> p, New |-> TRUE, InUse |-> FALSE,
                             PI |-> InfoOf(p), magic |-> TRUE]]
        BY <1>3 DEF StartupProcess
    <2>2. proc[p].inc = 1 /\ proc[p].state = "running" /\ 1 \in 1..MaxIncarnations
        BY ProcessCacheAssumption DEF StartupProcess, StartupInv, TypeOK
    <2>3. InfoOf(p) \in Infos /\ InfoOf(p).p = p
        BY <2>2 DEF InfoOf, Infos
    <2>4. Overwritten(NextIndex)
        BY <1>3, TakenSlot DEF StartupProcess
    <2> HIDE DEF NextIndex, InfoOf
    <2>5. /\ \A r \in Slots : r # NextIndex => SameSlot(r)
          /\ NEW_PROCS'[NextIndex].p = p
          /\ NEW_PROCS'[NextIndex].PI = InfoOf(p)
          /\ ~NEW_PROCS'[NextIndex].InUse
        BY <1>3, <2>1, <2>3, WritesSlot
    <2>6. Entered(NextIndex, p)
        BY <1>3, <2>2, <2>3, <2>4, <2>5 DEF StartupProcess, Entered, localVars
    <2> QED
        BY <1>3, <2>6
<1> QED
    BY <1>1, <1>2, <1>3

\* A lookup leaves a slot, empties it, or changes its flags; it marks a slot
\* it found, and gives it back when it is through.
LookedAt(c) ==
    /\ pc[c] \notin Creating /\ pc'[c] \notin Creating
    /\ \A d \in Callbacks : d # c =>
            pc'[d] = pc[d] /\ held'[d] = held[d] /\ job'[d] = job[d]
    /\ clashed' = clashed /\ opened \subseteq opened'
    /\ Purge(c) \/ UNCHANGED <<left, proc>>
    /\ \A s \in Slots :
        /\ \/ NEW_PROCS'[s] = EmptySlot
           \/ SamePid(s) /\ SamePI(s) /\ SameMagic(s)
                /\ (NEW_PROCS'[s].New => NEW_PROCS[s].New)
        /\ ~NEW_PROCS[s].magic =>
                SameSlot(s) \/ (SamePid(s) /\ SamePI(s) /\ SameMagic(s)
                                    /\ s = held[c] /\ pc[c] = "pin")
        /\ NEW_PROCS'[s].InUse =>
                NEW_PROCS[s].InUse
                    \/ (s = held'[c] /\ pc'[c] = "use" /\ SameMagic(s))
    /\ pc[c] = "use" =>
            \/ held[c] \in opened'
            \/ NEW_PROCS'[held[c]].magic => ~NEW_PROCS'[held[c]].InUse
    /\ pc'[c] \in {"check", "pin", "use"} =>
            \/ held'[c] = held[c] /\ pc[c] \in {"check", "pin"}
            \/ NEW_PROCS[held'[c]].magic

LEMMA LookupWrites ==
    ASSUME TypeOK, JobsFit, NEW c \in Callbacks, LookupStep(c)
    PROVE  LookedAt(c)
<1>1. /\ held[c] \in Slots /\ \A s \in Slots : NEW_PROCS[s] \in SlotRecords
      /\ DOMAIN pc = Callbacks /\ DOMAIN held = Callbacks
    BY SlotTyped DEF TypeOK
<1>2. "idle" \notin Creating /\ "use" \notin Creating /\ "purge" \notin Creating
        /\ "check" \notin Creating /\ "pin" \notin Creating
        /\ "lookup" \notin Creating /\ "clearNew" \notin Creating
    BY DEF Creating
<1>3. ASSUME UNCHANGED NEW_PROCS, UNCHANGED <<clashed, left, proc>>,
             opened \subseteq opened', pc[c] \in {"lookup", "check", "use"},
             pc[c] = "use" => held[c] \in opened',
             pc'[c] \in {"idle", "purge", "check", "pin"},
             pc'[c] \in {"check", "pin", "use"} =>
                \/ held'[c] = held[c] /\ pc[c] \in {"check", "pin"}
                \/ NEW_PROCS[held'[c]].magic,
             \A d \in Callbacks : d # c =>
                pc'[d] = pc[d] /\ held'[d] = held[d] /\ job'[d] = job[d]
      PROVE  LookedAt(c)
    BY <1>2, <1>3 DEF LookedAt, SameSlot, SamePid, SamePI, SameMagic, SameNew,
        SameInUse
<1>4. CASE ClearNew(c)
    <2>1. job[c].p \in Pids /\ NEW_PROCS' = NewCleared(job[c].p)
        BY <1>4, JobTyped DEF ClearNew, JobsFit
    <2>2. \A s \in Slots :
            /\ SamePid(s) /\ SameInUse(s) /\ SamePI(s) /\ SameMagic(s)
            /\ NEW_PROCS'[s].New => NEW_PROCS[s].New
            /\ ~NEW_PROCS[s].magic => SameSlot(s)
        BY <2>1, ClearsNew
    <2>3. /\ pc'[c] = "idle" /\ pc[c] = "clearNew"
          /\ UNCHANGED <<clashed, left, proc, opened>>
          /\ \A d \in Callbacks : d # c =>
                pc'[d] = pc[d] /\ job'[d] = job[d] /\ held'[d] = held[d]
        BY <1>4, Returning DEF ClearNew
    <2> QED
        BY <1>2, <2>2, <2>3 DEF LookedAt, SameInUse
<1>5. CASE Lookup(c)
    <2>1. \E s \in Slots : NEW_PROCS[s].magic /\ held' = [held EXCEPT ![c] = s]
        BY <1>5 DEF Lookup, FirstMatch, Matches
    <2> QED
        BY <1>1, <1>3, <1>5, <2>1 DEF Lookup, Goto, cacheVars, histVars
<1>6. CASE LookupMisses(c) \/ CheckFails(c)
    <2>1. pc[c] \in {"lookup", "check"} /\ WithoutEntry(c)
        BY <1>6 DEF LookupMisses, CheckFails
    <2>2. CASE Return(c)
        BY <1>3, <2>1, <2>2, Returning DEF WithoutEntry, cacheVars, histVars
    <2>3. CASE Goto(c, "purge") /\ UNCHANGED <<job, held, using>>
        BY <1>1, <1>3, <2>1, <2>3 DEF WithoutEntry, Goto, cacheVars, histVars
    <2> QED
        BY <2>1, <2>2, <2>3 DEF WithoutEntry
<1>7. CASE CheckHolds(c)
    BY <1>1, <1>3, <1>7 DEF CheckHolds, Goto, cacheVars, histVars
<1>8. CASE Pin(c)
    <2>1. /\ \A r \in Slots : r # held[c] => SameSlot(r)
          /\ SamePid(held[c]) /\ SameNew(held[c]) /\ SamePI(held[c])
          /\ SameMagic(held[c])
        BY <1>1, <1>8, WritesInUse DEF Pin
    <2>2. /\ pc[c] = "pin" /\ pc'[c] = "use" /\ held' = held
          /\ UNCHANGED <<clashed, left, proc, opened>>
          /\ \A d \in Callbacks : d # c =>
                pc'[d] = pc[d] /\ job'[d] = job[d] /\ held'[d] = held[d]
        BY <1>1, <1>8 DEF Pin, Goto, histVars
    <2> QED
        BY <1>2, <2>1, <2>2
            DEF LookedAt, SameSlot, SamePid, SamePI, SameMagic, SameNew
<1>9. CASE Unpin(c)
    <2>1. /\ \A r \in Slots : r # held[c] => SameSlot(r)
          /\ SamePid(held[c]) /\ SameNew(held[c]) /\ SamePI(held[c])
          /\ SameMagic(held[c])
          /\ NEW_PROCS[held[c]].magic => ~NEW_PROCS'[held[c]].InUse
          /\ ~NEW_PROCS[held[c]].magic => SameSlot(held[c])
        BY <1>1, <1>9, UnpinsSlot DEF Unpin
    <2>2. /\ pc[c] = "use" /\ pc'[c] \in {"purge", "idle"}
          /\ UNCHANGED <<clashed, left, proc, opened>>
          /\ \A d \in Callbacks : d # c =>
                pc'[d] = pc[d] /\ job'[d] = job[d] /\ held'[d] = held[d]
        BY <1>1, <1>9, Returning DEF Unpin, Goto, histVars
    <2> QED
        BY <1>1, <1>2, <2>1, <2>2
            DEF LookedAt, SameSlot, SamePid, SamePI, SameMagic, SameNew
<1>10. CASE LeavePinned(c)
    <2>1. /\ pc[c] = "use" /\ pc'[c] = "idle" /\ held[c] \in opened'
          /\ opened \subseteq opened'
          /\ UNCHANGED <<NEW_PROCS, clashed, left, proc>>
          /\ \A d \in Callbacks : d # c =>
                pc'[d] = pc[d] /\ job'[d] = job[d] /\ held'[d] = held[d]
        BY <1>10, Returning DEF LeavePinned, cacheVars
    <2> QED
        BY <1>3, <2>1
<1>11. CASE Purge(c)
    <2>1. \A s \in Slots :
            \/ SameSlot(s)
            \/ NEW_PROCS'[s] = EmptySlot /\ NEW_PROCS[s].magic
        BY <1>11, PurgesSlot
    <2>2. /\ pc[c] = "purge" /\ pc'[c] = "idle"
          /\ UNCHANGED <<clashed, opened>>
          /\ \A d \in Callbacks : d # c =>
                pc'[d] = pc[d] /\ job'[d] = job[d] /\ held'[d] = held[d]
        BY <1>11, Returning DEF Purge, histVars
    <2> QED
        BY <1>2, <1>11, <2>1, <2>2, EmptyTyped
            DEF LookedAt, SameSlot, SamePid, SamePI, SameMagic
<1> QED
    BY <1>4, <1>5, <1>6, <1>7, <1>8, <1>9, <1>10, <1>11 DEF LookupStep

\* Every step, by what it does to the array.
LEMMA SlotSteps ==
    ASSUME TypeOK, JobsFit, StartupInv, [Next]_vars
    PROVE  \/ \E p \in Pids, s \in Slots : Entered(s, p)
           \/ \E c \in Callbacks :
                \/ \E s \in Slots : SlotTaken(c, s)
                \/ InfoWritten(c) \/ Published(c)
                \/ /\ pc[c] = "add" /\ CreationDone(c)
                   /\ UNCHANGED <<NEW_PROCS, clashed, left, firstSeen, opened>>
                \/ LookedAt(c) /\ LookupStep(c)
           \/ /\ \E c \in Callbacks, p \in Pids : Event(c, p)
              /\ UNCHANGED <<NEW_PROCS, clashed, left, opened>>
           \/ UNCHANGED <<NEW_PROCS, localVars, proc, histVars>>
<1>1. \A c \in Callbacks, p \in Pids :
        Event(c, p) => UNCHANGED <<NEW_PROCS, clashed, left, opened>>
    BY DEF Event, CreateProcess, ExitProcess, ObjectCallback, ThreadCreated,
        ClientCallback, cacheVars, histVars
<1>2. StartupDone \/ UNCHANGED vars
        => UNCHANGED <<NEW_PROCS, localVars, proc, histVars>>
    BY DEF StartupDone, vars, cacheVars
<1>3. \A p \in Pids : StartupProcess(p) =>
        \/ \E s \in Slots : Entered(s, p)
        \/ UNCHANGED <<NEW_PROCS, localVars, proc, histVars>>
    BY StartupWrites
<1>4. \A c \in Callbacks : LookupStep(c) => LookedAt(c)
    BY LookupWrites
<1>5. \A c \in Callbacks : CreateStep(c) =>
        \/ \E s \in Slots : SlotTaken(c, s)
        \/ InfoWritten(c) \/ Published(c)
        \/ /\ pc[c] = "add" /\ CreationDone(c)
           /\ UNCHANGED <<NEW_PROCS, clashed, left, firstSeen, opened>>
    BY CreateWrites
<1> QED
    BY <1>1, <1>2, <1>3, <1>4, <1>5 DEF Next

-----------------------------------------------------------------------------
(* The invariants of the array.                                            *)

\* Where the callbacks are after a creator's step.
LEMMA CreatorMoves ==
    ASSUME TypeOK, NEW c \in Callbacks
    PROVE  /\ CreationDone(c) =>
                /\ pc'[c] = "idle"
                /\ \A d \in Callbacks : d # c =>
                    pc'[d] = pc[d] /\ held'[d] = held[d] /\ job'[d] = job[d]
                /\ \A q \in Pids : proc'[q].inc = proc[q].inc
           /\ \A l : pc' = [pc EXCEPT ![c] = l] =>
                pc'[c] = l /\ \A d \in Callbacks : d # c => pc'[d] = pc[d]
           /\ \A s : held' = [held EXCEPT ![c] = s] =>
                held'[c] = s /\ \A d \in Callbacks : d # c => held'[d] = held[d]
<1>1. CreationDone(c) => \A q \in Pids : proc'[q].inc = proc[q].inc
    BY DEF CreationDone, TypeOK
<1>2. CreationDone(c) =>
        /\ pc'[c] = "idle"
        /\ \A d \in Callbacks : d # c =>
            pc'[d] = pc[d] /\ held'[d] = held[d] /\ job'[d] = job[d]
    BY Returning DEF CreationDone
<1> QED
    BY <1>1, <1>2 DEF TypeOK

LEMMA UniqueStep ==
    ASSUME IInv, [Next]_vars
    PROVE  UniquePid'
<1> USE DEF IInv
<1>1. CASE UNCHANGED NEW_PROCS
    BY <1>1 DEF UniquePid
<1>2. ASSUME \A s \in Slots : SamePid(s) \/ NEW_PROCS'[s] = EmptySlot
      PROVE  UniquePid'
    BY <1>2, EmptyTyped DEF UniquePid, SamePid
<1>3. ASSUME NEW s \in Slots, NEW q,
             \A r \in Slots : NEW_PROCS[r].p # q,
             \A r \in Slots : r # s => SameSlot(r), NEW_PROCS'[s].p = q
      PROVE  UniquePid'
    BY <1>3 DEF UniquePid, SameSlot
<1>4. ASSUME NEW s \in Slots, NEW q \in Pids, Entered(s, q)
      PROVE  UniquePid'
    BY <1>3, <1>4 DEF Entered, CacheHit
<1>5. ASSUME NEW c \in Callbacks, NEW s \in Slots, SlotTaken(c, s)
      PROVE  UniquePid'
    BY <1>2, <1>5 DEF SlotTaken, SameSlot, SamePid
<1>6. ASSUME NEW c \in Callbacks, InfoWritten(c)
      PROVE  UniquePid'
    BY <1>2, <1>6 DEF InfoWritten, SameSlot, SamePid
<1>7. ASSUME NEW c \in Callbacks, Published(c)
      PROVE  UniquePid'
    <2>1. held[c] \in Slots /\ \A r \in Slots : NEW_PROCS[r].p # job[c].p
        BY <1>7 DEF Published, PidIsNew, Filling, TypeOK
    <2> QED
        BY <1>3, <1>7, <2>1 DEF Published
<1>8. ASSUME NEW c \in Callbacks, LookedAt(c)
      PROVE  UniquePid'
    BY <1>2, <1>8 DEF LookedAt
<1> QED
    BY <1>1, <1>4, <1>5, <1>6, <1>7, <1>8, SlotSteps

\* The first half: no slot has the pid of a process that is being added.
LEMMA NoSlotStep ==
    ASSUME IInv, [Next]_vars
    PROVE  \A c \in Callbacks : pc'[c] \in Filling =>
                \A s \in Slots : NEW_PROCS'[s].p # job'[c].p
<1> USE DEF IInv
<1> DEFINE Goal == \A c \in Callbacks : pc'[c] \in Filling =>
                        \A s \in Slots : NEW_PROCS'[s].p # job'[c].p
<1>0. \A c \in Callbacks : pc[c] \in Filling =>
        /\ \A s \in Slots : NEW_PROCS[s].p # job[c].p
        /\ job[c].kind = "create" /\ job[c].p \in Pids
    BY CreatorJob DEF PidIsNew, Filling, Creating
<1>1. ASSUME UNCHANGED <<pc, job>>,
             \A s \in Slots : SamePid(s) \/ NEW_PROCS'[s] = EmptySlot
      PROVE  Goal
    BY <1>0, <1>1, EmptyTyped, ProcessCacheAssumption DEF SamePid
<1>2. ASSUME NEW c \in Callbacks,
             \A d \in Callbacks : d # c => pc'[d] = pc[d] /\ job'[d] = job[d],
             pc'[c] \in Filling =>
                /\ \A s \in Slots : NEW_PROCS[s].p # job[c].p
                /\ job'[c] = job[c] /\ job[c].p \in Pids,
             \A s \in Slots : SamePid(s) \/ NEW_PROCS'[s] = EmptySlot
      PROVE  Goal
    BY <1>0, <1>2, EmptyTyped, ProcessCacheAssumption DEF SamePid
<1>3. ASSUME NEW s \in Slots, NEW q \in Pids, Entered(s, q)
      PROVE  Goal
    BY <1>3 DEF Entered, StartupInv, JobsFit, Filling
<1>4. ASSUME NEW c \in Callbacks, NEW s \in Slots, SlotTaken(c, s)
      PROVE  Goal
    <2>1. pc[c] \in Creating
        BY <1>4 DEF SlotTaken, Creating
    <2> QED
        BY <1>2, <1>4, <2>1, CreatorJob, CreatorMoves
            DEF SlotTaken, CacheHit, SameSlot, SamePid
<1>5. ASSUME NEW c \in Callbacks, InfoWritten(c)
      PROVE  Goal
    <2>1. pc[c] \in Filling
        BY <1>5 DEF InfoWritten, Filling
    <2>2. \A s \in Slots : SamePid(s)
        BY <1>5 DEF InfoWritten, SameSlot, SamePid
    <2>3. \/ job' = job /\ \A d \in Callbacks : d # c => pc'[d] = pc[d]
          \/ /\ pc'[c] = "idle"
             /\ \A d \in Callbacks : d # c => pc'[d] = pc[d] /\ job'[d] = job[d]
        BY <1>5, CreatorMoves DEF InfoWritten
    <2> QED
        BY <1>0, <1>2, <2>1, <2>2, <2>3 DEF Filling
<1>6. ASSUME NEW c \in Callbacks, Published(c)
      PROVE  Goal
    <2>1. pc[c] \in Filling /\ "idle" \notin Filling
        BY <1>6 DEF Published, Filling
    <2>2. pc'[c] = "idle"
            /\ \A d \in Callbacks : d # c => pc'[d] = pc[d] /\ job'[d] = job[d]
        BY <1>6, CreatorMoves DEF Published
    <2>3. \A d \in Callbacks : d # c /\ pc[d] \in Filling => job[d].p # job[c].p
        BY <1>0, <2>1 DEF OneEach
    <2> QED
        BY <1>0, <1>6, <2>1, <2>2, <2>3 DEF Published, SameSlot
<1>7. ASSUME NEW c \in Callbacks, LookedAt(c)
      PROVE  Goal
    <2>1. pc'[c] \notin Filling
        BY <1>7 DEF LookedAt, Filling, Creating
    <2> QED
        BY <1>2, <1>7, <2>1 DEF LookedAt
<1>8. ASSUME NEW c \in Callbacks, pc[c] = "add", CreationDone(c),
             UNCHANGED NEW_PROCS
      PROVE  Goal
    <2>1. pc'[c] \notin Filling
        BY <1>8, CreatorMoves DEF Filling
    <2> QED
        BY <1>2, <1>8, <2>1, CreatorMoves DEF SamePid
<1>9. ASSUME NEW c \in Callbacks, NEW p \in Pids, Event(c, p),
             UNCHANGED NEW_PROCS
      PROVE  Goal
    <2>1. \E k, l : l \in {"add", "lookup", "clearNew"} /\ Start(c, k, p, l)
        BY <1>9 DEF Event, CreateProcess, ExitProcess, ObjectCallback,
            ThreadCreated, ClientCallback
    <2>2. pc'[c] \notin Filling
            /\ \A d \in Callbacks : d # c => pc'[d] = pc[d] /\ job'[d] = job[d]
        BY <2>1 DEF Start, Goto, TypeOK, Filling
    <2> QED
        BY <1>2, <1>9, <2>2 DEF SamePid
<1>10. CASE UNCHANGED <<NEW_PROCS, localVars>>
    BY <1>1, <1>10 DEF localVars, SamePid
<1> QED
    BY <1>3, <1>4, <1>5, <1>6, <1>7, <1>8, <1>9, <1>10, SlotSteps

\* The second half: none of its threads was seen.
LEMMA PidIsNewStep ==
    ASSUME IInv, [Next]_vars
    PROVE  PidIsNew'
<1> USE DEF IInv
<1>1. ASSUME NEW c \in Callbacks, NEW p \in Pids, Calls(c, p)
      PROVE  \A d \in Callbacks : pc'[d] \in Creating => job'[d].p \notin firstSeen'
    <2>1. PICK k, l :
            /\ Called(c, k, p, l)
            /\ \/ k = "create" /\ firstSeen' = firstSeen \ {p}
               \/ l \in {"lookup", "clearNew"} /\ firstSeen' = firstSeen
        BY <1>1 DEF Calls
    <2>2. /\ pc'[c] = l /\ job'[c].p = p
          /\ \A d \in Callbacks : d # c => pc'[d] = pc[d] /\ job'[d] = job[d]
        BY <2>1 DEF Called, TypeOK
    <2>3. "lookup" \notin Creating /\ "clearNew" \notin Creating
        BY DEF Creating
    <2> QED
        BY <2>1, <2>2, <2>3 DEF PidIsNew
<1>2. ASSUME NEW c \in Callbacks, GoesOn(c)
      PROVE  \A d \in Callbacks : pc'[d] \in Creating => job'[d].p \notin firstSeen'
    <2>1. /\ \A d \in Callbacks : d # c => pc'[d] = pc[d]
          /\ job' = job /\ firstSeen' = firstSeen
        BY <1>2 DEF GoesOn, TypeOK
    <2>2. pc'[c] \in Creating => pc[c] \in Creating
        BY <1>2 DEF GoesOn, Creating
    <2> QED
        BY <2>1, <2>2 DEF PidIsNew
<1>3. ASSUME NEW c \in Callbacks, Created(c) \/ Looked(c)
      PROVE  \A d \in Callbacks : pc'[d] \in Creating => job'[d].p \notin firstSeen'
    <2>1. /\ pc'[c] = "idle" /\ "idle" \notin Creating
          /\ \A d \in Callbacks : d # c => pc'[d] = pc[d] /\ job'[d] = job[d]
        BY <1>3, Returning DEF Created, Looked, Creating
    <2>2. \/ firstSeen' = firstSeen
          \/ pc[c] = "clearNew" /\ firstSeen' = firstSeen \cup {job[c].p}
        BY <1>3 DEF Created, Looked
    <2>3. pc[c] = "clearNew" =>
            \A d \in Callbacks : pc[d] \in Creating => job[d].p # job[c].p
        BY DEF JobsFit
    <2> QED
        BY <2>1, <2>2, <2>3 DEF PidIsNew
<1>4. CASE UNCHANGED <<proc, localVars, firstSeen>>
    BY <1>4, NoSlotStep DEF PidIsNew, localVars
<1> QED
    BY <1>1, <1>2, <1>3, <1>4, NoSlotStep, LifeSteps DEF PidIsNew

\* A slot that was taken without a clash is written by the callback that fills
\* it.
LEMMA OwnedStep ==
    ASSUME IInv, [Next]_vars
    PROVE  SlotsOwned'
<1> USE DEF IInv
<1> DEFINE Alone(d) ==
                /\ ~NEW_PROCS[held[d]].magic
                /\ pc[d] = "publish" => NEW_PROCS[held[d]].PI = InfoOf(job[d].p)
                /\ \A e \in Callbacks :
                        pc[e] \in Filling /\ held[e] = held[d] => d = e
<1>1. /\ \A d \in Callbacks : held[d] \in Slots
      /\ \A d \in Callbacks : pc[d] \in Filling => job[d].p \in Pids
      /\ \A d \in Callbacks : pc[d] \in Filling /\ held[d] \notin clashed
            => Alone(d)
    <2>1. \A d \in Callbacks : pc[d] \in Filling => pc[d] \in Creating
        BY DEF Filling, Creating
    <2>2. \A d \in Callbacks : pc[d] \in Filling /\ held[d] \notin clashed
            => Alone(d)
        BY DEF SlotsOwned
    <2> HIDE DEF Alone
    <2> QED
        BY <2>1, <2>2, CreatorJob DEF TypeOK
<1>2. "idle" \notin Filling /\ "add" \notin Filling /\ "publish" # "release"
        /\ Filling \subseteq Creating
    BY DEF Filling, Creating
\* A step that starts no filling and leaves the others' slots alone.
<1>3. ASSUME \A d \in Callbacks : pc'[d] \in Filling =>
                /\ pc[d] \in Filling /\ held'[d] = held[d] /\ job'[d] = job[d]
                /\ proc'[job[d].p].inc = proc[job[d].p].inc
                /\ held[d] \notin clashed =>
                    /\ ~NEW_PROCS'[held[d]].magic
                    /\ pc'[d] = "publish" =>
                        \/ NEW_PROCS'[held[d]].PI = InfoOf(job[d].p)
                        \/ pc[d] = "publish" /\ SamePI(held[d]),
             clashed' = clashed
      PROVE  SlotsOwned'
    <2>1. ASSUME NEW d \in Callbacks, pc'[d] \in Filling, held[d] \notin clashed
          PROVE  Alone(d)'
        <3>1. Alone(d) /\ held'[d] = held[d] /\ job'[d] = job[d]
            BY <1>1, <1>3, <2>1
        <3>2. InfoOf(job[d].p)' = InfoOf(job[d].p)
            BY <1>3, <2>1 DEF InfoOf
        <3>3. /\ ~NEW_PROCS'[held[d]].magic
              /\ pc'[d] = "publish" => NEW_PROCS'[held[d]].PI = InfoOf(job[d].p)
            BY <1>3, <2>1, <3>1 DEF SamePI
        <3>4. \A e \in Callbacks :
                pc'[e] \in Filling /\ held'[e] = held'[d] => d = e
            BY <1>3, <2>1, <3>1
        <3> QED
            BY <3>1, <3>2, <3>3, <3>4
    <2> QED
        BY <1>3, <2>1 DEF SlotsOwned
<1>4. ASSUME NEW s \in Slots, NEW q \in Pids, Entered(s, q)
      PROVE  SlotsOwned'
    BY <1>2, <1>4 DEF Entered, StartupInv, JobsFit, SlotsOwned
<1>5. ASSUME NEW c \in Callbacks, NEW s \in Slots, SlotTaken(c, s)
      PROVE  SlotsOwned'
    <2>1. /\ pc'[c] = "release" /\ held'[c] = s
          /\ \A d \in Callbacks : d # c => pc'[d] = pc[d] /\ held'[d] = held[d]
          /\ job' = job /\ proc' = proc
          /\ \A r \in Slots : r # s => /\ SameSlot(r)
                                       /\ r \in clashed' <=> r \in clashed
        <3>1. /\ pc' = [pc EXCEPT ![c] = "release"]
              /\ held' = [held EXCEPT ![c] = s]
              /\ job' = job /\ proc' = proc
              /\ \A r \in Slots : r # s => SameSlot(r)
              /\ Overwritten(s)
            BY <1>5 DEF SlotTaken
        <3>2. pc'[c] = "release" /\ \A d \in Callbacks : d # c => pc'[d] = pc[d]
            BY <3>1, CreatorMoves
        <3>3. held'[c] = s /\ \A d \in Callbacks : d # c => held'[d] = held[d]
            BY <3>1, CreatorMoves
        <3>4. \A r \in Slots : r # s => (r \in clashed' <=> r \in clashed)
            BY <3>1 DEF Overwritten
        <3> QED
            BY <3>1, <3>2, <3>3, <3>4
    <2>2. s \notin clashed' => /\ ~NEW_PROCS'[s].magic
                               /\ \A d \in Callbacks :
                                    pc[d] \in Filling => held[d] # s
        BY <1>5 DEF SlotTaken, Overwritten, Clashes
    <2>3. ASSUME NEW d \in Callbacks, pc'[d] \in Filling, held'[d] \notin clashed'
          PROVE  Alone(d)'
        <3>1. CASE held'[d] = s
            <4>1. d = c
                BY <2>1, <2>2, <2>3, <3>1
            <4>2. \A e \in Callbacks :
                    pc'[e] \in Filling /\ held'[e] = held'[d] => d = e
                BY <2>1, <2>2, <2>3, <3>1, <4>1
            <4> QED
                BY <1>2, <2>1, <2>2, <2>3, <3>1, <4>1, <4>2
        <3>2. CASE held'[d] # s
            <4>1. d # c /\ pc'[d] = pc[d] /\ held'[d] = held[d]
                BY <2>1, <3>2
            <4>2. Alone(d) /\ NEW_PROCS'[held[d]] = NEW_PROCS[held[d]]
                BY <1>1, <2>1, <2>3, <3>2, <4>1 DEF SameSlot
            <4>3. \A e \in Callbacks :
                    pc'[e] \in Filling /\ held'[e] = held'[d] => d = e
                BY <2>1, <2>3, <3>2, <4>1, <4>2
            <4>4. InfoOf(job[d].p)' = InfoOf(job[d].p)
                BY <2>1 DEF InfoOf
            <4> QED
                BY <4>1, <4>2, <4>3, <4>4
        <3> QED
            BY <3>1, <3>2
    <2> QED
        BY <2>3 DEF SlotsOwned
<1>6. ASSUME NEW c \in Callbacks, InfoWritten(c)
      PROVE  SlotsOwned'
    <2>1. /\ \A r \in Slots : r # held[c] => SameSlot(r)
          /\ SameMagic(held[c]) /\ clashed' = clashed
          /\ pc[c] \in Filling \ {"publish"}
        BY <1>6 DEF InfoWritten, Filling
    <2>2. /\ \A d \in Callbacks : d # c =>
                pc'[d] = pc[d] /\ held'[d] = held[d] /\ job'[d] = job[d]
          /\ \A q \in Pids : proc'[q].inc = proc[q].inc
          /\ \/ pc'[c] = "idle"
             \/ /\ held'[c] = held[c] /\ job'[c] = job[c]
                /\ pc'[c] = "publish" =>
                        NEW_PROCS'[held[c]].PI = InfoOf(job[c].p)
        BY <1>6, CreatorMoves DEF InfoWritten
    <2>3. ASSUME NEW d \in Callbacks, pc'[d] \in Filling
          PROVE  /\ pc[d] \in Filling /\ held'[d] = held[d] /\ job'[d] = job[d]
                 /\ proc'[job[d].p].inc = proc[job[d].p].inc
                 /\ held[d] \notin clashed =>
                    /\ ~NEW_PROCS'[held[d]].magic
                    /\ pc'[d] = "publish" =>
                        \/ NEW_PROCS'[held[d]].PI = InfoOf(job[d].p)
                        \/ pc[d] = "publish" /\ SamePI(held[d])
        <3>1. pc[d] \in Filling /\ held'[d] = held[d] /\ job'[d] = job[d]
            BY <1>2, <2>1, <2>2, <2>3
        <3>2. proc'[job[d].p].inc = proc[job[d].p].inc
            BY <1>1, <2>2, <3>1
        <3>3. CASE d = c
            BY <1>1, <1>2, <2>1, <2>2, <2>3, <3>1, <3>2, <3>3 DEF SameMagic
        <3>4. CASE d # c
            <4>1. held[d] \notin clashed => held[d] # held[c]
                BY <1>1, <2>1, <3>1, <3>4
            <4>2. held[d] \notin clashed => SameSlot(held[d])
                BY <1>1, <2>1, <4>1
            <4> QED
                BY <1>1, <2>2, <3>1, <3>2, <3>4, <4>2 DEF SameSlot, SamePI
        <3> QED
            BY <3>3, <3>4
    <2> QED
        BY <1>3, <2>1, <2>3
<1>7. ASSUME NEW c \in Callbacks, Published(c)
      PROVE  SlotsOwned'
    <2>1. /\ \A r \in Slots : r # held[c] => SameSlot(r)
          /\ clashed' = clashed /\ pc[c] \in Filling
        BY <1>7 DEF Published, Filling
    <2>2. /\ pc'[c] = "idle"
          /\ \A d \in Callbacks : d # c =>
                pc'[d] = pc[d] /\ held'[d] = held[d] /\ job'[d] = job[d]
          /\ \A q \in Pids : proc'[q].inc = proc[q].inc
        BY <1>7, CreatorMoves DEF Published
    <2>3. ASSUME NEW d \in Callbacks, pc'[d] \in Filling
          PROVE  /\ d # c
                 /\ held[d] \notin clashed => SameSlot(held[d])
        BY <1>1, <1>2, <2>1, <2>2, <2>3
    <2> QED
        BY <1>1, <1>3, <2>1, <2>2, <2>3 DEF SameSlot, SamePI
<1>8. ASSUME NEW c \in Callbacks, pc[c] = "add", CreationDone(c),
             UNCHANGED <<NEW_PROCS, clashed>>
      PROVE  SlotsOwned'
    <2>1. /\ pc'[c] = "idle"
          /\ \A d \in Callbacks : d # c =>
                pc'[d] = pc[d] /\ held'[d] = held[d] /\ job'[d] = job[d]
          /\ \A q \in Pids : proc'[q].inc = proc[q].inc
        BY <1>8, CreatorMoves
    <2> QED
        BY <1>1, <1>2, <1>3, <1>8, <2>1 DEF SamePI
<1>9. ASSUME NEW c \in Callbacks, LookedAt(c)
      PROVE  SlotsOwned'
    <2>1. /\ \A d \in Callbacks : d # c =>
                pc'[d] = pc[d] /\ held'[d] = held[d] /\ job'[d] = job[d]
          /\ pc'[c] \notin Filling /\ clashed' = clashed
          /\ \A s \in Slots : ~NEW_PROCS[s].magic =>
                NEW_PROCS'[s].magic = NEW_PROCS[s].magic /\ SamePI(s)
        BY <1>2, <1>9 DEF LookedAt, SameSlot, SamePI, SameMagic
    <2>2. proc' = proc \/ Purge(c)
        BY <1>9 DEF LookedAt
    <2>3. \A q \in Pids : proc'[q].inc = proc[q].inc
        <3>1. Purge(c) => proc' = [proc EXCEPT ![job[c].p].state = "none"]
            BY DEF Purge
        <3>2. DOMAIN proc = Pids /\ \A q \in Pids : "inc" \in DOMAIN proc[q]
            BY DEF TypeOK
        <3> QED
            BY <2>2, <3>1, <3>2
    <2> QED
        BY <1>1, <1>3, <2>1, <2>3
<1>10. ASSUME NEW c \in Callbacks, NEW p \in Pids, Event(c, p),
              UNCHANGED <<NEW_PROCS, clashed>>
       PROVE  SlotsOwned'
    <2>1. \E k, l : l \in {"add", "lookup", "clearNew"} /\ Start(c, k, p, l)
        BY <1>10 DEF Event, CreateProcess, ExitProcess, ObjectCallback,
            ThreadCreated, ClientCallback
    <2>2. /\ pc'[c] \notin Filling
          /\ \A d \in Callbacks : d # c =>
                pc'[d] = pc[d] /\ held'[d] = held[d] /\ job'[d] = job[d]
        BY <2>1 DEF Start, Goto, TypeOK, Filling
    <2>3. \/ \A q \in Pids : proc'[q].inc = proc[q].inc
          \/ /\ \A e \in Callbacks : job[e].p # p
             /\ \A q \in Pids : q # p => proc'[q] = proc[q]
        BY <1>10 DEF Event, CreateProcess, ExitProcess, ObjectCallback,
            ThreadCreated, ClientCallback, TypeOK
    <2>4. \A d \in Callbacks : pc[d] \in Filling =>
            proc'[job[d].p].inc = proc[job[d].p].inc
        BY <1>1, <2>3
    <2> QED
        BY <1>1, <1>3, <1>10, <2>2, <2>4 DEF SamePI
<1>11. CASE UNCHANGED <<NEW_PROCS, localVars, proc, histVars>>
    BY <1>11 DEF SlotsOwned, localVars, histVars, InfoOf
<1> HIDE DEF Alone
<1> QED
    BY <1>4, <1>5, <1>6, <1>7, <1>8, <1>9, <1>10, <1>11, SlotSteps

\* What is visible in a slot is written by the process it is about, and goes
\* when that process exits.
LEMMA OwnStep ==
    ASSUME IInv, [Next]_vars
    PROVE  VisibleIsOwn'
<1> USE DEF IInv
<1> DEFINE Own(s) ==
                /\ NEW_PROCS[s].PI # NoInfo
                /\ NEW_PROCS[s].PI.p = NEW_PROCS[s].p
                /\ s \notin left =>
                    /\ NEW_PROCS[s].PI = InfoOf(NEW_PROCS[s].p)
                    /\ proc[NEW_PROCS[s].p].state # "none"
<1>1. /\ \A s \in Slots \ clashed : NEW_PROCS[s].magic =>
                Own(s) /\ NEW_PROCS[s].p \in Pids
      /\ \A c \in Callbacks : held[c] \in Slots
      /\ \A c \in Callbacks : pc[c] \in Creating => job[c].p \in Pids
    <2>1. \A s \in Slots \ clashed : NEW_PROCS[s].magic => Own(s)
        BY DEF VisibleIsOwn
    <2>2. \A s \in Slots : NEW_PROCS[s].PI # NoInfo => NEW_PROCS[s].PI.p \in Pids
        BY SlotTyped DEF SlotRecords, Infos
    <2> QED
        BY <2>1, <2>2, CreatorJob DEF TypeOK
\* It is enough to look at each slot.
<1>2. ASSUME \A s \in Slots \ clashed' : NEW_PROCS'[s].magic => Own(s)'
      PROVE  VisibleIsOwn'
    BY <1>2 DEF VisibleIsOwn, InfoOf
<1>3. ASSUME NEW s \in Slots \ clashed, NEW_PROCS[s].magic,
             SamePid(s), SamePI(s),
             s \notin left' => s \notin left
                /\ proc'[NEW_PROCS[s].p].inc = proc[NEW_PROCS[s].p].inc
                /\ proc'[NEW_PROCS[s].p].state # "none"
      PROVE  Own(s)'
    <2>1. NEW_PROCS'[s].p = NEW_PROCS[s].p /\ NEW_PROCS'[s].PI = NEW_PROCS[s].PI
        BY <1>3 DEF SamePid, SamePI
    <2>2. Own(s)
        BY <1>1, <1>3
    <2> QED
        BY <2>1, <2>2, <1>3 DEF InfoOf
<1>4. ASSUME NEW s \in Slots, NEW q \in Pids, Entered(s, q)
      PROVE  VisibleIsOwn'
    <2>1. ASSUME NEW r \in Slots \ clashed', NEW_PROCS'[r].magic
          PROVE  Own(r)'
        <3>1. CASE r = s
            BY <1>4, <3>1, ProcessCacheAssumption DEF Entered, InfoOf, Infos
        <3>2. CASE r # s
            <4>1. /\ NEW_PROCS'[r] = NEW_PROCS[r] /\ proc' = proc
                  /\ r \in clashed' <=> r \in clashed
                  /\ r \in left' <=> r \in left
                <5>1. Overwritten(s) /\ SameSlot(r) /\ proc' = proc
                    BY <1>4, <3>2 DEF Entered
                <5> QED
                    BY <3>2, <5>1 DEF Overwritten, SameSlot
            <4> QED
                BY <1>1, <1>3, <2>1, <4>1 DEF SamePid, SamePI
        <3> QED
            BY <3>1, <3>2
    <2> QED
        BY <1>2, <2>1
<1>5. ASSUME NEW c \in Callbacks, NEW s \in Slots, SlotTaken(c, s)
      PROVE  VisibleIsOwn'
    <2>1. ASSUME NEW r \in Slots \ clashed', NEW_PROCS'[r].magic
          PROVE  Own(r)'
        <3>1. r # s
            BY <1>5, <2>1 DEF SlotTaken, Overwritten, Clashes
        <3>2. /\ NEW_PROCS'[r] = NEW_PROCS[r] /\ proc' = proc
              /\ r \in clashed' <=> r \in clashed
              /\ r \in left' <=> r \in left
            <4>1. Overwritten(s) /\ SameSlot(r) /\ proc' = proc
                BY <1>5, <3>1 DEF SlotTaken
            <4> QED
                BY <3>1, <4>1 DEF Overwritten, SameSlot
        <3> QED
            BY <1>1, <1>3, <2>1, <3>2 DEF SamePid, SamePI
    <2> QED
        BY <1>2, <2>1
\* The processes stay as they are, or the one that was created runs.
<1>6. ASSUME NEW c \in Callbacks, CreationDone(c), pc[c] \in Creating,
             NEW q \in Pids
      PROVE  /\ proc'[q].inc = proc[q].inc
             /\ proc[q].state # "none" => proc'[q].state # "none"
             /\ proc'[job[c].p].state # "none"
    BY <1>1, <1>6 DEF CreationDone, TypeOK
<1>7. ASSUME NEW c \in Callbacks, InfoWritten(c)
      PROVE  VisibleIsOwn'
    <2>1. pc[c] \in Filling /\ pc[c] \in Creating
        BY <1>7 DEF InfoWritten, Filling, Creating
    <2>2. ASSUME NEW r \in Slots \ clashed', NEW_PROCS'[r].magic
          PROVE  Own(r)'
        <3>1. clashed' = clashed /\ left' = left
            BY <1>7 DEF InfoWritten
        <3>2. r # held[c]
            BY <1>7, <2>1, <2>2, <3>1 DEF InfoWritten, SlotsOwned, SameMagic
        <3>3. NEW_PROCS'[r] = NEW_PROCS[r]
            BY <1>7, <3>2 DEF InfoWritten, SameSlot
        <3>4. NEW_PROCS[r].p \in Pids /\ Own(r)
            BY <1>1, <2>2, <3>1, <3>3
        <3>5. proc' = proc \/ CreationDone(c)
            BY <1>7 DEF InfoWritten
        <3>6. r \notin left =>
                /\ proc'[NEW_PROCS[r].p].inc = proc[NEW_PROCS[r].p].inc
                /\ proc'[NEW_PROCS[r].p].state # "none"
            BY <1>6, <2>1, <3>4, <3>5
        <3> QED
            BY <1>3, <2>2, <3>1, <3>3, <3>6 DEF SamePid, SamePI
    <2> QED
        BY <1>2, <2>2
<1>8. ASSUME NEW c \in Callbacks, Published(c)
      PROVE  VisibleIsOwn'
    <2>1. pc[c] \in Filling /\ pc[c] \in Creating /\ pc[c] = "publish"
            /\ CreationDone(c) /\ clashed' = clashed /\ left' = left
        BY <1>8 DEF Published, Filling, Creating
    <2>2. ASSUME NEW r \in Slots \ clashed', NEW_PROCS'[r].magic
          PROVE  Own(r)'
        <3>1. CASE r = held[c]
            <4>1. NEW_PROCS[r].PI = InfoOf(job[c].p)
                BY <2>1, <2>2, <3>1 DEF SlotsOwned
            <4>2. InfoOf(job[c].p) \in Infos /\ InfoOf(job[c].p).p = job[c].p
                BY <2>1, CreatorJob
            <4>3. NEW_PROCS'[r].PI = NEW_PROCS[r].PI /\ NEW_PROCS'[r].p = job[c].p
                BY <1>8, <3>1 DEF Published, SamePI
            <4>4. /\ InfoOf(job[c].p)' = [p |-> job'[c].p, inc |-> proc'[job'[c].p].inc]
                  /\ proc'[job[c].p].inc = proc[job[c].p].inc
                  /\ proc'[job[c].p].state # "none"
                BY <1>1, <1>6, <2>1 DEF InfoOf
            <4>5. [p |-> job[c].p, inc |-> proc'[job[c].p].inc] = InfoOf(job[c].p)
                BY <4>4 DEF InfoOf
            <4> QED
                BY <4>1, <4>2, <4>3, <4>4, <4>5, ProcessCacheAssumption
                    DEF InfoOf
        <3>2. CASE r # held[c]
            <4>1. NEW_PROCS'[r] = NEW_PROCS[r]
                BY <1>8, <3>2 DEF Published, SameSlot
            <4>2. NEW_PROCS[r].p \in Pids /\ Own(r)
                BY <1>1, <2>1, <2>2, <4>1
            <4>3. r \notin left =>
                    /\ proc'[NEW_PROCS[r].p].inc = proc[NEW_PROCS[r].p].inc
                    /\ proc'[NEW_PROCS[r].p].state # "none"
                BY <1>6, <2>1, <4>2
            <4> QED
                BY <1>3, <2>1, <2>2, <4>1, <4>3 DEF SamePid, SamePI
        <3> QED
            BY <3>1, <3>2
    <2> QED
        BY <1>2, <2>2
<1>9. ASSUME NEW c \in Callbacks, pc[c] = "add", CreationDone(c),
             UNCHANGED <<NEW_PROCS, clashed, left>>
      PROVE  VisibleIsOwn'
    <2>1. ASSUME NEW r \in Slots \ clashed', NEW_PROCS'[r].magic
          PROVE  Own(r)'
        <3>1. NEW_PROCS[r].p \in Pids /\ Own(r)
            BY <1>1, <1>9, <2>1
        <3>2. r \notin left =>
                /\ proc'[NEW_PROCS[r].p].inc = proc[NEW_PROCS[r].p].inc
                /\ proc'[NEW_PROCS[r].p].state # "none"
            BY <1>6, <1>9, <3>1 DEF Creating
        <3> QED
            BY <1>3, <1>9, <2>1, <3>2 DEF SamePid, SamePI
    <2> QED
        BY <1>2, <2>1
<1>10. ASSUME NEW c \in Callbacks, LookedAt(c)
       PROVE  VisibleIsOwn'
    <2>1. ASSUME NEW r \in Slots \ clashed', NEW_PROCS'[r].magic
          PROVE  Own(r)'
        <3>1. clashed' = clashed /\ SamePid(r) /\ SamePI(r) /\ NEW_PROCS[r].magic
            BY <1>10, <2>1, EmptyTyped DEF LookedAt, SameMagic
        <3>2. NEW_PROCS[r].p \in Pids /\ Own(r)
            BY <1>1, <2>1, <3>1
        <3>3. CASE Purge(c)
            <4>1. /\ left' = {s \in Slots : IF Matches(s, job[c].p)
                                            THEN NEW_PROCS[s].InUse
                                            ELSE s \in left}
                  /\ proc' = [proc EXCEPT ![job[c].p].state = "none"]
                BY <3>3 DEF Purge
            <4>2. CASE NEW_PROCS[r].p = job[c].p
                <5>1. r \in left'
                    BY <2>1, <3>1, <3>2, <3>3, <4>1, <4>2, PurgeLeaves
                        DEF Matches
                <5> QED
                    BY <1>3, <2>1, <3>1, <5>1
            <4>3. CASE NEW_PROCS[r].p # job[c].p
                <5>1. r \in left' <=> r \in left
                    BY <4>1, <4>3 DEF Matches
                <5>2. proc'[NEW_PROCS[r].p] = proc[NEW_PROCS[r].p]
                    BY <3>2, <4>1, <4>3 DEF TypeOK
                <5> QED
                    BY <1>3, <2>1, <3>1, <3>2, <5>1, <5>2
            <4> QED
                BY <4>2, <4>3
        <3>4. CASE UNCHANGED <<left, proc>>
            BY <1>3, <2>1, <3>1, <3>2, <3>4
        <3> QED
            BY <1>10, <3>3, <3>4 DEF LookedAt
    <2> QED
        BY <1>2, <2>1
<1>11. ASSUME NEW c \in Callbacks, NEW p \in Pids, Event(c, p),
              UNCHANGED <<NEW_PROCS, clashed, left>>
       PROVE  VisibleIsOwn'
    <2>1. \A q \in Pids : proc[q].state # "none" =>
            proc'[q].inc = proc[q].inc /\ proc'[q].state # "none"
        BY <1>11 DEF Event, CreateProcess, ExitProcess, ObjectCallback,
            ThreadCreated, ClientCallback, TypeOK
    <2>2. ASSUME NEW r \in Slots \ clashed', NEW_PROCS'[r].magic
          PROVE  Own(r)'
        <3>1. NEW_PROCS[r].p \in Pids /\ Own(r)
            BY <1>1, <1>11, <2>2
        <3> QED
            BY <1>3, <1>11, <2>1, <2>2, <3>1 DEF SamePid, SamePI
    <2> QED
        BY <1>2, <2>2
<1>12. CASE UNCHANGED <<NEW_PROCS, localVars, proc, histVars>>
    BY <1>12 DEF VisibleIsOwn, localVars, histVars, InfoOf
<1> HIDE DEF Own
<1> QED
    BY <1>4, <1>5, <1>7, <1>8, <1>9, <1>10, <1>11, <1>12, SlotSteps

\* A mark is set by a callback that takes it back.
LEMMA PinsStep ==
    ASSUME IInv, [Next]_vars
    PROVE  PinsReleased'
<1> USE DEF IInv
<1>1. \A s \in Slots : NEW_PROCS[s].magic /\ NEW_PROCS[s].InUse =>
        s \in opened \/ \E c \in Callbacks : held[c] = s /\ pc[c] = "use"
    BY DEF PinsReleased
<1>2. ASSUME opened \subseteq opened',
             \A s \in Slots : NEW_PROCS'[s].magic /\ NEW_PROCS'[s].InUse =>
                NEW_PROCS[s].magic /\ NEW_PROCS[s].InUse,
             \A d \in Callbacks : pc[d] = "use" =>
                pc'[d] = pc[d] /\ held'[d] = held[d]
      PROVE  PinsReleased'
    BY <1>1, <1>2 DEF PinsReleased
<1>3. ASSUME NEW s \in Slots, NEW q \in Pids, Entered(s, q)
      PROVE  PinsReleased'
    BY <1>2, <1>3 DEF Entered, SameSlot
<1>4. ASSUME NEW c \in Callbacks, NEW s \in Slots, SlotTaken(c, s)
      PROVE  PinsReleased'
    <2>1. /\ pc[c] # "use" /\ opened' = opened
          /\ \A d \in Callbacks : d # c => pc'[d] = pc[d] /\ held'[d] = held[d]
        BY <1>4, CreatorMoves DEF SlotTaken
    <2> QED
        BY <1>2, <1>4, <2>1 DEF SlotTaken, SameSlot, SameInUse
<1>5. ASSUME NEW c \in Callbacks, InfoWritten(c)
      PROVE  PinsReleased'
    <2>1. /\ pc[c] # "use" /\ opened' = opened
          /\ \A d \in Callbacks : d # c => pc'[d] = pc[d] /\ held'[d] = held[d]
        BY <1>5, CreatorMoves DEF InfoWritten
    <2> QED
        BY <1>2, <1>5, <2>1 DEF InfoWritten, SameSlot, SameInUse, SameMagic
<1>6. ASSUME NEW c \in Callbacks, Published(c)
      PROVE  PinsReleased'
    <2>1. /\ pc[c] # "use" /\ opened' = opened
          /\ \A d \in Callbacks : d # c => pc'[d] = pc[d] /\ held'[d] = held[d]
        BY <1>6, CreatorMoves DEF Published
    <2> QED
        BY <1>2, <1>6, <2>1 DEF Published, SameSlot
<1>7. ASSUME NEW c \in Callbacks, pc[c] = "add", CreationDone(c),
             UNCHANGED <<NEW_PROCS, opened>>
      PROVE  PinsReleased'
    BY <1>2, <1>7, CreatorMoves
<1>8. ASSUME NEW c \in Callbacks, LookedAt(c)
      PROVE  PinsReleased'
    <2>1. /\ opened \subseteq opened'
          /\ \A d \in Callbacks : d # c => pc'[d] = pc[d] /\ held'[d] = held[d]
          /\ pc[c] = "use" =>
                \/ held[c] \in opened'
                \/ NEW_PROCS'[held[c]].magic => ~NEW_PROCS'[held[c]].InUse
        BY <1>8 DEF LookedAt
    <2>2. ASSUME NEW s \in Slots, NEW_PROCS'[s].magic, NEW_PROCS'[s].InUse
          PROVE  \/ NEW_PROCS[s].magic /\ NEW_PROCS[s].InUse
                 \/ s = held'[c] /\ pc'[c] = "use"
        BY <1>8, <2>2, EmptyTyped DEF LookedAt, SameMagic
    <2> QED
        BY <1>1, <2>1, <2>2 DEF PinsReleased
<1>9. ASSUME NEW c \in Callbacks, NEW p \in Pids, Event(c, p),
             UNCHANGED <<NEW_PROCS, opened>>
      PROVE  PinsReleased'
    <2>1. pc[c] = "idle" /\ held' = held
            /\ \A d \in Callbacks : d # c => pc'[d] = pc[d]
        BY <1>9 DEF Event, CreateProcess, ExitProcess, ObjectCallback,
            ThreadCreated, ClientCallback, Start, Goto, TypeOK
    <2> QED
        BY <1>2, <1>9, <2>1
<1>10. CASE UNCHANGED <<NEW_PROCS, localVars, histVars>>
    BY <1>2, <1>10 DEF localVars, histVars
<1> QED
    BY <1>3, <1>4, <1>5, <1>6, <1>7, <1>8, <1>9, <1>10, SlotSteps

\* The New status that is gone does not come back while the process lives.
LEMMA NewStep ==
    ASSUME IInv, [Next]_vars
    PROVE  NewStatusOnce'
<1> USE DEF IInv
<1>1. \A p \in firstSeen : \A s \in Slots :
        NEW_PROCS[s].magic /\ NEW_PROCS[s].p = p => ~NEW_PROCS[s].New
    BY DEF NewStatusOnce, Matches
<1>2. ASSUME NEW seen, seen = firstSeen',
             \A p \in seen : \A s \in Slots :
                NEW_PROCS'[s].magic /\ NEW_PROCS'[s].p = p => ~NEW_PROCS'[s].New
      PROVE  NewStatusOnce'
    BY <1>2 DEF NewStatusOnce, Matches
<1>3. ASSUME firstSeen' \subseteq firstSeen,
             \A s \in Slots : \/ NEW_PROCS'[s] = EmptySlot
                              \/ /\ SamePid(s)
                                 /\ NEW_PROCS'[s].magic => NEW_PROCS[s].magic
                                 /\ NEW_PROCS'[s].New => NEW_PROCS[s].New
                              \/ NEW_PROCS'[s].p \notin firstSeen'
      PROVE  NewStatusOnce'
    <2>1. ASSUME NEW p \in firstSeen', NEW s \in Slots,
                 NEW_PROCS'[s].magic, NEW_PROCS'[s].p = p
          PROVE  ~NEW_PROCS'[s].New
        BY <1>1, <1>3, <2>1, EmptyTyped DEF SamePid
    <2> QED
        BY <2>1 DEF NewStatusOnce, Matches
<1>4. ASSUME NEW s \in Slots, NEW q \in Pids, Entered(s, q)
      PROVE  NewStatusOnce'
    BY <1>4 DEF Entered, StartupInv, NewStatusOnce
<1>5. ASSUME NEW c \in Callbacks, NEW s \in Slots, SlotTaken(c, s)
      PROVE  NewStatusOnce'
    BY <1>3, <1>5 DEF SlotTaken, SameSlot, SamePid, SameNew
<1>6. ASSUME NEW c \in Callbacks, InfoWritten(c)
      PROVE  NewStatusOnce'
    BY <1>3, <1>6 DEF InfoWritten, SameSlot, SamePid, SameNew, SameMagic
<1>7. ASSUME NEW c \in Callbacks, Published(c)
      PROVE  NewStatusOnce'
    <2>1. job[c].p \notin firstSeen
        BY <1>7 DEF Published, PidIsNew, Creating
    <2> QED
        BY <1>3, <1>7, <2>1 DEF Published, SameSlot, SamePid
<1>8. ASSUME NEW c \in Callbacks, UNCHANGED <<NEW_PROCS, firstSeen>>
      PROVE  NewStatusOnce'
    BY <1>3, <1>8 DEF SamePid
<1>9. ASSUME NEW c \in Callbacks, LookedAt(c), LookupStep(c)
      PROVE  NewStatusOnce'
    <2>1. CASE ClearNew(c)
        <3>1. /\ job[c].p \in Pids /\ NEW_PROCS' = NewCleared(job[c].p)
              /\ firstSeen' = firstSeen \cup {job[c].p}
            BY <2>1, JobTyped DEF ClearNew, JobsFit
        <3>2. \A s \in Slots :
                /\ SamePid(s) /\ SameMagic(s)
                /\ NEW_PROCS'[s].New => NEW_PROCS[s].New
                /\ FirstMatch(s, job[c].p) => ~NEW_PROCS'[s].New
            BY <3>1, ClearsNew
        <3>3. ASSUME NEW s \in Slots, Matches(s, job[c].p)
              PROVE  FirstMatch(s, job[c].p)
            <4>1. \A r \in Slots : Matches(r, job[c].p) => r = s
                BY <3>1, <3>3, ProcessCacheAssumption DEF Matches, UniquePid
            <4>2. s <= s
                BY DEF Slots
            <4> QED
                BY <3>3, <4>1, <4>2 DEF FirstMatch
        <3>4. ASSUME NEW p \in firstSeen', NEW s \in Slots,
                     NEW_PROCS'[s].magic, NEW_PROCS'[s].p = p
              PROVE  ~NEW_PROCS'[s].New
            BY <1>1, <3>1, <3>2, <3>3, <3>4 DEF Matches, SamePid, SameMagic
        <3> QED
            BY <3>4 DEF NewStatusOnce, Matches
    <2>2. CASE ~ClearNew(c)
        <3>1. firstSeen' = firstSeen
            BY <1>9, <2>2 DEF LookupStep, Lookup, LookupMisses, CheckHolds,
                CheckFails, Pin, Unpin, LeavePinned, Purge, WithoutEntry,
                histVars
        <3> QED
            BY <1>3, <1>9, <3>1 DEF LookedAt, SameMagic
    <2> QED
        BY <2>1, <2>2
<1>10. ASSUME NEW c \in Callbacks, NEW p \in Pids, Event(c, p),
              UNCHANGED NEW_PROCS
       PROVE  NewStatusOnce'
    <2>1. firstSeen' \subseteq firstSeen
        BY <1>10 DEF Event, CreateProcess, ExitProcess, ObjectCallback,
            ThreadCreated, ClientCallback, histVars
    <2> QED
        BY <1>3, <1>10, <2>1 DEF SamePid
<1>11. CASE UNCHANGED <<NEW_PROCS, histVars>>
    BY <1>3, <1>11 DEF histVars, SamePid
<1> QED
    BY <1>4, <1>5, <1>6, <1>7, <1>8, <1>9, <1>10, <1>11, SlotSteps

-----------------------------------------------------------------------------
(* The theorems.                                                           *)

\* Nothing is cached yet, and the processes that run have one incarnation.
LEMMA InitOK ==
    ASSUME Init
    PROVE  IInv
<1> USE DEF Init
<1>1. NEW_PROCS \in [Slots -> SlotRecords] /\ \A s \in Slots : NEW_PROCS[s] = EmptySlot
    BY EmptyTyped
<1>2. TypeOK
    <2>1. /\ NEW_PROCS_INDEX \in 0..NEW_PROCS_MAX /\ todo \subseteq Running
          /\ proc \in [Pids -> [state : {"none", "creating", "running", "exiting"},
                                inc : 0..MaxIncarnations]]
          /\ held \in [Callbacks -> Slots]
        BY SlotsThere, ProcessCacheAssumption
    <2>2. registered \in BOOLEAN
        BY Zenon
    <2>3. /\ pc \in [Callbacks -> {"idle"}] /\ job \in [Callbacks -> {NoJob}]
          /\ using \in [Callbacks -> {NoInfo}]
          /\ opened \subseteq Slots /\ firstSeen \subseteq Pids
          /\ clashed \subseteq Slots /\ left \subseteq Slots
        OBVIOUS
    <2> QED
        BY <1>1, <2>1, <2>2, <2>3 DEF TypeOK, SlotRecords
<1>3. JobsFit /\ OneEach
    BY DEF JobsFit, OneEach, NoJob, Creating
<1>4. StartupInv
    BY ProcessCacheAssumption DEF StartupInv
<1>5. PidIsNew /\ SlotsOwned
    BY <1>1 DEF PidIsNew, SlotsOwned, Filling, Creating
<1>6. UniquePid /\ VisibleIsOwn /\ PinsReleased /\ NewStatusOnce
    BY <1>1, EmptyTyped DEF UniquePid, VisibleIsOwn, PinsReleased,
        NewStatusOnce
<1> QED
    BY <1>2, <1>3, <1>4, <1>5, <1>6 DEF IInv

LEMMA Step ==
    ASSUME IInv, [Next]_vars
    PROVE  IInv'
BY TypeStep, JobsStep, StartupStep, PidIsNewStep, OwnedStep, OwnStep,
   UniqueStep, PinsStep, NewStep DEF IInv

\* The invariant that the safety properties rest on.
THEOREM Invariant == Spec => []IInv
BY InitOK, Step, PTL DEF Spec

\* The index is at most one past the end, and every slot has its fields.
THEOREM TypeCorrect == Spec => []TypeOK
BY Invariant, PTL DEF IInv

\* However many callbacks add, look up and purge at the same time, and however
\* often pids come back, a pid is in one slot.  What a slot shows is complete
\* and about the incarnation of the pid that exists now, with two exceptions:
\* a slot taken while it was in use or being filled, and an entry that its
\* process's exit passed over because it was in use.
THEOREM CacheIsSound == Spec => []CacheSound
BY Invariant, PTL DEF IInv, CacheSound

\* The mark of a slot in use does not outlive its users, except those that
\* opening and closing the device leave.
THEOREM PinsCorrect == Spec => []PinsReleased
BY Invariant, PTL DEF IInv

\* A process whose first thread was seen is not taken for a new one again.
THEOREM NewStatusCorrect == Spec => []NewStatusOnce
BY Invariant, PTL DEF IInv

=============================================================================
