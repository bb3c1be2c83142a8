------------------------------ MODULE LogQueue ------------------------------
(***************************************************************************)
(* The driver's event queue: globals->L and its byte counter               *)
(* L_SIZE_BYTES, both guarded by the spin lock LLOCK.                       *)
(*                                                                         *)
(* Callback threads call AddLogEntry (MoonMon/Logging.c), the agent's      *)
(* IRP_MJ_READ is served by ReadLogEntry (MoonMon/MoonMon.c).  Both loops  *)
(* that run under the lock, the purge of a full list and the copy into the *)
(* client's buffer, are modelled one iteration per step, so that what      *)
(* holds between two iterations can be stated.                             *)
(*                                                                         *)
(* An entry is identified by the thread that logged it and the number of   *)
(* that thread's call; its size is the payload plus the 29 header bytes.   *)
(***************************************************************************)
EXTENDS Naturals, Sequences

CONSTANTS
    Threads,              \* kernel threads running callbacks that log
    Client,               \* the agent's read request
    Free,                 \* value of LLOCK when nobody holds it
    MAX_ENTRY,            \* largest Entry->size a callback produces
    Sizes,                \* values of Entry->size, some of 1..MAX_ENTRY
    LIST_SIZE_MAX_BYTES,  \* the size at which AddLogEntry starts to purge
    LIST_KEEP_MAX,        \* what a purge keeps, before the jitter
    LIST_PURGE_CONGRUENT, \* the jitter is below this bound
    BufLen,               \* stack->Parameters.Read.Length of the client
    MaxCalls,             \* bound on the AddLogEntry calls of one thread
    MaxBadBuffers         \* bound on the reads whose buffer cannot be mapped

ASSUME LogQueueAssumption ==
    /\ Client \notin Threads
    /\ Free \notin Threads \cup {Client}
    /\ MAX_ENTRY \in Nat \ {0}
    /\ Sizes \subseteq 1..MAX_ENTRY
    /\ LIST_SIZE_MAX_BYTES \in Nat \ {0}
    /\ LIST_KEEP_MAX \in Nat
    /\ LIST_PURGE_CONGRUENT \in Nat \ {0}
    /\ LIST_KEEP_MAX + LIST_PURGE_CONGRUENT <= LIST_SIZE_MAX_BYTES
    /\ BufLen \in Nat
    /\ MaxCalls \in Nat
    /\ MaxBadBuffers \in Nat

VARIABLES
    State,          \* globals->State
    L,              \* the linked list, head first
    L_SIZE_BYTES,   \* its byte counter
    LLOCK,          \* holder of the spin lock
    pc,             \* where each thread is in AddLogEntry
    calls,          \* AddLogEntry calls each thread has made
    entry,          \* the thread's local Entry
    keep_max,       \* the thread's local keep_max
    irp,            \* the client's read: phase, status and bytes copied
    badBuffers,     \* reads that failed to map their buffer
    received,       \* history: entries copied to the client, in order
    discarded       \* history: entries dropped before or by a purge

threadVars == <<pc, calls, entry, keep_max>>
clientVars == <<irp, badBuffers, received>>
vars == <<State, L, L_SIZE_BYTES, LLOCK, threadVars, clientVars, discarded>>

Entries == [thr : Threads, num : 1..MaxCalls, size : Sizes]
NoEntry == [thr |-> Client, num |-> 0, size |-> 0]

Statuses == {"SUCCESS", "PENDING", "NO_MORE_ENTRIES",
             "INSUFFICIENT_RESOURCES", "INVALID_BUFFER_SIZE"}

Init ==
    /\ State = "UNINITIALIZED"
    /\ L = <<>>
    /\ L_SIZE_BYTES = 0
    /\ LLOCK = Free
    /\ pc = [t \in Threads |-> "idle"]
    /\ calls = [t \in Threads |-> 0]
    /\ entry = [t \in Threads |-> NoEntry]
    /\ keep_max = [t \in Threads |-> 0]
    /\ irp = [phase |-> "idle", status |-> "SUCCESS", bytes |-> 0]
    /\ badBuffers = 0
    /\ received = <<>>
    /\ discarded = {}

-----------------------------------------------------------------------------
(* Helpers shared by the two sides.                                        *)

\* Variants of SizeWithout: the header of the entry is counted twice and not
\* clamped; the header is forgotten.
SizeWithoutTwice(e) == L_SIZE_BYTES - (e.size + 1)
SizeWithoutPayload(e) ==
    IF e.size > L_SIZE_BYTES THEN 0 ELSE L_SIZE_BYTES - (e.size - 1)

\* L_SIZE_BYTES after DeleteLogEntry(e): subtracted, then clamped at zero.
SizeWithout(e) == IF e.size > L_SIZE_BYTES THEN 0 ELSE L_SIZE_BYTES - e.size

\* Variant of InsertTail: InsertHeadList.
InsertHead(t) ==
    /\ L' = <<entry[t]>> \o L
    /\ L_SIZE_BYTES' = L_SIZE_BYTES + entry[t].size

\* InsertTailList of the thread's Entry, with the counter that goes with it.
InsertTail(t) ==
    /\ L' = Append(L, entry[t])
    /\ L_SIZE_BYTES' = L_SIZE_BYTES + entry[t].size

\* Variant of Full: the limit itself is still allowed.
FullAbove == L_SIZE_BYTES > LIST_SIZE_MAX_BYTES

\* The test AddLogEntry makes under the lock.
Full == L_SIZE_BYTES >= LIST_SIZE_MAX_BYTES

Last(s) == s[Len(s)]
Front(s) == SubSeq(s, 1, Len(s) - 1)

-----------------------------------------------------------------------------
(* AddLogEntry.                                                            *)

\* Validation and allocation succeed: Entry is built outside the lock.
Allocate(t, size) ==
    /\ pc[t] = "idle"
    /\ calls[t] < MaxCalls
    /\ calls' = [calls EXCEPT ![t] = @ + 1]
    /\ entry' = [entry EXCEPT
                    ![t] = [thr |-> t, num |-> calls[t] + 1, size |-> size]]
    /\ pc' = [pc EXCEPT ![t] = "acquire"]
    /\ UNCHANGED <<State, L, L_SIZE_BYTES, LLOCK, keep_max, clientVars,
                   discarded>>

\* One of the early exits: bad pointer, zero or oversized data, no memory.
\* The field is lost and nothing is reported to the caller.
AllocateFails(t, size) ==
    /\ pc[t] = "idle"
    /\ calls[t] < MaxCalls
    /\ calls' = [calls EXCEPT ![t] = @ + 1]
    /\ discarded' = discarded
            \cup {[thr |-> t, num |-> calls[t] + 1, size |-> size]}
    /\ UNCHANGED <<State, L, L_SIZE_BYTES, LLOCK, pc, entry, keep_max,
                   clientVars>>

\* Below the limit: the whole critical section is one insertion.
InsertBelowLimit(t) ==
    /\ pc[t] = "acquire"
    /\ LLOCK = Free
    /\ ~Full
    /\ InsertTail(t)
    /\ pc' = [pc EXCEPT ![t] = "idle"]
    /\ entry' = [entry EXCEPT ![t] = NoEntry]
    /\ UNCHANGED <<State, LLOCK, calls, keep_max, clientVars, discarded>>

\* At or above the limit: take the lock and draw the jittered keep_max.
StartPurge(t) ==
    /\ pc[t] = "acquire"
    /\ LLOCK = Free
    /\ Full
    /\ LLOCK' = t
    /\ \E jitter \in 0..(LIST_PURGE_CONGRUENT - 1) :
            keep_max' = [keep_max EXCEPT ![t] = LIST_KEEP_MAX + jitter]
    /\ pc' = [pc EXCEPT ![t] = "purge"]
    /\ UNCHANGED <<State, L, L_SIZE_BYTES, calls, entry, clientVars,
                   discarded>>

\* Variant of PurgeGoesOn: the size is tested before the entry is deleted.
PurgeGoesOnStale(t) == L_SIZE_BYTES > keep_max[t]

PurgeGoesOn(t) == L_SIZE_BYTES' > keep_max[t]

\* One iteration of the do-while: "oldest" is L.Blink, the tail of the list.
\* On an empty list the code would unlink the list head itself.
PurgeOne(t) ==
    /\ pc[t] = "purge"
    /\ L # <<>>
    /\ L' = Front(L)
    /\ L_SIZE_BYTES' = SizeWithout(Last(L))
    /\ discarded' = discarded \cup {Last(L)}
    /\ pc' = [pc EXCEPT ![t] = IF PurgeGoesOn(t) THEN "purge" ELSE "insert"]
    /\ UNCHANGED <<State, LLOCK, calls, entry, keep_max, clientVars>>

\* "don't forget to add the log entry", then release the lock.
InsertAfterPurge(t) ==
    /\ pc[t] = "insert"
    /\ InsertTail(t)
    /\ LLOCK' = Free
    /\ pc' = [pc EXCEPT ![t] = "idle"]
    /\ entry' = [entry EXCEPT ![t] = NoEntry]
    /\ keep_max' = [keep_max EXCEPT ![t] = 0]
    /\ UNCHANGED <<State, calls, clientVars, discarded>>

-----------------------------------------------------------------------------
(* ReadLogEntry.                                                           *)

Complete(status, bytes) ==
    irp' = [phase |-> "idle", status |-> status, bytes |-> bytes]

\* The driver has not finished initialising: completed with no data.
ReadBeforeInit ==
    /\ irp.phase = "idle"
    /\ State # "INITIALIZED"
    /\ Complete("PENDING", 0)
    /\ UNCHANGED <<State, L, L_SIZE_BYTES, LLOCK, threadVars, badBuffers,
                   received, discarded>>

ReadEmpty ==
    /\ irp.phase = "idle"
    /\ State = "INITIALIZED"
    /\ LLOCK = Free
    /\ L = <<>>
    /\ Complete("NO_MORE_ENTRIES", 0)
    /\ UNCHANGED <<State, L, L_SIZE_BYTES, LLOCK, threadVars, badBuffers,
                   received, discarded>>

\* MmGetSystemAddressForMdlSafe returned NULL.
ReadBadBuffer ==
    /\ irp.phase = "idle"
    /\ State = "INITIALIZED"
    /\ LLOCK = Free
    /\ L # <<>>
    /\ badBuffers < MaxBadBuffers
    /\ badBuffers' = badBuffers + 1
    /\ Complete("INSUFFICIENT_RESOURCES", 0)
    /\ UNCHANGED <<State, L, L_SIZE_BYTES, LLOCK, threadVars, received,
                   discarded>>

StartRead ==
    /\ irp.phase = "idle"
    /\ State = "INITIALIZED"
    /\ LLOCK = Free
    /\ L # <<>>
    /\ LLOCK' = Client
    /\ irp' = [phase |-> "copy", status |-> "SUCCESS", bytes |-> 0]
    /\ UNCHANGED <<State, L, L_SIZE_BYTES, threadVars, badBuffers, received,
                   discarded>>

\* One iteration of the copy loop; the loop ends when the list is empty or
\* less than 12 bytes are left (CopyMargin stands for the constant 12).
CopyMargin == 1

\* Variant of CopyGoesOn: the list is not looked at.
CopyGoesOnBlind(bytes) == bytes + CopyMargin < BufLen

CopyGoesOn(bytes) == L' # <<>> /\ bytes + CopyMargin < BufLen

\* Variant of Fits: an entry may not fill the buffer.
FitsStrictly == BufLen > irp.bytes + Head(L).size

Fits == BufLen >= irp.bytes + Head(L).size

CopyOne ==
    /\ irp.phase = "copy"
    /\ Fits
    /\ L' = Tail(L)
    /\ L_SIZE_BYTES' = SizeWithout(Head(L))
    /\ received' = Append(received, Head(L))
    /\ LET bytes == irp.bytes + Head(L).size IN
        IF CopyGoesOn(bytes)
        THEN /\ irp' = [irp EXCEPT !.bytes = bytes]
             /\ UNCHANGED LLOCK
        ELSE /\ Complete("SUCCESS", bytes)
             /\ LLOCK' = Free
    /\ UNCHANGED <<State, threadVars, badBuffers, discarded>>

\* The head does not fit: it is put back, and only a read that copied
\* nothing reports the short buffer.
PutBack ==
    /\ irp.phase = "copy"
    /\ ~Fits
    /\ Complete(IF irp.bytes = 0 THEN "INVALID_BUFFER_SIZE" ELSE "SUCCESS",
                irp.bytes)
    /\ LLOCK' = Free
    /\ UNCHANGED <<State, L, L_SIZE_BYTES, threadVars, badBuffers, received,
                   discarded>>

\* The last statement of a successful InitMoonMon; callbacks are already
\* registered and logging by then.
Initialized ==
    /\ State = "UNINITIALIZED"
    /\ State' = "INITIALIZED"
    /\ UNCHANGED <<L, L_SIZE_BYTES, LLOCK, threadVars, clientVars, discarded>>

-----------------------------------------------------------------------------
AddLogEntry(t) ==
    \/ \E size \in Sizes : Allocate(t, size) \/ AllocateFails(t, size)
    \/ InsertBelowLimit(t)
    \/ StartPurge(t)
    \/ PurgeOne(t)
    \/ InsertAfterPurge(t)

ReadLogEntry ==
    \/ ReadBeforeInit
    \/ ReadEmpty
    \/ ReadBadBuffer
    \/ StartRead
    \/ CopyOne
    \/ PutBack

Next ==
    \/ Initialized
    \/ \E t \in Threads : AddLogEntry(t)
    \/ ReadLogEntry

Spec == Init /\ [][Next]_vars

\* The kernel runs a thread that holds or waits for LLOCK, and the agent
\* polls forever: its loop issues the next ReadFile whatever the last gave.
Fairness ==
    /\ WF_vars(Initialized)
    /\ WF_vars(ReadLogEntry)
    /\ \A t \in Threads :
        WF_vars(InsertBelowLimit(t) \/ StartPurge(t) \/ PurgeOne(t)
                    \/ InsertAfterPurge(t))

FairSpec == Spec /\ Fairness

-----------------------------------------------------------------------------
(* Properties.                                                             *)

\* Every variable stays in its type.
TypeOK ==
    /\ State \in {"UNINITIALIZED", "INITIALIZED"}
    /\ L \in Seq(Entries)
    /\ L_SIZE_BYTES \in Nat
    /\ LLOCK \in Threads \cup {Client, Free}
    /\ pc \in [Threads -> {"idle", "acquire", "purge", "insert"}]
    /\ calls \in [Threads -> 0..MaxCalls]
    /\ entry \in [Threads -> Entries \cup {NoEntry}]
    /\ keep_max \in [Threads -> Nat]
    /\ irp \in [phase : {"idle", "copy"}, status : Statuses, bytes : Nat]
    /\ badBuffers \in Nat
    /\ received \in Seq(Entries)
    /\ discarded \subseteq Entries

\* c is the sequence of running totals of the sizes of the entries of s; sizes
\* are positive, so it increases.
IsRunningTotal(c, s) ==
    /\ \A i \in 1..Len(s) :
        c[i] = s[i].size + (IF i = 1 THEN 0 ELSE c[i - 1])
    /\ \A i, j \in 1..Len(s) : i < j => c[i] < c[j]

\* The sizes of the entries of s add up to n.
SumsTo(s, n) ==
    \E c \in [1..Len(s) -> 0..n] :
        /\ IsRunningTotal(c, s)
        /\ n = IF Len(s) = 0 THEN 0 ELSE c[Len(s)]

\* Between any two steps, of the purge and copy loops too, L_SIZE_BYTES is
\* the sum of the sizes of the entries on the list: every path that links or
\* unlinks an entry also maintains the counter, and the clamp in
\* DeleteLogEntry never hides a difference.
Accounting == SumsTo(L, L_SIZE_BYTES)

\* The loops under LLOCK never unlink the list head: as long as the purge
\* wants to go on, and as long as the copy loop runs, there is an entry.
\* AddLogEntry tests "entry == NULL", which an empty list does not produce.
LoopHasEntry ==
    /\ \A t \in Threads : pc[t] = "purge" => L # <<>>
    /\ irp.phase = "copy" => L # <<>>

\* The list overshoots LIST_SIZE_MAX_BYTES by less than one entry, however
\* many threads log at the same time: the test and the insertion are in the
\* same critical section.
SizeBound == L_SIZE_BYTES < LIST_SIZE_MAX_BYTES + MAX_ENTRY

\* A purge leaves at most keep_max bytes and throws away no entry it could
\* have kept: what is left is within one entry of LIST_KEEP_MAX.
PurgeWindow ==
    \A t \in Threads : pc[t] = "insert" =>
        /\ L_SIZE_BYTES <= keep_max[t]
        /\ L_SIZE_BYTES + MAX_ENTRY > LIST_KEEP_MAX

\* Who is inside the critical section.
LockInv ==
    /\ \A t \in Threads : LLOCK = t <=> pc[t] \in {"purge", "insert"}
    /\ LLOCK = Client <=> irp.phase = "copy"

\* The locals of a thread inside AddLogEntry.
LocalInv ==
    \A t \in Threads :
        /\ pc[t] # "idle" => /\ entry[t] \in Entries
                             /\ entry[t].thr = t
                             /\ entry[t].num = calls[t]
        /\ pc[t] \in {"purge", "insert"} =>
                keep_max[t] \in LIST_KEEP_MAX..
                                    (LIST_KEEP_MAX + LIST_PURGE_CONGRUENT - 1)
        /\ pc[t] = "purge" => L_SIZE_BYTES > keep_max[t]

\* A read never writes past the client's buffer and reports data exactly
\* when it succeeded with some.
ReadOutcome ==
    /\ irp.bytes <= BufLen
    /\ irp.status # "SUCCESS" => irp.phase = "idle" /\ irp.bytes = 0

\* The inductive invariant behind Accounting, LoopHasEntry, SizeBound,
\* PurgeWindow and ReadOutcome: the critical sections exclude each other and
\* a purge knows it is above its target.
IInv ==
    /\ TypeOK
    /\ LockInv
    /\ LocalInv
    /\ Accounting
    /\ LoopHasEntry
    /\ SizeBound
    /\ PurgeWindow
    /\ ReadOutcome

\* The list has the entries of each thread in the order of its calls, and the
\* one AddLogEntry has not linked yet is newer than these.
OrderInv ==
    /\ \A i, j \in 1..Len(L) :
        i < j /\ L[i].thr = L[j].thr => L[i].num < L[j].num
    /\ \A i \in 1..Len(L) :
        /\ L[i].num <= calls[L[i].thr]
        /\ pc[L[i].thr] # "idle" => L[i].num < calls[L[i].thr]

\* The numbers of the entries of thread t in s, and those on their way to the
\* agent: on the list, and the one AddLogEntry has not linked yet.
NumbersOf(t, s) == {s[i].num : i \in {j \in 1..Len(s) : s[j].thr = t}}

OnTheWay(t) ==
    NumbersOf(t, L) \cup (IF pc[t] = "idle" THEN {} ELSE {entry[t].num})

Channel == INSTANCE LossyChannel WITH
    sent <- calls,
    channel <- [t \in Threads |-> OnTheWay(t)],
    delivered <- [i \in 1..Len(received) |->
                    <<received[i].thr, received[i].num>>],
    lost <- [t \in Threads |-> {e.num : e \in {d \in discarded : d.thr = t}}]

\* The queue with its lock, counter, purges and put-backs is a lossy channel
\* for each thread: what the client gets of a thread is in the order it was
\* logged and never twice, and an entry is lost only to a failed allocation or
\* to a purge, and then for good.  The client builds an event from consecutive
\* fields and its EVENT_END.
ImplementsChannel == Channel!Spec

InSeq(s, t, n) == \E i \in 1..Len(s) : s[i].thr = t /\ s[i].num = n

\* No entry stays on the list for ever: the client's next reads deliver it
\* unless a purge takes it (needs MAX_ENTRY <= BufLen).
NoEntryStuck ==
    \A t \in Threads : \A n \in 1..MaxCalls :
        InSeq(L, t, n) ~> ~InSeq(L, t, n)

=============================================================================
