---------------------------- MODULE EventPipeline ----------------------------
(***************************************************************************)
(* The agent's event pipeline (cmd/luna/main.go): the loop of Luna reads   *)
(* the driver into one of worker_count buffers and hands the buffer to the *)
(* worker goroutines through RawDataChannel; a worker (processData)        *)
(* collects the fields of an event and, at its EVENT_END, sends the event  *)
(* to FileOutput on the channel Logs.  The wait group wg keeps a buffer    *)
(* from being read into while a worker is still at it.                     *)
(*                                                                         *)
(* What the driver delivers is the sequence of log entries stream; one     *)
(* read returns some prefix of it.  An entry is the id of its event and    *)
(* the name of its field.                                                  *)
(***************************************************************************)
EXTENDS Naturals, Sequences, FiniteSets, Functions

CONSTANTS
    Ids,           \* event ids
    FieldNames,    \* names of the fields of an event
    EVENT_END,     \* the field that ends an event
    worker_count,  \* workers, and their buffers
    Streams        \* the sequences of entries the driver may deliver

Entries == [id : Ids, field : FieldNames \cup {EVENT_END}]

\* A callback logs EVENT_END after the fields of its event; the image load
\* callback may log it twice, and a purge may take entries out.
EndsLast(s) ==
    \A m, n \in 1..Len(s) :
        m < n /\ s[m].id = s[n].id /\ s[m].field = EVENT_END
            => s[n].field = EVENT_END

ASSUME EventPipelineAssumption ==
    /\ EVENT_END \notin FieldNames
    /\ worker_count \in Nat \ {0, 1}
    /\ Streams \subseteq Seq(Entries)
    /\ \A s \in Streams : EndsLast(s)

VARIABLES
    input,           \* the entries of this behaviour
    stream,          \* those the driver still holds
    reader,          \* where the loop of Luna is
    worker,          \* the buffer it reads into next
    bytesRead,       \* entries in that buffer
    data,            \* the buffers
    wg,              \* the wait group's counter
    RawDataChannel,  \* buffered channel of work items
    work,            \* what each worker goroutine is processing
    bytesdone,       \* how far it is
    logbuffer,       \* the entries it collected
    written,         \* events received by FileOutput, in order
    split            \* history: ids whose entries came in several reads

readerVars == <<stream, reader, worker, bytesRead, data>>
workerVars == <<work, bytesdone, logbuffer>>
vars == <<input, readerVars, wg, RawDataChannel, workerVars, written, split>>

Buffers == 0..(worker_count - 1)
NoWork == [buf |-> 0, size |-> 0]
Idle(w) == work[w] = NoWork

Init ==
    /\ input \in Streams
    /\ stream = input
    /\ reader = "read"
    /\ worker = 0
    /\ bytesRead = 0
    /\ data = [b \in Buffers |-> <<>>]
    /\ wg = worker_count
    /\ RawDataChannel = <<>>
    /\ work = [w \in Buffers |-> NoWork]
    /\ bytesdone = [w \in Buffers |-> 0]
    /\ logbuffer = [w \in Buffers |-> {}]
    /\ written = <<>>
    /\ split = {}

-----------------------------------------------------------------------------
(* The loop of Luna.                                                       *)

\* ReadFile succeeds; reads that fail or return nothing are repeated.
Read ==
    /\ reader = "read"
    /\ \E n \in 1..Len(stream) :
        LET got == SubSeq(stream, 1, n)
            rest == SubSeq(stream, n + 1, Len(stream)) IN
        /\ stream' = rest
        /\ data' = [data EXCEPT ![worker] = got]
        /\ bytesRead' = n
        /\ split' = split \cup {i \in Ids :
                        /\ \E e \in Range(got) : e.id = i
                        /\ \E e \in Range(rest) : e.id = i}
    /\ reader' = "send"
    /\ UNCHANGED <<input, worker, wg, RawDataChannel, workerVars, written>>

\* Hand the buffer over and move to the next one, or to the barrier.
Send ==
    /\ reader = "send"
    /\ Len(RawDataChannel) < worker_count
    /\ RawDataChannel' = Append(RawDataChannel,
                                [buf |-> worker, size |-> bytesRead])
    /\ IF worker < worker_count - 1
       THEN worker' = worker + 1 /\ reader' = "read"
       ELSE UNCHANGED worker /\ reader' = "wait"
    /\ UNCHANGED <<input, stream, bytesRead, data, wg, workerVars, written,
                   split>>

\* Variant of AllDone: one worker may still be busy.
AllDoneButOne == wg <= 1

AllDone == wg = 0

\* wg.Wait() returns; the next round starts with the first buffer.
StartRound ==
    /\ reader = "wait"
    /\ AllDone
    /\ wg' = wg + worker_count
    /\ worker' = 0
    /\ reader' = "read"
    /\ UNCHANGED <<input, stream, bytesRead, data, RawDataChannel, workerVars,
                   written, split>>

-----------------------------------------------------------------------------
(* dataWorker and processData.                                             *)

Take(w) ==
    /\ Idle(w)
    /\ RawDataChannel # <<>>
    /\ work' = [work EXCEPT ![w] = Head(RawDataChannel)]
    /\ RawDataChannel' = Tail(RawDataChannel)
    /\ bytesdone' = [bytesdone EXCEPT ![w] = 0]
    /\ logbuffer' = [logbuffer EXCEPT ![w] = {}]
    /\ UNCHANGED <<input, readerVars, wg, written, split>>

\* work.Data is a pointer: the entry is read from the buffer as it is now.
Current(w) == data[work[w].buf][bytesdone[w] + 1]

\* Variant of HasEntry: the last entry is left out.
HasEntryLess(w) == bytesdone[w] + 1 < work[w].size

HasEntry(w) == bytesdone[w] < work[w].size

\* A field is kept until the EVENT_END of its event comes.
Collect(w) ==
    /\ HasEntry(w)
    /\ Current(w).field # EVENT_END
    /\ logbuffer' = [logbuffer EXCEPT ![w] = @ \cup {Current(w)}]
    /\ bytesdone' = [bytesdone EXCEPT ![w] = @ + 1]
    /\ UNCHANGED <<input, readerVars, wg, RawDataChannel, work, written,
                   split>>

\* Variant of FieldsCollected: the fields of every event.
FieldsOfAll(w, i) == {e.field : e \in logbuffer[w]}

FieldsCollected(w, i) == {e.field : e \in {x \in logbuffer[w] : x.id = i}}

\* The event is put together from this worker's logbuffer and handed to
\* FileOutput; Logs has no buffer, so this is one step of both.
Emit(w) ==
    /\ HasEntry(w)
    /\ Current(w).field = EVENT_END
    /\ LET i == Current(w).id IN
        written' = Append(written, [id |-> i, fields |-> FieldsCollected(w, i)])
    /\ bytesdone' = [bytesdone EXCEPT ![w] = @ + 1]
    /\ UNCHANGED <<input, readerVars, wg, RawDataChannel, work, logbuffer,
                   split>>

\* processData returns: its deferred wg.Done() runs.
Done(w) ==
    /\ ~Idle(w)
    /\ ~HasEntry(w)
    /\ wg' = wg - 1
    /\ work' = [work EXCEPT ![w] = NoWork]
    /\ bytesdone' = [bytesdone EXCEPT ![w] = 0]
    /\ logbuffer' = [logbuffer EXCEPT ![w] = {}]
    /\ UNCHANGED <<input, readerVars, RawDataChannel, written, split>>

-----------------------------------------------------------------------------
Luna == Read \/ Send \/ StartRound
dataWorker(w) == Take(w) \/ Collect(w) \/ Emit(w) \/ Done(w)

Next == Luna \/ \E w \in Buffers : dataWorker(w)

Spec == Init /\ [][Next]_vars

\* The Go scheduler runs every goroutine that can run.  Taking from the
\* channel is fair only for the workers together: any of them may be first.
Fairness ==
    /\ WF_vars(Luna)
    /\ WF_vars(\E w \in Buffers : Take(w))
    /\ \A w \in Buffers : WF_vars(Collect(w) \/ Emit(w) \/ Done(w))

FairSpec == Spec /\ Fairness

-----------------------------------------------------------------------------
(* Properties.                                                             *)

WorkItems == [buf : Buffers, size : Nat]
Events == [id : Ids, fields : SUBSET FieldNames]

\* Every variable stays in its type; the wait group's counter is never
\* negative, which would be a panic.
TypeOK ==
    /\ input \in Seq(Entries)
    /\ stream \in Seq(Entries)
    /\ reader \in {"read", "send", "wait"}
    /\ worker \in Buffers
    /\ bytesRead \in Nat
    /\ data \in [Buffers -> Seq(Entries)]
    /\ wg \in 0..worker_count
    /\ RawDataChannel \in Seq(WorkItems)
    /\ work \in [Buffers -> WorkItems]
    /\ bytesdone \in [Buffers -> Nat]
    /\ logbuffer \in [Buffers -> SUBSET Entries]
    /\ written \in Seq(Events)
    /\ split \subseteq Ids

\* Buffers handed to the workers in this round.
Sent == IF reader = "wait" THEN worker_count ELSE worker

\* The counter is what is still to be sent in this round plus what was sent
\* and is not finished: wg.Wait() returns only when every buffer is free, and
\* wg.Done() never makes the counter negative.
WgBalance ==
    wg = (worker_count - Sent) + Len(RawDataChannel)
            + Cardinality({w \in Buffers : ~Idle(w)})

\* Nobody else refers to the buffer that the reader is about to fill, or has
\* filled and not sent: a worker never sees its entries change.
BufferFree ==
    reader # "wait" =>
        /\ \A i \in 1..Len(RawDataChannel) : RawDataChannel[i].buf # worker
        /\ \A w \in Buffers : ~Idle(w) => work[w].buf # worker

\* The barrier protects the buffers, also in the middle of a round.
BarrierSafe == WgBalance /\ BufferFree

\* Where the EVENT_ENDs of event i are in a sequence of entries.
EndsAt(s, i) == {n \in 1..Len(s) : s[n].id = i /\ s[n].field = EVENT_END}
EndsIn(s, i) == Cardinality(EndsAt(s, i))

\* The positions of buffer b that its next or present worker is still to
\* process: all of a buffer not sent or in the channel.
ToProcess(b) ==
    {n \in 1..Len(data[b]) :
        \/ reader = "send" /\ worker = b
        \/ \E k \in 1..Len(RawDataChannel) : RawDataChannel[k].buf = b
        \/ \E w \in Buffers : ~Idle(w) /\ work[w].buf = b /\ bytesdone[w] < n}

PendingEnds(i) ==
    UNION {{b} \X (ToProcess(b) \cap EndsAt(data[b], i)) : b \in Buffers}
WrittenAt(i) == {n \in 1..Len(written) : written[n].id = i}
WrittenFor(i) == Cardinality(WrittenAt(i))

\* Every EVENT_END the driver delivers becomes exactly one event: none is
\* lost or processed twice between the reader, the channel and the workers.
EndsConserved ==
    \A i \in Ids :
        EndsIn(input, i) =
            EndsIn(stream, i) + Cardinality(PendingEnds(i)) + WrittenFor(i)

FieldsOf(i) == {e.field : e \in {x \in Range(input) : x.id = i}} \ {EVENT_END}

\* An event that came in one read is written with all of its fields and with
\* no field of another event, whatever the other workers do.
UnsplitWhole ==
    \A n \in 1..Len(written) :
        written[n].id \notin split =>
            written[n].fields = FieldsOf(written[n].id)

\* Everything the driver delivered is in the log in the end: every EVENT_END
\* of the input leads to its event, so the reader never waits at wg.Wait for good.
AllWritten ==
    \A i \in Ids : <>[](WrittenFor(i) = EndsIn(input, i))

\* Comment in Luna: when the events of one callback span several reads
\* "there shouldn't be (TM) any data loss".
Quiet == stream = <<>> /\ reader # "send" /\ RawDataChannel = <<>>
            /\ \A w \in Buffers : Idle(w)
NoDataLoss ==
    Quiet => \A i \in Ids : \A f \in FieldsOf(i) :
        \E n \in 1..Len(written) : written[n].id = i /\ f \in written[n].fields

-----------------------------------------------------------------------------
(* The inductive invariant behind BarrierSafe, EndsConserved and           *)
(* UnsplitWhole.                                                           *)

\* Within a round the buffers are handed out in order, so whatever is still
\* in use has a smaller index than the buffer being filled.
RefsBelow ==
    reader # "wait" =>
        /\ \A k \in 1..Len(RawDataChannel) : RawDataChannel[k].buf < worker
        /\ \A w \in Buffers : ~Idle(w) => work[w].buf < worker

\* A buffer is in one place of the channel or with one worker.
OneHolder ==
    /\ \A k, l \in 1..Len(RawDataChannel) :
            k # l => RawDataChannel[k].buf # RawDataChannel[l].buf
    /\ \A v, w \in Buffers :
            v # w /\ ~Idle(v) /\ ~Idle(w) => work[v].buf # work[w].buf
    /\ \A k \in 1..Len(RawDataChannel) : \A w \in Buffers :
            ~Idle(w) => RawDataChannel[k].buf # work[w].buf

\* A buffer in use has as many entries as its reader and its worker believe.
Fills(item) == item.size = Len(data[item.buf]) /\ item.size > 0

Sizes ==
    /\ reader = "send" => bytesRead = Len(data[worker]) /\ bytesRead > 0
    /\ \A k \in 1..Len(RawDataChannel) : Fills(RawDataChannel[k])
    /\ \A w \in Buffers : ~Idle(w) => Fills(work[w])
    /\ \A w \in Buffers : bytesdone[w] <= work[w].size

\* s has some of the entries delivered, in an order that keeps ends last, and
\* of an event that was not split all entries or none.
Whole(s) ==
    /\ Range(s) \subseteq Range(input)
    /\ EndsLast(s)
    /\ \A d \in Range(s), e \in Range(input) :
            d.id \notin split /\ e.id = d.id => e \in Range(s)

AllWhole == Whole(stream) /\ \A b \in Buffers : Whole(data[b])

\* A logbuffer has exactly the fields its worker went past.
Collected ==
    \A w \in Buffers : logbuffer[w] =
        {e \in Range(SubSeq(data[work[w].buf], 1, bytesdone[w])) :
            e.field # EVENT_END}

IInv ==
    /\ TypeOK
    /\ WgBalance
    /\ RefsBelow
    /\ OneHolder
    /\ Sizes
    /\ AllWhole
    /\ Collected
    /\ UnsplitWhole
    /\ EndsConserved

=============================================================================
