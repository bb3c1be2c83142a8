----------------------------- MODULE FileOutput -----------------------------
(***************************************************************************)
(* The agent's log file (pkg/luna/output.go).  InitLogs starts a goroutine  *)
(* running FileOutput for every yaml file that LoadConfig reads; each one   *)
(* that finds file_output_running unset opens the log, and the flag is set  *)
(* only then.  A goroutine takes records from the unbuffered channel Logs,  *)
(* appends them, and starts a new file when written_bytes exceeds           *)
(* ROTATE_SIZE.  The agent may be stopped at any point and started again;   *)
(* the files stay.                                                         *)
(*                                                                         *)
(* A file is the sequence of its records, 0 where a write left a gap.  The  *)
(* log has the name 0, a rotated one the second it was renamed in; Others   *)
(* are files of the directory that the pattern *_* matches as well.        *)
(***************************************************************************)
EXTENDS Integers, Sequences, FiniteSets

CONSTANTS
    Records,        \* how many records the workers send
    Size(_),        \* bytes of a record
    YamlFiles,      \* number of configuration files
    ROTATE_SIZE,
    ROTATE_COUNT,
    Others,         \* the seconds they sort as
    FirstSecond,    \* the clock's, and
    LastSecond,     \* its bound
    MaxStarts,      \* bound on starts of the agent
    MaxFaults       \* bound on the kinds of calls that fail

ASSUME FileAssumption ==
    /\ {Records, YamlFiles, ROTATE_SIZE, ROTATE_COUNT} \subseteq Nat
    /\ {LastSecond, MaxStarts, MaxFaults} \subseteq Nat
    /\ FirstSecond \in Nat \ {0} /\ FirstSecond <= LastSecond
    /\ Others \subseteq Nat \ {0} /\ IsFiniteSet(Others)
    /\ \A r \in 1..Records : Size(r) \in Nat
    /\ Others \cap (FirstSecond..LastSecond) = {}

Writers == 1..YamlFiles
Current == 0

VARIABLES
    running,        \* file_output_running
    written_bytes,
    loaded,         \* yaml files read; -1 when the agent is not running
    pc,             \* where each goroutine is
    handle,         \* its open file, and the record it has taken
    sent,           \* records taken from the channel so far
    files,          \* name -> content
    second,         \* time.Now().Unix()
    starts,
    faults,         \* history: the calls that failed
    spoiled,        \* history: what may have cost a record
    removed         \* history: records in removed files

memory == <<running, written_bytes, loaded, pc, handle>>
history == <<faults, spoiled, removed>>
vars == <<memory, sent, files, second, starts, history>>

Open(w) == pc[w] \in {"take", "flush", "test"}
Archived == DOMAIN files \ {Current}
RecordsOf(content) == {content[n] : n \in 1..Len(content)} \ {0}
Go(w, stage) == pc' = [pc EXCEPT ![w] = stage]
Allowed(call) == Cardinality(faults \cup {call}) <= MaxFaults

\* The locals of a goroutine that has no file.
Closed == [position |-> 0, failed |-> FALSE, record |-> 0, sum |-> 0]

Init ==
    /\ running = FALSE
    /\ written_bytes = 0
    /\ loaded = -1
    /\ pc = [w \in Writers |-> "none"]
    /\ handle = [w \in Writers |-> Closed]
    /\ sent = 0
    /\ files = [n \in Others |-> <<>>]
    /\ second = FirstSecond
    /\ starts = 0
    /\ faults = {}
    /\ spoiled = {}
    /\ removed = {}

-----------------------------------------------------------------------------
(* The agent and its surroundings.                                         *)

Start ==
    /\ loaded = -1
    /\ starts < MaxStarts
    /\ starts' = starts + 1
    /\ loaded' = 0
    /\ running' = FALSE
    /\ written_bytes' = 0
    /\ UNCHANGED <<pc, handle, sent, files, second, history>>

\* A record that was taken and not flushed is gone.
Ended ==
    /\ loaded' = -1
    /\ pc' = [w \in Writers |-> "none"]
    /\ handle' = [w \in Writers |-> Closed]
    /\ spoiled' = IF \E w \in Writers : pc[w] = "flush"
                  THEN spoiled \cup {"stopped"} ELSE spoiled

Stop ==
    /\ loaded >= 0
    /\ Ended
    /\ UNCHANGED <<running, written_bytes, sent, files, second, starts, faults,
                   removed>>

Tick ==
    /\ second < LastSecond
    /\ second' = second + 1
    /\ UNCHANGED <<memory, sent, files, starts, history>>

\* Variant of InitLogs: the flag is set where the goroutine is started.
InitLogsMarks ==
    /\ loaded \in 0..(YamlFiles - 1)
    /\ written_bytes' = 0
    /\ running' = TRUE
    /\ loaded' = loaded + 1
    /\ Go(loaded + 1, "check")
    /\ UNCHANGED <<handle, sent, files, second, starts, history>>

InitLogs ==
    /\ loaded \in 0..(YamlFiles - 1)
    /\ written_bytes' = 0
    /\ loaded' = loaded + 1
    /\ Go(loaded + 1, "check")
    /\ UNCHANGED <<running, handle, sent, files, second, starts, history>>

-----------------------------------------------------------------------------
(* Opening the log.                                                        *)

Check(w) ==
    /\ pc[w] = "check"
    /\ Go(w, IF running THEN "returned" ELSE "rotate")
    /\ spoiled' =
         IF ~running /\ \E v \in Writers : pc[v] \in {"rotate", "create"}
         THEN spoiled \cup {"writers"} ELSE spoiled
    /\ UNCHANGED <<running, written_bytes, loaded, handle, sent, files, second,
                   starts, faults, removed>>

\* Variant of Surplus: the newest files are the ones to go.
SurplusNewest(names) ==
    {n \in names : Cardinality({m \in names : m < n}) >= ROTATE_COUNT}

\* The names before the last ROTATE_COUNT in sorted order.
Surplus(names) ==
    {n \in names : Cardinality({m \in names : m > n}) >= ROTATE_COUNT}

\* Variant of Stamp: the name does not tell all seconds apart.
StampCoarse == second - (second % 2)

Stamp == second

\* RotateOpen up to the point where it opens the file: the log is renamed,
\* in the place of a file of that name if there is one, and the surplus is
\* removed as far as that does not fail.
Rotate(w) ==
    /\ pc[w] = "rotate"
    /\ Current \in DOMAIN files
    /\ \A v \in Writers : ~Open(v)
    /\ LET surplus == Surplus(Archived \cup {Stamp}) IN
       \E gone \in SUBSET surplus :
        /\ \/ gone = surplus /\ UNCHANGED faults
           \/ gone # surplus /\ Allowed("remove") /\ faults' = faults \cup {"remove"}
        /\ LET renamed == [n \in Archived \cup {Stamp} |->
                            IF n = Stamp THEN files[Current] ELSE files[n]]
           IN  /\ files' = [n \in DOMAIN renamed \ gone |-> renamed[n]]
               /\ removed' = removed \cup UNION {RecordsOf(renamed[n]) : n \in gone}
    /\ spoiled' = IF second \in Archived THEN spoiled \cup {"second"} ELSE spoiled
    /\ Go(w, "create")
    /\ UNCHANGED <<running, written_bytes, loaded, handle, sent, second, starts>>

\* A file that another goroutine has open is not renamed.  It is opened, and
\* truncated, all the same.
RotateFails(w) ==
    /\ pc[w] = "rotate"
    /\ Current \in DOMAIN files
    /\ \/ (\E v \in Writers : Open(v)) /\ UNCHANGED faults
       \/ Allowed("rename") /\ faults' = faults \cup {"rename"}
    /\ spoiled' = spoiled \cup {"rename"}
    /\ Go(w, "create")
    /\ UNCHANGED <<running, written_bytes, loaded, handle, sent, files, second,
                   starts, removed>>

NothingToRotate(w) ==
    /\ pc[w] = "rotate"
    /\ Current \notin DOMAIN files
    /\ Go(w, "create")
    /\ UNCHANGED <<running, written_bytes, loaded, handle, sent, files, second,
                   starts, history>>

\* os.OpenFile with O_CREATE and O_TRUNC.
Create(w) ==
    /\ pc[w] = "create"
    /\ files' = [n \in DOMAIN files \cup {Current} |->
                    IF n = Current THEN <<>> ELSE files[n]]
    /\ running' = TRUE
    /\ Go(w, "take")
    /\ UNCHANGED <<written_bytes, loaded, handle, sent, second, starts, history>>

\* log.Fatalf ends the agent.
CreateFails(w) ==
    /\ pc[w] = "create"
    /\ Allowed("open")
    /\ faults' = faults \cup {"open"}
    /\ Ended
    /\ UNCHANGED <<running, written_bytes, sent, files, second, starts, removed>>

-----------------------------------------------------------------------------
(* Writing records.  They arrive once the configuration is loaded.         *)

\* Variant of Sum: the bytes of the last record only.
SumAssigned(w, bytes) == bytes

Sum(w, bytes) == written_bytes + bytes

\* WriteString copies the record to the buffer and counts it; a writer whose
\* flush has failed takes no more and counts nothing.
Take(w) ==
    /\ pc[w] = "take"
    /\ loaded = YamlFiles
    /\ sent < Records
    /\ sent' = sent + 1
    /\ handle' = [handle EXCEPT ![w].record = sent + 1,
                    ![w].sum = Sum(w, IF handle[w].failed THEN 0
                                      ELSE Size(sent + 1))]
    /\ Go(w, "flush")
    /\ UNCHANGED <<running, written_bytes, loaded, files, second, starts, history>>

\* The record goes to the writer's position, whatever the file is there.
Appended(content, position, r) ==
    [n \in 1..(IF position < Len(content) THEN Len(content) ELSE position + 1) |->
        IF n = position + 1 THEN r
        ELSE IF n <= Len(content) THEN content[n] ELSE 0]

Flush(w) ==
    /\ pc[w] = "flush"
    /\ ~handle[w].failed
    /\ written_bytes' = handle[w].sum
    /\ files' = [files EXCEPT ![Current] =
                    Appended(@, handle[w].position, handle[w].record)]
    /\ handle' = [handle EXCEPT ![w].position = @ + 1,
                                   ![w].record = 0, ![w].sum = 0]
    /\ Go(w, "test")
    /\ UNCHANGED <<running, loaded, sent, second, starts, history>>

FlushFails(w) ==
    /\ pc[w] = "flush"
    /\ \/ handle[w].failed /\ UNCHANGED faults
       \/ ~handle[w].failed /\ Allowed("flush") /\ faults' = faults \cup {"flush"}
    /\ handle' = [handle EXCEPT ![w].failed = TRUE, ![w].record = 0, ![w].sum = 0]
    /\ written_bytes' = handle[w].sum
    /\ spoiled' = spoiled \cup {"flush"}
    /\ Go(w, "test")
    /\ UNCHANGED <<running, loaded, sent, files, second, starts, removed>>

Test(w) ==
    /\ pc[w] = "test"
    /\ IF written_bytes > ROTATE_SIZE
       THEN /\ written_bytes' = 0
            /\ handle' = [handle EXCEPT ![w] = Closed]
            /\ Go(w, "rotate")
       ELSE Go(w, "take") /\ UNCHANGED <<written_bytes, handle>>
    /\ UNCHANGED <<running, loaded, sent, files, second, starts, history>>

-----------------------------------------------------------------------------
Goroutine(w) ==
    \/ Check(w)
    \/ Rotate(w) \/ RotateFails(w) \/ NothingToRotate(w)
    \/ Create(w) \/ CreateFails(w)
    \/ Take(w) \/ Flush(w) \/ FlushFails(w) \/ Test(w)

Next ==
    \/ Start \/ Stop \/ Tick \/ InitLogs
    \/ \E w \in Writers : Goroutine(w)

Spec == Init /\ [][Next]_vars

\* The Go scheduler runs every goroutine, and LoadConfig ends.
FairSpec ==
    Spec /\ WF_vars(InitLogs) /\ \A w \in Writers : WF_vars(Goroutine(w))

-----------------------------------------------------------------------------
InFlight == {handle[w].record : w \in {v \in Writers : pc[v] = "flush"}}
Kept == UNION {RecordsOf(files[n]) : n \in DOMAIN files}

\* The first k records of a file have this many bytes at most.
FirstTake(content, k, bytes) ==
    \E b \in [0..k -> 0..bytes] :
        b[0] = 0 /\ \A n \in 1..k : b[n] = b[n - 1] + Size(content[n])

\* Every variable of the output and its goroutines stays in its type.
TypeOK ==
    /\ running \in BOOLEAN /\ written_bytes \in Nat
    /\ loaded \in -1..YamlFiles
    /\ pc \in [Writers -> {"none", "check", "returned", "rotate", "create",
                           "take", "flush", "test"}]
    /\ handle \in [Writers -> [position : Nat, failed : BOOLEAN,
                               record : 0..Records, sum : Nat]]
    /\ sent \in 0..Records
    /\ DOMAIN files \subseteq Nat
    /\ files \in [DOMAIN files -> Seq(0..Records)]
    /\ second \in FirstSecond..LastSecond /\ starts \in 0..MaxStarts
    /\ faults \subseteq {"remove", "rename", "open", "flush"}
    /\ spoiled \subseteq {"stopped", "writers", "second", "rename", "flush"}
    /\ removed \subseteq 1..Records

\* Every record that was taken from the channel is in the log, in a rotated
\* file or in one that was too old to keep, and in the order it was taken,
\* across the files too.  What may cost a record is listed in spoiled: two
\* goroutines that open the log, a log that cannot be renamed or is renamed
\* twice in a second, a failed flush, and the end of the agent in between.
NothingLost ==
    spoiled = {} =>
        /\ 1..sent = Kept \cup removed \cup InFlight
        /\ \A n \in DOMAIN files : \A i, j \in 1..Len(files[n]) :
              i < j => files[n][i] < files[n][j]
        /\ \A m, n \in DOMAIN files :
              m # Current /\ (m < n \/ n = Current) =>
                 \A r \in RecordsOf(files[m]), q \in RecordsOf(files[n]) : r < q

\* A file without its last record has ROTATE_SIZE bytes at most, whoever
\* counts the bytes and whatever fails, as long as one goroutine writes.
SizeBounded ==
    "writers" \notin spoiled =>
        \A n \in DOMAIN files : files[n] # <<>> =>
            FirstTake(files[n], Len(files[n]) - 1, ROTATE_SIZE)

\* Rotation leaves ROTATE_COUNT files at least, and never removes one that is
\* newer than a file that stays, unless a file could not be removed.  The log
\* itself counts as the file of this second.
RemovesOldest ==
    LET kept == DOMAIN files' \ {Current}
        rotated == Current \in DOMAIN files \ DOMAIN files'
    IN  \A n \in Archived \cup (IF rotated THEN {second} ELSE {}) : n \notin kept =>
            /\ Cardinality(kept) >= ROTATE_COUNT
            /\ "remove" \in faults' \/ \A m \in kept : n < m
RotationRemovesOldest == [][RemovesOldest]_vars

\* The records do not wait for ever: with the configuration loaded there is a
\* goroutine that takes them, until the agent ends.
Drains == loaded = YamlFiles ~> sent = Records \/ loaded = -1

-----------------------------------------------------------------------------
(* The inductive invariant behind the safety properties.                   *)

Active == {"rotate", "create", "take", "flush", "test"}

\* Where a goroutine can be, and what it holds there.
Started ==
    /\ \A w \in Writers :
        /\ pc[w] # "none" => w <= loaded
        /\ Open(w) => running
        /\ ~Open(w) => handle[w] = Closed
        /\ pc[w] \in {"flush", "test"} => loaded = YamlFiles
    /\ loaded >= 0 /\ (~running \/ loaded < YamlFiles) => written_bytes = 0

\* Only the goroutine that finds the flag unset opens the log.
OneWriter ==
    "writers" \notin spoiled =>
        \A v, w \in Writers : pc[v] \in Active /\ pc[w] \in Active => v = w

\* The names in the directory; what is not the log's has no records of it.
NamesInv ==
    /\ IsFiniteSet(DOMAIN files)
    /\ \A n \in DOMAIN files :
        /\ n \in Others => files[n] = <<>>
        /\ n \notin Others => n = Current \/ n \in FirstSecond..second

\* What the one writer knows of the log it has open.
OpenLog ==
    "writers" \notin spoiled => \A w \in Writers :
        /\ Open(w) =>
            /\ Current \in DOMAIN files
            /\ handle[w].position = Len(files[Current])
            /\ FirstTake(files[Current], Len(files[Current]), written_bytes)
        /\ pc[w] \in {"rotate", "create"} => written_bytes = 0
        /\ pc[w] \in {"take", "flush"} => written_bytes <= ROTATE_SIZE
        /\ pc[w] = "flush" =>
            /\ handle[w].record = sent /\ sent > 0
            /\ handle[w].sum = written_bytes + IF handle[w].failed THEN 0 ELSE Size(sent)

\* The log is out of the way before a new one is created, and has not yet the
\* record that is in flight.
NothingInWay ==
    spoiled = {} => \A w \in Writers :
        /\ pc[w] = "create" => Current \notin DOMAIN files
        /\ pc[w] = "flush" => sent \notin Kept

IInv ==
    /\ TypeOK
    /\ Started
    /\ OneWriter
    /\ NamesInv
    /\ OpenLog
    /\ NothingInWay
    /\ NothingLost
    /\ SizeBounded

=============================================================================
