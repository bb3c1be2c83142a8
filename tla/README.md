# MoonMon in TLA+

Specifications of MoonMon, a Windows event monitor: a kernel driver
(`src/MoonMon`, C) observes processes, threads, image loads, object accesses,
the registry, files and the network, decides by rules what to block and what to
report, and queues the reported fields; an agent (`src/cmd/luna`,
`src/pkg/luna`, Go) writes the rules to the registry, reads the queue, puts
events together and logs them as JSON.

`PROJECT.json` lists the parts of the system, the TLC runs, the source lines
behind every definition, the hazards and the theorems. Line numbers below are
those of `src/`.

## 1. The system

| Part | State | Operations | Talks to |
|---|---|---|---|
| Event queue (`Logging.c`, `ReadLogEntry` in `MoonMon.c`) | list `L`, byte counter `L_SIZE_BYTES`, spin lock `LLOCK` | `AddLogEntry` with its purge, `DeleteLogEntry`, `ReadLogEntry` | every callback adds, the agent's `ReadFile` takes |
| Process cache (`Process.c`) | array `NEW_PROCS`, `NEW_PROCS_INDEX`, `PCACHE_LOCK`; per slot `p`, `New`, `InUse`, `PI`, magic | `AddNewProcess`, `GetCachedProcess`, `IsNewProcess`, `RemoveNewProcessStatus`, `PurgeCachedProcess`, startup enumeration | all callbacks, concurrently |
| Rule matching and verdicts (`Inspect*`, `*ListMatch` in seven files) | none; reads the rule lists | one Inspect function per kind of event; block, include, exclude | called by each callback, whose verdict and log entry depend on it |
| Match operators (`Utils.c`) | none | `Check*Entry`: integers, addresses, strings | called by the list matches |
| Driver configuration (`Config.c`) | rule lists and counts, flags | `LoadConfig`, `loadConfigItem`, `loadGlobalSetting`, `UnloadConfig` | reads the registry values the agent wrote |
| Agent configuration (`config.go`, `parse.go`) | rule ids seen, registry values | `LoadConfig`, `processList`, `processGlobalSettings` | writes the registry |
| Network filter setup (`WFP.c`) | registered callouts and filters | `SetupWFP`, `UnregisterWFP` | the filter engine; started by the BFE state callback |
| Driver lifecycle (`Driver.c`, `MoonMon.c`) | `State`, registration handles, `clientpid` | `InitMoonMon`, `registerCallbacks`, `UnregisterMoonMon`, device open and close | kernel, agent |
| Event building (callbacks in `MoonMon.c`) | locals only | collect fields, inspect, log | cache, rules, queue |
| Agent pipeline (`cmd/luna/main.go`) | `worker_count` buffers, wait group `wg`, channel `RawDataChannel`, per worker `logbuffer` | read loop `Luna`, `dataWorker`, `processData` | queue, log output |
| Agent log output (`output.go`) | open file, size, channel `Logs` | `FileOutput`, `RotateOpen` | pipeline, file system |
| Agent enrichment (`hash.go`, `pe.go`) | `HashCache`, `writeIndex` | `SHA256`, `PEEnrich`, SID lookup | called by the workers |
| Message formatting, service control, tests | tables | `StringToMessage`, rendering, Windows service calls | the agent's configuration uses `StringToMessage` |

What is hard about it:

* **Callbacks run concurrently** on whatever thread caused the event. The queue
  has a real lock around its critical sections; the cache has one around its
  searches only, and fills, marks and releases slots without it.
* **Limits**: the queue purges itself at `LIST_SIZE_MAX_BYTES`, the cache array
  wraps, the client's buffer may be too small for the next entry.
* **Reuse**: the kernel reuses process ids; the agent reuses its buffers.
* **Order**: an event is a run of fields ended by `EVENT_END`, and the runs of
  concurrent events interleave in the queue and are cut by the reads.
* **Copies**: nine kinds of events repeat the same decision with differences, and
  eight switches repeat the way from a field to a comparison.
* **Failure**: a callback takes up to a dozen resources and has to give them back
  on every early return and after an exception that a handler takes.
* **Restarts**: the registry outlives the agent, the driver and the reboot; the
  log files outlive the agent; the filtering engine loses what the kernel keeps.

What makes each part correct: the queue accounts for its bytes, is bounded,
loses entries only to a purge or a failed allocation, keeps each thread's order
and is drained; the cache has one entry per process, shown only when it is
complete, and its marks are released; the pipeline never shares a buffer, never
loses an `EVENT_END` and always comes back to read; a decision reports the rule
that made it, and nothing is denied or dropped without one; a rule means what the
documentation says; a callback gives back what it took, reads nothing it has
given back and writes events the agent can put together; the log loses no record
when it rotates.

## 2. Modules

| Module | Models | Notes |
|---|---|---|
| `LogQueue` | `Logging.c`, `ReadLogEntry` | threads, client, lock holder; every loop iteration is a step |
| `LossyChannel` | what `LogQueue` promises | abstract specification, implemented by `LogQueue` |
| `ProcessCache` | `Process.c` 38-240, the callbacks of `MoonMon.c` around it | each unlocked store is a step |
| `EventPipeline` | `main.go` | reader, channel, wait group, workers |
| `Inspect` | `Inspect*`, `*ListMatch`, what callbacks do with the result | one decision per behaviour step sequence, all kinds of events |
| `Match` | `*ListMatch`, `Utils.c`, `StringToMessage`, `makeNewItem` | one condition per step |
| `Callbacks` | the nine callbacks of `MoonMon.c` | one call of one of them |
| `Config` | `config.go`, `Config.c`, the part of `InitMoonMon` around it | agent, registry and driver; one value per step |
| `DriverLifecycle` | `Driver.c`, `registerCallbacks` to `UnregisterMoonMon` of `MoonMon.c`, `WFP.c` 7-593 | two threads, the filtering engine, processes that open the device |
| `FileOutput` | `output.go` | one goroutine per configuration file |
| `LogQueueProofs`, `ProcessCacheProofs`, `EventPipelineProofs`, `InspectProofs`, `CallbacksProofs`, `ConfigProofs`, `DriverLifecycleProofs`, `FileOutputProofs` | - | TLAPS proofs about the module in the name; `InspectProofs` also about `Match` |
| `MC*` | - | constants, symmetry and inputs for TLC |

Operators introduced as "Variant of X" are slightly wrong forms of X (a dropped
guard, a stale value, an off-by-one). They are not part of the specification:
each shows, put in the place of X, that some property notices the difference.

### LogQueue

`L`, `L_SIZE_BYTES`, `LLOCK` and `State` are the fields of `GLOBAL_CONTEXT`.
`pc`, `entry`, `keep_max` are the locals of each thread in `AddLogEntry`; `irp`
is the client's read. An entry is who logged it, that thread's call number and
its size; `CopyMargin` stands for the 12 bytes of the copy loop.
`Allocate`/`AllocateFails` are everything before the lock, `InsertBelowLimit`
the short critical section, `StartPurge`, `PurgeOne`, `InsertAfterPurge` the
long one; `ReadBeforeInit`, `ReadEmpty`, `ReadBadBuffer`, `StartRead`,
`CopyOne`, `PutBack` are the paths of `ReadLogEntry`. The purge jitter
(`KeQueryTickCount` modulo `LIST_PURGE_CONGRUENT`) is a nondeterministic choice.
`received` and `discarded` are history variables.

`LossyChannel` has neither lock nor list: per thread the numbers of the calls
whose entries are on their way and of those lost, and one sequence of what was
delivered. The numbers say which entry is older: a delivery takes a thread's
oldest one, a loss any. The refinement mapping (`Channel` in `LogQueue`) takes a
thread's entries from the list and from the call that has its entry and has not
linked it yet, so `Allocate` is `Send` and `AllocateFails` is `SendLost`; an
insertion, and taking an entry off and putting it back, are stutters, a copy to
the client is `Deliver` and an unlinked entry of a purge is `Lose`.

### ProcessCache

A process is a pid and an incarnation of it, `proc` is the kernel's view of
each pid, and a callback is one of a fixed set of threads with `pc`, the slot it
holds and the information it uses. `NEW_PROCS_INDEX` may become `NEW_PROCS_MAX`,
as in the code (line 74 tests before it advances): `TakeOutside` is that
creation, which the model leaves without effect on the slots. The kernel is
external and modelled by what the callbacks rely on: a pid is not reused while a
callback of its process runs, and the exit callback runs once, after the last
thread. A callback looks up one process; the real ones look up to three, one
after the other, each in this way. `clashed` and `left` are history variables for
the exceptions of `CacheSound`: the slots that were taken while in use or by two
fillers at once, and those the exit callback passed over because they were in use.
In any other slot that can be found is the information of the process that has
the pid now, not only of one with the same pid. `clashed` ends when a slot is
taken again without a clash, so a slot that the index took over from a live
process is not excepted.

### EventPipeline

`Read` returns any nonempty prefix of what the driver holds, so every way of
cutting events over reads is covered. A worker looks at its buffer through the
pointer it was given (`Current` reads `data` as it is now), so a barrier that
opened early would be visible. `Logs` is unbuffered: sending an event is one
step of the worker and of `FileOutput`. `split` is a history variable.

### Inspect

A configuration gives the rule lists of one kind of event, the counts its
Inspect function passes and `KEEP_EXCLUDES`; it is fixed, as rules are loaded
once. An entry is a field and the set of its values it accepts, which abstracts
the operators of `Utils.c`, which `Match` has. `BlockHit`/`BlockMiss`, `IncludeHit`/`IncludeMiss`,
`ExcludeHit`/`ExcludeMiss` are the two outcomes of each list match, `Act` what
the callback does. The kinds differ in `Blocking`, `BlockVerdict`,
`IncludeApplies`, the counts (threads), and `Denied` and `Ends` (objects, image
loads). Process creation evaluates its lists with other control flow but, as
rule ids are never 0 (`config.go`:142), to the same effect. What the kernel does
with a failing status is external.

### Match

The way of a condition from the file to the event: `StringToMessage` encodes the
value, `makeNewItem` puts it in one member of a CFI (`getFieldDataType` says
which), and the switch of one kind of event (`*Cases`) picks the value of the
event, the member and the operator. `CheckNumber`, `CheckIpv4`, `CheckIpv6` and
`CheckUnicodeEntry` return how often an entry counts, since the code increments a
counter. `CheckEntry`, `GroupHit`, `GroupMiss` and `ListMiss` are the two loops.
`DospathToGlobalroot` and `DospathToNtpath` are the agent's translations of a path
on a drive, for the fields of `GlobalrootFields` (image names, the new name of a
file, which get the prefix `\??\`) and of `NtpathFields` (the other names, volumes and
directories of files, which get the name of the device); `AsInEvents` is the
reference for both. `DosDeviceMap` is a constant: `LookupDoSDevicePaths`
(`parse.go`:181) fills it in a goroutine that `main` gives three seconds before
the rules are read (`main.go`:398-402), and the model takes it as it is then. Lengths
are in characters.
Numbers are naturals of `Width` bits, characters are two bytes so that a search by
bytes can be told from one by characters, and addresses are sequences of bytes of
`ByteBits` bits, lowest byte of the number first, so `htonl` reverses them. `collected`
has the values that the rules look at, the process descriptions that were found, and
for the network the layer and direction, on which the byte order depends. `group`,
`entry`, `matches` and `found` are the loop's `i`, `j`, `matches` and `*id`.
`MeansNumber`, `MeansString` and `SamePrefix` are the reference: the table of
`docs/Configuration.md`, written without the code's counters and encodings.
`Regular` names the conditions to which the table applies.

### Callbacks

`call` is what a callback is called for, `Stages` the order of its steps. `held`
counts how often each kind of resource was taken and not given back, `backing`
gives for each field that was found the resource it points into. So reading a
field whose resource is no longer held is visible (`stale`), and so is what is left
at the end (`Balanced`). Lookups, allocations, name queries and the verdict have
any result. An exception (`Fault`) goes where `MM_EXCEPTION_MODE` sends it: to
nobody in the debug build, to the finally block otherwise. `PinActing`,
`PinTarget`, `processInfoInit`, `Refer` and `AddNewProcess` are how the callbacks
get at a description, `ImageName`, `FileName`, `KeyName`, `QueryName`, `CallerName`
and `NetValues` how they get at names, `*Details` what they log in which order,
`Given` their finally blocks. A field is its type and the memory it is in. The
entries of an event are added one at a time (`Detail`, up to `next`), and an
exception may fall between any two of them.

### Config

The agent and the driver share only the registry. `registry` is the sequence of
values in the order the driver enumerates them; a value is identified by its
name, so writing an existing name replaces its data in place (`Stored`).
`agent`, `files`, `Conf`, `ids`, `at`, `item`, `actions` are the program counter,
globals and locals of `LoadConfig`, `processGlobalSettings` and `processList`: a
flag (`WriteFlag`) or a condition (`WriteCondition`) is written per step, so a run
can be broken off between any two values; a `log.Fatal` is the action `Fatal`,
which only stops the agent. `driver`, `index`, `groups`, `settings` are
the loop of the driver's `LoadConfig`, with one action for each way through its
body (`LoadFlag`, `FlagLost`, `SizeQueryFails`, `ItemLost`, `BadData`,
`LoadItem`) and `Goes` for its end. A condition is a model value; the constants
`WithMessage`, `Validated` and `Typed` say which conditions `StringToMessage`,
`ValidateFieldValue` and `getFieldDataType` know. `given`, `runs` and `faults`
are history variables. `Wanted` is the reference: the places of the rules the files
ask for, defined from their contents without following the agent's loops.
`IsCondition` says what the value of a condition is: list, id, condition and the
rule's own action, except for a rule in `LeftOver`, one without an action after one
that has it, whose action the code leaves over. The string values of
the settings only count against `BLOCKLIST_MAX` and are left out.

### DriverLifecycle

The thread `main` runs `DriverEntry` and `DriverUnload`; `notify` is the thread
of the filtering engine (BFE) that runs `BFECallback`. `at` and `kind` are where
`main` is, `registered` the callbacks the kernel knows, `globals` the context.
Both threads can be in `SetupWFP`: `wfp` holds for each its program counter, the
index `i` of `registerCallouts`, whether its session with the engine is still
open, and what its transaction has added. Every call of the engine may fail.
`ULONGs` is the number of values of `i`, so `--i` at 0 gives `ULONGs - 1`, and
`AddNoCallout` is `FwpmCalloutAdd` with an index outside of the array. The flags
`*_CALLBACK` are not in the model: `InitMoonMon` sets them and nothing clears
them. External, as the code relies on it: the engine keeps callouts and filters
until it stops and loses them then; `FwpsCalloutRegister` is a table of the
kernel, which it does not lose; a key is added once; notifications come one at a
time and unsubscribing waits for the one that runs. `faults` and `raced` are
history variables for the exceptions that the properties name.

`clientpid`, `opening`, `files` and `exited` are the connection of the agent, in
any process of `Clients`: the test and the store of `clientpid` in
`MoonMonDispatchCreate` are two steps (`MoonMonDispatchCreate`, `BecomeClient`), a
refused open returns `STATUS_SUCCESS` and leaves a file all the same, every close
resets `clientpid`, and the process callback resets it when the client exits,
before the kernel closes its files.

### FileOutput

A goroutine has a program counter and a `handle`: the position of its writer,
whether its flush has failed (`bufio` then refuses everything until the log is
opened again), the record in its hand and the sum it is about to store in
`written_bytes`, which all goroutines share. A file is the sequence of its
records; names are seconds, so a second rotation in one second replaces the first
one's file. A rename fails when another goroutine has the log open, as Windows
does not rename an open file. The size is tested after a record is written, so
`SizeBounded` says that a file without its last record is within `ROTATE_SIZE`.
`spoiled` is a history variable: what may have cost
a record.

## 3. What TLC checks

| Run | Question | Answer |
|---|---|---|
| `log_queue` | Do counter and bounds hold between any two steps of two logging threads and a reader? Is the queue a lossy first-in first-out channel per thread (`LossyChannel`)? Is it drained? | yes |
| `process_cache` | Under pid reuse and a wrapping index: one slot per pid, the process's own information in what can be found, marks released, `New` removed once? | yes, in slots that were neither taken nor left while in use |
| `pcache_use` | Does the information live as long as a callback uses it? | no: `InUse` is a flag, the first of two users clears it |
| `event_pipeline` | Are buffers never shared, `EVENT_END`s never lost or doubled, unsplit events whole, and everything written? | yes |
| `event_pipeline_loss` | No data loss for an event cut by a read (`main.go`:280)? | no: fields of the earlier buffer are gone |
| `inspect` | Is the first matching rule of the whole lists reported, is nothing denied silently, dropped without an exclude rule, or spared by a block rule? | yes, except thread rules past the count (`PastCount`) and block rules whose action is a success |
| `inspect_object` | Does a block rule with an action reduce an object access? | no: the mask stays 0 |
| `match` | Does a rule of regular conditions match what the documentation says? Does no condition count twice, a lack of memory make up no match, a rule touch no description that is missing? | yes, except the one description `FaultsOnlyInTarget` names |
| `callbacks` | Does every callback give back what it took, read only what it holds, write events that begin and end once, log its denials, and never widen an access? | yes, with the exceptions the properties name |
| `config` | Is what a first run writes exactly what the files ask for, is it all there after later runs, are rules never mixed, is each value loaded once, does loading end? | yes, except the action of a rule in `LeftOver` |
| `lifecycle` | Is there one setup of the network filters at a time, no filter without its functions, nothing left that uses the freed context, a client that has the device open, and does `DriverEntry` end? | yes, with the exceptions the properties name |
| `file_output` | Is every record in some file and in order, are files bounded, are the oldest removed, and do records not wait for ever? | yes, with the causes listed in `spoiled` excepted |

Each module also has a `TypeOK` (`MatchTypeOK` in `Match`); only `log_queue` runs it, and it holds in the
other runs when it is added to their cfg. The exceptions are part of the
properties: `clashed` and `left` (`ProcessCache`), `PastCount` and the success
actions of `BlockDenies` (`Inspect`), `LeftOver` (`Config`), `Unbalanced` and
`HeldWhenRead` (`Callbacks`), `Regular` (`Match`), `raced` and `faults`
(`DriverLifecycle`) and `spoiled` (`FileOutput`) name the lines of the code that
break the general statement, and TLC finds a counterexample when one of them is
left out. What is excepted is not checked: `PROJECT.json` says so at each hazard
it concerns.

What the proofs need beyond the properties, the `IInv` of each module (`LoopInv` in
`Match`, and `WriterInv` of `Config`) with its parts, was checked by TLC in the same way on the instance of the module's run.

**Bounds.** `log_queue`: two threads, two calls each, sizes 1 and 3 against a
limit of 6, a purge target of 3 or 4 and a client buffer of 3: two large entries
fill the list, a purge removes one or two and could empty it, the large entry
just fits an empty buffer and never a used one.
`process_cache`: two slots, two pids, three incarnations each: up to six
processes pass the end of the array and wrap onto used slots, and one comes back
to a slot whose last filling failed. `event_pipeline`:
all interleavings of two events of two fields, and one sequence of three events
with a doubled `EVENT_END`, read in one to seven reads over two buffers.
`inspect`: up to two rules per list, overlapping, with a failing, a successful
and no action, every value of two fields, thread counts 0 to 3.
`config`: two lists, two rule ids, eight configurations with changed, moved and
repeated rules, two files over each other and what the agent refuses; two runs
of the agent, each broken off anywhere, reach every way old and new values can
stand side by side, and a limit of five values cuts off what two runs leave behind.
`match`: every field of every kind of event with two operators, a field that
belongs to another kind, every operator
with every value on one number and one string field, addresses of four bits with
every prefix, two drives of which one is known with paths that are too short and
long enough to be translated, and pairs of rules of one or two conditions; events take every
value the rules can tell apart. `callbacks`: every class of call, every
combination of results, two access rights; one call, as the callbacks share
nothing but the cache and the queue, which have modules of their own.
`file_output`: four records, the third of which fills a file of its own, so that
the log rotates twice and once more after a restart; two writers, three seconds,
one kind of failure at a time.
`lifecycle`: three callouts, so that an index can run back over two that were
added, and an engine that starts up to three times, with `DriverEntry` and the
callback in the setup together, and again while the driver is unloaded; two processes with two files each.
Bounds that cut the model: `MaxRuns`, `MaxStarts`, `MaxCalls`, `MaxBadBuffers`, `MaxIncarnations`,
`MaxFiles`, `MaxFaults`, `LastSecond`, the finite streams. Where they make the system stop, the cfg says
`CHECK_DEADLOCK FALSE`; `log_queue` and `inspect` check deadlock.

**Fairness.** `log_queue`: a thread that holds or waits for `LLOCK` gets to run
(the kernel spins at raised IRQL), and the agent polls for ever
(`main.go`:254-264 repeats `ReadFile` whatever the last one gave). A single weak
fairness per thread is enough because every contender finds the lock free
infinitely often and the number of calls is bounded. `NoEntryStuck` needs the
largest entry to fit the client's buffer (`LogQueue.cfg`: 3 and 3); the driver
accepts larger ones. `event_pipeline`: the Go scheduler runs every goroutine that
can run; receiving is fair only for the workers together. `config`: `DriverEntry`
goes on with the rounds of its loop (`LoadRound`); no failure is counted on to
end it, and nothing is assumed of the agent. `lifecycle`: the two threads go on;
calls of the engine return, with any result, and nothing is assumed of when the
engine starts or stops. `file_output`: the Go scheduler
runs every goroutine (`output.go`:147) and the loop over the configuration files
goes on; nothing is assumed of the clock or of a restart. `match` and `callbacks`
state safety only and assume no fairness.

## 4. What is proved

TLAPS checks these for every value of the constants that satisfies the module's
assumption: any number of threads, workers, callouts, slots, processes and
records, any sizes and limits, any configuration, rules and events. The
assumptions only say what the code gives:

* `LogQueue`: entries have a positive size and the purge target lies below the limit.
* `Inspect`: rule ids are not 0 and lists other than the threads' are scanned to
  their length.
* `EventPipeline`: what the driver logs of an event ends with its `EVENT_END`; there
  are at least two buffers (`main.go`:232-235).
* `ProcessCache`: the array has a slot, the processes that run at startup have pids.
* `DriverLifecycle`: there is a callout, and an index that ran back below 0 is larger
  than any key.
* `FileOutput`: names of the log's files are seconds, those of other programs are not
  among them, and the directory has finitely many of them.
* `Config`: every rule has the form the YAML types give it, `ListOrder` and
  `FlagOrder` name each list and flag, `BLOCKLIST_MAX` is positive.
* `Match`: lower case of a character is one and keeps ASCII apart from NUL, which
  ends a string; numbers have `Width` bits and 0 and 1 are among them; the IPv4
  addresses have one length, the IPv6 addresses have one, and no prefix is longer than
  its address; every rule has a condition (`FamiliesAssumption`); the names of drives,
of devices and the prefix are not empty and ASCII, no drive's name begins another's
and no device's name begins with a drive (`PathAssumption`).
* `Callbacks` needs none.

None of the properties is inductive alone. Each module states the invariant that
is, `IInv`, as a conjunction of named parts, and TLC checked it on the instance of
the module's run before it was proved. The theorem `Invariant` (`Invariance` for
the queue) says that `IInv` always holds; those of the properties follow from it.
`Config` has a second one, `WriterInv`; `Match`'s is `LoopInv` (`LoopInvariance`).

`LogQueueProofs`: `TypeOK`, `Accounting`, `LoopHasEntry`, `SizeBound`,
`PurgeWindow`, and `ReadOutcome` (a read never copies past the client's buffer).
`IInv` adds who is inside the critical section (`LockInv`) and what a thread in
`AddLogEntry` knows (`LocalInv`: a purging thread is above its target), so that a
purging thread that sees more than `keep_max` bytes must have an entry to unlink,
by `Accounting`. "The sizes add up" is stated by running totals (`SumsTo`) instead
of a recursive sum, and four lemmas say how appending, dropping the head and
dropping the tail act on it. `Refinement` proves `ImplementsChannel` step by step.
It rests on `OrderInv`, proved as `OrderKept`: a thread's entries are on the list
in the order of its calls, and the one it is about to link is newer than all of
them. That is why the head of the list is its thread's oldest entry on the way,
and why the tail that a purge takes is one entry of one thread and no more.

`InspectProofs`: `TypeOK`, `Precedence`, `DroppedOnlyByExclude`,
`DeniedIsReported`, `BlockDenies`. `IInv` says after each list what the locals
record: which rule, and that the lists so far that did not match did not. A list match
only looks at the rules within its count; by `InspectAssumption` that is the whole list
except for threads, so the first rule found is the first of the list as the user wrote
it, and a list without one has none, or is in `PastCount`. `BlockDenies` says
that a block rule with a failing action denies; of a success action it says nothing.

`InspectProofs` also has the loop of a list match, of `Match`: `MatchesDocs`,
`MissesOnly`, `CountedOnce`, `FaultsOnlyInTarget`. Most of it is about one entry: a
regular one counts if and only if it holds (`EntryMeans`). For numbers this takes that
the loader fills the member which the switch of each kind of event compares
(`MemberFilled`); for IPv4 that the byte orders of the callback, the agent and the
comparison cancel (`ReverseTwice`, `MaskedWhole`); for strings that a search that
moves by bytes cannot find an ASCII string between two characters, as every second
byte of one is zero and no other is (`ContainsMeans`). The value compared is the
translated path (`TranslationMeans`): the two translations test the drive in upper
case and what is compared is in lower case, so the case of the drive does not matter.
`CountInv` and `EarlierInv`
carry this through the loop: `matches` equals `entry` if and only if the entries so
far hold, and no earlier rule does. Running out of memory breaks one direction of the
first, which is why `MissesOnly` needs rules without negative operators. No entry
counts twice although `NOT_AND` falls through into `EQUALS` (`NumberCounts`): the first
needs different numbers, the second equal ones.

`EventPipelineProofs`: `TypeOK`, `BarrierSafe`, `EndsConserved`, `UnsplitWhole`.
`WgBalance` (a part of `BarrierSafe`) counts what `wg` stands for: the buffers still
to send in this round, those in the channel and those with a worker. It is what
makes `wg.Wait()` return only when every buffer is free. `RefsBelow` and `OneHolder` say that buffers are
handed out in order and held once. `AllWhole` (a buffer, and what the
driver still has, holds all entries of an event that no read cut, or none) and `Collected` (a
logbuffer has what its worker went past) give `UnsplitWhole`. `EndsConserved`
compares two counts for each event, so its proof is mostly lemmas on how the
counts change when a buffer is filled, sent, taken or finished.

`ProcessCacheProofs`: `TypeOK`, `CacheSound`, `PinsReleased`, `NewStatusOnce`.
`JobsFit`, `OneEach` and `PidIsNew` tie where a callback is in the code to what
the kernel calls it for: a process is created once, and from the test of
`AddNewProcess` to its stores no slot has the pid. `SlotsOwned` gives a slot that
was taken without a clash to the callback that fills it, which is what its unlocked
stores rely on. `VisibleIsOwn` compares incarnations: a process cannot go while
its slot can be found, as its exit callback purges it or the slot is in `left`.

`DriverLifecycleProofs`: `TypeOK`, `OneSetup`, `FilterHasFunctions`,
`CleanUnload`, `ClientHasDevice`. The provider is the lock of the setup
(`ProviderHeld`): only the thread that added it goes on. `LoopInv` follows the loop
over callouts, also when its index ran back, and says that what a transaction
will add to the engine is registered with the kernel. `UnloadProgress` lists what
is gone at each step of `DriverUnload`, and `OpeningInv` what a process that is
between the test and the store of `clientpid` still has.

`FileOutputProofs`: `TypeOK`, `NothingLost`, `SizeBounded` and the action property
`RotationRemovesOldest`. `OneWriter` says when one goroutine at most is past
opening the log, `OpenLog` what that one knows of it (position, `written_bytes`, the
record in its hand), `NamesInv` which names the directory can have, and
`NothingInWay` that a log is not created over another and does not have the record
in flight yet. `Surplus` counts the names after each; the lemmas `SurplusOldest` and
`LastToGo` turn that into what is older and how many stay.

`CallbacksProofs`: `TypeOK`, `Balanced`, `HeldWhenRead`, `WellFramed`,
`DenialLogged`, `AccessShrinks`, for any rights and for each of the nine callbacks.
`Untaken`, `Owned` and `Backed` say for every place in a callback what it does not
have yet, what it has and the finally block will give back, and where each field
points. `StatusInv`, `AccessInv` and `LogInv` do the same for the verdict, the
rights of a handle and the entries written so far. An exception leads from any of
these places to the finally block, which is why each has to be described.

`ConfigProofs`: `TypeOK`, `GivenOnly`, `LoadedOnce`, `RegistryAsWanted`. `AgentGiven` and
`RegistryGiven` carry "the user wrote this for that rule" from the files through
the agent to the values, whichever runs are broken off. The second one also says
that a value under a rule's name has that rule's id in its data, so a value that
is replaced never mixes two rules. `LoadingInv` keeps the registry still while the
driver loads, so what `LoadedOnce` says of the values read stays true of them.
`RegistryAsWanted` needs a second invariant, `WriterInv`. `PlaceInv` says that `Conf`
has each list as the last file up to the current one has it, and `IdsInv` that `ids`
are the ids of the rules the agent has passed, so a rule is begun exactly if it
is the first with its id (`InsideInv`). `Done` counts the conditions of each
wanted rule that the agent is past; `WrittenInv` says that each of them has its
value, `FreshInv` that in the first run there is no other and that they are in
order. A step either moves the agent and leaves `Done` alone, or writes one value;
that one replaces no value of this run because the names of a rule's values are
numbered (`item`) and rules that are wanted differ in their id. `WriterInv` follows the
action the code writes (`ActionOf`, `IsWritten`), which `OwnAction` proves to be the
rule's own outside of `LeftOver`, and `WrittenIsWanted` concludes. The reference has
no recursion: the places in the files are ordered, and the last file that has a
list, or the last rule with an action, is the greatest number of a bounded set,
which exists by well-founded induction on the numbers (`Least`, `Greatest`).

Only model-checked, and why:

* Liveness (`NoEntryStuck`, `AllWritten`, `LoadEnds`, `EntryEnds`, `Drains`), which
  needs fairness and `ENABLED`.
* The three runs that expect a violation state what the code does not do.

## 5. Not modelled, and the plan

Not modelled: the wording of fields and log lines, Windows service control, PE
parsing and hashing, the test programs.

Observed while modelling and not stated by a run of its own:

*Queue.* The purge unlinks `L.Blink`, the newest entry (`Logging.c`:141), although
the comments at lines 39 and 126 speak of the oldest.

*Cache.* `PurgeCachedProcess` leaves an entry that
is in use when its process exits (`Process.c`:140); `AddNewProcess` can take a
slot that is in use (the `continue` at line 83 leaves the do-while) and can
index one past the array (line 74); processes cached at startup count as new,
so their next thread is not inspected (line 113). The startup
enumeration stops at the first process it terminates (`MoonMon.c`:115).

*Rules.* The thread lists are scanned as far as the process termination lists are
long (`Thread.c`:153). An action such as `pending`
is a successful status and makes a block rule that blocks nothing (`MoonMon.c`:1490),
although block lists are documented to block (`docs/Configuration.md`:50). `NOT_AND` has
no break, and `notlessthan` and `notgreaterthan` are `>` and `<`
(`Utils.c`:190-209), unlike the table in `docs/Configuration.md`:100-116. A
direction is stored in one member and compared with another (`WFP.c`:664), so a
rule on it never matches; the operator of an address is not used; prefixes that
end inside a byte compare the wrong bits (`Utils.c`:503, `parse.go`:43). Strings
are searched by bytes, so characters outside ASCII can match halves of others. A path
shorter than the name of its device is not translated (`parse.go`:234), so a volume `C:`
or a directory `C:\`, the example of the comment above it (223), never equals what the
driver sees. A
`FILE_DELETION` condition is compared with the number of
matches so far (`FS.c`:263), but the agent refuses every value of it.

*Callbacks.* References from `PsLookupProcessByProcessId` are never given back.
The parts of a file name are read after `FltReleaseFileNameInformation`
(`MoonMon.c`:1468, 1793), and the description of a new process after the cache took
it (234-275). The image callback destroys a string on its stack when it has no
name (630), ends its event twice and ends one that it never began (619). A handled
exception makes the registry callback release a name twice (997).
`SidLookup` keeps what it has when it returns early (`Utils.c`:801).

*Configuration.* A `*_monitoring:
false` has no effect: `InitMoonMon` sets these flags to TRUE, the agent writes
only those that are true and the driver never clears one. Values are never
removed from the registry: a deleted rule, or the last conditions of a rule that
got shorter, stay in force, and `actions` of old and new values are combined
(`Config.c`:366). A group is not compared with `CONFIG_GROUP_MAX` when it grows
(line 365), a failed size query also skips the next value (line 943), and
`makeNewItem` and its caller both free the item when memory runs out (lines 740,
1017), which the model shows as a value that is skipped (`ItemLost`).
A rule without an action is written with that of the rule before it in its list
(`config.go`:161), and a condition on a field that the agent knows and
`getFieldDataType` does not, such as `REGISTRY_DATA`, is dropped from its rule
(`Config.c`:1010), although all conditions of a rule are meant to count
(`config.go`:92).

*Lifecycle.* `UnregisterWFP` runs before the driver unsubscribes from the
engine (`MoonMon.c`:2624), so an engine that starts in between gets filters
whose functions are then removed; without the exception `raced`,
`FilterHasFunctions` fails. `UnregisterCallouts` leaves the functions registered
when it cannot open the engine (`WFP.c`:11). After a failed `FwpsCalloutRegister`
`--i` is followed by the addition of `callouts[i]` (`WFP.c`:269); after a restart
of the engine the functions are still registered, so the first registration of
`BFECallback` fails and its index leaves the array. When `DriverEntry` fails,
neither the device nor the callbacks registered so far are removed. Any close
resets `clientpid` (`MoonMon.c`:2797), so a second process can become the client
while the first one has the device open.

*Log output.* Two configuration files may start two writers (`output.go`:86). A
log that cannot be renamed is truncated (31), and one that is rotated twice in a
second replaces the first (29). `FILE_OUTPUT` always has an entry in `Settings`, so
the branch for a missing one is never taken and an empty name ends the agent (96).
Files of other programs in the directory that match `*_*` are counted and removed
(43). The log itself matches when its name has an underscore; it was just renamed
then, so it is in the listing only if another writer opened it again in between, which
the model leaves out.

Plan, in order:

1. `HashCache`: the cache of `hash.go` under several workers.
2. A composition of `LossyChannel` and `EventPipeline`: a thread's fields to the
   event in the log.
