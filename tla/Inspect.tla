------------------------------- MODULE Inspect -------------------------------
(***************************************************************************)
(* How the driver decides about one event: the Inspect* functions with the *)
(* *ListMatch functions they call, and what the callback then does with    *)
(* the verdict, skip_logging and match_id.                                 *)
(*                                                                         *)
(* Nine kinds of events have their own copy of this code; the copies       *)
(* differ in the lists they have, in what a block rule's action means and  *)
(* in the counts they pass to the list match.  The rule lists do not       *)
(* change while the driver runs, so a configuration is chosen initially.   *)
(*                                                                         *)
(* An entry (CFI) of a rule (CONFIG_GROUP) is a field and the set of its   *)
(* values that the operator and operand accept.  An event gives a value to *)
(* each field; Absent stands for one that the callback could not collect   *)
(* or that this kind of event does not have, which no entry accepts.       *)
(* FILE_DELETION of a file_set event is left out: its entry looks at the   *)
(* number of matches before it and not at the event.                       *)
(***************************************************************************)
EXTENDS Naturals, Sequences

CONSTANTS
    Fields,         \* field types of the entries
    Values,         \* values of a field
    Absent,         \* a field without a value
    RuleIds,        \* rule ids; the agent refuses 0
    Zero,           \* 0: no action, STATUS_SUCCESS, an untouched mask
    ACCESS_DENIED,  \* STATUS_ACCESS_DENIED
    NO_ACCESS,      \* the mask (ULONG) -1
    Failures,       \* other actions, whose status is an error
    Successes,      \* actions whose status counts as a success
    Configs         \* configurations of one kind of event

AllKinds == {"process", "terminated", "thread", "image", "object",
             "registry", "file_create", "file_set", "network"}

\* The kinds whose Inspect function looks at a block list.
Blocking == {"process", "object", "registry", "file_create", "file_set"}

Lists == {"block", "include", "exclude"}
Actions == {Zero, ACCESS_DENIED} \cup Failures \cup Successes

Entries == [field : Fields, accept : SUBSET Values]
Rules == [id : RuleIds, actions : Actions, entries : Seq(Entries)]
Configurations == [kind : AllKinds, lists : [Lists -> Seq(Rules)],
                   counts : [Lists -> Nat], KEEP_EXCLUDES : BOOLEAN]
Events == [Fields -> Values \cup {Absent}]

\* counts is what the Inspect function takes for the length of each list:
\* InspectThreadCreation passes PTINC_COUNT and PTEXC_COUNT, the lengths of
\* the process termination lists, which can be anything.
ASSUME InspectAssumption ==
    /\ Absent \notin Values
    /\ RuleIds \subseteq Nat \ {0}
    /\ NO_ACCESS \notin Actions
    /\ Zero \notin {ACCESS_DENIED} \cup Failures \cup Successes
    /\ (Failures \cup {ACCESS_DENIED}) \cap Successes = {}
    /\ Configs \subseteq Configurations
    /\ \A c \in Configs :
        /\ c.kind \notin Blocking => c.lists["block"] = <<>>
        /\ c.kind # "thread" => \A l \in Lists :
                                    c.counts[l] = Len(c.lists[l])

VARIABLES
    config,        \* the configuration, fixed when the driver loads
    event,         \* what the callback collected
    stage,         \* where the callback is
    verdict,       \* the status (the mask, for an object access)
    match_id,      \* the rule reported with the event
    skip_logging,  \* the exclude list had a hit
    outcome        \* what happened: denied, logged, and EVENT_ENDs written

localVars == <<verdict, match_id, skip_logging>>
vars == <<config, event, stage, localVars, outcome>>

NoOutcome == [denied |-> FALSE, logged |-> FALSE, ends |-> 0]

Init ==
    /\ config \in Configs
    /\ event = [f \in Fields |-> Absent]
    /\ stage = "start"
    /\ verdict = Zero
    /\ match_id = 0
    /\ skip_logging = FALSE
    /\ outcome = NoOutcome

-----------------------------------------------------------------------------
(* The *ListMatch functions.                                               *)

\* The loop stops at the count or at the first pointer that is no group.
InScope(l) ==
    {i \in 1..Len(config.lists[l]) : i <= config.counts[l]}

Rule(l, i) == config.lists[l][i]

\* All entries of the rule count: matches >= count.
Accepts(l, i) ==
    \A j \in 1..Len(Rule(l, i).entries) :
        event[Rule(l, i).entries[j].field] \in Rule(l, i).entries[j].accept

\* Variant of Hit: the scan goes on after a match, the last rule wins.
HitLast(l, i) ==
    /\ i \in InScope(l)
    /\ Accepts(l, i)
    /\ \A j \in InScope(l) : j > i => ~Accepts(l, j)

\* The list match returns TRUE with the id and actions of rule i.
Hit(l, i) ==
    /\ i \in InScope(l)
    /\ Accepts(l, i)
    /\ \A j \in InScope(l) : j < i => ~Accepts(l, j)

\* The list match returns FALSE.
Miss(l) == \A i \in InScope(l) : ~Accepts(l, i)

-----------------------------------------------------------------------------
(* The Inspect functions.                                                  *)

\* A callback has collected an event and calls its Inspect function.
Callback(e) ==
    /\ stage \in {"start", "done"}
    /\ stage' = "block"
    /\ event' = e
    /\ verdict' = Zero
    /\ match_id' = 0
    /\ skip_logging' = FALSE
    /\ outcome' = NoOutcome
    /\ UNCHANGED config

\* Variant of BlockVerdict: the action is not looked at for a default.
BlockVerdictRaw(actions) == actions

\* What a matching block rule makes of the verdict.  For an object access
\* only a rule without an action has an effect.
BlockVerdict(actions) ==
    IF config.kind = "object"
    THEN IF actions = Zero THEN NO_ACCESS ELSE Zero
    ELSE IF actions = Zero THEN ACCESS_DENIED ELSE actions

BlockHit ==
    /\ stage = "block"
    /\ \E i \in InScope("block") :
        /\ Hit("block", i)
        /\ match_id' = Rule("block", i).id
        /\ verdict' = BlockVerdict(Rule("block", i).actions)
    /\ stage' = "include"
    /\ UNCHANGED <<config, event, skip_logging, outcome>>

BlockMiss ==
    /\ stage = "block"
    /\ Miss("block")
    /\ stage' = "include"
    /\ UNCHANGED <<config, event, localVars, outcome>>

\* A blocked object access does not get to the include list.
IncludeApplies == config.kind = "object" => verdict = Zero

\* Variant of ReportFirst: a later rule replaces the id.
ReportLast(id) == match_id' = id

\* if (*match_id == 0) *match_id = id
ReportFirst(id) == match_id' = IF match_id = 0 THEN id ELSE match_id

\* The exclude list is not processed.  For an object access the include
\* rule's actions are returned as the mask.
IncludeHit ==
    /\ stage = "include"
    /\ IncludeApplies
    /\ \E i \in InScope("include") :
        /\ Hit("include", i)
        /\ ReportFirst(Rule("include", i).id)
        /\ verdict' = IF config.kind = "object" THEN Rule("include", i).actions
                      ELSE verdict
    /\ stage' = "act"
    /\ UNCHANGED <<config, event, skip_logging, outcome>>

IncludeMiss ==
    /\ stage = "include"
    /\ IncludeApplies => Miss("include")
    /\ stage' = "exclude"
    /\ UNCHANGED <<config, event, localVars, outcome>>

\* Variant of ExcludeApplies: a rule that matched already is not looked at.
ExcludeAlways == TRUE

\* The exclude list is for events that no other rule matched.
ExcludeApplies == match_id = 0

ExcludeHit ==
    /\ stage = "exclude"
    /\ ExcludeApplies
    /\ \E i \in InScope("exclude") :
        /\ Hit("exclude", i)
        /\ match_id' = Rule("exclude", i).id
    /\ skip_logging' = TRUE
    /\ stage' = "act"
    /\ UNCHANGED <<config, event, verdict, outcome>>

ExcludeMiss ==
    /\ stage = "exclude"
    /\ ExcludeApplies => Miss("exclude")
    /\ stage' = "act"
    /\ UNCHANGED <<config, event, localVars, outcome>>

-----------------------------------------------------------------------------
(* The callback after the inspection.                                      *)

NT_SUCCESS(status) == status \in {Zero} \cup Successes

\* An object access is masked, the others fail with an error status; the
\* kinds without a block list only report.
Denied ==
    IF config.kind = "object" THEN verdict # Zero ELSE ~NT_SUCCESS(verdict)

Logged == skip_logging = FALSE \/ config.KEEP_EXCLUDES

\* The EVENT_ENDs written for the event; the image load callback writes one
\* more after the test on skip_logging.
Ends == (IF Logged THEN 1 ELSE 0) + (IF config.kind = "image" THEN 1 ELSE 0)

Act ==
    /\ stage = "act"
    /\ outcome' = [denied |-> Denied, logged |-> Logged, ends |-> Ends]
    /\ stage' = "done"
    /\ UNCHANGED <<config, event, localVars>>

-----------------------------------------------------------------------------
InspectEvent ==
    \/ BlockHit \/ BlockMiss
    \/ IncludeHit \/ IncludeMiss
    \/ ExcludeHit \/ ExcludeMiss

Next == (\E e \in Events : Callback(e)) \/ InspectEvent \/ Act

Spec == Init /\ [][Next]_vars

-----------------------------------------------------------------------------
(* Properties.                                                             *)

Masks == {Zero, NO_ACCESS} \cup Actions
Statuses == Actions

\* Every variable stays in its type; statuses and masks are not mixed up.
TypeOK ==
    /\ config \in Configurations
    /\ event \in Events
    /\ stage \in {"start", "block", "include", "exclude", "act", "done"}
    /\ verdict \in IF config.kind = "object" THEN Masks ELSE Statuses
    /\ match_id \in RuleIds \cup {0}
    /\ skip_logging \in BOOLEAN
    /\ outcome \in [denied : BOOLEAN, logged : BOOLEAN, ends : 0..2]

Done == stage = "done"

\* Rule i is the first of the whole list l, whatever its count, that accepts
\* the event.
All(l) == 1..Len(config.lists[l])

First(l, i) ==
    /\ i \in All(l)
    /\ Accepts(l, i)
    /\ \A j \in All(l) : Accepts(l, j) => i <= j

FirstOf(l, id) == \E i \in All(l) : First(l, i) /\ Rule(l, i).id = id

\* The rules of the list that accept a thread event all lie past the count
\* that InspectThreadCreation passes, which is the length of another list
\* (Thread.c:153): the list match does not come to them.
PastCount(l) ==
    /\ config.kind = "thread"
    /\ Miss(l)
    /\ \E i \in All(l) : Accepts(l, i)

NoneOf(l) == PastCount(l) \/ \A i \in All(l) : ~Accepts(l, i)

\* The rule reported with an event is the first one that accepts it, of the
\* block list before the include list before the exclude list, or none:
\* later lists never replace what an earlier one found.  The lists count as
\* the user wrote them, in their whole length, in every copy of the code;
\* the one exception is the thread rules of PastCount.
Precedence ==
    Done =>
        \/ FirstOf("block", match_id)
        \/ NoneOf("block") /\ FirstOf("include", match_id)
        \/ NoneOf("block") /\ NoneOf("include") /\ FirstOf("exclude", match_id)
        \/ match_id = 0 /\ \A l \in Lists : NoneOf(l)

\* An event is left out of the log only for a reason the user can find in the
\* rules: some exclude rule accepts it, no block rule does, no include rule
\* that was looked at does, nothing was denied and KEEP_EXCLUDES is off.
DroppedOnlyByExclude ==
    Done /\ ~outcome.logged =>
        /\ ~config.KEEP_EXCLUDES
        /\ ~outcome.denied
        /\ FirstOf("exclude", match_id)
        /\ Miss("block") /\ Miss("include")

\* Nothing is denied silently: it is logged with the id of a rule of the
\* block list, or for an object access of the include list, and only the
\* kinds with a block list are ever denied.
DeniedIsReported ==
    Done /\ outcome.denied =>
        /\ outcome.logged
        /\ config.kind \in Blocking
        /\ \/ FirstOf("block", match_id)
           \/ config.kind = "object" /\ FirstOf("include", match_id)

\* Outside object accesses the first block rule that accepts an event denies
\* it, with or without an action, and include and exclude rules do not get in
\* its way.  Nothing is said of a rule whose action is a status that counts as
\* a success, such as the documented "pending": the callbacks do not deny for
\* it (MoonMon.c:1490), although a block list is documented to block
\* (docs/Configuration.md:50).
BlockDenies ==
    Done /\ config.kind # "object" =>
        \A i \in All("block") :
            First("block", i) /\ Rule("block", i).actions \notin Successes
                => outcome.denied

\* What is known after the block list, and after the last list.
AfterBlock ==
    \/ Miss("block") /\ match_id = 0 /\ verdict = Zero
    \/ \E i \in All("block") :
        /\ First("block", i)
        /\ match_id = Rule("block", i).id
        /\ verdict = BlockVerdict(Rule("block", i).actions)

AfterInspection ==
    \/ /\ \E i \in All("block") :
            /\ First("block", i)
            /\ match_id = Rule("block", i).id
            /\ config.kind # "object" =>
                    verdict = BlockVerdict(Rule("block", i).actions)
       /\ skip_logging = FALSE
    \/ /\ Miss("block") /\ FirstOf("include", match_id)
       /\ config.kind # "object" => verdict = Zero
       /\ skip_logging = FALSE
    \/ /\ Miss("block") /\ Miss("include") /\ FirstOf("exclude", match_id)
       /\ verdict = Zero
       /\ skip_logging = TRUE
    \/ /\ match_id = 0 /\ \A l \in Lists : Miss(l)
       /\ verdict = Zero
       /\ skip_logging = FALSE

\* The inductive invariant behind the properties above: after each list, the
\* locals record what the lists so far have found and nothing else.
IInv ==
    /\ TypeOK
    /\ config \in Configs
    /\ stage = "block" => match_id = 0 /\ verdict = Zero
    /\ stage \in {"include", "exclude"} => AfterBlock
    /\ stage \in {"block", "include", "exclude"} => skip_logging = FALSE
    /\ stage = "exclude" => (IncludeApplies => Miss("include"))
    /\ stage \in {"act", "done"} => AfterInspection
    /\ Done => outcome = [denied |-> Denied, logged |-> Logged, ends |-> Ends]

\* Comment of InspectObjectAccessEvent: a matching block rule's action value
\* "is returned as the value for clearing the desired access mask".
ObjectBlockDenies ==
    Done /\ config.kind = "object" /\ ~Miss("block") => outcome.denied

=============================================================================
