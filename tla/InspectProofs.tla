---------------------------- MODULE InspectProofs ----------------------------
(***************************************************************************)
(* Proofs of the safety properties of Inspect for every configuration,     *)
(* every kind of event and every event, and of those of Match, the loop of *)
(* a list match, for rules and events of any size.                         *)
(***************************************************************************)
EXTENDS Inspect, Match, TLAPS

-----------------------------------------------------------------------------
(* The list match.                                                         *)

\* The indexes in scope are those of rules of the list, the first ones.
LEMMA AllTyped ==
    ASSUME config \in Configurations, NEW l \in Lists, NEW i \in All(l)
    PROVE  /\ i \in Nat
           /\ Rule(l, i) \in Rules
           /\ Rule(l, i).id \in RuleIds
           /\ Rule(l, i).actions \in Actions
<1>1. config.lists[l] \in Seq(Rules)
    BY DEF Configurations
<1>2. i \in 1..Len(config.lists[l])
    BY DEF All
<1>3. Rule(l, i) \in Rules
    BY <1>1, <1>2 DEF Rule
<1> QED
    BY <1>1, <1>2, <1>3 DEF Rules

LEMMA InScopeIsPrefix ==
    ASSUME config \in Configurations, NEW l \in Lists
    PROVE  /\ InScope(l) \subseteq All(l)
           /\ \A i \in InScope(l), j \in All(l) : j <= i => j \in InScope(l)
<1>1. config.counts[l] \in Nat /\ Len(config.lists[l]) \in Nat
    BY DEF Configurations
<1> QED
    BY <1>1 DEF InScope, All

\* A list match that returns TRUE returns the first rule of the whole list
\* that accepts.
LEMMA HitIsFirst ==
    ASSUME config \in Configurations, NEW l \in Lists, NEW i \in InScope(l),
           Hit(l, i)
    PROVE  i \in All(l) /\ First(l, i)
<1>1. i \in All(l) /\ i \in Nat /\ \A j \in All(l) : j \in Nat
    BY AllTyped, InScopeIsPrefix
<1>2. ASSUME NEW j \in All(l), Accepts(l, j)
      PROVE  i <= j
    <2>1. j \in InScope(l) => ~(j < i)
        BY <1>2 DEF Hit
    <2>2. j \notin InScope(l) => ~(j <= i)
        BY <1>2, InScopeIsPrefix
    <2> QED
        BY <2>1, <2>2, <1>1
<1> QED
    BY <1>1, <1>2 DEF Hit, First

\* There is at most one first rule.
LEMMA FirstUnique ==
    ASSUME config \in Configurations, NEW l \in Lists,
           NEW i \in All(l), First(l, i)
    PROVE  \A j \in All(l) : First(l, j) => j = i
<1>1. \A j \in All(l) : j \in Nat
    BY AllTyped
<1>2. ASSUME NEW j \in All(l), First(l, j)
      PROVE  j = i
    <2>1. i <= j /\ j <= i
        BY <1>2 DEF First
    <2> QED
        BY <2>1, <1>1
<1> QED
    BY <1>2

\* A list match that returns FALSE has looked at the whole list, or it is that
\* of a thread event and the rules it left out come after the count.
LEMMA MissIsNone ==
    ASSUME config \in Configs, NEW l \in Lists, Miss(l)
    PROVE  /\ NoneOf(l)
           /\ l = "block" => \A i \in All(l) : ~Accepts(l, i)
<1>1. config \in Configurations
    BY InspectAssumption
<1>2. CASE config.kind # "thread"
    <2>1. config.counts[l] = Len(config.lists[l])
        BY <1>2, InspectAssumption
    <2>2. InScope(l) = All(l)
        BY <1>1, <2>1 DEF InScope, All, Configurations
    <2> QED
        BY <2>2 DEF Miss, NoneOf
<1>3. CASE config.kind = "thread" /\ l = "block"
    <2>1. config.lists[l] = <<>>
        BY <1>3, InspectAssumption DEF Blocking
    <2>2. All(l) = {}
        BY <2>1 DEF All
    <2> QED
        BY <2>2 DEF NoneOf
<1>4. CASE config.kind = "thread" /\ l # "block"
    BY <1>4 DEF NoneOf, PastCount
<1> QED
    BY <1>2, <1>3, <1>4

\* Kinds of events without a block list never have a block rule.
LEMMA BlockKinds ==
    ASSUME config \in Configs, NEW i \in All("block")
    PROVE  config.kind \in Blocking
<1>1. config.kind \notin Blocking => config.lists["block"] = <<>>
    BY InspectAssumption
<1>2. config.lists["block"] # <<>>
    BY DEF All
<1> QED
    BY <1>1, <1>2

-----------------------------------------------------------------------------
(* The inductive invariant.                                                *)

\* The locals are well typed and the invariant holds before any event.
LEMMA Initial == Init => IInv
<1> SUFFICES ASSUME Init PROVE IInv
    OBVIOUS
<1>1. config \in Configurations /\ config \in Configs
    BY InspectAssumption DEF Init
<1>2. event \in Events
    BY DEF Init, Events
<1>3. verdict \in IF config.kind = "object" THEN Masks ELSE Statuses
    BY DEF Init, Masks, Statuses, Actions
<1>4. outcome \in [denied : BOOLEAN, logged : BOOLEAN, ends : 0..2]
    BY DEF Init, NoOutcome
<1>5. TypeOK
    BY <1>1, <1>2, <1>3, <1>4 DEF Init, TypeOK
<1> QED
    BY <1>1, <1>5 DEF Init, IInv, Done

\* What the lists contain and accept depends on config and event only.
LEMMA SameLists ==
    ASSUME UNCHANGED <<config, event>>
    PROVE  /\ \A l : InScope(l)' = InScope(l) /\ All(l)' = All(l)
           /\ \A l : Miss(l)' = Miss(l)
           /\ \A l, i : First(l, i)' = First(l, i)
           /\ \A l, i : Rule(l, i)' = Rule(l, i)
           /\ \A a : BlockVerdict(a)' = BlockVerdict(a)
BY DEF InScope, All, Miss, First, Rule, Accepts, BlockVerdict

\* A new event: nothing is known about it yet.
LEMMA CallbackStep ==
    ASSUME IInv, NEW e \in Events, Callback(e)
    PROVE  IInv'
<1>1. /\ UNCHANGED config /\ event' = e /\ stage' = "block"
      /\ verdict' = Zero /\ match_id' = 0 /\ skip_logging' = FALSE
      /\ outcome' = NoOutcome
    BY DEF Callback
<1>2. verdict' \in IF config'.kind = "object" THEN Masks ELSE Statuses
    BY <1>1 DEF Masks, Statuses, Actions
<1>3. outcome' \in [denied : BOOLEAN, logged : BOOLEAN, ends : 0..2]
    BY <1>1 DEF NoOutcome
<1>4. TypeOK'
    BY <1>1, <1>2, <1>3 DEF IInv, TypeOK
<1> QED
    BY <1>1, <1>4 DEF IInv, Done

\* What a block rule makes of the verdict has the type of a verdict.
LEMMA BlockVerdictTyped ==
    ASSUME NEW a \in Actions
    PROVE  BlockVerdict(a) \in
                IF config.kind = "object" THEN Masks ELSE Statuses
BY DEF BlockVerdict, Masks, Statuses, Actions

\* The block list has a match: match_id and verdict record its first rule.
LEMMA BlockHitStep ==
    ASSUME IInv, BlockHit
    PROVE  IInv'
<1>1. UNCHANGED <<config, event>> /\ config \in Configurations
    BY DEF BlockHit, IInv, TypeOK
<1>2. PICK i \in InScope("block") :
        /\ Hit("block", i)
        /\ match_id' = Rule("block", i).id
        /\ verdict' = BlockVerdict(Rule("block", i).actions)
    BY DEF BlockHit
<1>3. /\ First("block", i) /\ i \in All("block")
      /\ match_id' \in RuleIds
      /\ Rule("block", i).actions \in Actions
    BY <1>1, <1>2, HitIsFirst, AllTyped DEF Lists
<1>4. verdict' \in IF config'.kind = "object" THEN Masks ELSE Statuses
    BY <1>1, <1>2, <1>3, BlockVerdictTyped
<1>5. TypeOK'
    BY <1>1, <1>3, <1>4 DEF IInv, TypeOK, BlockHit
<1>6. AfterBlock'
    BY <1>1, <1>2, <1>3, SameLists DEF AfterBlock
<1> QED
    BY <1>1, <1>5, <1>6 DEF IInv, BlockHit, Done

\* The block list has no match.
LEMMA BlockMissStep ==
    ASSUME IInv, BlockMiss
    PROVE  IInv'
<1>1. UNCHANGED <<config, event, localVars>> /\ Miss("block")
    BY DEF BlockMiss
<1>2. match_id = 0 /\ verdict = Zero
    BY DEF BlockMiss, IInv
<1>3. TypeOK'
    BY <1>1 DEF IInv, TypeOK, BlockMiss, localVars
<1>4. AfterBlock'
    BY <1>1, <1>2, SameLists DEF AfterBlock, localVars
<1> QED
    BY <1>1, <1>3, <1>4 DEF IInv, BlockMiss, Done, localVars

\* The include list has a match: the event is kept, and only if the block
\* list had none is the include rule reported.
LEMMA IncludeHitStep ==
    ASSUME IInv, IncludeHit
    PROVE  IInv'
<1>1. /\ UNCHANGED <<config, event, skip_logging>>
      /\ config \in Configurations
      /\ AfterBlock
      /\ skip_logging = FALSE
    BY DEF IncludeHit, IInv, TypeOK
<1>2. PICK i \in InScope("include") :
        /\ Hit("include", i)
        /\ match_id' = IF match_id = 0 THEN Rule("include", i).id ELSE match_id
        /\ verdict' = IF config.kind = "object" THEN Rule("include", i).actions
                      ELSE verdict
    BY DEF IncludeHit, ReportFirst
<1>3. /\ First("include", i) /\ i \in All("include")
      /\ Rule("include", i).id \in RuleIds
      /\ Rule("include", i).actions \in Actions
    BY <1>1, <1>2, HitIsFirst, AllTyped DEF Lists
<1>4. TypeOK'
    BY <1>1, <1>2, <1>3 DEF IInv, TypeOK, IncludeHit, Masks
<1>5. AfterInspection'
    <2>1. CASE Miss("block") /\ match_id = 0 /\ verdict = Zero
        <3>1. FirstOf("include", match_id)'
            BY <1>1, <1>2, <1>3, <2>1, SameLists DEF FirstOf
        <3>2. Miss("block")'
            BY <1>1, <2>1, SameLists
        <3>3. config'.kind # "object" => verdict' = Zero
            BY <1>1, <1>2, <2>1
        <3> QED
            BY <1>1, <3>1, <3>2, <3>3 DEF AfterInspection
    <2>2. ASSUME NEW k \in All("block"), First("block", k),
                 match_id = Rule("block", k).id,
                 verdict = BlockVerdict(Rule("block", k).actions)
          PROVE  AfterInspection'
        <3>1. match_id # 0
            BY <1>1, <2>2, AllTyped, InspectAssumption DEF Lists
        <3>2. match_id' = match_id
            BY <1>2, <3>1
        <3>3. config'.kind # "object" => verdict' = verdict
            BY <1>1, <1>2
        <3>4. /\ k \in All("block")'
              /\ First("block", k)'
              /\ match_id' = Rule("block", k)'.id
              /\ config'.kind # "object" =>
                    verdict' = BlockVerdict(Rule("block", k).actions)'
            BY <1>1, <2>2, <3>2, <3>3, SameLists
        <3> QED
            BY <1>1, <3>4 DEF AfterInspection
    <2> QED
        BY <1>1, <2>1, <2>2 DEF AfterBlock
<1> QED
    BY <1>1, <1>4, <1>5 DEF IInv, IncludeHit, Done

\* The include list has no match, or is not looked at.
LEMMA IncludeMissStep ==
    ASSUME IInv, IncludeMiss
    PROVE  IInv'
<1>1. UNCHANGED <<config, event, localVars>> /\ AfterBlock
    BY DEF IncludeMiss, IInv
<1>2. TypeOK'
    BY <1>1 DEF IInv, TypeOK, IncludeMiss, localVars
<1>3. AfterBlock'
    BY <1>1, SameLists DEF AfterBlock, localVars
<1>4. IncludeApplies' => Miss("include")'
    BY <1>1, SameLists DEF IncludeMiss, IncludeApplies, localVars
<1> QED
    BY <1>1, <1>2, <1>3, <1>4 DEF IInv, IncludeMiss, Done, localVars

\* The exclude list has a match: no other rule matched, the event is skipped.
LEMMA ExcludeHitStep ==
    ASSUME IInv, ExcludeHit
    PROVE  IInv'
<1>1. /\ UNCHANGED <<config, event, verdict, outcome>>
      /\ config \in Configurations
      /\ AfterBlock
      /\ match_id = 0
      /\ IncludeApplies => Miss("include")
    BY DEF ExcludeHit, ExcludeApplies, IInv, TypeOK
<1>2. PICK i \in InScope("exclude") :
        /\ Hit("exclude", i)
        /\ match_id' = Rule("exclude", i).id
    BY DEF ExcludeHit
<1>3. First("exclude", i) /\ i \in All("exclude") /\ match_id' \in RuleIds
    BY <1>1, <1>2, HitIsFirst, AllTyped DEF Lists
<1>4. Miss("block") /\ verdict = Zero
    <2>1. ASSUME NEW k \in All("block")
          PROVE  match_id # Rule("block", k).id
        BY <1>1, AllTyped, InspectAssumption DEF Lists
    <2> QED
        BY <1>1, <2>1 DEF AfterBlock
<1>5. Miss("include")
    BY <1>1, <1>4 DEF IncludeApplies
<1>6. TypeOK'
    BY <1>1, <1>3 DEF IInv, TypeOK, ExcludeHit
<1>7. FirstOf("exclude", match_id)'
    BY <1>1, <1>2, <1>3, SameLists DEF FirstOf
<1>8. Miss("block")' /\ Miss("include")'
    BY <1>1, <1>4, <1>5, SameLists
<1>9. AfterInspection'
    BY <1>1, <1>4, <1>7, <1>8 DEF AfterInspection, ExcludeHit
<1> QED
    BY <1>1, <1>6, <1>9 DEF IInv, ExcludeHit, Done

\* The exclude list has no match, or is not looked at.
LEMMA ExcludeMissStep ==
    ASSUME IInv, ExcludeMiss
    PROVE  IInv'
<1>1. /\ UNCHANGED <<config, event, verdict, match_id, skip_logging, outcome>>
      /\ config \in Configurations
      /\ AfterBlock
      /\ skip_logging = FALSE
      /\ IncludeApplies => Miss("include")
      /\ match_id = 0 => Miss("exclude")
    BY DEF ExcludeMiss, ExcludeApplies, IInv, TypeOK, localVars
<1>2. TypeOK'
    BY <1>1 DEF IInv, TypeOK, ExcludeMiss
<1>3. AfterInspection'
    <2>1. CASE Miss("block") /\ match_id = 0 /\ verdict = Zero
        <3>1. Miss("include") /\ Miss("exclude")
            BY <1>1, <2>1 DEF IncludeApplies
        <3>2. \A l \in Lists : Miss(l)'
            BY <1>1, <2>1, <3>1, SameLists DEF Lists
        <3>3. \A l \in Lists' : Miss(l)'
            BY <3>2 DEF Lists
        <3> QED
            BY <1>1, <2>1, <3>3 DEF AfterInspection
    <2>2. ASSUME NEW k \in All("block"), First("block", k),
                 match_id = Rule("block", k).id,
                 verdict = BlockVerdict(Rule("block", k).actions)
          PROVE  AfterInspection'
        <3>1. /\ k \in All("block")'
              /\ First("block", k)'
              /\ match_id' = Rule("block", k)'.id
              /\ verdict' = BlockVerdict(Rule("block", k).actions)'
            BY <1>1, <2>2, SameLists
        <3> QED
            BY <1>1, <3>1 DEF AfterInspection
    <2> QED
        BY <1>1, <2>1, <2>2 DEF AfterBlock
<1> QED
    BY <1>1, <1>2, <1>3 DEF IInv, ExcludeMiss, Done

\* AfterInspection depends on what a step of Act, or no step, leaves alone.
LEMMA SameInspection ==
    ASSUME AfterInspection, UNCHANGED <<config, event, localVars>>
    PROVE  AfterInspection'
<1>1. UNCHANGED <<config, event, verdict, match_id, skip_logging>>
    BY DEF localVars
<1> QED
    BY <1>1 DEF AfterInspection, InScope, All, Miss, First, FirstOf, Rule,
                Accepts, BlockVerdict

\* The callback acts on the verdict: outcome records what it did.
LEMMA ActStep ==
    ASSUME IInv, Act
    PROVE  IInv'
<1>1. /\ UNCHANGED <<config, event, localVars>>
      /\ UNCHANGED <<verdict, match_id, skip_logging>>
      /\ stage' = "done"
      /\ outcome' = [denied |-> Denied, logged |-> Logged, ends |-> Ends]
    BY DEF Act, localVars
<1>2. Denied \in BOOLEAN /\ Logged \in BOOLEAN /\ Ends \in 0..2
    <2>1. Denied \in BOOLEAN
        BY DEF Denied, NT_SUCCESS
    <2>2. Logged \in BOOLEAN
        BY DEF IInv, TypeOK, Configurations, Logged
    <2>3. Ends \in 0..2
        BY DEF Ends
    <2> QED
        BY <2>1, <2>2, <2>3
<1>3. outcome' \in [denied : BOOLEAN, logged : BOOLEAN, ends : 0..2]
    BY <1>1, <1>2
<1>4. TypeOK'
    BY <1>1, <1>3 DEF IInv, TypeOK
<1>5. AfterInspection'
    BY <1>1, SameInspection DEF IInv, Act
<1>6. Denied' = Denied /\ Logged' = Logged /\ Ends' = Ends
    BY <1>1 DEF Denied, Logged, Ends, NT_SUCCESS
<1> QED
    BY <1>1, <1>4, <1>5, <1>6 DEF IInv

\* A step that changes nothing.
LEMMA StutterStep ==
    ASSUME IInv, UNCHANGED vars
    PROVE  IInv'
<1>1. /\ UNCHANGED <<config, event, localVars>>
      /\ UNCHANGED <<verdict, match_id, skip_logging, stage, outcome>>
    BY DEF vars, localVars
<1>2. TypeOK'
    BY <1>1 DEF IInv, TypeOK
<1>3. AfterBlock => AfterBlock'
    BY <1>1, SameLists DEF AfterBlock
<1>4. AfterInspection => AfterInspection'
    BY <1>1, SameInspection
<1>5. (IncludeApplies => Miss("include")) => (IncludeApplies => Miss("include"))'
    BY <1>1, SameLists DEF IncludeApplies
<1>6. Denied' = Denied /\ Logged' = Logged /\ Ends' = Ends
    BY <1>1 DEF Denied, Logged, Ends, NT_SUCCESS
<1> QED
    BY <1>1, <1>2, <1>3, <1>4, <1>5, <1>6 DEF IInv, Done

\* The invariant holds in every state of the system, whatever its rules are:
\* after each list of an Inspect function, match_id, the verdict and
\* skip_logging say what the lists so far have found.
THEOREM Invariance == Spec => []IInv
<1>1. IInv /\ [Next]_vars => IInv'
    BY CallbackStep, BlockHitStep, BlockMissStep, IncludeHitStep,
       IncludeMissStep, ExcludeHitStep, ExcludeMissStep, ActStep, StutterStep
    DEF Next, InspectEvent
<1> QED
    BY Initial, <1>1, PTL DEF Spec

-----------------------------------------------------------------------------
(* The properties.                                                         *)

\* The locals of the Inspect functions stay in their types.
THEOREM TypeCorrect == Spec => []TypeOK
<1>1. IInv => TypeOK
    BY DEF IInv
<1> QED
    BY <1>1, Invariance, PTL

\* match_id is the first accepting rule, in its whole length, of the first list
\* that has one, in the order block, include, exclude.  A list of thread rules
\* whose accepting rules all lie past the count of another list, which is what
\* InspectThreadCreation passes, counts as one that has none.
THEOREM PrecedenceHolds == Spec => []Precedence
<1>1. ASSUME IInv
      PROVE  Precedence
    <2>1. config \in Configs /\ (Done => AfterInspection)
        BY <1>1 DEF IInv, Done
    <2>2. \A l \in Lists : Miss(l) => NoneOf(l)
        BY <2>1, MissIsNone
    <2>3. {"block", "include", "exclude"} \subseteq Lists
        BY DEF Lists
    <2> QED
        BY <2>1, <2>2, <2>3 DEF AfterInspection, Precedence, FirstOf
<1> QED
    BY <1>1, Invariance, PTL

\* The callbacks skip the logging of an event only if an exclude rule accepts
\* it, no block rule and no include rule does, and nothing was denied.
THEOREM DroppedHolds == Spec => []DroppedOnlyByExclude
<1> SUFFICES ASSUME IInv, Done, ~outcome.logged
             PROVE  /\ ~config.KEEP_EXCLUDES
                    /\ ~outcome.denied
                    /\ FirstOf("exclude", match_id)
                    /\ Miss("block") /\ Miss("include")
    BY Invariance, PTL DEF DroppedOnlyByExclude
<1>1. /\ AfterInspection
      /\ outcome.logged = Logged
      /\ outcome.denied = Denied
    BY DEF IInv, Done
<1>2. skip_logging # FALSE /\ ~config.KEEP_EXCLUDES
    BY <1>1 DEF Logged
<1>3. /\ Miss("block") /\ Miss("include") /\ FirstOf("exclude", match_id)
      /\ verdict = Zero
    BY <1>1, <1>2 DEF AfterInspection
<1>4. ~Denied
    BY <1>3 DEF Denied, NT_SUCCESS
<1> QED
    BY <1>1, <1>2, <1>3, <1>4

\* What a callback denies is logged with the id of the rule that denied it.
THEOREM DeniedHolds == Spec => []DeniedIsReported
<1>1. ASSUME IInv, Done, outcome.denied
      PROVE  /\ outcome.logged
             /\ config.kind \in Blocking
             /\ \/ FirstOf("block", match_id)
                \/ config.kind = "object" /\ FirstOf("include", match_id)
    <2>1. /\ AfterInspection
          /\ outcome.logged = Logged
          /\ Denied
          /\ config \in Configs
        BY <1>1 DEF IInv, Done
    <2>2. verdict # Zero
        BY <2>1 DEF Denied, NT_SUCCESS
    <2>3. CASE /\ \E i \in All("block") :
                    First("block", i) /\ match_id = Rule("block", i).id
               /\ skip_logging = FALSE
        BY <2>1, <2>3, BlockKinds DEF FirstOf, Logged
    <2>4. CASE /\ Miss("block") /\ FirstOf("include", match_id)
               /\ config.kind # "object" => verdict = Zero
               /\ skip_logging = FALSE
        BY <2>1, <2>2, <2>4 DEF Logged, Blocking
    <2> QED
        BY <2>1, <2>2, <2>3, <2>4 DEF AfterInspection
<1>2. IInv => DeniedIsReported
    BY <1>1 DEF DeniedIsReported
<1> QED
    BY <1>2, Invariance, PTL

\* Outside object accesses the first block rule that accepts an event denies
\* it, if its action is none or an error status.
THEOREM BlockHolds == Spec => []BlockDenies
<1>1. ASSUME IInv, Done, config.kind # "object",
             NEW i \in All("block"), First("block", i),
             Rule("block", i).actions \notin Successes
      PROVE  outcome.denied
    <2>1. /\ AfterInspection
          /\ outcome.denied = Denied
          /\ config \in Configurations /\ config \in Configs
        BY <1>1 DEF IInv, TypeOK, Done
    <2>2. ~Miss("block")
        BY <1>1, <2>1, MissIsNone DEF Lists, First
    <2>3. \A j \in All("block") : First("block", j) => j = i
        BY <1>1, <2>1, FirstUnique DEF Lists
    <2>4. verdict = BlockVerdict(Rule("block", i).actions)
        BY <1>1, <2>1, <2>2, <2>3 DEF AfterInspection, Lists
    <2>5. verdict = IF Rule("block", i).actions = Zero THEN ACCESS_DENIED
                    ELSE Rule("block", i).actions
        BY <1>1, <2>4 DEF BlockVerdict
    <2>6. Denied <=> verdict \notin {Zero} \cup Successes
        BY <1>1 DEF Denied, NT_SUCCESS
    <2>7. ACCESS_DENIED \notin Successes /\ Zero # ACCESS_DENIED
        BY InspectAssumption
    <2> QED
        BY <1>1, <2>1, <2>5, <2>6, <2>7
<1>2. IInv => BlockDenies
    BY <1>1 DEF BlockDenies
<1> QED
    BY <1>2, Invariance, PTL

-----------------------------------------------------------------------------
(* The comparison of an entry with an event, in Match.                     *)

\* The fields of the switch of getFieldDataType.
UlongFields ==
    PipeFields \cup
        {"REG_OP", "REG_DATA_TYPE", "MM_FILE_OPERATION",
         "MM_FILE_ACCESS_FLAGS", "MM_FILE_FLAGS", "MODULE_PROPERTIES",
         "PHOPERATION", "PHORIGINAL_DESIRED_ACCESS",
         "MM_FILE_NETWORK_PROTOCOL", "MM_NET_INTERFACE_TYPE"}
UshortFields == Versions \cup Ports \cup {"MM_WFP_LAYER"}

\* The data types of the numeric fields.
LEMMA DataTypes ==
    /\ \A f \in ByteFields : getFieldDataType(f) = "itemUint8"
    /\ \A f \in UshortFields : getFieldDataType(f) = "itemUshort"
    /\ \A f \in UlongFields : getFieldDataType(f) = "itemUlong"
<1> DEFINE Others == Times \cup Ipv4Fields \cup Ipv6Fields
                        \cup {"MM_FILE_DELETION"}
<1>1. \A f \in ByteFields \cup UshortFields \cup UlongFields : f \notin Others
    BY DEF ByteFields, UshortFields, Versions, Ports, UlongFields, PipeFields,
        Times, Ipv4Fields, Ipv6Fields
<1>2. \A f \in ByteFields \cup UshortFields : f \notin StringFields
    BY DEF ByteFields, UshortFields, Versions, Ports, StringFields,
        ProcessFields, TargetFields, PathFields, RegistryNames
<1>3. \A f \in UlongFields : f \notin StringFields
    BY DEF UlongFields, PipeFields, StringFields, ProcessFields, TargetFields,
        PathFields, RegistryNames
<1>4. /\ \A f \in ByteFields : f \notin UshortFields \cup UlongFields
      /\ \A f \in UshortFields : f \notin UlongFields
    BY DEF ByteFields, UshortFields, Versions, Ports, UlongFields, PipeFields
<1>5. ASSUME NEW f \in ByteFields
      PROVE  getFieldDataType(f) = "itemUint8"
    BY <1>1, <1>2, <1>4 DEF getFieldDataType, UshortFields, UlongFields
<1>6. ASSUME NEW f \in UshortFields
      PROVE  getFieldDataType(f) = "itemUshort"
    BY <1>1, <1>2, <1>4 DEF getFieldDataType, UshortFields, UlongFields
<1>7. ASSUME NEW f \in UlongFields
      PROVE  getFieldDataType(f) = "itemUlong"
    <2>1. f \notin Others /\ f \notin StringFields /\ f \notin ByteFields
          /\ f \notin UshortFields
        BY <1>1, <1>3, <1>4
    <2> QED
        BY <2>1 DEF getFieldDataType, UshortFields, UlongFields
<1> QED
    BY <1>5, <1>6, <1>7

\* The case of a numeric field compares the member that the loader filled.
LEMMA MemberFilled ==
    ASSUME NEW kind \in Kinds, NEW field \in FieldsOf(kind),
           field \notin StringFields \cup IpFields \cup Unsupported,
           field # "MM_NET_DIRECTION"
    PROVE  (CHOOSE m \in DOMAIN Cases(kind) : field \in Cases(kind)[m])
                = getFieldDataType(field)
<1> DEFINE Filled(cases) ==
            \A m \in DOMAIN cases :
                field \in cases[m] => m = getFieldDataType(field)
<1>0. /\ field \notin ProcessFields \cup TargetFields \cup PathFields
      /\ field \notin RegistryNames \cup {"MM_FILE_NEW_NAME"}
      /\ field \notin Ipv4Fields \cup Ipv6Fields \cup Times
      /\ field \notin {"MM_NET_INTERFACE", "MODULE_PROPERTIES", "LOADED_MODULE"}
      /\ field # "TARGET_IMAGE_FILE_NAME"
    BY DEF StringFields, IpFields, Unsupported, TargetFields
<1>1. Filled(FileCreateCases)
    BY <1>0, DataTypes DEF FileCreateCases, UlongFields
<1>2. Filled(FileSetCases)
    BY <1>0, DataTypes DEF FileSetCases, UlongFields, UshortFields
<1>3. Filled(RegistryCases)
    BY <1>0, DataTypes DEF RegistryCases, UlongFields
<1>4. Filled(ProcessCases) /\ Filled(ThreadCases)
    BY <1>0 DEF ProcessCases, ThreadCases
<1>5. Filled(ObjectCases)
    BY <1>0, DataTypes DEF ObjectCases, UlongFields
<1>6. Filled(ImageCases)
    BY <1>0 DEF ImageCases
<1>7. Filled(NetworkCases)
    <2> SUFFICES ASSUME NEW m \in DOMAIN NetworkCases, field \in NetworkCases[m]
                 PROVE  m = getFieldDataType(field)
        OBVIOUS
    <2>1. m \in {"itemUshort", "itemUint8", "itemUlong"}
        BY <1>0 DEF NetworkCases
    <2>2. CASE m = "itemUshort"
        BY <2>2, DataTypes DEF NetworkCases, UshortFields
    <2>3. CASE m = "itemUint8"
        BY <2>3, DataTypes DEF NetworkCases
    <2>4. CASE m = "itemUlong"
        BY <2>4, DataTypes DEF NetworkCases, UlongFields
    <2> QED
        BY <2>1, <2>2, <2>3, <2>4
<1>8. Filled(Cases(kind))
    BY <1>1, <1>2, <1>3, <1>4, <1>5, <1>6, <1>7 DEF Cases, Kinds
<1>9. \E m \in DOMAIN Cases(kind) : field \in Cases(kind)[m]
    BY DEF FieldsOf
<1> QED
    BY <1>8, <1>9

\* An entry counts once or not at all.
LEMMA OnceCounts ==
    ASSUME NEW b
    PROVE  Once(b) \in {0, 1}
BY DEF Once

\* A regular number entry.
LEMMA NumberMeans ==
    ASSUME NEW op \in NumberOps \ {"notand", "notlessthan", "notgreaterthan"},
           NEW x, NEW v
    PROVE  CheckNumber(op, x, v) = 1 <=> MeansNumber(op, x, v)
<1>1. op \in {"and", "equals", "notequals", "greaterthan", "greaterorequal",
              "lessthan", "lessorequal"}
    BY DEF NumberOps
<1>2. CASE op = "and"
    BY <1>2 DEF CheckNumber, MeansNumber, Once
<1>3. CASE op = "equals"
    BY <1>3 DEF CheckNumber, MeansNumber, Once
<1>4. CASE op = "notequals"
    BY <1>4 DEF CheckNumber, MeansNumber, Once
<1>5. CASE op = "greaterthan"
    BY <1>5 DEF CheckNumber, MeansNumber, Once
<1>6. CASE op = "greaterorequal"
    BY <1>6 DEF CheckNumber, MeansNumber, Once
<1>7. CASE op = "lessthan"
    BY <1>7 DEF CheckNumber, MeansNumber, Once
<1>8. CASE op = "lessorequal"
    BY <1>8 DEF CheckNumber, MeansNumber, Once
<1> QED
    BY <1>1, <1>2, <1>3, <1>4, <1>5, <1>6, <1>7, <1>8

\* Reversing twice gives the address back.
LEMMA ReverseTwice ==
    ASSUME NEW A, NEW a \in Seq(A)
    PROVE  /\ S!Reverse(a) \in Seq(A) /\ Len(S!Reverse(a)) = Len(a)
           /\ S!Reverse(S!Reverse(a)) = a
           /\ Zeros(S!Reverse(a)) <=> Zeros(a)
<1> DEFINE r == S!Reverse(a)
<1>1. /\ r = [k \in 1..Len(a) |-> a[(Len(a) - k) + 1]]
      /\ r \in Seq(A) /\ Len(r) = Len(a) /\ DOMAIN r = 1..Len(a)
    BY DEF S!Reverse
<1>2. S!Reverse(r) = [k \in 1..Len(a) |-> r[(Len(a) - k) + 1]]
    BY <1>1 DEF S!Reverse
<1>3. ASSUME NEW k \in 1..Len(a)
      PROVE  /\ (Len(a) - k) + 1 \in 1..Len(a)
             /\ r[(Len(a) - k) + 1] = a[k]
             /\ r[k] = a[(Len(a) - k) + 1]
    BY <1>1
<1> HIDE DEF r
<1>4. S!Reverse(r) = a
    BY <1>2, <1>3
<1>5. Zeros(r) <=> Zeros(a)
    BY <1>1, <1>3 DEF Zeros
<1> QED
    BY <1>1, <1>4, <1>5 DEF r

\* Of whole bytes the low bits of the number are the first of the address.
LEMMA MaskedWhole ==
    ASSUME NEW A, NEW a \in Seq(A), NEW b \in Seq(A), Len(a) = Len(b),
           NEW bits, bits % ByteBits = 0
    PROVE  Masked(a, bits) = Masked(b, bits) <=> SamePrefix(a, b, bits)
<1> DEFINE whole == bits \div ByteBits
           Cut(n) == [k \in 1..Len(a) |-> IF k <= whole THEN n[k] ELSE 0]
<1>1. DOMAIN a = 1..Len(a) /\ DOMAIN b = 1..Len(a)
    OBVIOUS
<1>2. Masked(a, bits) = Cut(a) /\ Masked(b, bits) = Cut(b)
    BY <1>1 DEF Masked
<1>3. SamePrefix(a, b, bits) <=> \A k \in 1..Len(a) : k <= whole => a[k] = b[k]
    BY <1>1 DEF SamePrefix
<1>4. Cut(a) = Cut(b) <=> \A k \in 1..Len(a) : Cut(a)[k] = Cut(b)[k]
    OBVIOUS
<1> QED
    BY <1>2, <1>3, <1>4

\* A regular IPv4 entry: the byte orders of the callback, the agent and the
\* comparison cancel.
LEMMA Ipv4Means ==
    ASSUME NEW e, NEW x \in Ipv4Addresses, NEW addr \in Ipv4Addresses,
           NEW bits, bits % ByteBits = 0, ~Zeros(x), e.layer = "connect"
    PROVE  CheckIpv4(e, x, [bits |-> bits, subnet |-> Masked(addr, bits)]) = 1
                <=> SamePrefix(x, addr, bits)
<1> DEFINE Byte == 0..(2 ^ ByteBits - 1)
<1>1. x \in Seq(Byte) /\ addr \in Seq(Byte) /\ Len(x) = Len(addr)
    BY MatchAssumption
<1>2. Swaps(e) = ~littleEndian(e)
    BY DEF Swaps, littleEndian
<1> DEFINE given == IF Swaps(e) THEN x ELSE S!Reverse(x)
<1>3. ~Zeros(given)
    BY <1>1, ReverseTwice
<1>4. (IF littleEndian(e) THEN S!Reverse(given) ELSE given) = x
    BY <1>1, <1>2, ReverseTwice
<1>5. Masked(x, bits) = Masked(addr, bits) <=> SamePrefix(x, addr, bits)
    BY <1>1, MaskedWhole
<1> QED
    BY <1>3, <1>4, <1>5 DEF CheckIpv4, Once

\* A prefix that fits the address has no more whole bytes than it.
LEMMA WholeBytes ==
    ASSUME NEW p \in Nat, NEW q \in Nat, q > 0, NEW n \in Nat, p <= q * n
    PROVE  p \div q \in Nat /\ p \div q <= n
OBVIOUS

\* A regular IPv6 entry.
LEMMA Ipv6Means ==
    ASSUME NEW x \in Ipv6Addresses,
           NEW value, value.addr \in Ipv6Addresses,
           value.prefix \in 0..(ByteBits * Len(value.addr)),
           value.prefix % ByteBits = 0
    PROVE  CheckIpv6(x, value) = 1
                <=> SamePrefix(x, value.addr, value.prefix)
<1> DEFINE addr == value.addr
           bits == value.prefix
           Byte == 0..(2 ^ ByteBits - 1)
           whole == bits \div ByteBits
<1>1. /\ x \in Seq(Byte) /\ addr \in Seq(Byte) /\ Len(x) = Len(addr)
      /\ ByteBits \in Nat \ {0} /\ x # NULL
    BY MatchAssumption
<1>2. bits \in Nat /\ Len(addr) \in Nat /\ bits <= ByteBits * Len(addr)
    BY <1>1
<1>3. whole \in Nat /\ whole <= Len(addr)
    <2>1. ByteBits \in Nat /\ ByteBits > 0
        BY <1>1
    <2> QED
        BY ONLY <2>1, <1>2, WholeBytes
<1>4. (\A k \in DOMAIN x : k <= whole => x[k] = addr[k])
        <=> \A k \in 1..whole : x[k] = addr[k]
    <2>1. DOMAIN x = 1..Len(addr) /\ Len(addr) \in Nat
        BY <1>1
    <2> HIDE DEF whole
    <2>2. \A k : k \in 1..whole <=> k \in 1..Len(addr) /\ k <= whole
        BY <1>3, <2>1
    <2> QED
        BY <2>1, <2>2
<1>5. SamePrefix(x, addr, bits)
        <=> \A k \in DOMAIN x : k <= whole => x[k] = addr[k]
    BY DEF SamePrefix
<1>6. ~(bits % ByteBits > 0)
    OBVIOUS
<1>7. CheckIpv6(x, value) = Once(\A k \in 1..whole : x[k] = addr[k])
    BY ONLY <1>1, <1>6, ZenonT(20) DEF CheckIpv6
<1> QED
    BY ONLY <1>4, <1>5, <1>7 DEF Once, addr, bits

\* Lower case of an ASCII string is one, and has no upper case left.
LEMMA LowerIs ==
    ASSUME NEW s \in Seq(Chars)
    PROVE  /\ LowerOf(s) \in Seq(Chars) /\ Len(LowerOf(s)) = Len(s)
           /\ Ascii(s) => Ascii(LowerOf(s))
           /\ LowerOf(LowerOf(s)) = LowerOf(s)
<1>1. /\ Lower \in [Chars -> Chars]
      /\ \A c \in Chars : Lower[Lower[c]] = Lower[c]
      /\ \A c \in Chars : c[2] = 0 => Lower[c][2] = 0
    BY MatchAssumption
<1>2. \A k \in DOMAIN s : s[k] \in Chars
    OBVIOUS
<1>3. LowerOf(s) = [k \in 1..Len(s) |-> Lower[s[k]]]
    BY DEF LowerOf
<1>4. LowerOf(s) \in Seq(Chars) /\ Len(LowerOf(s)) = Len(s)
    BY <1>1, <1>2, <1>3
<1>5. Ascii(s) => Ascii(LowerOf(s))
    BY <1>1, <1>2, <1>3 DEF Ascii
<1>6. LowerOf(LowerOf(s)) = [k \in 1..Len(s) |-> Lower[LowerOf(s)[k]]]
    BY <1>4 DEF LowerOf
<1>7. \A k \in 1..Len(s) : Lower[LowerOf(s)[k]] = Lower[s[k]]
    BY <1>1, <1>2, <1>3
<1>8. LowerOf(LowerOf(s)) = LowerOf(s)
    BY <1>3, <1>6, <1>7
<1> QED
    BY <1>4, <1>5, <1>8

\* A path that begins with a drive is the drive, in one case or the other, and
\* what follows it.
LEMMA DriveFirst ==
    ASSUME NEW s \in Seq(Chars), HasDrive(s)
    PROVE  LET d == DriveOf(s)
           IN  /\ d \in Seq(Chars) /\ Ascii(d) /\ d # <<>>
               /\ Len(d) <= Len(s)
               /\ \A k \in 1..Len(d) : Lower[d[k]] = Lower[s[k]]
<1> DEFINE d == DriveOf(s)
<1>1. d \in DosDeviceLetters /\ NamesDrive(s, d)
    BY DEF HasDrive, DriveOf
<1> HIDE DEF d
<1>2. d \in Seq(Chars) /\ Ascii(d) /\ d # <<>>
    BY <1>1, PathAssumption
<1>3. /\ LowerOf(d) \in Seq(Chars) /\ Len(LowerOf(d)) = Len(d)
      /\ LowerOf(s) \in Seq(Chars) /\ Len(LowerOf(s)) = Len(s)
    BY <1>2, LowerIs
<1>4. /\ Len(d) <= Len(s)
      /\ SubSeq(LowerOf(d), 1, Len(d)) = SubSeq(LowerOf(s), 1, Len(d))
    BY <1>1, <1>3 DEF NamesDrive, S!IsPrefix
<1>5. ASSUME NEW k \in 1..Len(d)
      PROVE  Lower[d[k]] = Lower[s[k]]
    <2>1. /\ SubSeq(LowerOf(d), 1, Len(d))[k] = LowerOf(d)[k]
          /\ SubSeq(LowerOf(s), 1, Len(d))[k] = LowerOf(s)[k]
        BY <1>2, <1>3, <1>4
    <2>2. LowerOf(d)[k] = LowerOf(s)[k]
        BY <1>4, <2>1
    <2>3. k \in DOMAIN d /\ k \in DOMAIN s
        BY <1>2, <1>4
    <2> QED
        BY <2>2, <2>3 DEF LowerOf
<1> QED
    BY <1>2, <1>4, <1>5 DEF d

\* A path that is put together is one of ASCII characters.
LEMMA JoinedAscii ==
    ASSUME NEW p \in Seq(Chars), NEW q \in Seq(Chars), Ascii(p), Ascii(q),
           p # <<>>
    PROVE  p \o q \in Seq(Chars) /\ Ascii(p \o q) /\ p \o q # <<>>
<1>1. /\ p \o q \in Seq(Chars) /\ Len(p \o q) = Len(p) + Len(q)
      /\ Len(p) \in Nat \ {0} /\ Len(q) \in Nat
    OBVIOUS
<1>2. ASSUME NEW k \in 1..(Len(p) + Len(q))
      PROVE  (p \o q)[k][2] = 0
    <2>1. CASE k <= Len(p)
        BY <2>1 DEF Ascii
    <2>2. CASE k > Len(p)
        <3>1. k - Len(p) \in 1..Len(q) /\ (p \o q)[k] = q[k - Len(p)]
            BY <1>1, <2>2
        <3> QED
            BY <3>1 DEF Ascii
    <2> QED
        BY <1>1, <2>1, <2>2
<1> QED
    BY <1>1, <1>2 DEF Ascii

\* What follows the drive.
LEMMA AfterDriveIs ==
    ASSUME NEW s \in Seq(Chars), HasDrive(s), Ascii(s)
    PROVE  LET n == Len(DriveOf(s))
           IN  /\ AfterDrive(s) \in Seq(Chars) /\ Ascii(AfterDrive(s))
               /\ Len(AfterDrive(s)) = Len(s) - n
               /\ \A k \in 1..(Len(s) - n) : AfterDrive(s)[k] = s[n + k]
<1> DEFINE n == Len(DriveOf(s))
           t == AfterDrive(s)
<1>1. n \in Nat /\ n <= Len(s)
    BY DriveFirst
<1>2. t = SubSeq(s, n + 1, Len(s))
    BY DEF AfterDrive
<1> HIDE DEF n, t
<1>3. t \in Seq(Chars) /\ Len(t) = Len(s) - n
    BY <1>1, <1>2
<1>4. \A k \in 1..(Len(s) - n) : t[k] = s[n + k] /\ n + k \in DOMAIN s
    BY <1>1, <1>2
<1>5. Ascii(t)
    BY <1>3, <1>4 DEF Ascii
<1> QED
    BY <1>3, <1>4, <1>5 DEF n, t

\* Upper and lower case of the drive are one in lower case.
LEMMA RootedLower ==
    ASSUME NEW s \in Seq(Chars), HasDrive(s), Ascii(s), NEW g \in Seq(Chars)
    PROVE  LowerOf(g \o s) = LowerOf((g \o DriveOf(s)) \o AfterDrive(s))
<1> DEFINE d == DriveOf(s)
           t == AfterDrive(s)
           x == g \o s
           y == (g \o d) \o t
<1>1. /\ d \in Seq(Chars) /\ Len(d) <= Len(s)
      /\ \A k \in 1..Len(d) : Lower[d[k]] = Lower[s[k]]
    BY DriveFirst
<1>2. /\ t \in Seq(Chars) /\ Len(t) = Len(s) - Len(d)
      /\ \A k \in 1..(Len(s) - Len(d)) : t[k] = s[Len(d) + k]
    BY AfterDriveIs
<1> HIDE DEF d, t
<1>3. /\ Len(x) = Len(g) + Len(s) /\ Len(y) = Len(g) + Len(s)
      /\ x \in Seq(Chars) /\ y \in Seq(Chars)
    <2>1. x \in Seq(Chars) /\ Len(x) = Len(g) + Len(s)
        OBVIOUS
    <2>2. g \o d \in Seq(Chars) /\ Len(g \o d) = Len(g) + Len(d)
        BY <1>1
    <2>3. y \in Seq(Chars) /\ Len(y) = Len(g \o d) + Len(t)
        <3> DEFINE gd == g \o d
        <3>1. gd \in Seq(Chars)
            BY <2>2
        <3>2. t \in Seq(Chars)
            BY <1>2
        <3> HIDE DEF gd
        <3>3. gd \o t \in Seq(Chars) /\ Len(gd \o t) = Len(gd) + Len(t)
            BY <3>1, <3>2
        <3> QED
            BY <3>3 DEF gd
    <2>4. Len(g) \in Nat /\ Len(d) \in Nat /\ Len(s) \in Nat
        BY <1>1
    <2>5. Len(y) = Len(g) + Len(s)
        BY <1>2, <2>2, <2>3, <2>4
    <2> QED
        BY <2>1, <2>3, <2>5
<1>4. ASSUME NEW k \in 1..(Len(g) + Len(s))
      PROVE  Lower[x[k]] = Lower[y[k]]
    <2>1. CASE k <= Len(g)
        BY <1>1, <1>2, <2>1
    <2>2. CASE k > Len(g) /\ k - Len(g) <= Len(d)
        <3>1. x[k] = s[k - Len(g)] /\ y[k] = d[k - Len(g)]
            BY <1>1, <1>2, <2>2
        <3> QED
            BY <1>1, <2>2, <3>1
    <2>3. CASE k - Len(g) > Len(d)
        <3>1. x[k] = s[k - Len(g)]
            BY <1>1, <2>3
        <3>2. y[k] = t[k - Len(g) - Len(d)]
            BY <1>1, <1>2, <2>3
        <3>3. t[k - Len(g) - Len(d)] = s[k - Len(g)]
            <4>1. /\ k - Len(g) - Len(d) \in 1..(Len(s) - Len(d))
                  /\ Len(d) + (k - Len(g) - Len(d)) = k - Len(g)
                BY <1>1, <2>3
            <4> QED
                BY <1>2, <4>1
        <3> QED
            BY <3>1, <3>2, <3>3
    <2>4. Len(g) \in Nat /\ Len(d) \in Nat /\ k \in Nat
        BY <1>1
    <2> HIDE DEF x, y
    <2> QED
        BY <2>1, <2>2, <2>3, <2>4
<1> HIDE DEF x, y
<1>5. /\ LowerOf(x) = [k \in 1..(Len(g) + Len(s)) |-> Lower[x[k]]]
      /\ LowerOf(y) = [k \in 1..(Len(g) + Len(s)) |-> Lower[y[k]]]
    BY <1>3 DEF LowerOf
<1> QED
    BY <1>4, <1>5 DEF d, t, x, y

\* The agent's translation of a path names the drive as the events do, unless
\* the drive is not known or the path is too short.
LEMMA TranslationMeans ==
    ASSUME NEW field, NEW s \in Seq(Chars), Ascii(s), s # <<>>,
           field \in NtpathFields /\ HasDrive(s) =>
                DriveOf(s) \in DOMAIN DosDeviceMap /\ LongEnough(s)
    PROVE  LET t == Translated(field, s)
           IN  /\ t \in Seq(Chars) /\ Ascii(t) /\ t # <<>>
               /\ LowerOf(t) = LowerOf(AsInEvents(field, s))
<1>1. field \notin GlobalrootFields \/ field \notin NtpathFields
    BY DEF GlobalrootFields, NtpathFields
<1>2. CASE field \notin GlobalrootFields \cup NtpathFields \/ ~HasDrive(s)
    BY <1>2 DEF Translated, AsInEvents, DospathToGlobalroot, DospathToNtpath
<1>3. CASE field \in GlobalrootFields /\ HasDrive(s)
    <2>1. /\ Translated(field, s) = GlobalRoot \o s
          /\ AsInEvents(field, s)
                = (GlobalRoot \o DriveOf(s)) \o AfterDrive(s)
        BY <1>1, <1>3 DEF Translated, AsInEvents, DospathToGlobalroot, RootOf
    <2>2. GlobalRoot \in Seq(Chars) /\ Ascii(GlobalRoot) /\ GlobalRoot # <<>>
        BY PathAssumption
    <2>3. /\ GlobalRoot \o s \in Seq(Chars) /\ Ascii(GlobalRoot \o s)
          /\ GlobalRoot \o s # <<>>
        BY <2>2, JoinedAscii
    <2>4. LowerOf(GlobalRoot \o s)
            = LowerOf((GlobalRoot \o DriveOf(s)) \o AfterDrive(s))
        BY <1>3, <2>2, RootedLower
    <2> QED
        BY <2>1, <2>3, <2>4
<1>4. CASE field \in NtpathFields /\ HasDrive(s)
    <2> DEFINE name == DosDeviceMap[DriveOf(s)]
    <2>1. /\ Translated(field, s) = name \o AfterDrive(s)
          /\ AsInEvents(field, s) = name \o AfterDrive(s)
        BY <1>1, <1>4 DEF Translated, AsInEvents, DospathToNtpath, RootOf
    <2>2. name \in Seq(Chars) /\ Ascii(name) /\ name # <<>>
        <3>1. name \in S!Range(DosDeviceMap)
            BY <1>4 DEF S!Range
        <3> QED
            BY <3>1, PathAssumption
    <2>3. AfterDrive(s) \in Seq(Chars) /\ Ascii(AfterDrive(s))
        BY <1>4, AfterDriveIs
    <2> HIDE DEF name
    <2> QED
        BY <2>1, <2>2, <2>3, JoinedAscii
<1> QED
    BY <1>2, <1>3, <1>4

\* A position in a string of bytes is the first or second byte of a character.
LEMMA Halves ==
    ASSUME NEW n \in Nat
    PROVE  \E m \in Nat : \/ n = 2 * m /\ n % 2 = 0
                          \/ n = 2 * m - 1 /\ n % 2 = 1
<1> DEFINE m == (n + 1) \div 2
<1>1. m \in Nat
    OBVIOUS
<1>2. \/ n = 2 * m /\ n % 2 = 0
      \/ n = 2 * m - 1 /\ n % 2 = 1
    OBVIOUS
<1> QED
    BY <1>1, <1>2

\* The bytes of a character.
LEMMA BytesOf ==
    ASSUME NEW s \in Seq(Chars), NEW m \in 1..Len(s)
    PROVE  /\ 2 * m - 1 \in DOMAIN Bytes(s) /\ 2 * m \in DOMAIN Bytes(s)
           /\ Bytes(s)[2 * m - 1] = s[m][1]
           /\ Bytes(s)[2 * m] = s[m][2]
<1>1. /\ 2 * m - 1 \in 1..(2 * Len(s)) /\ 2 * m \in 1..(2 * Len(s))
      /\ (2 * m - 1 + 1) \div 2 = m /\ (2 * m + 1) \div 2 = m
      /\ 2 - ((2 * m - 1) % 2) = 1 /\ 2 - ((2 * m) % 2) = 2
    OBVIOUS
<1> QED
    BY <1>1 DEF Bytes

\* Where v occurs in s from the k-th character its bytes occur in those of s.
LEMMA BytesMatch ==
    ASSUME NEW s \in Seq(Chars), NEW v \in Seq(Chars),
           NEW k \in 1..(Len(s) - Len(v) + 1)
    PROVE  OccursAt(v, s, k) <=>
            \A n \in DOMAIN Bytes(v) : Bytes(s)[2 * (k - 1) + n] = Bytes(v)[n]
<1>1. ASSUME NEW m \in 1..Len(v)
      PROVE  /\ k + m - 1 \in 1..Len(s)
             /\ Bytes(s)[2 * (k - 1) + (2 * m - 1)] = s[k + m - 1][1]
             /\ Bytes(s)[2 * (k - 1) + 2 * m] = s[k + m - 1][2]
             /\ 2 * m - 1 \in DOMAIN Bytes(v) /\ 2 * m \in DOMAIN Bytes(v)
             /\ Bytes(v)[2 * m - 1] = v[m][1]
             /\ Bytes(v)[2 * m] = v[m][2]
             /\ s[k + m - 1] = v[m] <=> /\ s[k + m - 1][1] = v[m][1]
                                        /\ s[k + m - 1][2] = v[m][2]
    <2>1. k + m - 1 \in 1..Len(s)
        OBVIOUS
    <2>2. /\ 2 * (k - 1) + (2 * m - 1) = 2 * (k + m - 1) - 1
          /\ 2 * (k - 1) + 2 * m = 2 * (k + m - 1)
        OBVIOUS
    <2>3. /\ Bytes(s)[2 * (k + m - 1) - 1] = s[k + m - 1][1]
          /\ Bytes(s)[2 * (k + m - 1)] = s[k + m - 1][2]
        BY <2>1, BytesOf
    <2>4. s[k + m - 1] = v[m] <=> /\ s[k + m - 1][1] = v[m][1]
                                  /\ s[k + m - 1][2] = v[m][2]
        <3>1. s[k + m - 1] \in Chars
            BY <2>1
        <3>2. v[m] \in Chars
            OBVIOUS
        <3>3. ASSUME NEW c \in Chars, NEW d \in Chars, c[1] = d[1], c[2] = d[2]
              PROVE  c = d
            <4>1. c \in Nat \X Nat /\ d \in Nat \X Nat
                BY MatchAssumption
            <4> QED
                BY ONLY <4>1, <3>3
        <3> QED
            BY <3>1, <3>2, <3>3
    <2>5. /\ 2 * m - 1 \in DOMAIN Bytes(v) /\ 2 * m \in DOMAIN Bytes(v)
          /\ Bytes(v)[2 * m - 1] = v[m][1]
          /\ Bytes(v)[2 * m] = v[m][2]
        BY BytesOf
    <2> QED
        BY <2>1, <2>2, <2>3, <2>4, <2>5
<1>2. ASSUME NEW n \in DOMAIN Bytes(v)
      PROVE  \E m \in 1..Len(v) : n = 2 * m - 1 \/ n = 2 * m
    <2>1. n \in 1..(2 * Len(v))
        BY DEF Bytes
    <2>2. PICK m \in Nat : n = 2 * m \/ n = 2 * m - 1
        <3>1. n \in Nat
            BY <2>1
        <3> QED
            BY <3>1, Halves
    <2>3. m \in 1..Len(v)
        BY <2>1, <2>2
    <2> QED
        BY <2>2, <2>3
<1>3. OccursAt(v, s, k) <=> \A m \in 1..Len(v) : s[k + m - 1] = v[m]
    <2>1. DOMAIN v = 1..Len(v)
        OBVIOUS
    <2> QED
        BY <2>1 DEF OccursAt
<1>4. ASSUME OccursAt(v, s, k), NEW n \in DOMAIN Bytes(v)
      PROVE  Bytes(s)[2 * (k - 1) + n] = Bytes(v)[n]
    <2>1. PICK m \in 1..Len(v) : n = 2 * m - 1 \/ n = 2 * m
        BY <1>2
    <2>2. s[k + m - 1] = v[m]
        BY <1>3, <1>4
    <2>3. CASE n = 2 * m - 1
        BY <1>1, <2>2, <2>3
    <2>4. CASE n = 2 * m
        BY <1>1, <2>2, <2>4
    <2> QED
        BY <2>1, <2>3, <2>4
<1>5. ASSUME NEW m \in 1..Len(v),
             \A n \in DOMAIN Bytes(v) : Bytes(s)[2 * (k - 1) + n] = Bytes(v)[n]
      PROVE  s[k + m - 1] = v[m]
    <2>1. /\ Bytes(s)[2 * (k - 1) + (2 * m - 1)] = Bytes(v)[2 * m - 1]
          /\ Bytes(s)[2 * (k - 1) + 2 * m] = Bytes(v)[2 * m]
        BY <1>1, <1>5
    <2> QED
        BY <1>1, <2>1
<1> QED
    BY <1>3, <1>4, <1>5

\* A search by bytes finds no ASCII string between two characters.
LEMMA ContainsMeans ==
    ASSUME NEW x \in Seq(Chars), NEW v \in Seq(Chars),
           Ascii(x), Ascii(v), v # <<>>
    PROVE  Contains(v, x, TRUE) <=> Occurs(v, LowerOf(x))
<1> DEFINE s == LowerOf(x)
           Found(at) ==
             \A n \in DOMAIN Bytes(v) : Bytes(s)[at + n] = Bytes(v)[n]
<1>1. s \in Seq(Chars) /\ Len(s) = Len(x) /\ Ascii(s) /\ DOMAIN s = 1..Len(s)
    BY LowerIs
<1>2. Len(v) \in Nat \ {0} /\ Len(s) \in Nat
    BY <1>1
<1>3. Contains(v, x, TRUE) <=> \E at \in 0..(2 * (Len(s) - Len(v))) : Found(at)
    BY <1>1 DEF Contains
<1> HIDE DEF s
<1>4. ASSUME NEW k \in 1..(Len(s) - Len(v) + 1)
      PROVE  OccursAt(v, s, k) <=> Found(2 * (k - 1))
    BY <1>1, BytesMatch
<1>5. ASSUME NEW at \in 0..(2 * (Len(s) - Len(v))), Found(at)
      PROVE  at % 2 = 0
    <2> SUFFICES ASSUME at % 2 = 1
                 PROVE  FALSE
        OBVIOUS
    <2>1. 1 \in DOMAIN Bytes(v) /\ Bytes(v)[1] = v[1][1]
        BY <1>2, BytesOf
    <2>2. PICK m \in 1..Len(s) : at + 1 = 2 * m
        <3>1. at \in Nat
            BY <1>2
        <3>2. PICK m \in Nat : \/ at = 2 * m /\ at % 2 = 0
                               \/ at = 2 * m - 1 /\ at % 2 = 1
            BY <3>1, Halves
        <3>3. at + 1 = 2 * m
            BY <3>1, <3>2
        <3>4. m \in 1..Len(s)
            BY <1>2, <3>3
        <3> QED
            BY <3>3, <3>4
    <2>3. Bytes(s)[at + 1] = s[m][2]
        <3>1. Bytes(s)[2 * m] = s[m][2]
            BY <1>1, BytesOf
        <3> QED
            BY <2>2, <3>1
    <2>4. s[m][2] = 0
        BY <1>1 DEF Ascii
    <2>5. v[1] \in Chars /\ v[1][2] = 0
        BY <1>2 DEF Ascii
    <2>6. v[1][1] # 0
        BY <2>5, MatchAssumption
    <2> QED
        BY <1>5, <2>1, <2>3, <2>4, <2>6
<1> HIDE DEF Found
<1>6. ASSUME NEW at \in 0..(2 * (Len(s) - Len(v))), Found(at)
      PROVE  \E k \in DOMAIN s : OccursAt(v, s, k)
    <2>1. at % 2 = 0
        BY <1>5, <1>6
    <2>2. PICK m \in Nat : at = 2 * m
        <3>1. at \in Nat
            BY <1>2
        <3>2. PICK m \in Nat : \/ at = 2 * m /\ at % 2 = 0
                               \/ at = 2 * m - 1 /\ at % 2 = 1
            BY <3>1, Halves
        <3>3. at = 2 * m
            BY <2>1, <3>2
        <3> QED
            BY <3>3
    <2> DEFINE k == m + 1
    <2>3. /\ k \in 1..(Len(s) - Len(v) + 1) /\ k \in 1..Len(s)
          /\ at = 2 * (k - 1)
        BY <1>2, <2>2
    <2> HIDE DEF k
    <2>4. OccursAt(v, s, k)
        BY <1>4, <1>6, <2>3
    <2> QED
        BY <1>1, <2>3, <2>4
<1>7. ASSUME NEW k \in DOMAIN s, OccursAt(v, s, k)
      PROVE  \E at \in 0..(2 * (Len(s) - Len(v))) : Found(at)
    <2>1. k \in 1..(Len(s) - Len(v) + 1)
        BY <1>7 DEF OccursAt
    <2>2. 2 * (k - 1) \in 0..(2 * (Len(s) - Len(v)))
        BY <1>2, <2>1
    <2> QED
        BY <1>4, <1>7, <2>1, <2>2
<1>8. Contains(v, x, TRUE) <=> Occurs(v, s)
    BY <1>3, <1>6, <1>7 DEF Occurs
<1> QED
    BY <1>8 DEF s

\* What occurs at a position, with the length of the pattern.
LEMMA OccursIs ==
    ASSUME NEW s \in Seq(Chars), NEW v \in Seq(Chars), NEW k \in Int
    PROVE  OccursAt(v, s, k) <=>
                /\ 1 <= k /\ k <= Len(s) - Len(v) + 1
                /\ \A n \in 1..Len(v) : s[k + n - 1] = v[n]
<1>1. DOMAIN v = 1..Len(v) /\ Len(s) \in Nat /\ Len(v) \in Nat
    OBVIOUS
<1>2. k \in 1..(Len(s) - Len(v) + 1)
        <=> 1 <= k /\ k <= Len(s) - Len(v) + 1
    BY <1>1
<1> QED
    BY ONLY <1>1, <1>2 DEF OccursAt

\* A prefix is what the first characters are.
LEMMA PrefixIs ==
    ASSUME NEW a \in Seq(Chars), NEW b \in Seq(Chars)
    PROVE  S!IsPrefix(a, b) <=> /\ Len(a) <= Len(b)
                                /\ \A k \in 1..Len(a) : a[k] = b[k]
<1>1. SubSeq(a, 1, Len(a)) = a
    OBVIOUS
<1>2. CASE Len(a) <= Len(b)
    <2>1. /\ Len(SubSeq(b, 1, Len(a))) = Len(a)
          /\ SubSeq(b, 1, Len(a)) \in Seq(Chars)
          /\ \A k \in 1..Len(a) : SubSeq(b, 1, Len(a))[k] = b[k]
        BY <1>2
    <2>2. a = SubSeq(b, 1, Len(a))
            <=> \A k \in 1..Len(a) : a[k] = SubSeq(b, 1, Len(a))[k]
        BY <2>1
    <2> QED
        BY <1>1, <1>2, <2>1, <2>2 DEF S!IsPrefix
<1>3. CASE ~(Len(a) <= Len(b))
    BY <1>3 DEF S!IsPrefix
<1> QED
    BY <1>2, <1>3

\* A prefix occurs at the first character, a suffix at the last where it fits.
LEMMA EndsMean ==
    ASSUME NEW x \in Seq(Chars), NEW v \in Seq(Chars)
    PROVE  /\ StartsWith(v, x, TRUE) <=> OccursAt(v, LowerOf(x), 1)
           /\ EndsWith(v, x, TRUE) <=>
                OccursAt(v, LowerOf(x), Len(LowerOf(x)) - Len(v) + 1)
<1> DEFINE s == LowerOf(x)
<1>1. s \in Seq(Chars) /\ Len(s) \in Nat
    BY LowerIs
<1>2. StartsWith(v, x, TRUE) <=> S!IsPrefix(v, s)
    BY DEF StartsWith
<1>3. EndsWith(v, x, TRUE) <=> S!IsPrefix(S!Reverse(v), S!Reverse(s))
    BY DEF EndsWith, S!IsSuffix
<1> HIDE DEF s
<1>4. DOMAIN v = 1..Len(v) /\ Len(v) \in Nat
    OBVIOUS
<1>5. S!IsPrefix(v, s) <=> OccursAt(v, s, 1)
    <2>1. S!IsPrefix(v, s) <=> /\ Len(v) <= Len(s)
                               /\ \A k \in 1..Len(v) : v[k] = s[k]
        BY <1>1, PrefixIs
    <2>2. OccursAt(v, s, 1) <=> /\ 1 <= Len(s) - Len(v) + 1
                               /\ \A k \in 1..Len(v) : s[1 + k - 1] = v[k]
        BY <1>1, OccursIs
    <2>3. \A k \in 1..Len(v) : 1 + k - 1 = k
        OBVIOUS
    <2>4. 1 <= Len(s) - Len(v) + 1 <=> Len(v) <= Len(s)
        BY <1>1, <1>4
    <2> QED
        BY <2>1, <2>2, <2>3, <2>4
<1>6. S!IsPrefix(S!Reverse(v), S!Reverse(s))
        <=> OccursAt(v, s, Len(s) - Len(v) + 1)
    <2>1. /\ S!Reverse(v) \in Seq(Chars) /\ Len(S!Reverse(v)) = Len(v)
          /\ S!Reverse(s) \in Seq(Chars) /\ Len(S!Reverse(s)) = Len(s)
        BY <1>1, ReverseTwice
    <2>2. S!IsPrefix(S!Reverse(v), S!Reverse(s))
            <=> /\ Len(v) <= Len(s)
                /\ \A k \in 1..Len(v) : S!Reverse(v)[k] = S!Reverse(s)[k]
        <3> DEFINE a == S!Reverse(v)
                   b == S!Reverse(s)
        <3> HIDE DEF a, b
        <3>1. /\ a \in Seq(Chars) /\ Len(a) = Len(v)
              /\ b \in Seq(Chars) /\ Len(b) = Len(s)
            BY <2>1 DEF a, b
        <3>2. S!IsPrefix(a, b) <=> /\ Len(v) <= Len(s)
                                   /\ \A k \in 1..Len(v) : a[k] = b[k]
            BY <3>1, PrefixIs
        <3> QED
            BY <3>2 DEF a, b
    <2>3. CASE Len(v) <= Len(s)
        <3>1. ASSUME NEW k \in 1..Len(v)
              PROVE  /\ S!Reverse(v)[k] = v[Len(v) - k + 1]
                     /\ S!Reverse(s)[k] = s[Len(s) - k + 1]
                     /\ Len(v) - k + 1 \in 1..Len(v)
            BY <1>1, <1>4, <2>3 DEF S!Reverse
        <3>2. ASSUME NEW n \in 1..Len(v)
              PROVE  /\ Len(v) - n + 1 \in 1..Len(v)
                     /\ Len(v) - (Len(v) - n + 1) + 1 = n
                     /\ Len(s) - (Len(v) - n + 1) + 1
                            = (Len(s) - Len(v) + 1) + n - 1
            BY <1>1, <1>4
        <3>3. OccursAt(v, s, Len(s) - Len(v) + 1) <=>
                \A n \in 1..Len(v) : s[(Len(s) - Len(v) + 1) + n - 1] = v[n]
            <4> DEFINE last == Len(s) - Len(v) + 1
            <4>1. last \in Int /\ 1 <= last /\ last <= Len(s) - Len(v) + 1
                BY <1>1, <1>4, <2>3
            <4> HIDE DEF last
            <4>2. OccursAt(v, s, last)
                    <=> \A n \in 1..Len(v) : s[last + n - 1] = v[n]
                BY <1>1, <4>1, OccursIs
            <4> QED
                BY <4>2 DEF last
        <3>4. ASSUME OccursAt(v, s, Len(s) - Len(v) + 1), NEW k \in 1..Len(v)
              PROVE  S!Reverse(v)[k] = S!Reverse(s)[k]
            <4> DEFINE n == Len(v) - k + 1
            <4>1. n \in 1..Len(v)
                BY <3>1
            <4> HIDE DEF n
            <4>2. s[(Len(s) - Len(v) + 1) + n - 1] = v[n]
                BY ONLY <3>3, <3>4, <4>1
            <4>3. s[(Len(s) - Len(v) + 1) + (Len(v) - k + 1) - 1]
                    = v[Len(v) - k + 1]
                BY ONLY <4>2 DEF n
            <4>4. (Len(s) - Len(v) + 1) + (Len(v) - k + 1) - 1 = Len(s) - k + 1
                BY <1>1, <1>4
            <4> QED
                BY <3>1, <4>3, <4>4
        <3>5. ASSUME \A k \in 1..Len(v) : S!Reverse(v)[k] = S!Reverse(s)[k],
                     NEW n \in 1..Len(v)
              PROVE  s[(Len(s) - Len(v) + 1) + n - 1] = v[n]
            <4> DEFINE k == Len(v) - n + 1
            <4>1. k \in 1..Len(v) /\ Len(v) - k + 1 = n
                  /\ Len(s) - k + 1 = (Len(s) - Len(v) + 1) + n - 1
                BY <3>2
            <4> HIDE DEF k
            <4>2. S!Reverse(v)[k] = v[n]
                BY <3>1, <4>1
            <4>3. S!Reverse(s)[k] = s[(Len(s) - Len(v) + 1) + n - 1]
                BY <3>1, <4>1
            <4> QED
                BY <3>5, <4>1, <4>2, <4>3
        <3> QED
            BY <2>2, <2>3, <3>3, <3>4, <3>5
    <2>4. CASE ~(Len(v) <= Len(s))
        BY <1>1, <1>4, <2>2, <2>4 DEF OccursAt
    <2> QED
        BY <2>3, <2>4
<1> QED
    BY <1>2, <1>3, <1>5, <1>6 DEF s

\* A search in a string of the same length is a comparison.
LEMMA EqualsMeans ==
    ASSUME NEW x \in Seq(Chars), NEW v \in Seq(Chars),
           Ascii(x), Ascii(v), v # <<>>
    PROVE  Equals(v, x, TRUE) <=> LowerOf(x) = v
<1> DEFINE s == LowerOf(x)
<1>1. s \in Seq(Chars) /\ Len(s) = Len(x) /\ DOMAIN s = 1..Len(s)
    BY LowerIs
<1>2. Equals(v, x, TRUE) <=>
        Len(v) = Len(s) /\ Occurs(v, s)
    BY <1>1, ContainsMeans DEF Equals
<1> HIDE DEF s
<1>3. Len(v) \in Nat \ {0} /\ DOMAIN v = 1..Len(v) /\ Len(s) \in Nat
    BY <1>1
<1>4. ASSUME Len(v) = Len(s), NEW k \in DOMAIN s, OccursAt(v, s, k)
      PROVE  s = v
    <2>1. k = 1
        BY <1>3, <1>4 DEF OccursAt
    <2>2. ASSUME NEW n \in 1..Len(v)
          PROVE  s[n] = v[n]
        <3>1. s[1 + n - 1] = v[n] /\ 1 + n - 1 = n
            BY <1>1, <1>3, <1>4, <2>1, OccursIs
        <3> QED
            BY <3>1
    <2> QED
        BY <1>1, <1>3, <1>4, <2>2
<1>5. ASSUME s = v
      PROVE  OccursAt(v, s, 1) /\ 1 \in DOMAIN s /\ Len(v) = Len(s)
    <2>1. \A n \in 1..Len(v) : 1 + n - 1 = n
        OBVIOUS
    <2> QED
        BY <1>1, <1>3, <1>5, <2>1 DEF OccursAt
<1>6. Len(v) = Len(s) /\ Occurs(v, s) <=> s = v
    BY <1>4, <1>5 DEF Occurs
<1> QED
    BY <1>2, <1>6 DEF s

\* Each operator of strings is one of four comparisons or its negation.
LEMMA OperatorsMean ==
    ASSUME NEW op \in Positive \cup Negative, NEW x, NEW v, NEW s, x # NULL,
           NEW memory \in BOOLEAN,
           Equals(v, x, memory) <=> s = v,
           StartsWith(v, x, memory) <=> OccursAt(v, s, 1),
           EndsWith(v, x, memory) <=> OccursAt(v, s, Len(s) - Len(v) + 1),
           Contains(v, x, memory) <=> Occurs(v, s)
    PROVE  CheckUnicodeEntry(op, x, v, memory) = 1 <=> MeansString(op, s, v)
<1>1. CASE op = "equals"
    <2>1. CheckUnicodeEntry(op, x, v, memory) = 1 <=> Equals(v, x, memory)
        BY <1>1 DEF CheckUnicodeEntry, Once
    <2>2. MeansString(op, s, v) <=> s = v
        BY <1>1 DEF MeansString
    <2> QED
        BY <2>1, <2>2, Zenon
<1>2. CASE op = "notequals"
    <2>1. CheckUnicodeEntry(op, x, v, memory) = 1 <=> ~Equals(v, x, memory)
        BY <1>2 DEF CheckUnicodeEntry, Once
    <2>2. MeansString(op, s, v) <=> ~(s = v)
        BY <1>2 DEF MeansString
    <2> QED
        BY <2>1, <2>2, Zenon
<1>3. CASE op = "startswith"
    <2>1. CheckUnicodeEntry(op, x, v, memory) = 1 <=> StartsWith(v, x, memory)
        BY <1>3 DEF CheckUnicodeEntry, Once
    <2>2. MeansString(op, s, v) <=> OccursAt(v, s, 1)
        BY <1>3 DEF MeansString
    <2> QED
        BY <2>1, <2>2, Zenon
<1>4. CASE op = "notstartswith"
    <2>1. CheckUnicodeEntry(op, x, v, memory) = 1 <=> ~StartsWith(v, x, memory)
        BY <1>4 DEF CheckUnicodeEntry, Once
    <2>2. MeansString(op, s, v) <=> ~OccursAt(v, s, 1)
        BY <1>4 DEF MeansString
    <2> QED
        BY <2>1, <2>2, Zenon
<1>5. CASE op = "endswith"
    <2>1. CheckUnicodeEntry(op, x, v, memory) = 1 <=> EndsWith(v, x, memory)
        BY <1>5 DEF CheckUnicodeEntry, Once
    <2>2. MeansString(op, s, v) <=> OccursAt(v, s, Len(s) - Len(v) + 1)
        BY <1>5 DEF MeansString
    <2> QED
        BY <2>1, <2>2, Zenon
<1>6. CASE op = "notendswith"
    <2>1. CheckUnicodeEntry(op, x, v, memory) = 1 <=> ~EndsWith(v, x, memory)
        BY <1>6 DEF CheckUnicodeEntry, Once
    <2>2. MeansString(op, s, v) <=> ~OccursAt(v, s, Len(s) - Len(v) + 1)
        BY <1>6 DEF MeansString
    <2> QED
        BY <2>1, <2>2, Zenon
<1>7. CASE op = "contains"
    <2>1. CheckUnicodeEntry(op, x, v, memory) = 1 <=> Contains(v, x, memory)
        BY <1>7 DEF CheckUnicodeEntry, Once
    <2>2. MeansString(op, s, v) <=> Occurs(v, s)
        BY <1>7 DEF MeansString
    <2> QED
        BY <2>1, <2>2, Zenon
<1>8. CASE op = "notcontains"
    <2>1. CheckUnicodeEntry(op, x, v, memory) = 1 <=> ~Contains(v, x, memory)
        BY <1>8 DEF CheckUnicodeEntry, Once
    <2>2. MeansString(op, s, v) <=> ~Occurs(v, s)
        BY <1>8 DEF MeansString
    <2> QED
        BY <2>1, <2>2, Zenon
<1> QED
    BY <1>1, <1>2, <1>3, <1>4, <1>5, <1>6, <1>7, <1>8 DEF Positive, Negative

\* A regular string entry.  Without memory only a negative operator counts.
LEMMA StringMeans ==
    ASSUME NEW x \in Seq(Chars), x # NULL,
           NEW value \in Seq(Chars), value # <<>>, Ascii(x), Ascii(value),
           NEW op \in Positive \cup Negative, NEW memory \in BOOLEAN
    PROVE  LET count == CheckUnicodeEntry(op, x, LowerOf(value), memory)
               means == MeansString(op, LowerOf(x), LowerOf(value))
           IN  /\ memory => (count = 1 <=> means)
               /\ ~memory /\ op \notin Negative => count = 0
<1> DEFINE v == LowerOf(value)
           s == LowerOf(x)
<1>1. v \in Seq(Chars) /\ Ascii(v) /\ v # <<>>
    BY LowerIs
<1>2. /\ Equals(v, x, TRUE) <=> s = v
      /\ StartsWith(v, x, TRUE) <=> OccursAt(v, s, 1)
      /\ EndsWith(v, x, TRUE) <=> OccursAt(v, s, Len(s) - Len(v) + 1)
      /\ Contains(v, x, TRUE) <=> Occurs(v, s)
    BY <1>1, EqualsMeans, EndsMean, ContainsMeans
<1> HIDE DEF v, s
<1>3. ASSUME memory
      PROVE  CheckUnicodeEntry(op, x, v, memory) = 1 <=> MeansString(op, s, v)
    <2>1. memory = TRUE
        BY <1>3
    <2>2. /\ Equals(v, x, memory) <=> s = v
          /\ StartsWith(v, x, memory) <=> OccursAt(v, s, 1)
          /\ EndsWith(v, x, memory) <=> OccursAt(v, s, Len(s) - Len(v) + 1)
          /\ Contains(v, x, memory) <=> Occurs(v, s)
        BY <1>2, <2>1, Zenon
    <2> QED
        BY <2>2, OperatorsMean
<1>4. ASSUME ~memory, op \notin Negative
      PROVE  CheckUnicodeEntry(op, x, v, memory) = 0
    <2>1. ~Equals(v, x, memory) /\ ~Contains(v, x, memory)
        BY <1>4 DEF Equals, Contains
    <2>2. ~StartsWith(v, x, memory) /\ ~EndsWith(v, x, memory)
        BY <1>4 DEF StartsWith, EndsWith
    <2>3. op \in Positive
        BY <1>4
    <2> QED
        BY <2>1, <2>2, <2>3 DEF CheckUnicodeEntry, Once, Positive
<1> QED
    BY <1>3, <1>4 DEF v, s

\* The address and string fields are apart.
LEMMA FieldsDisjoint ==
    /\ \A f \in Ipv4Fields : f \notin Ipv6Fields
    /\ \A f \in IpFields : f \notin StringFields
<1>1. \A f \in Ipv4Fields : f \notin Ipv6Fields
    BY DEF Ipv4Fields, Ipv6Fields
<1>2. \A f \in IpFields : f \notin StringFields
    BY DEF IpFields, Ipv4Fields, Ipv6Fields, StringFields, ProcessFields,
        TargetFields, PathFields, RegistryNames
<1> QED
    BY <1>1, <1>2

\* What the loop knows of an entry it evaluates.
Ready(item) ==
    LET x == collected.value[Attribute(rules.kind, item.field)]
    IN  /\ rules.kind \in Kinds /\ IsItem(item) /\ ~Refused(item)
        /\ item.field \in StringFields => x \in Strings \cup {NULL}
        /\ item.field \in IpFields
                => x \in AddressesOf(item.field) \cup {NULL}

\* From the text in the file to the comparison: a regular entry counts if and
\* only if it holds; without memory a positive one may not count.
LEMMA EntryMeans ==
    ASSUME NEW item, Ready(item), Regular(item, collected),
           NEW memory \in BOOLEAN
    PROVE  LET count == Counts(rules.kind, makeNewItem(item), collected, memory)
               means == Means(item, collected)
           IN  /\ memory \/ item.field \notin StringFields
                    => (count = 1 <=> means)
               /\ item.op \notin Negative => (count = 1 => means)
<1> DEFINE kind == rules.kind
           field == item.field
           x == collected.value[Attribute(kind, field)]
           m == CHOOSE m \in DOMAIN Cases(kind) : field \in Cases(kind)[m]
           cfi == makeNewItem(item)
           count == Counts(kind, cfi, collected, memory)
           means == Means(item, collected)
<1>1. /\ cfi.field_type = field /\ cfi.match_type = item.op
      /\ cfi.member = getFieldDataType(field)
      /\ cfi.value = StringToMessage(item)
    BY DEF makeNewItem
<1>2. field \in FieldsOf(kind) /\ ~Missing(kind, field, collected) /\ x # NULL
    BY DEF Regular
<1>3. CASE field \in Ipv4Fields
    <2>1. field \in IpFields /\ field \notin StringFields
          /\ field \notin Ipv6Fields
        BY <1>3, FieldsDisjoint DEF IpFields
    <2>2. /\ x \in Ipv4Addresses /\ item.value.addr \in Ipv4Addresses
          /\ item.value.prefix % ByteBits = 0 /\ ~Zeros(x)
          /\ collected.layer = "connect" /\ item.op = "equals"
        BY <1>2, <1>3, <2>1 DEF Ready, IsItem, Regular, AddressesOf
    <2>3. StringToMessage(item)
            = [bits |-> item.value.prefix,
               subnet |-> Masked(item.value.addr, item.value.prefix)]
        BY <1>3, <2>1 DEF StringToMessage
    <2>4. count = CheckIpv4(collected, x, StringToMessage(item))
        BY <1>1, <1>2, <1>3, <2>1 DEF Counts
    <2>5. means <=> SamePrefix(x, item.value.addr, item.value.prefix)
        BY <1>3, <2>1, <2>2 DEF Means
    <2>6. CheckIpv4(collected, x, StringToMessage(item)) = 1
            <=> SamePrefix(x, item.value.addr, item.value.prefix)
        BY <2>2, <2>3, Ipv4Means
    <2> QED
        BY <2>4, <2>5, <2>6
<1>4. CASE field \in Ipv6Fields
    <2>1. field \in IpFields /\ field \notin StringFields
          /\ field \notin Ipv4Fields
        BY <1>4, FieldsDisjoint DEF IpFields
    <2>2. /\ x \in Ipv6Addresses /\ item.value.addr \in Ipv6Addresses
          /\ item.value.prefix \in 0..(ByteBits * Len(item.value.addr))
          /\ item.value.prefix % ByteBits = 0 /\ item.op = "equals"
        BY <1>2, <1>4, <2>1 DEF Ready, IsItem, Regular, AddressesOf
    <2>3. StringToMessage(item) = item.value
        BY <2>1 DEF StringToMessage
    <2>4. count = CheckIpv6(x, item.value)
        BY <1>1, <1>2, <1>4, <2>1, <2>3 DEF Counts
    <2>5. means <=> SamePrefix(x, item.value.addr, item.value.prefix)
        BY <1>4, <2>1, <2>2 DEF Means
    <2>6. CheckIpv6(x, item.value) = 1
            <=> SamePrefix(x, item.value.addr, item.value.prefix)
        BY <2>2, Ipv6Means
    <2> QED
        BY <2>4, <2>5, <2>6
<1>5. CASE field \in StringFields
    <2>1. field \notin Ipv4Fields /\ field \notin Ipv6Fields
        BY <1>5, FieldsDisjoint DEF IpFields
    <2>2. /\ x \in Seq(Chars) /\ item.value \in Seq(Chars) /\ item.value # <<>>
          /\ Ascii(x) /\ Ascii(item.value)
          /\ item.op \in Positive \cup Negative
        <3>1. x \in Strings /\ item.value \in Seq(Chars)
            BY <1>2, <1>5, FieldsDisjoint DEF Ready, IsItem
        <3>2. item.value # <<>>
            BY <1>5 DEF Ready, Refused
        <3>3. /\ Ascii(x) /\ Ascii(item.value)
              /\ item.op \in Positive \cup Negative
            BY <1>5, <2>1 DEF Regular
        <3> QED
            BY <3>1, <3>2, <3>3, MatchAssumption
    <2> DEFINE path == Translated(field, item.value)
    <2>3. StringToMessage(item) = LowerOf(path)
        BY <1>5, <2>1 DEF StringToMessage
    <2>4. count = CheckUnicodeEntry(item.op, x, LowerOf(path), memory)
        BY <1>1, <1>2, <1>5, <2>1, <2>3 DEF Counts
    <2>5. means <=> MeansString(item.op, LowerOf(x),
                                LowerOf(AsInEvents(field, item.value)))
        BY <1>5, <2>1 DEF Means
    <2>6. field \in NtpathFields /\ HasDrive(item.value) =>
            /\ DriveOf(item.value) \in DOMAIN DosDeviceMap
            /\ LongEnough(item.value)
        BY <1>5, <2>1 DEF Regular
    <2>7. /\ path \in Seq(Chars) /\ Ascii(path) /\ path # <<>>
          /\ LowerOf(path) = LowerOf(AsInEvents(field, item.value))
        BY <2>2, <2>6, TranslationMeans
    <2> HIDE DEF path
    <2> QED
        BY <1>2, <1>5, <2>2, <2>4, <2>5, <2>7, StringMeans
<1>6. CASE field \notin StringFields \cup IpFields
    <2>1. field \notin Ipv4Fields /\ field \notin Ipv6Fields
          /\ field \notin StringFields
        BY <1>6 DEF IpFields
    <2>2. /\ item.op \in NumberOps \ {"notand", "notlessthan", "notgreaterthan"}
          /\ field # "MM_NET_DIRECTION"
        BY <2>1 DEF Regular
    <2>3. kind \in Kinds /\ field \notin Unsupported
        BY DEF Ready, Refused
    <2>4. m = getFieldDataType(field)
        BY <1>2, <1>6, <2>2, <2>3, MemberFilled
    <2>5. StringToMessage(item) = item.value
        BY <2>1 DEF StringToMessage
    <2>6. Member(cfi, m) = item.value
        BY <1>1, <2>4, <2>5 DEF Member
    <2>7. count = CheckNumber(item.op, x, Member(cfi, m))
        BY <1>1, <1>2, <2>1 DEF Counts
    <2>8. means <=> MeansNumber(item.op, x, item.value)
        BY <2>1 DEF Means
    <2> QED
        BY <2>2, <2>6, <2>7, <2>8, NumberMeans
<1> QED
    BY <1>3, <1>4, <1>5, <1>6 DEF IpFields

-----------------------------------------------------------------------------
(* The loop, in Match.                                                     *)

\* The fall through of NOT_AND counts nothing twice: where the bits are not
\* all set the numbers differ.
LEMMA NumberCounts ==
    ASSUME NEW op, NEW x, NEW v
    PROVE  CheckNumber(op, x, v) \in {0, 1}
<1>1. HasBits(x, x)
    BY DEF HasBits
<1>2. Once(~HasBits(x, v)) + Once(x = v) \in {0, 1}
    <2>1. CASE x = v
        BY <1>1, <2>1 DEF Once
    <2>2. CASE x # v
        BY <2>2 DEF Once
    <2> QED
        BY <2>1, <2>2
<1> QED
    BY <1>2, OnceCounts DEF CheckNumber

\* An entry counts once or not at all, whatever its field.
LEMMA EntryCounts ==
    ASSUME NEW kind, NEW cfi, NEW e, NEW memory
    PROVE  Counts(kind, cfi, e, memory) \in {0, 1}
<1>1. \A x, v : CheckIpv4(e, x, v) \in {0, 1}
    BY OnceCounts DEF CheckIpv4
<1>2. \A x, v : CheckIpv6(x, v) \in {0, 1}
    BY OnceCounts DEF CheckIpv6
<1>3. \A op, x, v : CheckUnicodeEntry(op, x, v, memory) \in {0, 1}
    BY OnceCounts DEF CheckUnicodeEntry
<1>4. \A op, x, v : CheckNumber(op, x, v) \in {0, 1}
    BY NumberCounts
<1> QED
    BY <1>1, <1>2, <1>3, <1>4 DEF Counts

\* Only the object list reads a description other than the one it tests.
LEMMA FaultIs ==
    ASSUME NEW kind, NEW field, NEW e, e.PI \in BOOLEAN, e.TPI \in BOOLEAN,
           kind = "process" => e.PI, Faults(kind, field, e)
    PROVE  /\ kind = "object" /\ field = "TARGET_IMAGE_FILE_NAME"
           /\ e.PI /\ ~e.TPI
<1>1. /\ Tests(kind, field) \subseteq Present(e)
      /\ ~(Reads(kind, field) \subseteq Present(e))
    BY DEF Faults, Missing
<1>2. /\ "PI" \in Present(e) <=> e.PI
      /\ "TPI" \in Present(e) <=> e.TPI
    BY DEF Present
<1>3. kind # "process"
    <2> SUFFICES ASSUME kind = "process"
                 PROVE  FALSE
        OBVIOUS
    <2>1. Reads(kind, field) \subseteq {"PI"}
        BY DEF Reads, HasTarget
    <2> QED
        BY <1>1, <1>2, <2>1
<1>4. kind = "object" /\ field = "TARGET_IMAGE_FILE_NAME"
    BY <1>1, <1>3 DEF Tests
<1>5. /\ Tests(kind, field) = {"PI"}
      /\ Reads(kind, field) = {"TPI"}
    BY <1>4 DEF Tests, Reads, HasTarget, TargetFields
<1> QED
    BY <1>1, <1>2, <1>4, <1>5

\* What a rule list has.
LEMMA GroupIs ==
    ASSUME IsRuleList(rules), NEW g \in 1..Len(rules.groups)
    PROVE  LET items == rules.groups[g].items
           IN  /\ Len(items) \in Nat \ {0} /\ DOMAIN items = 1..Len(items)
               /\ \A k \in 1..Len(items) :
                    items[k] \in ItemsOf(rules) /\ IsItem(items[k])
<1> DEFINE group_ == rules.groups[g]
           items == group_.items
<1>1. group_ \in S!ToSet(rules.groups)
    BY DEF IsRuleList, S!ToSet
<1>2. items \in Seq(S!ToSet(items)) \ {<<>>}
    BY <1>1 DEF IsRuleList
<1>3. Len(items) \in Nat \ {0} /\ DOMAIN items = 1..Len(items)
    BY <1>2
<1>4. ASSUME NEW k \in 1..Len(items)
      PROVE  items[k] \in ItemsOf(rules) /\ IsItem(items[k])
    <2>1. items[k] \in S!ToSet(items)
        BY <1>3 DEF S!ToSet
    <2>2. S!ToSet(items) \in {S!ToSet(h.items) : h \in S!ToSet(rules.groups)}
        BY <1>1
    <2>3. items[k] \in ItemsOf(rules)
        BY <2>1, <2>2 DEF ItemsOf
    <2> QED
        BY <1>1, <2>1, <2>3 DEF IsRuleList
<1> QED
    BY <1>3, <1>4

\* All items of a group hold.
LEMMA AllHoldIs ==
    ASSUME IsRuleList(rules), NEW g \in 1..Len(rules.groups)
    PROVE  LET items == rules.groups[g].items
           IN  AllHold(rules.groups[g], collected)
                <=> \A k \in 1..Len(items) : Means(items[k], collected)
<1> DEFINE items == rules.groups[g].items
<1>1. DOMAIN items = 1..Len(items)
    BY GroupIs
<1>2. S!ToSet(items) = {items[k] : k \in 1..Len(items)}
    BY <1>1 DEF S!ToSet
<1> HIDE DEF items
<1>3. (\A item \in S!ToSet(items) : Means(item, collected))
        <=> \A k \in 1..Len(items) : Means(items[k], collected)
    BY <1>2
<1> QED
    BY <1>3 DEF AllHold, items

\* An entry of the list is ready to be evaluated.
LEMMA ItemsReady ==
    ASSUME IsRuleList(rules), CollectedInv, NEW item \in ItemsOf(rules),
           IsItem(item)
    PROVE  Ready(item)
BY DEF CollectedInv, Ready, IsRuleList

\* The inductive invariant holds when the loop starts.
LEMMA LoopStarts == MatchInit => LoopInv
<1> SUFFICES ASSUME MatchInit
             PROVE  LoopInv
    OBVIOUS
<1>1. /\ matches = 0 /\ entry = 0 /\ pc = "scan" /\ group = 1 /\ found = 0
      /\ missed = FALSE
      /\ \A item \in ItemsOf(rules) : ~Refused(item)
    BY DEF MatchInit
<1>2. IsRuleList(rules)
    BY FamiliesAssumption DEF MatchInit
<1>3. PICK c \in Contexts(rules.kind) :
        \E v \in AttributeValues(rules, c) :
            collected = [PI |-> c.PI, TPI |-> c.TPI, layer |-> c.layer,
                         direction |-> c.direction, value |-> v]
    BY DEF MatchInit
<1>4. PICK v \in AttributeValues(rules, c) :
            collected = [PI |-> c.PI, TPI |-> c.TPI, layer |-> c.layer,
                         direction |-> c.direction, value |-> v]
    BY <1>3
<1>5. /\ c.PI \in BOOLEAN /\ c.TPI \in BOOLEAN
      /\ rules.kind = "process" => c.PI
    BY DEF Contexts
<1>6. /\ collected.PI = c.PI /\ collected.TPI = c.TPI
      /\ collected.value = v
    BY <1>4
<1>7. ASSUME NEW item \in ItemsOf(rules)
      PROVE  LET x == collected.value[Attribute(rules.kind, item.field)]
             IN  /\ item.field \in StringFields => x \in Strings \cup {NULL}
                 /\ item.field \in IpFields
                        => x \in AddressesOf(item.field) \cup {NULL}
    <2> DEFINE a == Attribute(rules.kind, item.field)
    <2>1. a \in Attributes(rules)
        BY DEF Attributes
    <2>2. v[a] \in ValuesOf(a, c)
        BY <2>1 DEF AttributeValues
    <2>3. /\ item.field \in StringFields => a \in StringFields
          /\ item.field \in IpFields => a \in IpFields /\ a = item.field
        BY DEF Attribute, IpFields, Ipv4Fields, Ipv6Fields, StringFields,
            ProcessFields
    <2> HIDE DEF a
    <2>4. \A f \in StringFields : f \notin {"MM_NET_DIRECTION", "PHOPERATION"}
        BY DEF StringFields, ProcessFields, TargetFields, PathFields,
            RegistryNames
    <2>5. \A f \in IpFields : f \notin {"MM_NET_DIRECTION", "PHOPERATION"}
        BY DEF IpFields, Ipv4Fields, Ipv6Fields
    <2>6. ASSUME a \in StringFields
          PROVE  ValuesOf(a, c) = Strings \cup {NULL}
        BY <2>4, <2>6, FieldsDisjoint DEF ValuesOf, IpFields
    <2>7. ASSUME a \in IpFields
          PROVE  ValuesOf(a, c) \subseteq AddressesOf(a) \cup {NULL}
        <3>1. a \notin StringFields
              /\ a \notin {"MM_NET_DIRECTION", "PHOPERATION"}
            BY <2>5, <2>7, FieldsDisjoint
        <3>2. CASE a \in Ipv4Fields
            BY <3>1, <3>2, FieldsDisjoint DEF ValuesOf, AddressesOf
        <3>3. CASE a \in Ipv6Fields
            BY <3>1, <3>3, FieldsDisjoint DEF ValuesOf, AddressesOf
        <3> QED
            BY <2>7, <3>2, <3>3 DEF IpFields
    <2> QED
        BY <1>6, <2>2, <2>3, <2>6, <2>7 DEF a
<1>8. CollectedInv
    BY <1>1, <1>5, <1>6, <1>7 DEF CollectedInv
<1>9. Len(rules.groups) \in Nat
    BY <1>2 DEF IsRuleList
<1>10. MatchTypeOK
    <2>1. rules.kind \in Kinds
        BY <1>2 DEF IsRuleList
    <2>2. group \in 1..(Len(rules.groups) + 1)
        BY <1>1, <1>9
    <2>3. found \in {0} \cup {g.id : g \in S!ToSet(rules.groups)}
        BY <1>1
    <2>4. pc \in {"scan", "true", "false", "fault"}
        BY <1>1
    <2>5. entry \in Nat /\ matches \in Nat /\ missed \in BOOLEAN
        BY <1>1
    <2> QED
        BY ONLY <2>1, <2>2, <2>3, <2>4, <2>5 DEF MatchTypeOK
<1>11. PlaceInv
    <2>1. group <= Len(rules.groups) => 0 \in 0..Len(Group.items)
        <3>1. ASSUME group <= Len(rules.groups)
              PROVE  Len(Group.items) \in Nat
            BY <1>1, <1>2, <1>9, <3>1, GroupIs DEF Group
        <3> QED
            BY <3>1
    <2> QED
        BY <1>1, <2>1 DEF PlaceInv
<1> QED
    BY <1>1, <1>2, <1>8, <1>10, <1>11 DEF LoopInv, CountInv, EarlierInv,
        CountedOnce, FaultsOnlyInTarget

\* One entry: it counts once or not at all, and if all are regular it counts
\* if and only if it holds.
LEMMA LoopChecks ==
    ASSUME LoopInv, NEW memory \in BOOLEAN, CheckEntry(memory)
    PROVE  LoopInv'
<1> DEFINE item == Group.items[entry + 1]
           cfi == makeNewItem(item)
           count == Counts(rules.kind, cfi, collected, memory)
           fault == Faults(rules.kind, item.field, collected)
<1>1. cfi.field_type = item.field
    BY DEF makeNewItem
<1>2. /\ entry' = entry + 1 /\ pc = "scan" /\ group <= Len(rules.groups)
      /\ UNCHANGED <<rules, collected, group, found>>
      /\ entry < Len(Group.items)
      /\ IF fault
         THEN pc' = "fault" /\ UNCHANGED <<matches, missed>>
         ELSE /\ matches' = matches + count /\ UNCHANGED pc
              /\ missed' = (missed \/ (~memory /\ item.field \in StringFields))
    BY <1>1 DEF CheckEntry, InGroup
<1>3. IsRuleList(rules) /\ MatchTypeOK /\ CollectedInv /\ PlaceInv /\ CountInv
      /\ EarlierInv /\ CountedOnce
    BY DEF LoopInv
<1>4. /\ Len(rules.groups) \in Nat /\ group \in 1..Len(rules.groups)
      /\ entry \in Nat /\ matches \in Nat
    BY <1>2, <1>3 DEF MatchTypeOK, IsRuleList
<1>5. /\ Len(Group.items) \in Nat /\ entry + 1 \in 1..Len(Group.items)
      /\ item \in ItemsOf(rules) /\ IsItem(item)
    <2>1. /\ Len(Group.items) \in Nat
          /\ \A k \in 1..Len(Group.items) :
                Group.items[k] \in ItemsOf(rules) /\ IsItem(Group.items[k])
        BY <1>3, <1>4, GroupIs DEF Group
    <2>2. entry + 1 \in 1..Len(Group.items)
        BY <1>2, <1>4, <2>1
    <2> QED
        BY <2>1, <2>2
<1>6. count \in {0, 1}
    BY EntryCounts
<1>7. Group' = Group
    BY <1>2 DEF Group
<1> HIDE DEF count, cfi
<1>8. ASSUME AllRegular
      PROVE  /\ memory \/ item.field \notin StringFields
                    => (count = 1 <=> Means(item, collected))
             /\ NoNegative => (count = 1 => Means(item, collected))
    <2>1. Ready(item)
        BY <1>3, <1>5, ItemsReady
    <2>2. Regular(item, collected)
        BY <1>5, <1>8 DEF AllRegular
    <2>3. NoNegative => item.op \notin Negative
        BY <1>5 DEF NoNegative
    <2> QED
        BY <2>1, <2>2, <2>3, EntryMeans DEF count, cfi
<1> HIDE DEF item, fault
<1>9. IsRuleList(rules)' /\ CollectedInv'
    BY <1>2, <1>3 DEF CollectedInv, IsRuleList
<1>10. /\ matches' = matches \/ matches' = matches + 1
       /\ entry' \in Nat /\ matches' \in Nat /\ matches' <= entry'
       /\ pc' \in {"scan", "fault"}
    BY <1>2, <1>3, <1>4, <1>6 DEF CountedOnce
<1>11. MatchTypeOK'
    <2>1. missed' \in BOOLEAN
        BY <1>2, <1>3 DEF MatchTypeOK
    <2> QED
        BY <1>2, <1>3, <1>4, <1>10, <2>1 DEF MatchTypeOK
<1>12. PlaceInv'
    BY <1>2, <1>5, <1>7, <1>10 DEF PlaceInv
<1>13. CountInv'
    <2> SUFFICES ASSUME AllRegular, ~fault
                 PROVE  LET hold == \A k \in 1..(entry + 1) :
                                        Means(Group.items[k], collected)
                        IN  /\ ~missed' \/ NoNegative
                                => (matches' = entry + 1 => hold)
                            /\ ~missed' => (hold => matches' = entry + 1)
        BY <1>2, <1>7 DEF CountInv, AllRegular, NoNegative, Means, Regular
    <2> DEFINE before == \A k \in 1..entry : Means(Group.items[k], collected)
               hold == \A k \in 1..(entry + 1) :
                            Means(Group.items[k], collected)
    <2>1. hold <=> before /\ Means(item, collected)
        <3>1. 1..(entry + 1) = (1..entry) \cup {entry + 1}
            BY <1>4
        <3> QED
            BY <3>1 DEF item
    <2>2. /\ ~missed \/ NoNegative => (matches = entry => before)
          /\ ~missed => (before => matches = entry)
        BY <1>2, <1>3 DEF CountInv
    <2>3. /\ matches' = matches + count
          /\ ~missed' => ~missed /\ (memory \/ item.field \notin StringFields)
        BY <1>2
    <2>4. matches <= entry
        BY <1>3 DEF CountedOnce
    <2> HIDE DEF before, hold
    <2>5. ASSUME ~missed' \/ NoNegative, matches' = entry + 1
          PROVE  hold
        <3>1. matches = entry /\ count = 1
            BY <1>4, <1>6, <2>3, <2>4, <2>5
        <3>2. before
            BY <2>2, <2>3, <2>5, <3>1
        <3>3. Means(item, collected)
            BY <1>8, <2>3, <2>5, <3>1
        <3> QED
            BY <2>1, <3>2, <3>3
    <2>6. ASSUME ~missed', hold
          PROVE  matches' = entry + 1
        <3>1. matches = entry
            BY <2>1, <2>2, <2>3, <2>6
        <3>2. count = 1
            BY <1>8, <2>1, <2>3, <2>6
        <3> QED
            BY <2>3, <3>1, <3>2
    <2> QED
        BY <2>5, <2>6 DEF hold
<1>14. EarlierInv'
    <2>1. ~missed' => ~missed
        BY <1>2
    <2> QED
        BY <1>2, <1>3, <2>1 DEF EarlierInv, AllRegular, AllHold, Means, Regular
<1>15. FaultsOnlyInTarget'
    <2> SUFFICES ASSUME pc' = "fault"
                 PROVE  FaultsOnlyInTarget'
        BY DEF FaultsOnlyInTarget
    <2>1. Faults(rules.kind, item.field, collected)
        BY <1>2 DEF fault
    <2>2. /\ rules.kind = "object" /\ item.field = "TARGET_IMAGE_FILE_NAME"
          /\ collected.PI /\ ~collected.TPI
        BY <1>3, <2>1, FaultIs DEF CollectedInv
    <2> QED
        BY <1>2, <2>2 DEF FaultsOnlyInTarget, item, Group
<1> QED
    BY <1>9, <1>10, <1>11, <1>12, <1>13, <1>14, <1>15 DEF LoopInv, CountedOnce

\* A group all of whose entries counted.
LEMMA LoopHits ==
    ASSUME LoopInv, GroupHit
    PROVE  LoopInv'
<1>1. /\ pc = "scan" /\ group <= Len(rules.groups)
      /\ entry = Len(Group.items) /\ matches >= Len(Group.items)
      /\ pc' = "true" /\ found' = Group.id
      /\ UNCHANGED <<rules, collected, group, entry, matches, missed>>
    BY DEF GroupHit, InGroup
<1>2. IsRuleList(rules) /\ MatchTypeOK /\ CollectedInv /\ PlaceInv /\ CountInv
      /\ EarlierInv /\ CountedOnce
    BY DEF LoopInv
<1>3. Group' = Group
    BY <1>1 DEF Group
<1>4. found' \in {g.id : g \in S!ToSet(rules.groups)}
    <2>1. Group \in S!ToSet(rules.groups)
        BY <1>1, <1>2 DEF Group, S!ToSet, IsRuleList, MatchTypeOK
    <2> QED
        BY <1>1, <2>1
<1>5. MatchTypeOK'
    BY <1>1, <1>2, <1>4 DEF MatchTypeOK
<1>6. PlaceInv'
    BY <1>1, <1>2, <1>3 DEF PlaceInv
<1>7. CountInv' /\ EarlierInv'
    BY <1>1, <1>2, <1>3 DEF CountInv, EarlierInv, AllRegular, NoNegative,
        AllHold, Means, Regular
<1>8. IsRuleList(rules)' /\ CollectedInv' /\ CountedOnce' /\ FaultsOnlyInTarget'
    BY <1>1, <1>2 DEF CollectedInv, IsRuleList, CountedOnce, FaultsOnlyInTarget
<1> QED
    BY <1>5, <1>6, <1>7, <1>8 DEF LoopInv

\* A group that is left: the group does not hold if all are regular.
LEMMA LoopMisses ==
    ASSUME LoopInv, GroupMiss
    PROVE  LoopInv'
<1>1. /\ pc = "scan" /\ group <= Len(rules.groups)
      /\ entry = Len(Group.items) /\ matches < Len(Group.items)
      /\ group' = group + 1 /\ entry' = 0 /\ matches' = 0
      /\ UNCHANGED <<rules, collected, pc, found, missed>>
    BY DEF GroupMiss, InGroup
<1>2. IsRuleList(rules) /\ MatchTypeOK /\ CollectedInv /\ PlaceInv /\ CountInv
      /\ EarlierInv /\ CountedOnce
    BY DEF LoopInv
<1>3. /\ Len(rules.groups) \in Nat /\ group \in 1..Len(rules.groups)
      /\ group' \in 1..(Len(rules.groups) + 1)
    BY <1>1, <1>2 DEF MatchTypeOK, IsRuleList
<1>4. MatchTypeOK'
    BY <1>1, <1>2, <1>3 DEF MatchTypeOK
<1>5. PlaceInv'
    <2>1. ASSUME group' <= Len(rules.groups)
          PROVE  0 \in 0..Len(rules.groups[group'].items)
        <3>1. group' \in 1..Len(rules.groups)
            BY <1>3, <2>1
        <3>2. Len(rules.groups[group'].items) \in Nat
            BY <1>2, <3>1, GroupIs
        <3> QED
            BY <3>2
    <2> QED
        BY <1>1, <2>1 DEF PlaceInv, Group
<1>6. CountInv'
    BY <1>1 DEF CountInv
<1>7. EarlierInv'
    <2> SUFFICES ASSUME AllRegular, ~missed, NEW g \in 1..group
                 PROVE  ~AllHold(rules.groups[g], collected)
        BY <1>1, <1>3 DEF EarlierInv, AllRegular, AllHold, Means, Regular
    <2>1. CASE g \in 1..(group - 1)
        BY <1>2, <2>1 DEF EarlierInv
    <2>2. CASE g = group
        <3>1. ~(matches = entry)
            BY <1>1, <1>2 DEF MatchTypeOK
        <3>2. ~ \A k \in 1..entry : Means(Group.items[k], collected)
            BY <1>1, <1>2, <3>1 DEF CountInv
        <3> QED
            BY <1>1, <1>2, <1>3, <2>2, <3>2, AllHoldIs DEF Group
    <2> QED
        BY <1>3, <2>1, <2>2
<1>8. IsRuleList(rules)' /\ CollectedInv' /\ CountedOnce' /\ FaultsOnlyInTarget'
    BY <1>1, <1>2 DEF CollectedInv, IsRuleList, CountedOnce, FaultsOnlyInTarget
<1> QED
    BY <1>4, <1>5, <1>6, <1>7, <1>8 DEF LoopInv

\* The end of the list.
LEMMA LoopEnds ==
    ASSUME LoopInv, ListMiss
    PROVE  LoopInv'
<1>1. /\ pc = "scan" /\ group > Len(rules.groups) /\ pc' = "false"
      /\ UNCHANGED <<rules, collected, group, entry, matches, found, missed>>
    BY DEF ListMiss
<1>2. IsRuleList(rules) /\ MatchTypeOK /\ CollectedInv /\ PlaceInv /\ CountInv
      /\ EarlierInv /\ CountedOnce
    BY DEF LoopInv
<1>3. Len(rules.groups) \in Nat /\ group = Len(rules.groups) + 1
    BY <1>1, <1>2 DEF MatchTypeOK, IsRuleList
<1>4. MatchTypeOK' /\ PlaceInv'
    BY <1>1, <1>2, <1>3 DEF MatchTypeOK, PlaceInv
<1>5. CountInv' /\ EarlierInv'
    BY <1>1, <1>2, <1>3 DEF CountInv, EarlierInv, AllRegular, AllHold, Means,
        Regular
<1>6. IsRuleList(rules)' /\ CollectedInv' /\ CountedOnce' /\ FaultsOnlyInTarget'
    BY <1>1, <1>2 DEF CollectedInv, IsRuleList, CountedOnce, FaultsOnlyInTarget
<1> QED
    BY <1>4, <1>5, <1>6 DEF LoopInv

\* Every step preserves the inductive invariant.
LEMMA LoopSteps == LoopInv /\ [MatchNext]_matchVars => LoopInv'
<1> SUFFICES ASSUME LoopInv, [MatchNext]_matchVars
             PROVE  LoopInv'
    OBVIOUS
<1>1. CASE CheckEntry(TRUE) \/ CheckEntry(FALSE)
    BY <1>1, LoopChecks
<1>2. CASE GroupHit
    BY <1>2, LoopHits
<1>3. CASE GroupMiss
    BY <1>3, LoopMisses
<1>4. CASE ListMiss
    BY <1>4, LoopEnds
<1>5. CASE UNCHANGED matchVars
    <2>1. UNCHANGED <<rules, collected, pc, group, entry, matches, found,
                      missed>>
        BY <1>5 DEF matchVars
    <2>2. IsRuleList(rules)' /\ MatchTypeOK' /\ CollectedInv'
        BY <2>1 DEF LoopInv, IsRuleList, MatchTypeOK, CollectedInv
    <2>3. PlaceInv' /\ CountedOnce' /\ FaultsOnlyInTarget'
        BY <2>1 DEF LoopInv, PlaceInv, Group, CountedOnce, FaultsOnlyInTarget
    <2>4. AllRegular' = AllRegular /\ NoNegative' = NoNegative
        BY <2>1 DEF AllRegular, NoNegative, Regular
    <2>5. CountInv'
        BY <2>1, <2>4 DEF LoopInv, CountInv, Group, Means
    <2>6. EarlierInv'
        BY <2>1, <2>4 DEF LoopInv, EarlierInv, AllHold, Means
    <2> QED
        BY <2>2, <2>3, <2>5, <2>6 DEF LoopInv
<1> QED
    BY <1>1, <1>2, <1>3, <1>4, <1>5 DEF MatchNext

\* The invariant says what the loop ends with.
LEMMA LoopInvSays ==
    ASSUME LoopInv
    PROVE  MatchesDocs /\ MissesOnly
<1>1. IsRuleList(rules) /\ MatchTypeOK /\ PlaceInv /\ CountInv /\ EarlierInv
      /\ CountedOnce
    BY DEF LoopInv
<1>2. Len(rules.groups) \in Nat /\ DOMAIN rules.groups = 1..Len(rules.groups)
    BY <1>1 DEF IsRuleList
<1>3. ASSUME AllRegular, pc = "true", ~missed \/ NoNegative
      PROVE  /\ group \in 1..Len(rules.groups)
             /\ AllHold(rules.groups[group], collected)
    <2>1. /\ group \in 1..Len(rules.groups)
          /\ entry = Len(Group.items) /\ matches = entry
        BY <1>1, <1>2, <1>3 DEF MatchTypeOK, PlaceInv, CountedOnce
    <2>2. \A k \in 1..entry : Means(Group.items[k], collected)
        BY <1>1, <1>2, <1>3, <2>1 DEF CountInv
    <2> QED
        BY <1>1, <2>1, <2>2, AllHoldIs DEF Group
<1>4. ASSUME AllRegular, ~missed
      PROVE  \A g \in 1..(group - 1) : ~AllHold(rules.groups[g], collected)
    BY <1>1, <1>4 DEF EarlierInv
<1>5. MatchesDocs
    <2> SUFFICES ASSUME ~missed, AllRegular
                 PROVE  LET hits == {g \in DOMAIN rules.groups :
                                        AllHold(rules.groups[g], collected)}
                        IN  /\ pc = "true" => /\ group \in hits
                                              /\ \A g \in hits : group <= g
                                              /\ found = rules.groups[group].id
                            /\ pc = "false" => hits = {}
        BY DEF MatchesDocs, AllRegular
    <2> DEFINE hits == {g \in DOMAIN rules.groups :
                            AllHold(rules.groups[g], collected)}
    <2>1. \A g \in hits : g \in 1..Len(rules.groups) /\ ~(g \in 1..(group - 1))
        BY <1>2, <1>4
    <2>2. group \in Nat
        BY <1>1 DEF MatchTypeOK
    <2>3. \A g \in hits : group <= g
        BY <1>2, <2>1, <2>2
    <2>4. pc = "true" => group \in hits /\ found = rules.groups[group].id
        BY <1>1, <1>2, <1>3 DEF PlaceInv, Group
    <2>5. pc = "false" => hits = {}
        BY <1>1, <1>2, <2>1, <2>3 DEF PlaceInv
    <2> QED
        BY <2>3, <2>4, <2>5
<1>6. MissesOnly
    <2> SUFFICES ASSUME pc = "true", NoNegative, AllRegular
                 PROVE  AllHold(rules.groups[group], collected)
        BY DEF MissesOnly, AllRegular, NoNegative
    <2> QED
        BY <1>3
<1> QED
    BY <1>5, <1>6

\* The inductive invariant of the loop.
THEOREM LoopInvariance == MatchSpec => []LoopInv
<1> QED
    BY LoopStarts, LoopSteps, PTL DEF MatchSpec

\* For rules and events of any size, the loop ends with the first rule all of
\* whose conditions hold as the documentation says, or with none if there is
\* none, when the conditions are regular and no memory was missing.
THEOREM RulesMeanTheDocs == MatchSpec => []MatchesDocs
<1>1. LoopInv => MatchesDocs
    BY LoopInvSays
<1> QED
    BY <1>1, LoopInvariance, PTL

\* Missing memory makes up no match of a rule without negative operators.
THEOREM MissesHide == MatchSpec => []MissesOnly
<1>1. LoopInv => MissesOnly
    BY LoopInvSays
<1> QED
    BY <1>1, LoopInvariance, PTL

\* No entry counts twice, for rules and events of any size: a group whose
\* count reaches its length has only entries that counted.
THEOREM EntriesCountOnce == MatchSpec => []CountedOnce
<1>1. LoopInv => CountedOnce
    BY DEF LoopInv
<1> QED
    BY <1>1, LoopInvariance, PTL

\* No rule is evaluated on a process description that is not there, but for
\* the target of an object access that the object list does not test.
THEOREM OnlyTargetFaults == MatchSpec => []FaultsOnlyInTarget
<1>1. LoopInv => FaultsOnlyInTarget
    BY DEF LoopInv
<1> QED
    BY <1>1, LoopInvariance, PTL

=============================================================================
