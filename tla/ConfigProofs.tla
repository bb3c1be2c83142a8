---------------------------- MODULE ConfigProofs ----------------------------
(***************************************************************************)
(* Proofs about Config: for every configuration, number of runs and limit, *)
(* the driver enforces only what the user gave, a group has each value     *)
(* that was read once, and the registry has what the files ask for.        *)
(*                                                                         *)
(* The second half is about the agent.  WriterInv says how far it has come *)
(* in its files; a step either moves it or writes a condition.             *)
(***************************************************************************)
EXTENDS Config, TLAPS, FiniteSetTheorems, SequenceTheorems,
        WellFoundedInduction

USE DEF vars, agentVars, driverVars

-----------------------------------------------------------------------------
(* Values and what the agent stores.                                       *)

\* The two kinds of values.
LEMMA ValueFields ==
    ASSUME NEW v \in Values
    PROVE  /\ v.name[1] \in {"flag", "rule"}
           /\ v.name[1] = "flag" => v.name[2] \in Flags
           /\ v.name[1] = "rule" =>
                v.name[2] \in Lists /\ v.name[3] \in Ids /\ v.data \in Items
BY DEF Values

\* A flag that is on, and a condition of a rule, as values.
LEMMA FlagValue ==
    ASSUME NEW f \in Flags
    PROVE  [name |-> FlagName(f), data |-> TRUE] \in Values
BY DEF Values, FlagName

LEMMA RuleValue ==
    ASSUME NEW l \in Lists, NEW n \in Nat, NEW d \in Items
    PROVE  [name |-> RuleName(l, d.id, n), data |-> d] \in Values
<1>1. d.id \in Ids
    BY DEF Items
<1> QED
    BY <1>1 DEF Values, RuleName

\* Storing a value appends it, or puts it in the place of those with its name.
LEMMA StoredValues ==
    ASSUME NEW reg \in Seq(Values), NEW name, NEW data,
           [name |-> name, data |-> data] \in Values
    PROVE  /\ Stored(reg, name, data) \in Seq(Values)
           /\ \A i \in DOMAIN Stored(reg, name, data) :
                \/ Stored(reg, name, data)[i] = [name |-> name, data |-> data]
                \/ i \in DOMAIN reg /\ Stored(reg, name, data)[i] = reg[i]
<1> DEFINE value == [name |-> name, data |-> data]
           same == {i \in DOMAIN reg : reg[i].name = name}
           put == [i \in DOMAIN reg |-> IF i \in same THEN value ELSE reg[i]]
<1>1. /\ Len(reg) \in Nat /\ DOMAIN reg = 1..Len(reg)
      /\ \A i \in 1..Len(reg) : reg[i] \in Values
    BY LenProperties, ElementOfSeq
<1>2. CASE same = {}
    <2>1. Stored(reg, name, data) = Append(reg, value)
        BY <1>2 DEF Stored
    <2>2. /\ Append(reg, value) \in Seq(Values)
          /\ DOMAIN Append(reg, value) = 1..(Len(reg) + 1)
          /\ \A i \in 1..Len(reg) : Append(reg, value)[i] = reg[i]
          /\ Append(reg, value)[Len(reg) + 1] = value
        <3> HIDE DEF value
        <3>1. /\ Append(reg, value) \in Seq(Values)
              /\ Len(Append(reg, value)) = Len(reg) + 1
              /\ \A i \in 1..Len(reg) : Append(reg, value)[i] = reg[i]
              /\ Append(reg, value)[Len(reg) + 1] = value
            BY AppendProperties DEF value
        <3>2. DOMAIN Append(reg, value) = 1..Len(Append(reg, value))
            BY <3>1, LenProperties
        <3> QED
            BY <3>1, <3>2
    <2> QED
        BY <1>1, <2>1, <2>2
<1>3. CASE same # {}
    <2>1. Stored(reg, name, data) = put
        BY <1>3 DEF Stored
    <2>2. \A i \in 1..Len(reg) : put[i] \in Values
        BY <1>1
    <2>3. put \in Seq(Values)
        BY <1>1, <2>2, IsASeq
    <2> QED
        BY <1>1, <2>1, <2>3
<1> QED
    BY <1>2, <1>3

-----------------------------------------------------------------------------
(* The agent.                                                              *)

\* Where the agent is in its lists, and the rule it is at.
LEMMA AtRuleTyped ==
    ASSUME TypeOK, InLists, at.entry <= Len(Conf.lists[List])
    PROVE  /\ List \in Lists
           /\ Conf.lists[List] \in Seq(Rule)
           /\ at.entry \in DOMAIN Conf.lists[List]
           /\ Entry \in Rule
           /\ at.rule # 0 /\ at.rule <= Len(Entry.rules) =>
                /\ at.rule \in DOMAIN Entry.rules
                /\ Entry.rules[at.rule] \in Conditions
<1>1. at.list \in 1..Len(ListOrder)
    BY ConfigAssumption DEF TypeOK, InLists
<1>2. List \in Lists
    BY <1>1, ElementOfSeq, ConfigAssumption DEF List
<1>3. Conf.lists[List] \in Seq(Rule)
    BY <1>2 DEF TypeOK
<1>4. at.entry \in 1..Len(Conf.lists[List])
    BY <1>3 DEF TypeOK
<1>5. Entry \in Rule /\ at.entry \in DOMAIN Conf.lists[List]
    BY <1>3, <1>4, ElementOfSeq, LenProperties DEF Entry
<1>6. Entry.rules \in Seq(Conditions)
    BY <1>5 DEF Rule
<1>7. ASSUME at.rule # 0, at.rule <= Len(Entry.rules)
      PROVE  /\ at.rule \in DOMAIN Entry.rules
             /\ Entry.rules[at.rule] \in Conditions
    <2>1. at.rule \in 1..Len(Entry.rules)
        BY <1>6, <1>7 DEF TypeOK
    <2> QED
        BY <1>6, <2>1, ElementOfSeq, LenProperties
<1> QED
    BY <1>2, <1>3, <1>5, <1>7

\* A condition goes to the registry under the name of its rule.
LEMMA ConditionValue ==
    ASSUME TypeOK, RuleInv, AtCondition
    PROVE  LET d == [id |-> Entry.id, cond |-> Entry.rules[at.rule],
                     actions |-> actions]
           IN  /\ d \in Items
               /\ [name |-> RuleName(List, Entry.id, item), data |-> d]
                        \in Values
               /\ List \in Lists /\ at.entry \in DOMAIN Conf.lists[List]
               /\ at.rule \in DOMAIN Entry.rules /\ Entry.id # 0
<1>1. /\ InLists /\ at.rule # 0 /\ at.rule <= Len(Entry.rules)
      /\ at.entry <= Len(Conf.lists[List]) /\ Entry.id # 0
    BY DEF AtCondition, RuleInv
<1>2. /\ List \in Lists /\ Entry \in Rule
      /\ at.entry \in DOMAIN Conf.lists[List]
      /\ at.rule \in DOMAIN Entry.rules
      /\ Entry.rules[at.rule] \in Conditions
    BY <1>1, AtRuleTyped
<1>3. Entry.id \in Ids /\ actions \in SUBSET Bits /\ item \in Nat
    BY <1>1, <1>2 DEF Rule, TypeOK
<1> DEFINE d == [id |-> Entry.id, cond |-> Entry.rules[at.rule],
                 actions |-> actions]
<1>4. d \in Items /\ d.id = Entry.id
    BY <1>2, <1>3 DEF Items
<1> HIDE DEF d
<1>5. [name |-> RuleName(List, Entry.id, item), data |-> d] \in Values
    BY <1>2, <1>3, <1>4, RuleValue
<1> QED
    BY <1>1, <1>2, <1>4, <1>5 DEF d

\* A file of a configuration, merged into what was read before.
LEMMA MergedTyped ==
    ASSUME NEW c, c.on \subseteq Flags, c.lists \in [Lists -> Seq(Rule)],
           NEW file, IsFile(file)
    PROVE  /\ Merged(c, file).on \subseteq Flags
           /\ Merged(c, file).lists \in [Lists -> Seq(Rule)]
BY DEF Merged, IsFile

\* The files of a configuration that the agent started with.
LEMMA FilesTyped ==
    ASSUME TypeOK, at.file <= Len(files)
    PROVE  at.file \in DOMAIN files /\ IsFile(files[at.file])
<1>1. files # <<>>
    <2>1. Len(<<>>) = 0
        OBVIOUS
    <2> QED
        BY <2>1 DEF TypeOK
<1>2. IsConfig(files)
    BY <1>1, ConfigAssumption DEF TypeOK
<1> QED
    BY <1>2 DEF TypeOK, IsConfig

\* The ways the agent moves on keep its place in its type.
Places == [file : Nat \ {0}, flag : Nat \ {0}, list : Nat \ {0},
           entry : Nat \ {0}, rule : Nat]

LEMMA PlaceTyped ==
    ASSUME NEW p \in Places
    PROVE  /\ [p EXCEPT !.flag = @ + 1] \in Places
           /\ [p EXCEPT !.entry = @ + 1] \in Places
           /\ [p EXCEPT !.rule = @ + 1] \in Places
           /\ [p EXCEPT !.rule = 1] \in Places
           /\ [p EXCEPT !.rule = 0, !.entry = @ + 1] \in Places
           /\ [p EXCEPT !.list = @ + 1, !.entry = 1] \in Places
           /\ [Start EXCEPT !.file = p.file] \in Places
           /\ [Start EXCEPT !.file = p.file + 1] \in Places
<1>1. /\ p.file \in Nat \ {0} /\ p.flag \in Nat \ {0} /\ p.list \in Nat \ {0}
      /\ p.entry \in Nat \ {0} /\ p.rule \in Nat
    BY DEF Places
<1>2. [p EXCEPT !.flag = @ + 1] \in Places
    BY <1>1 DEF Places
<1>3. [p EXCEPT !.entry = @ + 1] \in Places
    BY <1>1 DEF Places
<1>4. [p EXCEPT !.rule = @ + 1] \in Places
    BY <1>1 DEF Places
<1>5. [p EXCEPT !.rule = 1] \in Places
    BY <1>1 DEF Places
<1>6. [p EXCEPT !.rule = 0, !.entry = @ + 1] \in Places
    <2> DEFINE n == p.entry + 1
    <2>1. n \in Nat \ {0}
        BY <1>1
    <2> HIDE DEF n
    <2>2. [p EXCEPT !.rule = 0, !.entry = n] \in Places
        BY <1>1, <2>1 DEF Places
    <2> QED
        BY <2>2 DEF n
<1>7. [p EXCEPT !.list = @ + 1, !.entry = 1] \in Places
    <2> DEFINE n == p.list + 1
               one == 1
    <2>1. n \in Nat \ {0} /\ one \in Nat \ {0}
        BY <1>1
    <2> HIDE DEF n, one
    <2>2. [p EXCEPT !.list = n, !.entry = one] \in Places
        BY <1>1, <2>1 DEF Places
    <2> QED
        BY <2>2 DEF n, one
<1>8. /\ [Start EXCEPT !.file = p.file] \in Places
      /\ [Start EXCEPT !.file = p.file + 1] \in Places
    BY <1>1 DEF Places, Start
<1> QED
    BY <1>2, <1>3, <1>4, <1>5, <1>6, <1>7, <1>8

\* The steps of the agent other than those that start it or the driver.
AgentMoves ==
    \/ NextFile \/ WriteFlag \/ EndFlags \/ ProcessList \/ EndFile \/ AgentDies

\* A step of the agent keeps the types, those of the driver's variables with
\* them.
LEMMA AgentTypeStep ==
    ASSUME TypeOK, RuleInv, AgentMoves \/ \E fs \in Configs : StartAgent(fs)
    PROVE  TypeOK'
<1>0. at \in Places
    BY DEF TypeOK, Places
<1>1. ASSUME NEW fs \in Configs, StartAgent(fs)
      PROVE  TypeOK'
    <2>1. GivenBy(fs) \subseteq [list : Lists, id : Ids, cond : Conditions]
        BY DEF GivenBy
    <2>2. /\ Nothing.on \subseteq Flags
          /\ Nothing.lists \in [Lists -> Seq(Rule)]
        BY EmptySeq DEF Nothing
    <2>3. runs' \in 0..MaxRuns
        BY <1>1, ConfigAssumption DEF StartAgent, TypeOK
    <2> QED
        BY <1>1, <2>1, <2>2, <2>3 DEF StartAgent, TypeOK, Start
<1>2. CASE NextFile
    <2>1. /\ Conf'.on \subseteq Flags /\ Conf'.lists \in [Lists -> Seq(Rule)]
        BY <1>2, FilesTyped, MergedTyped DEF NextFile, TypeOK
    <2> QED
        BY <1>2, <2>1 DEF NextFile, TypeOK, Start
<1>3. CASE WriteFlag
    <2>1. at.flag \in 1..Len(FlagOrder)
        BY <1>3, ConfigAssumption DEF WriteFlag, TypeOK
    <2>2. FlagOrder[at.flag] \in Flags
        BY <2>1, ElementOfSeq, ConfigAssumption
    <2>3. registry' \in Seq(Values)
        BY <1>3, <2>2, FlagValue, StoredValues DEF WriteFlag, TypeOK
    <2>4. at' \in Places
        BY <1>0, <1>3, PlaceTyped DEF WriteFlag
    <2> QED
        BY <1>3, <2>3, <2>4 DEF WriteFlag, TypeOK, Places
<1>4. CASE EndFlags
    BY <1>4 DEF EndFlags, TypeOK
<1>5. CASE BadEntry \/ BadCondition \/ AgentDies
    BY <1>5 DEF BadEntry, BadCondition, AgentDies, Fatal, TypeOK
<1>6. CASE SkipEntry
    <2>1. at' \in Places
        BY <1>0, <1>6, PlaceTyped DEF SkipEntry
    <2> QED
        BY <1>6, <2>1 DEF SkipEntry, TypeOK, Places
<1>7. CASE BeginEntry
    <2>1. Entry \in Rule
        BY <1>7, AtRuleTyped DEF BeginEntry, AtEntry
    <2>2. /\ Entry.id \in Ids
          /\ Entry.action \in SUBSET Bits
        BY <1>7, <2>1 DEF BeginEntry, Rule
    <2> QED
        BY <1>7, <2>2 DEF BeginEntry, TypeOK
<1>8. CASE WriteCondition
    <2>1. registry' \in Seq(Values)
        BY <1>8, ConditionValue, StoredValues DEF WriteCondition, TypeOK
    <2>2. at' \in Places
        BY <1>0, <1>8, PlaceTyped DEF WriteCondition
    <2>3. item' \in Nat
        BY <1>8 DEF WriteCondition, NextItem, TypeOK
    <2>4. UNCHANGED <<agent, files, Conf, ids, actions, driverVars, runs, given,
                      faults>>
        BY <1>8 DEF WriteCondition
    <2> QED
        BY <2>1, <2>2, <2>3, <2>4 DEF TypeOK, Places, driverVars
<1>9. CASE EndEntry \/ EndList
    <2>1. at' \in Places
        BY <1>0, <1>9, PlaceTyped DEF EndEntry, EndList
    <2> QED
        BY <1>9, <2>1 DEF EndEntry, EndList, TypeOK, Places
<1>10. CASE EndFile
    <2>1. at.file + 1 \in Nat \ {0}
        BY DEF TypeOK
    <2>2. at' \in Places
        BY <1>10, <2>1 DEF EndFile, Start, Places
    <2> QED
        BY <1>10, <2>2 DEF EndFile, TypeOK, Places
<1> QED
    BY <1>1, <1>2, <1>3, <1>4, <1>5, <1>6, <1>7, <1>8, <1>9, <1>10
        DEF AgentMoves, ProcessList

\* What the agent reads and writes was given by the user.
LEMMA AgentGivenStep ==
    ASSUME TypeOK, AgentGiven,
           AgentMoves \/ \E fs \in Configs : StartAgent(fs)
    PROVE  AgentGiven'
<1>1. ASSUME NEW fs \in Configs, StartAgent(fs)
      PROVE  AgentGiven'
    <2>1. /\ files' = fs /\ given' = given \cup GivenBy(fs)
          /\ \A l \in Lists : Conf'.lists[l] = <<>>
        BY <1>1 DEF StartAgent, Nothing
    <2>2. DOMAIN <<>> = {}
        OBVIOUS
    <2>3. GivenBy(files)' = GivenBy(fs)
        BY <2>1 DEF GivenBy
    <2> QED
        BY <2>1, <2>2, <2>3 DEF AgentGiven
<1>2. CASE NextFile
    <2> DEFINE file == files[at.file]
    <2>1. /\ files' = files /\ given' = given /\ Conf' = Merged(Conf, file)
          /\ at.file \in DOMAIN files /\ IsFile(file)
        BY <1>2, FilesTyped DEF NextFile
    <2>2. ASSUME NEW l \in Lists, NEW i \in DOMAIN Conf'.lists[l]
          PROVE  GivenRule(l, Conf.lists[l][i])'
        <3>1. CASE l \in DOMAIN file.lists
            <4>1. Conf'.lists[l] = file.lists[l]
                BY <2>1, <3>1 DEF Merged
            <4> DEFINE e == file.lists[l][i]
            <4>2. e \in ToSet(file.lists[l]) /\ e \in Rule
                <5>1. file.lists[l] \in Seq(Rule) /\ i \in 1..Len(file.lists[l])
                    BY <2>1, <2>2, <3>1, <4>1, LenProperties DEF IsFile
                <5> QED
                    BY <2>2, <4>1, <5>1, ElementOfSeq DEF ToSet
            <4>3. ASSUME e.id # 0, NEW c \in ToSet(e.rules)
                  PROVE  [list |-> l, id |-> e.id, cond |-> c] \in given
                <5> HIDE DEF e, file
                <5>1. e.id \in Ids /\ e.rules \in Seq(Conditions)
                    BY <4>2, <4>3 DEF Rule
                <5>2. c \in Conditions
                    BY <4>3, <5>1, ElementOfSeq, LenProperties DEF ToSet
                <5>3. [list |-> l, id |-> e.id, cond |-> c] \in GivenBy(files)
                    BY <2>1, <3>1, <4>2, <4>3, <5>1, <5>2 DEF GivenBy, file
                <5> QED
                    BY <5>3 DEF AgentGiven
            <4> QED
                BY <2>1, <4>1, <4>3 DEF GivenRule
        <3>2. CASE l \notin DOMAIN file.lists
            <4>1. Conf'.lists[l] = Conf.lists[l]
                BY <2>1, <3>2 DEF Merged
            <4> QED
                BY <2>1, <2>2, <4>1 DEF AgentGiven, GivenRule
        <3> QED
            BY <3>1, <3>2
    <2>3. GivenBy(files)' = GivenBy(files)
        BY <2>1 DEF GivenBy
    <2> QED
        BY <2>1, <2>2, <2>3 DEF AgentGiven
<1>3. CASE WriteFlag \/ EndFlags \/ ProcessList \/ EndFile \/ AgentDies
    <2>1. UNCHANGED <<files, given, Conf>>
        BY <1>3 DEF WriteFlag, EndFlags, ProcessList, EndFile, AgentDies, Fatal,
                    BadEntry, SkipEntry, BeginEntry, BadCondition,
                    WriteCondition, EndEntry, EndList
    <2> QED
        BY <2>1 DEF AgentGiven, GivenRule, GivenBy
<1> QED
    BY <1>1, <1>2, <1>3 DEF AgentMoves

\* The registry has only what was given, each value under its rule.
LEMMA RegistryGivenStep ==
    ASSUME TypeOK, AgentGiven, RegistryGiven, RuleInv,
           AgentMoves \/ \E fs \in Configs : StartAgent(fs)
    PROVE  RegistryGiven'
<1>1. given \subseteq given'
    BY DEF AgentMoves, StartAgent, NextFile, WriteFlag, EndFlags, ProcessList,
           EndFile, AgentDies, Fatal, BadEntry, SkipEntry, BeginEntry,
           BadCondition, WriteCondition, EndEntry, EndList
<1>2. CASE WriteFlag
    <2>1. CASE registry' = registry
        BY <1>1, <2>1 DEF RegistryGiven
    <2>2. CASE registry' # registry
        <3> DEFINE f == FlagOrder[at.flag]
        <3>1. at.flag \in 1..Len(FlagOrder)
            BY <1>2, ConfigAssumption DEF WriteFlag, TypeOK
        <3>2. f \in Flags
            BY <3>1, ElementOfSeq, ConfigAssumption
        <3>3. registry' = Stored(registry, FlagName(f), TRUE)
            BY <1>2, <2>2 DEF WriteFlag
        <3> HIDE DEF f
        <3>4. \A i \in DOMAIN registry' :
                \/ registry'[i] = [name |-> FlagName(f), data |-> TRUE]
                \/ i \in DOMAIN registry /\ registry'[i] = registry[i]
            <4>1. registry \in Seq(Values)
                BY DEF TypeOK
            <4>2. [name |-> FlagName(f), data |-> TRUE] \in Values
                BY <3>2, FlagValue
            <4> DEFINE name == FlagName(f)
                       data == TRUE
            <4>3. registry' = Stored(registry, name, data)
                BY <3>3
            <4> HIDE DEF name, data
            <4>4. [name |-> name, data |-> data] \in Values
                BY <4>2 DEF name, data
            <4>5. \A i \in DOMAIN registry' :
                    \/ registry'[i] = [name |-> name, data |-> data]
                    \/ i \in DOMAIN registry /\ registry'[i] = registry[i]
                BY <4>1, <4>3, <4>4, StoredValues
            <4> QED
                BY <4>5 DEF name, data
        <3>5. FlagName(f)[1] # "rule"
            BY DEF FlagName
        <3> QED
            BY <1>1, <3>4, <3>5 DEF RegistryGiven
    <2> QED
        BY <2>1, <2>2
<1>3. CASE WriteCondition
    <2> DEFINE d == [id |-> Entry.id, cond |-> Entry.rules[at.rule],
                     actions |-> actions]
               l == List
               name == RuleName(l, Entry.id, item)
    <2>1. /\ AtCondition
          /\ registry' = Stored(registry, name, d)
        BY <1>3 DEF WriteCondition
    <2>2. /\ [name |-> name, data |-> d] \in Values
          /\ l \in Lists /\ at.entry \in DOMAIN Conf.lists[l]
          /\ at.rule \in DOMAIN Entry.rules /\ Entry.id # 0
        BY <2>1, ConditionValue
    <2>3. GivenRule(l, Entry)
        BY <2>2 DEF AgentGiven, Entry
    <2>4. [list |-> l, id |-> Entry.id, cond |-> Entry.rules[at.rule]] \in given
        BY <2>2, <2>3 DEF GivenRule, ToSet
    <2>5. /\ name[2] = l /\ name[3] = Entry.id
          /\ d.id = Entry.id /\ d.cond = Entry.rules[at.rule]
        BY DEF RuleName
    <2> HIDE DEF d, name, l
    <2>6. \A i \in DOMAIN registry' :
            \/ registry'[i] = [name |-> name, data |-> d]
            \/ i \in DOMAIN registry /\ registry'[i] = registry[i]
        BY <2>1, <2>2, StoredValues DEF TypeOK
    <2>7. ASSUME NEW i \in DOMAIN registry', registry'[i].name[1] = "rule"
          PROVE  /\ registry'[i].name[3] = registry'[i].data.id
                 /\ [list |-> registry'[i].name[2], id |-> registry'[i].data.id,
                     cond |-> registry'[i].data.cond] \in given
        <3>1. CASE registry'[i] = [name |-> name, data |-> d]
            BY <2>4, <2>5, <3>1
        <3>2. CASE i \in DOMAIN registry /\ registry'[i] = registry[i]
            BY <2>7, <3>2 DEF RegistryGiven
        <3> QED
            BY <2>6, <3>1, <3>2
    <2> QED
        BY <1>1, <2>7 DEF RegistryGiven
<1>4. CASE registry' = registry
    BY <1>1, <1>4 DEF RegistryGiven
<1>5. registry' = registry \/ WriteFlag \/ WriteCondition
    BY DEF AgentMoves, StartAgent, NextFile, EndFlags, ProcessList,
           EndFile, AgentDies, Fatal, BadEntry, SkipEntry, BeginEntry,
           BadCondition, EndEntry, EndList
<1> QED
    BY <1>2, <1>3, <1>4, <1>5

\* Inside a rule the agent has accepted it.
LEMMA RuleStep ==
    ASSUME TypeOK, RuleInv,
           AgentMoves \/ \E fs \in Configs : StartAgent(fs)
    PROVE  RuleInv'
<1>1. CASE \/ \E fs \in Configs : StartAgent(fs)
           \/ NextFile \/ WriteFlag \/ EndFlags \/ EndFile
           \/ BadEntry \/ BadCondition \/ AgentDies
    <2>1. at \in Places
        BY DEF TypeOK, Places
    <2> QED
        BY <1>1, <2>1 DEF RuleInv, InLists, StartAgent, NextFile, WriteFlag,
                EndFlags, EndFile, BadEntry, BadCondition, AgentDies, Fatal,
                Start, Places
<1>2. CASE SkipEntry \/ EndEntry \/ EndList
    <2>1. at'.rule = 0 /\ agent' = "lists"
        BY <1>2 DEF SkipEntry, EndEntry, EndList, AtEntry, InLists, TypeOK
    <2> QED
        BY <2>1 DEF RuleInv
<1>3. CASE BeginEntry
    <2>1. /\ agent' = "lists" /\ Conf' = Conf
          /\ at'.list = at.list /\ at'.entry = at.entry
          /\ at.entry <= Len(Conf.lists[List])
          /\ Entry.id # 0 /\ Entry.action # BadAction
        BY <1>3 DEF BeginEntry, AtEntry, InLists, TypeOK
    <2> QED
        BY <2>1 DEF RuleInv, List, Entry
<1>4. CASE WriteCondition
    <2>1. /\ agent' = "lists" /\ Conf' = Conf
          /\ at'.list = at.list /\ at'.entry = at.entry
          /\ InLists /\ at.rule # 0
        BY <1>4 DEF WriteCondition, AtCondition, InLists, TypeOK
    <2> QED
        BY <2>1 DEF RuleInv, List, Entry
<1> QED
    BY <1>1, <1>2, <1>3, <1>4 DEF AgentMoves, ProcessList

-----------------------------------------------------------------------------
(* The driver.                                                             *)

\* The value that is read.
LEMMA ValueTyped ==
    ASSUME TypeOK, AtValue
    PROVE  /\ index + 1 \in 1..Len(registry) /\ index + 1 \in DOMAIN registry
           /\ Value \in Values
<1>1. /\ registry \in Seq(Values) /\ Len(registry) \in Nat
      /\ DOMAIN registry = 1..Len(registry)
    BY LenProperties DEF TypeOK
<1>2. index \in Nat
    BY ConfigAssumption DEF TypeOK
<1>3. index + 1 \in 1..Len(registry)
    BY <1>1, <1>2 DEF AtValue
<1> QED
    BY <1>1, <1>3, ElementOfSeq DEF Value

\* How a round ends.
LEMMA GoesOn ==
    ASSUME TypeOK, LoadingInv, AtValue,
           Goes(1, TRUE) \/ Goes(1, FALSE) \/ Goes(2, FALSE)
    PROVE  /\ index' \in 0..(BLOCKLIST_MAX + 1)
           /\ driver' \in {"loading", "loaded", "failed"}
           /\ driver' = "loading" => index' < BLOCKLIST_MAX
<1>1. index \in Nat /\ index < BLOCKLIST_MAX /\ BLOCKLIST_MAX \in Nat
    BY ConfigAssumption DEF TypeOK, AtValue, LoadingInv
<1>2. CASE Goes(1, TRUE)
    BY <1>1, <1>2 DEF Goes, LimitReached
<1>3. CASE Goes(1, FALSE)
    BY <1>1, <1>3 DEF Goes, LimitReached
<1>4. CASE Goes(2, FALSE)
    BY <1>1, <1>4 DEF Goes, LimitReached
<1> QED
    BY <1>2, <1>3, <1>4

\* The groups that belong to a rule, and what LoadedOnce says of them.
Its(l, id) == {i \in DOMAIN groups[l] : groups[l][i].id = id}

Once(l, id) ==
    /\ \A i, j \in Its(l, id) : i = j
    /\ ReadOf(l, id) # {} /\ ~faults => Its(l, id) # {}
    /\ \A i \in Its(l, id) :
        /\ Len(groups[l][i].conds) <= Cardinality(ReadOf(l, id))
        /\ ~faults =>
            /\ Len(groups[l][i].conds) = Cardinality(ReadOf(l, id))
            /\ \A v \in ReadOf(l, id) :
                    groups[l][i].actions \subseteq registry[v].data.actions

\* A set has one element at most when all are the same.
LEMMA AtMostOne ==
    ASSUME NEW S, IsFiniteSet(S)
    PROVE  Cardinality(S) <= 1 <=> \A x, y \in S : x = y
<1>1. Cardinality(S) \in Nat
    BY FS_CardinalityType
<1>2. Cardinality(S) = 0 <=> S = {}
    BY FS_EmptySet
<1>3. Cardinality(S) = 1 <=> \E x : S = {x}
    BY FS_Singleton
<1>4. Cardinality(S) <= 1 <=> (S = {} \/ \E x : S = {x})
    BY <1>1, <1>2, <1>3
<1>5. (\A x, y \in S : x = y) => (S = {} \/ \E x : S = {x})
    <2>1. ASSUME \A x, y \in S : x = y, NEW z \in S
          PROVE  S = {z}
        BY <2>1
    <2> QED
        BY <2>1
<1> QED
    BY <1>4, <1>5

LEMMA ItsFinite ==
    ASSUME groups \in [Lists -> Seq(Groups)], NEW l \in Lists, NEW id \in Ids
    PROVE  IsFiniteSet(Its(l, id))
<1>1. groups[l] \in Seq(Groups)
    OBVIOUS
<1>2. Len(groups[l]) \in Nat /\ DOMAIN groups[l] = 1..Len(groups[l])
    BY <1>1, LenProperties
<1>3. IsFiniteSet(1..Len(groups[l]))
    BY <1>2, FS_Interval
<1> QED
    BY <1>2, <1>3, FS_Subset DEF Its

GroupsTyped == groups \in [Lists -> Seq(Groups)]

AllOnce == driver = "loading" => \A l \in Lists, id \in Ids : Once(l, id)

\* LoadedOnce, rule by rule.
LEMMA LoadedOnceIs == GroupsTyped => (LoadedOnce <=> AllOnce)
<1> SUFFICES ASSUME GroupsTyped
             PROVE  LoadedOnce <=> AllOnce
    OBVIOUS
<1> USE DEF GroupsTyped, AllOnce
<1>1. ASSUME NEW l \in Lists, NEW id \in Ids
      PROVE  Cardinality(Its(l, id)) <= 1 <=> \A i, j \in Its(l, id) : i = j
    <2>1. IsFiniteSet(Its(l, id))
        BY ItsFinite
    <2> HIDE DEF Its
    <2> QED
        BY <2>1, AtMostOne
<1>2. LoadedOnce <=>
        (driver = "loading" => \A l \in Lists, id \in Ids :
            /\ Cardinality(Its(l, id)) <= 1
            /\ ReadOf(l, id) # {} /\ ~faults => Its(l, id) # {}
            /\ \A i \in Its(l, id) :
                /\ Len(groups[l][i].conds) <= Cardinality(ReadOf(l, id))
                /\ ~faults =>
                    /\ Len(groups[l][i].conds) = Cardinality(ReadOf(l, id))
                    /\ \A v \in ReadOf(l, id) : groups[l][i].actions
                            \subseteq registry[v].data.actions)
    BY DEF LoadedOnce, Its
<1> QED
    BY <1>1, <1>2, Zenon DEF Once

\* What was read of a rule is finite, and grows by the value that is read.
LEMMA ReadFinite ==
    ASSUME index \in Nat, NEW l, NEW id
    PROVE  IsFiniteSet(ReadOf(l, id)) /\ Cardinality(ReadOf(l, id)) \in Nat
<1>1. IsFiniteSet(1..index)
    BY FS_Interval
<1>2. ReadOf(l, id) \in SUBSET (1..index)
    BY DEF ReadOf
<1> QED
    BY <1>1, <1>2, FS_Subset, FS_CardinalityType

Belongs(l, id) ==
    /\ Value.name[1] = "rule" /\ Value.name[2] = l /\ Value.data.id = id
    /\ HasDataType(Value.data.cond)

LEMMA ReadNext ==
    ASSUME TypeOK, AtValue, index' = index + 1, registry' = registry,
           NEW l, NEW id
    PROVE  /\ index + 1 \notin ReadOf(l, id)
           /\ ReadOf(l, id)' =
                ReadOf(l, id) \cup (IF Belongs(l, id) THEN {index + 1} ELSE {})
<1>1. index \in Nat /\ Len(registry) \in Nat /\ index + 1 <= Len(registry)
    <2>1. index \in Nat
        BY ConfigAssumption DEF TypeOK
    <2>2. Len(registry) \in Nat /\ index + 1 \in 1..Len(registry)
        BY ValueTyped, LenProperties DEF TypeOK
    <2> QED
        BY <2>1, <2>2
<1>2. 1..(index + 1) = 1..index \cup {index + 1} /\ index + 1 \notin 1..index
    BY <1>1
<1> QED
    BY <1>1, <1>2 DEF ReadOf, Belongs, Value, HasDataType

LEMMA ReadMore ==
    ASSUME index \in Nat, index' \in Nat, index' >= index, registry' = registry,
           NEW l, NEW id
    PROVE  Cardinality(ReadOf(l, id)) <= Cardinality(ReadOf(l, id)')
<1>1. IsFiniteSet(1..index')
    BY FS_Interval
<1>2. /\ ReadOf(l, id)' \in SUBSET (1..index')
      /\ ReadOf(l, id) \subseteq ReadOf(l, id)'
    BY DEF ReadOf, HasDataType
<1>3. IsFiniteSet(ReadOf(l, id)')
    BY <1>1, <1>2, FS_Subset
<1> QED
    BY <1>2, <1>3, FS_Subset

\* A round that neither touches the groups of a rule nor reads a value of it,
\* or that fails and touches no group.
LEMMA OnceStays ==
    ASSUME NEW l \in Lists, NEW id \in Ids, Once(l, id),
           Its(l, id)' = Its(l, id),
           \A i \in Its(l, id) : groups'[l][i] = groups[l][i],
           registry' = registry,
           ReadOf(l, id)' = ReadOf(l, id), faults' = faults \/ faults' = TRUE
    PROVE  Once(l, id)'
BY DEF Once

LEMMA OnceFails ==
    ASSUME NEW l \in Lists, NEW id \in Ids, Once(l, id),
           groups \in [Lists -> Seq(Groups)], groups' = groups,
           registry' = registry, faults' = TRUE,
           index \in Nat, index' \in Nat, index' >= index
    PROVE  Once(l, id)'
<1>1. Its(l, id)' = Its(l, id)
    BY DEF Its
<1>2. Cardinality(ReadOf(l, id)) <= Cardinality(ReadOf(l, id)')
    BY ReadMore
<1>3. /\ Cardinality(ReadOf(l, id)) \in Nat
      /\ Cardinality(ReadOf(l, id)') \in Nat
    <2>1. IsFiniteSet(1..index')
        BY FS_Interval
    <2>2. ReadOf(l, id)' \in SUBSET (1..index')
        BY DEF ReadOf
    <2> QED
        BY <2>1, <2>2, ReadFinite, FS_Subset, FS_CardinalityType
<1>4. \A i \in Its(l, id) : Len(groups[l][i].conds) \in Nat
    <2>1. ASSUME NEW i \in Its(l, id)
          PROVE  groups[l][i] \in Groups
        BY <2>1, ElementOfSeq, LenProperties DEF Its
    <2> QED
        BY <2>1, LenProperties DEF Groups
<1> QED
    BY <1>1, <1>2, <1>3, <1>4 DEF Once

\* The value that LoadItem reads.
LEMMA ItemTyped ==
    ASSUME TypeOK, RegistryGiven, LoadItem
    PROVE  /\ Value.name[2] \in Lists /\ Value.data \in Items
           /\ Value.data.id \in Ids /\ Value.data.cond \in Typed
           /\ Value.data.actions \in SUBSET Bits
           /\ [list |-> Value.name[2], id |-> Value.data.id,
               cond |-> Value.data.cond] \in given
<1>1. AtValue /\ Value.name[1] = "rule" /\ Value.data.cond \in Typed
    BY DEF LoadItem, AtRule, HasDataType
<1>2. Value.name[2] \in Lists /\ Value.data \in Items
    BY <1>1, ValueTyped, ValueFields
<1>3. [list |-> Value.name[2], id |-> Value.data.id, cond |-> Value.data.cond]
        \in given
    BY <1>1, ValueTyped DEF RegistryGiven, Value
<1> QED
    BY <1>1, <1>2, <1>3 DEF Items

\* The first condition of a rule makes a group of its own.
NewGroup(l, d) ==
    /\ Its(l, d.id) = {}
    /\ groups' = [groups EXCEPT ![l] = Append(@, [id |-> d.id,
                        actions |-> d.actions, conds |-> <<d.cond>>])]

\* A further one joins the group of its rule.
JoinsGroup(l, d, i) ==
    /\ Its(l, d.id) = {i}
    /\ groups' = [groups EXCEPT ![l][i].actions = @ \cap d.actions,
                                ![l][i].conds = Append(@, d.cond)]

LEMMA ItemJoins ==
    ASSUME TypeOK, LoadedOnce, RegistryGiven, LoadItem
    PROVE  \/ NewGroup(Value.name[2], Value.data)
           \/ \E i : JoinsGroup(Value.name[2], Value.data, i)
<1> DEFINE l == Value.name[2]
           d == Value.data
           same == Its(l, d.id)
<1>1. l \in Lists /\ d.id \in Ids
    BY ItemTyped
<1>2. same = {i \in DOMAIN resolveList(l) : SameGroup(l, i, d.id)}
    BY DEF Its, resolveList, SameGroup
<1>3. driver = "loading"
    BY DEF LoadItem, AtRule, AtValue
<1>4. \A i, j \in same : i = j
    <2>1. Once(l, d.id)
        BY <1>1, <1>3, LoadedOnceIs DEF TypeOK, GroupsTyped, AllOnce
    <2> QED
        BY <2>1 DEF Once
<1>5. CASE same = {}
    BY <1>2, <1>5 DEF LoadItem, NewGroup
<1>6. CASE same # {}
    <2>1. PICK k \in same : TRUE
        BY <1>6
    <2>2. same = {k}
        BY <1>4, <2>1
    <2>3. k <= k
        <3>1. groups[l] \in Seq(Groups)
            BY <1>1 DEF TypeOK
        <3>2. k \in 1..Len(groups[l])
            BY <2>1, <3>1, LenProperties DEF Its
        <3> QED
            BY <3>2
    <2>4. (CHOOSE i \in same : \A j \in same : i <= j) = k
        BY <2>2, <2>3
    <2>5. groups' = LET i == CHOOSE i \in same : \A j \in same : i <= j
                    IN  [groups EXCEPT ![l][i].actions = @ \cap d.actions,
                                       ![l][i].conds = Append(@, d.cond)]
        BY <1>2, <1>6 DEF LoadItem
    <2>6. groups' = [groups EXCEPT ![l][k].actions = @ \cap d.actions,
                                   ![l][k].conds = Append(@, d.cond)]
        BY <2>4, <2>5
    <2> HIDE DEF l, d, same
    <2>7. JoinsGroup(l, d, k)
        BY <2>2, <2>6 DEF JoinsGroup, same
    <2> QED
        BY <2>7 DEF l, d
<1> QED
    BY <1>5, <1>6

\* What a new group changes.
LEMMA NewGroupEffect ==
    ASSUME groups \in [Lists -> Seq(Groups)], NEW l \in Lists, NEW d \in Items,
           d.cond \in Typed, NewGroup(l, d)
    PROVE  /\ groups' \in [Lists -> Seq(Groups)]
           /\ \A m \in Lists : m # l => groups'[m] = groups[m]
           /\ DOMAIN groups[l] = 1..Len(groups[l]) /\ Len(groups[l]) \in Nat
           /\ DOMAIN groups'[l] = 1..(Len(groups[l]) + 1)
           /\ \A i \in DOMAIN groups[l] : groups'[l][i] = groups[l][i]
           /\ groups'[l][Len(groups[l]) + 1] =
                [id |-> d.id, actions |-> d.actions, conds |-> <<d.cond>>]
<1> DEFINE g == [id |-> d.id, actions |-> d.actions, conds |-> <<d.cond>>]
<1>1. g \in Groups
    <2>1. <<d.cond>> \in Seq(Typed)
        OBVIOUS
    <2> QED
        BY <2>1 DEF Groups, Items
<1>2. groups' = [groups EXCEPT ![l] = Append(groups[l], g)]
    BY DEF NewGroup
<1> HIDE DEF g
<1>3. groups[l] \in Seq(Groups)
    OBVIOUS
<1>4. /\ Append(groups[l], g) \in Seq(Groups)
      /\ Len(Append(groups[l], g)) = Len(groups[l]) + 1
      /\ \A i \in 1..Len(groups[l]) : Append(groups[l], g)[i] = groups[l][i]
      /\ Append(groups[l], g)[Len(groups[l]) + 1] = g
    BY <1>1, <1>3, AppendProperties
<1>5. /\ DOMAIN groups[l] = 1..Len(groups[l]) /\ Len(groups[l]) \in Nat
      /\ DOMAIN Append(groups[l], g) = 1..(Len(groups[l]) + 1)
    BY <1>3, <1>4, LenProperties
<1>6. groups'[l] = Append(groups[l], g)
    BY <1>2
<1>7. groups' \in [Lists -> Seq(Groups)]
    BY <1>2, <1>4
<1> QED
    BY <1>2, <1>4, <1>5, <1>6, <1>7 DEF g

\* What a condition that joins a group changes.
LEMMA JoinsGroupEffect ==
    ASSUME groups \in [Lists -> Seq(Groups)], NEW l \in Lists, NEW d \in Items,
           d.cond \in Typed, NEW k, JoinsGroup(l, d, k)
    PROVE  /\ groups' \in [Lists -> Seq(Groups)]
           /\ \A m \in Lists : m # l => groups'[m] = groups[m]
           /\ DOMAIN groups'[l] = DOMAIN groups[l]
           /\ k \in DOMAIN groups[l] /\ groups[l][k] \in Groups
           /\ \A i \in DOMAIN groups[l] : i # k => groups'[l][i] = groups[l][i]
           /\ groups'[l][k].id = groups[l][k].id
           /\ groups'[l][k].actions = groups[l][k].actions \cap d.actions
           /\ groups'[l][k].conds = Append(groups[l][k].conds, d.cond)
<1> DEFINE g == groups[l][k]
           acts == g.actions \cap d.actions
           more == Append(g.conds, d.cond)
           h == [g EXCEPT !.actions = acts, !.conds = more]
<1>1. groups[l] \in Seq(Groups)
    OBVIOUS
<1>2. /\ DOMAIN groups[l] = 1..Len(groups[l]) /\ Len(groups[l]) \in Nat
      /\ k \in DOMAIN groups[l]
    BY <1>1, LenProperties DEF JoinsGroup, Its
<1>3. g \in Groups
    BY <1>1, <1>2, ElementOfSeq
<1>4. groups' = [groups EXCEPT ![l] = [groups[l] EXCEPT ![k] = h]]
    BY <1>2, <1>3 DEF JoinsGroup, Groups
<1>5. acts \in SUBSET Bits /\ more \in Seq(Typed)
    BY <1>3, AppendProperties DEF Groups
<1> HIDE DEF acts, more, g
<1>6. /\ h \in Groups /\ h.id = g.id /\ h.actions = acts /\ h.conds = more
    BY <1>3, <1>5 DEF Groups
<1> HIDE DEF h
<1>7. groups'[l] = [groups[l] EXCEPT ![k] = h]
    BY <1>4
<1>8. groups'[l] \in Seq(Groups)
    BY <1>1, <1>2, <1>6, <1>7, ExceptSeq
<1>9. groups' \in [Lists -> Seq(Groups)]
    BY <1>4, <1>7, <1>8
<1>10. groups'[l][k] = h
    BY <1>2, <1>7
<1> QED
    BY <1>2, <1>3, <1>4, <1>6, <1>7, <1>9, <1>10 DEF acts, more, g

\* Reading a condition keeps each group with each value of its rule once.
LEMMA OnceItem ==
    ASSUME TypeOK, LoadedOnce, RegistryGiven, LoadItem,
           index' = index + 1, NEW m \in Lists, NEW id \in Ids
    PROVE  Once(m, id)'
<1> DEFINE l == Value.name[2]
           d == Value.data
<1>1. /\ l \in Lists /\ d \in Items /\ d.cond \in Typed /\ d.id \in Ids
      /\ d.actions \in SUBSET Bits
    BY ItemTyped
<1>2. /\ AtValue /\ driver = "loading"
      /\ registry' = registry /\ faults' = faults
      /\ groups \in [Lists -> Seq(Groups)] /\ Value.name[1] = "rule"
    BY DEF LoadItem, AtRule, AtValue, Reads, TypeOK
<1>3. Once(m, id)
    BY <1>2, LoadedOnceIs DEF GroupsTyped, AllOnce
<1>4. /\ index + 1 \notin ReadOf(m, id)
      /\ ReadOf(m, id)' =
            ReadOf(m, id) \cup (IF Belongs(m, id) THEN {index + 1} ELSE {})
    BY <1>2, ReadNext
<1>5. Belongs(m, id) <=> m = l /\ id = d.id
    BY <1>1, <1>2 DEF Belongs, HasDataType
<1>6. NewGroup(l, d) \/ \E k : JoinsGroup(l, d, k)
    BY ItemJoins
<1>7. registry[index + 1].data.actions = d.actions
    BY DEF Value
<1>8. /\ Cardinality(ReadOf(m, id)) \in Nat
      /\ Belongs(m, id) =>
            Cardinality(ReadOf(m, id)') = Cardinality(ReadOf(m, id)) + 1
    <2>1. IsFiniteSet(ReadOf(m, id)) /\ Cardinality(ReadOf(m, id)) \in Nat
        <3>1. index \in Nat
            BY ConfigAssumption DEF TypeOK
        <3> QED
            BY <3>1, ReadFinite
    <2> QED
        BY <1>4, <2>1, FS_AddElement
<1> HIDE DEF l, d
<1>9. CASE NewGroup(l, d)
    <2>1. /\ groups' \in [Lists -> Seq(Groups)]
          /\ \A n \in Lists : n # l => groups'[n] = groups[n]
          /\ DOMAIN groups[l] = 1..Len(groups[l]) /\ Len(groups[l]) \in Nat
          /\ DOMAIN groups'[l] = 1..(Len(groups[l]) + 1)
          /\ \A i \in DOMAIN groups[l] : groups'[l][i] = groups[l][i]
          /\ groups'[l][Len(groups[l]) + 1] =
                [id |-> d.id, actions |-> d.actions, conds |-> <<d.cond>>]
        BY <1>1, <1>2, <1>9, NewGroupEffect
    <2>2. 1..(Len(groups[l]) + 1) = 1..Len(groups[l]) \cup {Len(groups[l]) + 1}
        BY <2>1
    <2>3. CASE m = l /\ id = d.id
        <3>1. Its(m, id) = {}
            BY <1>9, <2>3 DEF NewGroup
        <3>2. Its(m, id)' = {Len(groups[l]) + 1}
            <4>1. \A i \in DOMAIN groups[l] : groups'[l][i].id # id
                BY <2>1, <2>3, <3>1 DEF Its
            <4>2. groups'[l][Len(groups[l]) + 1].id = id
                BY <2>1, <2>3
            <4>3. DOMAIN groups'[l] = DOMAIN groups[l] \cup {Len(groups[l]) + 1}
                BY <2>1, <2>2
            <4> QED
                BY <2>3, <4>1, <4>2, <4>3 DEF Its
        <3>3. Len(groups'[m][Len(groups[l]) + 1].conds) = 1
            BY <2>1, <2>3
        <3>4. ~faults => ReadOf(m, id) = {}
            BY <1>3, <3>1 DEF Once
        <3>5. ~faults => Cardinality(ReadOf(m, id)') = 1
            <4>1. ~faults => Cardinality(ReadOf(m, id)) = 0
                BY <3>4, FS_EmptySet
            <4> QED
                BY <1>5, <1>8, <2>3, <4>1
        <3>6. /\ Cardinality(ReadOf(m, id)') \in Nat
              /\ 1 <= Cardinality(ReadOf(m, id)')
            BY <1>5, <1>8, <2>3
        <3>7. ~faults => \A v \in ReadOf(m, id)' : v = index + 1
            BY <1>4, <3>4
        <3>8. groups'[m][Len(groups[l]) + 1].actions = d.actions
            BY <2>1, <2>3
        <3> QED
            BY <1>2, <1>7, <3>2, <3>3, <3>5, <3>6, <3>7, <3>8 DEF Once
    <2>4. CASE ~(m = l /\ id = d.id)
        <3>1. /\ Its(m, id)' = Its(m, id)
              /\ \A i \in Its(m, id) : groups'[m][i] = groups[m][i]
            <4>1. CASE m # l
                BY <2>1, <4>1 DEF Its
            <4>2. CASE m = l
                <5>1. groups'[l][Len(groups[l]) + 1].id # id
                    BY <2>1, <2>4, <4>2
                <5>2. DOMAIN groups'[l] =
                        DOMAIN groups[l] \cup {Len(groups[l]) + 1}
                    BY <2>1, <2>2
                <5>3. \A i \in DOMAIN groups[l] : groups'[l][i] = groups[l][i]
                    BY <2>1
                <5> QED
                    BY <4>2, <5>1, <5>2, <5>3 DEF Its
            <4> QED
                BY <4>1, <4>2
        <3>2. ReadOf(m, id)' = ReadOf(m, id)
            BY <1>4, <1>5, <2>4
        <3> QED
            BY <1>2, <1>3, <3>1, <3>2, OnceStays
    <2> QED
        BY <2>3, <2>4
<1>10. ASSUME NEW k, JoinsGroup(l, d, k)
       PROVE  Once(m, id)'
    <2>1. /\ groups' \in [Lists -> Seq(Groups)]
          /\ \A n \in Lists : n # l => groups'[n] = groups[n]
          /\ DOMAIN groups'[l] = DOMAIN groups[l]
          /\ k \in DOMAIN groups[l] /\ groups[l][k] \in Groups
          /\ \A i \in DOMAIN groups[l] : i # k => groups'[l][i] = groups[l][i]
          /\ groups'[l][k].id = groups[l][k].id
          /\ groups'[l][k].actions = groups[l][k].actions \cap d.actions
          /\ groups'[l][k].conds = Append(groups[l][k].conds, d.cond)
        BY <1>1, <1>2, <1>10, JoinsGroupEffect
    <2>2. Its(l, d.id) = {k} /\ groups[l][k].id = d.id
        BY <1>10 DEF JoinsGroup, Its
    <2>3. CASE m = l /\ id = d.id
        <3>1. Its(m, id)' = {k} /\ Its(m, id) = {k}
            BY <2>1, <2>2, <2>3 DEF Its
        <3>2. /\ Len(groups[m][k].conds) \in Nat
              /\ Len(groups'[m][k].conds) = Len(groups[m][k].conds) + 1
            BY <1>1, <2>1, <2>3, AppendProperties, LenProperties DEF Groups
        <3>3. /\ Len(groups[m][k].conds) <= Cardinality(ReadOf(m, id))
              /\ ~faults =>
                    /\ Len(groups[m][k].conds) = Cardinality(ReadOf(m, id))
                    /\ \A v \in ReadOf(m, id) :
                            groups[m][k].actions
                                \subseteq registry[v].data.actions
            BY <1>3, <3>1 DEF Once
        <3>4. Cardinality(ReadOf(m, id)') = Cardinality(ReadOf(m, id)) + 1
            BY <1>5, <1>8, <2>3
        <3>5. /\ Len(groups'[m][k].conds) <= Cardinality(ReadOf(m, id)')
              /\ ~faults =>
                    Len(groups'[m][k].conds) = Cardinality(ReadOf(m, id)')
            <4>1. \A a, b, n, o \in Nat :
                    n = a + 1 /\ o = b + 1 =>
                        /\ a <= b => n <= o
                        /\ a = b => n = o
                OBVIOUS
            <4>2. /\ Len(groups[m][k].conds) \in Nat
                  /\ Cardinality(ReadOf(m, id)) \in Nat
                  /\ Len(groups'[m][k].conds) \in Nat
                  /\ Cardinality(ReadOf(m, id)') \in Nat
                BY <1>8, <3>2, <3>4
            <4>3. Len(groups'[m][k].conds) <= Cardinality(ReadOf(m, id)')
                BY <3>2, <3>3, <3>4, <4>1, <4>2
            <4>4. ~faults => Len(groups'[m][k].conds)
                                = Cardinality(ReadOf(m, id)')
                BY <3>2, <3>3, <3>4, <4>1, <4>2
            <4> QED
                BY <4>3, <4>4
        <3>6. ASSUME ~faults, NEW v \in ReadOf(m, id)'
              PROVE  groups'[m][k].actions \subseteq registry[v].data.actions
            <4>1. v \in ReadOf(m, id) \/ v = index + 1
                BY <1>4, <3>6
            <4> QED
                BY <1>7, <2>1, <2>3, <3>3, <3>6, <4>1
        <3> QED
            BY <1>2, <3>1, <3>5, <3>6 DEF Once
    <2>4. CASE ~(m = l /\ id = d.id)
        <3>1. /\ Its(m, id)' = Its(m, id)
              /\ \A i \in Its(m, id) : groups'[m][i] = groups[m][i]
            <4>1. CASE m # l
                BY <2>1, <4>1 DEF Its
            <4>2. CASE m = l
                <5>1. id # d.id
                    BY <2>4, <4>2
                <5>2. \A i \in DOMAIN groups[m] :
                        i # k => groups'[m][i] = groups[m][i]
                    BY <2>1, <4>2
                <5>3. groups'[m][k].id = d.id /\ groups[m][k].id = d.id
                    BY <2>1, <2>2, <4>2
                <5>4. DOMAIN groups'[m] = DOMAIN groups[m]
                    BY <2>1, <4>2
                <5>5. \A i \in DOMAIN groups[m] :
                        (groups'[m][i].id = id) <=> (groups[m][i].id = id)
                    BY <5>1, <5>2, <5>3
                <5>6. \A i \in DOMAIN groups[m] :
                        groups[m][i].id = id => groups'[m][i] = groups[m][i]
                    BY <5>1, <5>2, <5>3
                <5>7. Its(m, id)' = Its(m, id)
                    BY <5>4, <5>5 DEF Its
                <5> QED
                    BY <5>6, <5>7 DEF Its
            <4> QED
                BY <4>1, <4>2
        <3>2. ReadOf(m, id)' = ReadOf(m, id)
            BY <1>4, <1>5, <2>4
        <3> QED
            BY <1>2, <1>3, <3>1, <3>2, OnceStays
    <2> QED
        BY <2>3, <2>4
<1> QED
    BY <1>6, <1>9, <1>10

\* The groups have only conditions that were given.
LEMMA GivenItem ==
    ASSUME TypeOK, LoadedOnce, RegistryGiven, GivenOnly, LoadItem
    PROVE  GivenOnly'
<1> DEFINE l == Value.name[2]
           d == Value.data
<1>1. /\ l \in Lists /\ d \in Items /\ d.cond \in Typed
      /\ [list |-> l, id |-> d.id, cond |-> d.cond] \in given
    BY ItemTyped
<1>2. groups \in [Lists -> Seq(Groups)] /\ given' = given
    BY DEF TypeOK, LoadItem, Reads
<1>3. NewGroup(l, d) \/ \E k : JoinsGroup(l, d, k)
    BY ItemJoins
<1> HIDE DEF l, d
<1>4. ASSUME NEW m \in Lists, NEW i \in DOMAIN groups[m],
             NEW c \in ToSet(groups[m][i].conds)
      PROVE  [list |-> m, id |-> groups[m][i].id, cond |-> c] \in given
    BY <1>4 DEF GivenOnly, ToSet
<1>5. SUFFICES ASSUME NEW m \in Lists, NEW i \in DOMAIN groups'[m],
                      NEW c \in ToSet(groups'[m][i].conds)
               PROVE  [list |-> m, id |-> groups'[m][i].id, cond |-> c]
                            \in given
    BY <1>2 DEF GivenOnly, ToSet
<1>6. CASE NewGroup(l, d)
    <2>1. /\ \A n \in Lists : n # l => groups'[n] = groups[n]
          /\ DOMAIN groups[l] = 1..Len(groups[l]) /\ Len(groups[l]) \in Nat
          /\ DOMAIN groups'[l] = 1..(Len(groups[l]) + 1)
          /\ \A j \in DOMAIN groups[l] : groups'[l][j] = groups[l][j]
          /\ groups'[l][Len(groups[l]) + 1] =
                [id |-> d.id, actions |-> d.actions, conds |-> <<d.cond>>]
        BY <1>1, <1>2, <1>6, NewGroupEffect
    <2>2. CASE m = l /\ i = Len(groups[l]) + 1
        <3>1. groups'[m][i].conds = <<d.cond>> /\ groups'[m][i].id = d.id
            BY <2>1, <2>2
        <3>2. c = d.cond
            BY <3>1 DEF ToSet
        <3> QED
            BY <1>1, <2>2, <3>1, <3>2
    <2>3. CASE ~(m = l /\ i = Len(groups[l]) + 1)
        <3>1. i \in DOMAIN groups[m] /\ groups'[m][i] = groups[m][i]
            BY <2>1, <2>3
        <3> QED
            BY <1>4, <3>1
    <2> QED
        BY <2>2, <2>3
<1>7. ASSUME NEW k, JoinsGroup(l, d, k)
      PROVE  [list |-> m, id |-> groups'[m][i].id, cond |-> c] \in given
    <2>1. /\ \A n \in Lists : n # l => groups'[n] = groups[n]
          /\ DOMAIN groups'[l] = DOMAIN groups[l]
          /\ k \in DOMAIN groups[l] /\ groups[l][k] \in Groups
          /\ \A j \in DOMAIN groups[l] : j # k => groups'[l][j] = groups[l][j]
          /\ groups'[l][k].id = groups[l][k].id
          /\ groups'[l][k].conds = Append(groups[l][k].conds, d.cond)
        BY <1>1, <1>2, <1>7, JoinsGroupEffect
    <2>2. groups[l][k].id = d.id
        BY <1>7 DEF JoinsGroup, Its
    <2>3. CASE m = l /\ i = k
        <3> DEFINE old == groups[l][k].conds
        <3>1. old \in Seq(Typed)
            BY <2>1 DEF Groups
        <3>2. PICK j \in DOMAIN Append(old, d.cond) : c = Append(old, d.cond)[j]
            BY <2>1, <2>3 DEF ToSet
        <3>3. \/ j \in DOMAIN old /\ c = old[j]
              \/ c = d.cond
            <4> HIDE DEF old
            <4>1. /\ Len(old) \in Nat /\ DOMAIN old = 1..Len(old)
                  /\ DOMAIN Append(old, d.cond) = 1..(Len(old) + 1)
                  /\ \A n \in 1..Len(old) : Append(old, d.cond)[n] = old[n]
                  /\ Append(old, d.cond)[Len(old) + 1] = d.cond
                BY <1>1, <3>1, AppendProperties, LenProperties
            <4> QED
                BY <3>2, <4>1
        <3>4. CASE j \in DOMAIN old /\ c = old[j]
            <4>1. c \in ToSet(groups[m][i].conds)
                BY <2>3, <3>4 DEF ToSet
            <4> QED
                BY <1>4, <2>1, <2>3, <4>1
        <3> QED
            BY <1>1, <2>1, <2>2, <2>3, <3>3, <3>4
    <2>4. CASE ~(m = l /\ i = k)
        <3>1. i \in DOMAIN groups[m] /\ groups'[m][i] = groups[m][i]
            BY <2>1, <2>4
        <3> QED
            BY <1>4, <3>1
    <2> QED
        BY <2>3, <2>4
<1> QED
    BY <1>3, <1>6, <1>7

\* The first conjuncts of IInv under the steps of the driver.
LEMMA LoadTypeStep ==
    ASSUME TypeOK, LoadingInv, RegistryGiven, LoadedOnce, LoadConfig
    PROVE  TypeOK' /\ LoadingInv'
<1>1. UNCHANGED <<registry, agentVars, runs, given>>
    BY DEF LoadConfig, LoadRound, LoadFlag, FlagLost, SizeQueryFails, ItemLost,
           BadData, LoadItem, EndOfValues, LoadFails, Reads
<1>2. driver = "loading" /\ faults' \in BOOLEAN
    BY DEF LoadConfig, LoadRound, LoadFlag, FlagLost, SizeQueryFails, ItemLost,
           BadData, LoadItem, EndOfValues, LoadFails, AtFlag, AtRule, AtValue,
           TypeOK
<1>3. /\ index' \in 0..(BLOCKLIST_MAX + 1)
      /\ driver' \in {"loading", "loaded", "failed"}
      /\ driver' = "loading" => index' < BLOCKLIST_MAX
    <2>1. CASE LoadFlag \/ FlagLost \/ LoadItem
        BY <2>1, GoesOn DEF LoadFlag, FlagLost, LoadItem, AtFlag, AtRule
    <2>2. CASE ItemLost \/ BadData
        BY <2>2, GoesOn DEF ItemLost, BadData, AtRule
    <2>3. CASE SizeQueryFails
        BY <2>3, GoesOn DEF SizeQueryFails, AtRule
    <2>4. CASE EndOfValues \/ LoadFails
        <3>1. index' = index \/ driver' # "loading"
            BY <2>4 DEF EndOfValues, LoadFails
        <3> QED
            BY <2>4 DEF EndOfValues, LoadFails, TypeOK
    <2> QED
        BY <2>1, <2>2, <2>3, <2>4 DEF LoadConfig, LoadRound
<1>4. groups' \in [Lists -> Seq(Groups)]
    <2>1. CASE LoadItem
        <3> DEFINE l == Value.name[2]
                   d == Value.data
        <3>1. l \in Lists /\ d \in Items /\ d.cond \in Typed
            BY <2>1, ItemTyped
        <3>2. NewGroup(l, d) \/ \E k : JoinsGroup(l, d, k)
            BY <2>1, ItemJoins
        <3> HIDE DEF l, d
        <3> QED
            BY <3>1, <3>2, NewGroupEffect, JoinsGroupEffect DEF TypeOK
    <2>2. CASE groups' = groups
        BY <2>2 DEF TypeOK
    <2> QED
        BY <2>1, <2>2 DEF LoadConfig, LoadRound, LoadFlag, FlagLost,
                SizeQueryFails, ItemLost, BadData, EndOfValues, LoadFails
<1>5. settings' \subseteq Flags
    <2>1. CASE LoadFlag
        BY <2>1, ValueTyped, ValueFields DEF LoadFlag, AtFlag, TypeOK
    <2>2. CASE settings' = settings
        BY <2>2 DEF TypeOK
    <2> QED
        BY <2>1, <2>2 DEF LoadConfig, LoadRound, FlagLost, SizeQueryFails,
                ItemLost, BadData, LoadItem, EndOfValues, LoadFails
<1>6. TypeOK'
    BY <1>1, <1>2, <1>3, <1>4, <1>5 DEF TypeOK
<1>7. LoadingInv'
    BY <1>1, <1>2, <1>3 DEF LoadingInv
<1> QED
    BY <1>6, <1>7

\* The other conjuncts under the steps of the driver.
LEMMA LoadPropertiesStep ==
    ASSUME TypeOK, LoadingInv, RegistryGiven, LoadedOnce, GivenOnly, LoadConfig
    PROVE  GivenOnly' /\ LoadedOnce'
<1>1. /\ registry' = registry /\ given' = given /\ driver = "loading"
      /\ groups \in [Lists -> Seq(Groups)] /\ index \in Nat
    <2>1. registry' = registry /\ given' = given
        BY DEF LoadConfig, LoadRound, LoadFlag, FlagLost, SizeQueryFails,
               ItemLost, BadData, LoadItem, EndOfValues, LoadFails, Reads
    <2>2. driver = "loading"
        BY DEF LoadConfig, LoadRound, LoadFlag, FlagLost, SizeQueryFails,
               ItemLost, BadData, LoadItem, EndOfValues, LoadFails, AtFlag,
               AtRule, AtValue
    <2>3. groups \in [Lists -> Seq(Groups)] /\ index \in Nat
        BY ConfigAssumption DEF TypeOK
    <2> QED
        BY <2>1, <2>2, <2>3
<1>2. groups' \in [Lists -> Seq(Groups)]
    BY LoadTypeStep DEF TypeOK
<1>3. GivenOnly'
    <2>1. CASE LoadItem
        BY <2>1, GivenItem
    <2>2. CASE groups' = groups
        BY <1>1, <2>2 DEF GivenOnly
    <2> QED
        BY <2>1, <2>2 DEF LoadConfig, LoadRound, LoadFlag, FlagLost,
                SizeQueryFails, ItemLost, BadData, EndOfValues, LoadFails
<1>4. ASSUME driver' = "loading", NEW l \in Lists, NEW id \in Ids
      PROVE  Once(l, id)'
    <2>1. Once(l, id)
        BY <1>1, LoadedOnceIs DEF GroupsTyped, AllOnce
    <2>2. CASE LoadFlag \/ FlagLost \/ BadData
        <3>1. /\ AtValue /\ index' = index + 1 /\ groups' = groups
              /\ faults' = faults \/ faults' = TRUE
              /\ Value.name[1] = "flag" \/ ~HasDataType(Value.data.cond)
            BY <2>2 DEF LoadFlag, FlagLost, BadData, AtFlag, AtRule, Goes
        <3>2. ReadOf(l, id)' = ReadOf(l, id)
            BY <1>1, <3>1, ReadNext DEF Belongs
        <3>3. Its(l, id)' = Its(l, id)
            BY <3>1 DEF Its
        <3> QED
            BY <1>1, <2>1, <3>1, <3>2, <3>3, OnceStays
    <2>3. CASE SizeQueryFails \/ ItemLost
        <3>1. /\ index' = index + 1 \/ index' = index + 2
              /\ groups' = groups /\ faults' = TRUE
            BY <2>3 DEF SizeQueryFails, ItemLost, Goes
        <3>2. index' \in Nat /\ index' >= index
            BY <1>1, <3>1
        <3> QED
            BY <1>1, <2>1, <3>1, <3>2, OnceFails
    <2>4. CASE LoadItem
        BY <2>4, OnceItem DEF LoadItem, Goes
    <2>5. ~EndOfValues /\ ~LoadFails
        BY <1>4 DEF EndOfValues, LoadFails
    <2> QED
        BY <2>2, <2>3, <2>4, <2>5 DEF LoadConfig, LoadRound
<1>5. LoadedOnce'
    <2>1. (GroupsTyped => (LoadedOnce <=> AllOnce))'
        BY LoadedOnceIs, PTL
    <2>2. AllOnce'
        BY <1>4 DEF AllOnce
    <2> QED
        BY <1>2, <2>1, <2>2 DEF GroupsTyped
<1> QED
    BY <1>3, <1>5

\* The driver that is loaded again has nothing.
LEMMA LoadDriverStep ==
    ASSUME TypeOK, LoadDriver
    PROVE  /\ groups' \in [Lists -> Seq(Groups)] /\ settings' \subseteq Flags
           /\ faults' \in BOOLEAN /\ driver' = "loading" /\ index' = 0
           /\ index' \in 0..(BLOCKLIST_MAX + 1) /\ index' < BLOCKLIST_MAX
           /\ GivenOnly' /\ LoadedOnce'
<1>1. /\ groups' = NoGroups /\ index' = 0 /\ faults' = FALSE
      /\ driver' = "loading" /\ settings' = DefaultOn
    BY DEF LoadDriver
<1>2. groups' \in [Lists -> Seq(Groups)]
    BY <1>1, EmptySeq DEF NoGroups
<1>3. \A l \in Lists : groups'[l] = <<>> /\ DOMAIN groups'[l] = {}
    BY <1>1 DEF NoGroups
<1>4. GivenOnly'
    BY <1>3 DEF GivenOnly, ToSet
<1>5. ASSUME NEW l \in Lists, NEW id \in Ids
      PROVE  Once(l, id)'
    <2>1. Its(l, id)' = {}
        BY <1>3 DEF Its
    <2>2. ReadOf(l, id)' = {}
        BY <1>1 DEF ReadOf
    <2> QED
        BY <2>1, <2>2 DEF Once
<1>6. LoadedOnce'
    <2>1. (GroupsTyped => (LoadedOnce <=> AllOnce))'
        BY LoadedOnceIs, PTL
    <2>2. AllOnce'
        BY <1>5 DEF AllOnce
    <2> QED
        BY <1>2, <2>1, <2>2 DEF GroupsTyped
<1>7. /\ 0 \in 0..(BLOCKLIST_MAX + 1) /\ 0 < BLOCKLIST_MAX
      /\ DefaultOn \subseteq Flags
    BY ConfigAssumption
<1> QED
    BY <1>1, <1>2, <1>4, <1>6, <1>7

-----------------------------------------------------------------------------
(* The theorems.                                                           *)

\* Nothing that LoadedOnce speaks of changes.
LEMMA UnchangedOnce ==
    ASSUME LoadedOnce, UNCHANGED <<registry, driverVars, faults>>
    PROVE  LoadedOnce'
<1>1. \A l \in Lists, id \in Ids : ReadOf(l, id)' = ReadOf(l, id)
    BY DEF ReadOf, HasDataType
<1> QED
    BY <1>1 DEF LoadedOnce

\* Before anything runs.
LEMMA InitIInv == Init => IInv
<1> SUFFICES ASSUME Init
             PROVE  IInv
    OBVIOUS
<1>1. TypeOK
    <2>1. /\ Nothing.on \subseteq Flags
          /\ Nothing.lists \in [Lists -> Seq(Rule)]
          /\ NoGroups \in [Lists -> Seq(Groups)]
        BY EmptySeq DEF Nothing, NoGroups
    <2>2. Start \in [file : Nat \ {0}, flag : Nat \ {0}, list : Nat \ {0},
                     entry : Nat \ {0}, rule : Nat]
        BY DEF Start
    <2>3. 0 \in 0..MaxRuns /\ 0 \in 0..(BLOCKLIST_MAX + 1) /\ 0 \in Nat
        BY ConfigAssumption
    <2>4. registry \in Seq(Values) /\ files \in Configs \cup {<<>>}
        BY EmptySeq DEF Init
    <2> QED
        BY <2>1, <2>2, <2>3, <2>4 DEF Init, TypeOK
<1>2. DOMAIN <<>> = {}
    OBVIOUS
<1>3. AgentGiven
    BY <1>2 DEF Init, AgentGiven, GivenBy, Nothing
<1>4. RegistryGiven /\ RuleInv /\ LoadingInv
    BY <1>2 DEF Init, RegistryGiven, RuleInv, LoadingInv, InLists
<1>5. GivenOnly
    BY <1>2 DEF Init, GivenOnly, NoGroups, ToSet
<1>6. LoadedOnce
    BY DEF Init, LoadedOnce
<1> QED
    BY <1>1, <1>3, <1>4, <1>5, <1>6 DEF IInv

LEMMA Step == IInv /\ [Next]_vars => IInv'
<1> SUFFICES ASSUME IInv, [Next]_vars
             PROVE  IInv'
    OBVIOUS
<1> USE DEF IInv
<1>1. CASE AgentMoves \/ \E fs \in Configs : StartAgent(fs)
    <2>1. TypeOK' /\ AgentGiven' /\ RegistryGiven' /\ RuleInv'
        BY <1>1, AgentTypeStep, AgentGivenStep, RegistryGivenStep, RuleStep
    <2>2. UNCHANGED <<driverVars, faults>> /\ given \subseteq given'
        BY <1>1 DEF AgentMoves, StartAgent, NextFile, WriteFlag, EndFlags,
                ProcessList, EndFile, AgentDies, Fatal, BadEntry, SkipEntry,
                BeginEntry, BadCondition, WriteCondition, EndEntry, EndList
    <2>3. GivenOnly'
        BY <2>2 DEF GivenOnly, ToSet
    <2>4. driver = "loading" =>
            /\ registry' = registry
            /\ agent' \in {"off", "ready"}
        BY <1>1 DEF LoadingInv, AgentMoves, StartAgent, NextFile, WriteFlag,
                EndFlags, ProcessList, EndFile, AgentDies, Fatal, BadEntry,
                SkipEntry, BeginEntry, BadCondition, WriteCondition, EndEntry,
                EndList, AtEntry, AtCondition, InLists
    <2>5. LoadingInv'
        BY <2>2, <2>4 DEF LoadingInv
    <2>6. LoadedOnce'
        <3>1. CASE driver = "loading"
            BY <2>2, <2>4, <3>1, UnchangedOnce
        <3>2. CASE driver # "loading"
            BY <2>2, <3>2 DEF LoadedOnce
        <3> QED
            BY <3>1, <3>2
    <2> QED
        BY <2>1, <2>3, <2>5, <2>6
<1>2. CASE LoadConfig
    <2>1. UNCHANGED <<registry, agentVars, given>>
        BY <1>2 DEF LoadConfig, LoadRound, LoadFlag, FlagLost, SizeQueryFails,
                ItemLost, BadData, LoadItem, EndOfValues, LoadFails, Reads
    <2>2. AgentGiven' /\ RegistryGiven' /\ RuleInv'
        BY <2>1 DEF AgentGiven, GivenRule, GivenBy, RegistryGiven, RuleInv,
                InLists, List, Entry
    <2> QED
        BY <1>2, <2>2, LoadTypeStep, LoadPropertiesStep
<1>3. CASE LoadDriver /\ (EndFiles \/ Reboot)
    <2>1. /\ UNCHANGED <<registry, files, Conf, ids, at, item, actions, runs,
                         given>>
          /\ agent' \in {"off", "ready"}
        BY <1>3 DEF EndFiles, Reboot
    <2>2. TypeOK' /\ GivenOnly' /\ LoadedOnce' /\ LoadingInv'
        BY <1>3, <2>1, LoadDriverStep DEF TypeOK, LoadingInv
    <2>3. AgentGiven' /\ RegistryGiven' /\ RuleInv'
        BY <2>1 DEF AgentGiven, GivenRule, GivenBy, RegistryGiven, RuleInv,
                InLists
    <2> QED
        BY <2>2, <2>3
<1>4. CASE EndFiles /\ ~LoadDriver
    <2>1. /\ UNCHANGED <<registry, files, Conf, ids, at, item, actions, runs,
                         given, driverVars, faults>>
          /\ agent' = "ready"
        BY <1>4 DEF EndFiles
    <2>2. TypeOK' /\ LoadingInv'
        BY <2>1 DEF TypeOK, LoadingInv
    <2>3. AgentGiven' /\ RegistryGiven' /\ RuleInv'
        BY <2>1 DEF AgentGiven, GivenRule, GivenBy, RegistryGiven, RuleInv,
                InLists
    <2>4. GivenOnly' /\ LoadedOnce'
        BY <2>1, UnchangedOnce DEF GivenOnly
    <2> QED
        BY <2>2, <2>3, <2>4
<1>5. CASE UNCHANGED vars
    <2>1. TypeOK' /\ LoadingInv'
        BY <1>5 DEF TypeOK, LoadingInv
    <2>2. AgentGiven' /\ RegistryGiven' /\ RuleInv'
        BY <1>5 DEF AgentGiven, GivenRule, GivenBy, RegistryGiven, RuleInv,
                InLists, List, Entry
    <2>3. GivenOnly' /\ LoadedOnce'
        BY <1>5, UnchangedOnce DEF GivenOnly
    <2> QED
        BY <2>1, <2>2, <2>3
<1>6. Reboot => LoadDriver
    BY DEF Reboot
<1> QED
    BY <1>1, <1>2, <1>3, <1>4, <1>5, <1>6 DEF Next, AgentMoves

\* The inductive invariant of the way from the files to the groups.
THEOREM Invariant == Spec => []IInv
<1>1. Init => IInv
    BY InitIInv
<1>2. IInv /\ [Next]_vars => IInv'
    BY Step
<1> QED
    BY <1>1, <1>2, PTL DEF Spec

\* Registry, agent and driver stay in their types, for every configuration.
THEOREM TypeCorrect == Spec => []TypeOK
<1>1. IInv => TypeOK
    BY DEF IInv
<1> QED
    BY <1>1, Invariant, PTL

\* The driver enforces no condition that the user did not give to the rule it
\* is enforced under, whatever was broken off or could not be read.
THEOREM OnlyGiven == Spec => []GivenOnly
<1>1. IInv => GivenOnly
    BY DEF IInv
<1> QED
    BY <1>1, Invariant, PTL

\* While the driver loads, a rule has one group with each value of it that was
\* read once and the actions they have in common.
THEOREM EachOnce == Spec => []LoadedOnce
<1>1. IInv => LoadedOnce
    BY DEF IInv
<1> QED
    BY <1>1, Invariant, PTL

-----------------------------------------------------------------------------
(* Places in the files.                                                    *)

\* A set of numbers has a least one.
LEMMA Least ==
    ASSUME NEW T, T \subseteq Nat, T # {}
    PROVE  \E n \in T : \A m \in T : n <= m
<1> DEFINE R == OpToRel(<, Nat)
<1>1. IsWellFoundedOn(R, Nat)
    BY NatLessThanWellFounded, Zenon
<1>2. \A a, b \in Nat : a < b => <<a, b>> \in R
    BY DEF OpToRel
<1> HIDE DEF R
<1>3. PICK n \in T : \A m \in T : ~(<<m, n>> \in R)
    BY <1>1, WFMin
<1>4. ASSUME NEW m \in T
      PROVE  n <= m
    <2>1. n \in Nat /\ m \in Nat
        OBVIOUS
    <2>2. ~(m < n)
        BY <1>2, <1>3, <2>1
    <2> QED
        BY <2>1, <2>2
<1> QED
    BY <1>4

\* One that is bounded has a greatest.
LEMMA Greatest ==
    ASSUME NEW b \in Nat, NEW T, T \subseteq 0..b, T # {}
    PROVE  \E n \in T : \A m \in T : m <= n
<1> DEFINE D == {b - n : n \in T}
<1>1. D \subseteq Nat /\ D # {}
    <2>1. PICK t \in T : TRUE
        OBVIOUS
    <2>2. b - t \in D
        BY <2>1
    <2> QED
        BY <2>2
<1> HIDE DEF D
<1>2. PICK d \in D : \A e \in D : d <= e
    BY <1>1, Least
<1>3. PICK n \in T : d = b - n
    BY DEF D
<1>4. ASSUME NEW m \in T
      PROVE  m <= n
    <2>1. d <= b - m
        BY <1>2 DEF D
    <2>2. m \in 0..b /\ n \in 0..b
        OBVIOUS
    <2> QED
        BY <1>3, <2>1, <2>2
<1> QED
    BY <1>4

\* A list is what the last file that has it says.
LEMMA ListAtNext ==
    ASSUME NEW fs, NEW f \in Nat, NEW l
    PROVE  /\ ListAt(fs, 0, l) = <<>>
           /\ l \in DOMAIN fs[f + 1].lists =>
                ListAt(fs, f + 1, l) = fs[f + 1].lists[l]
           /\ l \notin DOMAIN fs[f + 1].lists =>
                ListAt(fs, f + 1, l) = ListAt(fs, f, l)
<1> DEFINE has(n) == {g \in 1..n : l \in DOMAIN fs[g].lists}
<1>1. ListAt(fs, 0, l) = <<>>
    BY DEF ListAt
<1>2. ASSUME l \in DOMAIN fs[f + 1].lists
      PROVE  ListAt(fs, f + 1, l) = fs[f + 1].lists[l]
    <2> DEFINE g == CHOOSE g \in has(f + 1) : \A h \in has(f + 1) : h <= g
    <2>1. f + 1 \in has(f + 1) /\ \A h \in has(f + 1) : h <= f + 1
        BY <1>2
    <2>2. has(f + 1) # {}
        BY <2>1
    <2>3. g \in has(f + 1) /\ \A h \in has(f + 1) : h <= g
        BY <2>1
    <2>4. g \in Int /\ g <= f + 1 /\ f + 1 <= g
        BY <2>1, <2>3
    <2>5. g = f + 1
        BY <2>4
    <2>6. ListAt(fs, f + 1, l) = fs[g].lists[l]
        BY <2>2 DEF ListAt
    <2> QED
        BY <2>5, <2>6
<1>3. ASSUME l \notin DOMAIN fs[f + 1].lists
      PROVE  ListAt(fs, f + 1, l) = ListAt(fs, f, l)
    <2>1. has(f + 1) = has(f)
        <3>1. 1..(f + 1) = 1..f \cup {f + 1}
            OBVIOUS
        <3> QED
            BY <1>3, <3>1
    <2> DEFINE last(S) == IF S = {} THEN <<>>
                          ELSE fs[CHOOSE g \in S : \A h \in S : h <= g].lists[l]
    <2>2. ListAt(fs, f + 1, l) = last(has(f + 1))
            /\ ListAt(fs, f, l) = last(has(f))
        BY DEF ListAt
    <2> HIDE DEF has, last
    <2> QED
        BY <2>1, <2>2
<1> QED
    BY <1>1, <1>2, <1>3

\* The lists of all files are lists of rules.
LEMMA ListAtTyped ==
    ASSUME NEW fs \in Configs \cup {<<>>}, NEW f \in 0..Len(fs), NEW l \in Lists
    PROVE  ListAt(fs, f, l) \in Seq(Rule)
<1> DEFINE has == {g \in 1..f : l \in DOMAIN fs[g].lists}
<1>1. CASE has = {}
    BY <1>1, EmptySeq DEF ListAt
<1>2. CASE has # {}
    <2>1. IsConfig(fs) /\ f \in Nat
        <3>1. Len(<<>>) = 0
            OBVIOUS
        <3>2. fs # <<>>
            BY <1>2, <3>1
        <3>3. IsConfig(fs)
            BY <3>2, ConfigAssumption
        <3> QED
            BY <3>3 DEF IsConfig
    <2> DEFINE g == CHOOSE g \in has : \A h \in has : h <= g
    <2>2. \E n \in has : \A m \in has : m <= n
        <3>1. has \subseteq 0..f
            BY <2>1
        <3> HIDE DEF has
        <3> QED
            BY <1>2, <2>1, <3>1, Greatest
    <2>3. g \in has
        BY <2>2
    <2>4. ListAt(fs, f, l) = fs[g].lists[l]
        BY <1>2 DEF ListAt
    <2>5. g \in DOMAIN fs /\ l \in DOMAIN fs[g].lists
        BY <2>1, <2>3 DEF IsConfig
    <2>6. IsFile(fs[g])
        BY <2>1, <2>5 DEF IsConfig
    <2> QED
        BY <2>4, <2>5, <2>6 DEF IsFile
<1> QED
    BY <1>1, <1>2

Triples == Nat \X Nat \X Nat

\* What a place is, and the rule at it.
LEMMA RulesOfPlaces ==
    ASSUME NEW fs \in Configs \cup {<<>>}
    PROVE  /\ \A p \in RulesOf(fs) :
                /\ p \in Triples /\ p = <<p[1], p[2], p[3]>>
                /\ p[1] \in 1..Len(fs) /\ p[2] \in 1..Len(ListOrder)
                /\ ListAt(fs, p[1], ListOrder[p[2]]) \in Seq(Rule)
                /\ p[3] \in 1..Len(ListAt(fs, p[1], ListOrder[p[2]]))
                /\ RuleAt(fs, p) \in Rule
           /\ \A f \in 1..Len(fs), k \in 1..Len(ListOrder) :
                \A e \in 1..Len(ListAt(fs, f, ListOrder[k])) :
                    <<f, k, e>> \in RulesOf(fs)
<1>1. Len(fs) \in Nat /\ DOMAIN fs = 1..Len(fs)
    <2>1. CASE fs = <<>>
        BY <2>1
    <2>2. CASE fs \in Configs
        BY <2>2, ConfigAssumption DEF IsConfig
    <2> QED
        BY <2>1, <2>2
<1>2. /\ Len(ListOrder) \in Nat /\ DOMAIN ListOrder = 1..Len(ListOrder)
      /\ \A k \in 1..Len(ListOrder) : ListOrder[k] \in Lists
    BY ConfigAssumption, ElementOfSeq, LenProperties
<1>3. ASSUME NEW f \in 1..Len(fs), NEW k \in 1..Len(ListOrder)
      PROVE  /\ ListAt(fs, f, ListOrder[k]) \in Seq(Rule)
             /\ DOMAIN ListAt(fs, f, ListOrder[k])
                    = 1..Len(ListAt(fs, f, ListOrder[k]))
    <2>1. f \in 0..Len(fs)
        BY <1>1
    <2>2. ListAt(fs, f, ListOrder[k]) \in Seq(Rule)
        BY <1>2, <2>1, ListAtTyped
    <2> QED
        BY <2>2, LenProperties
<1>4. ASSUME NEW p \in RulesOf(fs)
      PROVE  /\ p \in Triples /\ p = <<p[1], p[2], p[3]>>
             /\ p[1] \in 1..Len(fs) /\ p[2] \in 1..Len(ListOrder)
             /\ ListAt(fs, p[1], ListOrder[p[2]]) \in Seq(Rule)
             /\ p[3] \in 1..Len(ListAt(fs, p[1], ListOrder[p[2]]))
             /\ RuleAt(fs, p) \in Rule
    <2>1. PICK f \in DOMAIN fs, k \in DOMAIN ListOrder :
            \E e \in DOMAIN ListAt(fs, f, ListOrder[k]) : p = <<f, k, e>>
        BY <1>4 DEF RulesOf
    <2>2. PICK e \in DOMAIN ListAt(fs, f, ListOrder[k]) : p = <<f, k, e>>
        BY <2>1
    <2>3. f \in 1..Len(fs) /\ k \in 1..Len(ListOrder)
        BY <1>1, <1>2
    <2> DEFINE rules == ListAt(fs, f, ListOrder[k])
    <2>4. rules \in Seq(Rule) /\ e \in 1..Len(rules) /\ Len(rules) \in Nat
        BY <1>3, <2>3, LenProperties
    <2> HIDE DEF rules
    <2>5. rules[e] \in Rule
        BY <2>4, ElementOfSeq
    <2>6. p[1] = f /\ p[2] = k /\ p[3] = e
        BY <2>2
    <2>7. f \in Nat /\ k \in Nat /\ e \in Nat
        BY <1>1, <1>2, <2>3, <2>4
    <2>8. p \in Triples /\ p = <<p[1], p[2], p[3]>>
        BY <2>2, <2>6, <2>7 DEF Triples
    <2> QED
        BY <2>3, <2>4, <2>5, <2>6, <2>8 DEF RuleAt, rules
<1>5. ASSUME NEW f \in 1..Len(fs), NEW k \in 1..Len(ListOrder),
             NEW e \in 1..Len(ListAt(fs, f, ListOrder[k]))
      PROVE  <<f, k, e>> \in RulesOf(fs)
    <2> DEFINE places(g, m) == {<<g, m, d>> : d \in DOMAIN ListAt(fs, g,
                                                               ListOrder[m])}
    <2>1. <<f, k, e>> \in places(f, k)
        BY <1>3
    <2>2. f \in DOMAIN fs /\ k \in DOMAIN ListOrder
        BY <1>1, <1>2
    <2>3. RulesOf(fs) = UNION {places(g, m) : g \in DOMAIN fs,
                                             m \in DOMAIN ListOrder}
        BY DEF RulesOf
    <2> HIDE DEF places
    <2> QED
        BY <2>1, <2>2, <2>3
<1> QED
    BY <1>4, <1>5

\* Places are in a strict total order.
LEMMA BeforeOrder ==
    ASSUME NEW p \in Triples, NEW q \in Triples
    PROVE  /\ Before(p, q) \/ Before(q, p) \/ p = q
           /\ ~(Before(p, q) /\ Before(q, p)) /\ ~Before(p, p)
           /\ \A r \in Triples : Before(p, q) /\ Before(q, r) => Before(p, r)
<1>1. /\ p[1] \in Nat /\ p[2] \in Nat /\ p[3] \in Nat
      /\ q[1] \in Nat /\ q[2] \in Nat /\ q[3] \in Nat
      /\ p = <<p[1], p[2], p[3]>> /\ q = <<q[1], q[2], q[3]>>
    BY DEF Triples
<1>2. Before(p, q) \/ Before(q, p) \/ p = q
    BY <1>1 DEF Before
<1>3. ~(Before(p, q) /\ Before(q, p)) /\ ~Before(p, p)
    BY <1>1 DEF Before
<1>4. ASSUME NEW r \in Triples, Before(p, q), Before(q, r)
      PROVE  Before(p, r)
    <2>1. r[1] \in Nat /\ r[2] \in Nat /\ r[3] \in Nat
        BY DEF Triples
    <2> QED
        BY <1>1, <1>4, <2>1 DEF Before
<1> QED
    BY <1>2, <1>3, <1>4

\* The rules that are asked for have different ids.
LEMMA WantedIds ==
    ASSUME NEW fs \in Configs \cup {<<>>}
    PROVE  /\ Wanted(fs) \subseteq RulesOf(fs)
           /\ \A p \in Wanted(fs) :
                /\ p \in Triples /\ RuleAt(fs, p) \in Rule
                /\ RuleAt(fs, p).rules \in Seq(Conditions)
                /\ Len(RuleAt(fs, p).rules) \in Nat
                /\ DOMAIN RuleAt(fs, p).rules = 1..Len(RuleAt(fs, p).rules)
           /\ \A p, q \in Wanted(fs) :
                RuleAt(fs, p).id = RuleAt(fs, q).id => p = q
<1>1. Wanted(fs) \subseteq RulesOf(fs)
    BY DEF Wanted
<1>2. ASSUME NEW p \in Wanted(fs)
      PROVE  /\ p \in Triples /\ RuleAt(fs, p) \in Rule
             /\ RuleAt(fs, p).rules \in Seq(Conditions)
             /\ Len(RuleAt(fs, p).rules) \in Nat
             /\ DOMAIN RuleAt(fs, p).rules = 1..Len(RuleAt(fs, p).rules)
    <2>1. p \in Triples /\ RuleAt(fs, p) \in Rule
        BY <1>1, <1>2, RulesOfPlaces
    <2>2. RuleAt(fs, p).rules \in Seq(Conditions)
        BY <2>1 DEF Rule
    <2> QED
        BY <2>1, <2>2, LenProperties
<1>3. ASSUME NEW p \in Wanted(fs), NEW q \in Wanted(fs),
             RuleAt(fs, p).id = RuleAt(fs, q).id
      PROVE  p = q
    <2>1. FirstUse(fs, p) /\ FirstUse(fs, q)
        BY DEF Wanted
    <2>2. ~Before(q, p) /\ ~Before(p, q)
        BY <1>1, <1>3, <2>1 DEF FirstUse
    <2> QED
        BY <1>2, <2>2, BeforeOrder
<1> QED
    BY <1>1, <1>2, <1>3

\* The first rule with an id is the one whose id was not met before.
LEMMA FirstUseIs ==
    ASSUME NEW fs \in Configs \cup {<<>>}, NEW p \in RulesOf(fs)
    PROVE  p \in Wanted(fs) <=>
            RuleAt(fs, p).id \notin {RuleAt(fs, q).id :
                                    q \in {o \in RulesOf(fs) : Before(o, p)}}
BY DEF Wanted, FirstUse

\* No action is written before the first rule of a list.
LEMMA ActionOfNone ==
    ASSUME NEW fs, NEW f, NEW k
    PROVE  ActionOf(fs, <<f, k, 0>>) = {}
BY DEF ActionOf

\* The action of a rule is its own, or that of the rule before it.
LEMMA ActionOfNext ==
    ASSUME NEW fs, NEW f, NEW k, NEW e \in Nat, NEW p, p = <<f, k, e + 1>>
    PROVE  IF FirstUse(fs, p) /\ RuleAt(fs, p).action # {}
           THEN ActionOf(fs, p) = RuleAt(fs, p).action
           ELSE ActionOf(fs, p) = ActionOf(fs, <<f, k, e>>)
<1> DEFINE rule(d) == RuleAt(fs, <<f, k, d>>)
           own(d) == FirstUse(fs, <<f, k, d>>) /\ rule(d).action # {}
           with(n) == {d \in 1..n : own(d)}
           last(S) == IF S = {} THEN {}
                      ELSE rule(CHOOSE d \in S : \A c \in S : c <= d).action
<1>1. ASSUME NEW n \in Nat
      PROVE  ActionOf(fs, <<f, k, n>>) = last(with(n))
    BY DEF ActionOf
<1> HIDE DEF rule, own
<1>2. CASE own(e + 1)
    <2> DEFINE S == with(e + 1)
               g == CHOOSE d \in S : \A c \in S : c <= d
    <2>1. e + 1 \in S /\ \A c \in S : c <= e + 1 /\ c \in Int
        BY <1>2
    <2> HIDE DEF S
    <2>2. g \in S /\ \A c \in S : c <= g
        BY <2>1
    <2>3. g = e + 1
        BY <2>1, <2>2
    <2>4. last(S) = rule(e + 1).action
        BY <2>1, <2>3
    <2> HIDE DEF last
    <2>5. ActionOf(fs, <<f, k, e + 1>>) = rule(e + 1).action
        BY <1>1, <2>4 DEF S
    <2> QED
        BY <1>2, <2>5 DEF own, rule
<1>3. CASE ~own(e + 1)
    <2>1. with(e + 1) = with(e)
        <3>1. 1..(e + 1) = 1..e \cup {e + 1}
            OBVIOUS
        <3> QED
            BY <1>3, <3>1
    <2> HIDE DEF with, last
    <2>2. ActionOf(fs, <<f, k, e + 1>>) = ActionOf(fs, <<f, k, e>>)
        BY <1>1, <2>1
    <2> QED
        BY <1>3, <2>2 DEF own, rule
<1> QED
    BY <1>2, <1>3

-----------------------------------------------------------------------------
(* The values of the registry.                                             *)

\* Storing appends a value, or replaces those with its name.
LEMMA StoredIs ==
    ASSUME NEW reg \in Seq(Values), NEW name, NEW data,
           [name |-> name, data |-> data] \in Values
    PROVE  LET new == Stored(reg, name, data)
               n == Len(reg)
               value == [name |-> name, data |-> data]
           IN  /\ n \in Nat /\ DOMAIN reg = 1..n
               /\ \A i \in 1..n : new[i] = IF reg[i].name = name THEN value
                                         ELSE reg[i]
               /\ (\E i \in 1..n : reg[i].name = name) => DOMAIN new = 1..n
               /\ (\A i \in 1..n : reg[i].name # name) =>
                        DOMAIN new = 1..(n + 1) /\ new[n + 1] = value
<1> DEFINE value == [name |-> name, data |-> data]
           n == Len(reg)
           same == {i \in DOMAIN reg : reg[i].name = name}
           put == [i \in DOMAIN reg |-> IF i \in same THEN value ELSE reg[i]]
<1>1. n \in Nat /\ DOMAIN reg = 1..n
    BY LenProperties
<1>2. ASSUME \A i \in 1..n : reg[i].name # name
      PROVE  /\ DOMAIN Stored(reg, name, data) = 1..(n + 1)
             /\ Stored(reg, name, data)[n + 1] = value
             /\ \A i \in 1..n : Stored(reg, name, data)[i] = reg[i]
    <2>1. same = {}
        BY <1>1, <1>2
    <2>2. Stored(reg, name, data) = Append(reg, value)
        BY <2>1 DEF Stored
    <2> HIDE DEF value
    <2>3. /\ Append(reg, value) \in Seq(Values)
          /\ Len(Append(reg, value)) = n + 1
          /\ \A i \in 1..n : Append(reg, value)[i] = reg[i]
          /\ Append(reg, value)[n + 1] = value
        BY AppendProperties DEF value
    <2>4. DOMAIN Append(reg, value) = 1..(n + 1)
        BY <2>3, LenProperties
    <2> QED
        BY <2>2, <2>3, <2>4
<1>3. ASSUME NEW j \in 1..n, reg[j].name = name
      PROVE  /\ DOMAIN Stored(reg, name, data) = 1..n
             /\ \A i \in 1..n : Stored(reg, name, data)[i] =
                    IF reg[i].name = name THEN value ELSE reg[i]
    <2>1. j \in same
        BY <1>1, <1>3
    <2>2. Stored(reg, name, data) = put
        BY <2>1 DEF Stored
    <2> HIDE DEF value
    <2>3. DOMAIN put = 1..n /\ \A i \in 1..n :
                put[i] = IF reg[i].name = name THEN value ELSE reg[i]
        BY <1>1
    <2> QED
        BY <2>2, <2>3
<1> HIDE DEF value, same, put
<1>4. CASE \A i \in 1..n : reg[i].name # name
    <2>1. \A i \in 1..n : Stored(reg, name, data)[i] =
                    IF reg[i].name = name THEN value ELSE reg[i]
        BY <1>2, <1>4
    <2> QED
        BY <1>1, <1>2, <1>4, <2>1 DEF value
<1>5. CASE \E i \in 1..n : reg[i].name = name
    BY <1>1, <1>3, <1>5 DEF value
<1> QED
    BY <1>4, <1>5

\* Nothing that is said of the conditions of the rules changes.
SameConditions ==
    /\ files' = files
    /\ RuleValues' = RuleValues
    /\ \A i \in RuleValues : registry'[i] = registry[i]

LEMMA SameValues ==
    ASSUME SameConditions
    PROVE  /\ \A id : ValuesOf(id)' = ValuesOf(id)
           /\ \A i \in RuleValues : Rank(i)' = Rank(i)
           /\ \A i \in RuleValues : \A p, r :
                IsWritten(i, p, r)' <=> IsWritten(i, p, r)
<1>1. ASSUME NEW id
      PROVE  ValuesOf(id)' = ValuesOf(id)
    BY DEF SameConditions, ValuesOf
<1>2. ASSUME NEW i \in RuleValues
      PROVE  Rank(i)' = Rank(i)
    <2> DEFINE S == {j \in ValuesOf(registry[i].data.id) : j <= i}
    <2>1. S' = S
        BY DEF SameConditions, ValuesOf
    <2>2. Rank(i) = Cardinality(S)
        BY DEF Rank
    <2>3. Rank(i)' = Cardinality(S')
        BY DEF Rank
    <2> HIDE DEF S
    <2> QED
        BY <2>1, <2>2, <2>3
<1>3. ASSUME NEW i \in RuleValues, NEW p, NEW r
      PROVE  IsWritten(i, p, r)' <=> IsWritten(i, p, r)
    BY DEF SameConditions, IsWritten
<1> QED
    BY <1>1, <1>2, <1>3

\* The values of a rule are finitely many.
LEMMA ValuesFinite ==
    ASSUME registry \in Seq(Values), NEW id
    PROVE  /\ IsFiniteSet(ValuesOf(id))
           /\ ValuesOf(id) \subseteq 1..Len(registry)
           /\ Cardinality(ValuesOf(id)) \in Nat
           /\ Cardinality(ValuesOf(id)) = 0 => ValuesOf(id) = {}
<1>1. Len(registry) \in Nat /\ DOMAIN registry = 1..Len(registry)
    BY LenProperties
<1>2. ValuesOf(id) \subseteq 1..Len(registry)
    BY <1>1 DEF ValuesOf, RuleValues
<1>3. IsFiniteSet(1..Len(registry))
    BY <1>1, FS_Interval
<1>4. IsFiniteSet(ValuesOf(id))
    BY <1>2, <1>3, FS_Subset
<1> QED
    BY <1>2, <1>4, FS_CardinalityType, FS_EmptySet

\* A step that writes no condition.
LEMMA SameProgress ==
    ASSUME TypeOK, WrittenInv, FreshInv, SameConditions, runs' = runs,
           \A p \in Wanted(files) : Done(p)' = Done(p),
           at'.rule # 0 =>
                /\ Here' = Here /\ item' = item
                /\ at.rule # 0 \/ (Here \in Wanted(files) /\ Done(Here) = 0)
    PROVE  WrittenInv' /\ FreshInv'
<1>1. files' = files /\ RuleValues' = RuleValues
      /\ \A i \in RuleValues : registry'[i] = registry[i]
    BY DEF SameConditions
<1>2. Wanted(files)' = Wanted(files)
    BY <1>1
<1>3. WrittenInv'
    <2> SUFFICES ASSUME NEW p \in Wanted(files), NEW r \in 1..Done(p)
                 PROVE  \E i \in RuleValues' :
                            /\ IsWritten(i, p, r)'
                            /\ p = Here' /\ at'.rule # 0
                                => registry'[i].name[4] < item'
        BY <1>2 DEF WrittenInv
    <2>1. PICK i \in RuleValues :
            /\ IsWritten(i, p, r)
            /\ p = Here /\ at.rule # 0 => registry[i].name[4] < item
        BY DEF WrittenInv
    <2>2. IsWritten(i, p, r)' /\ registry'[i] = registry[i]
        BY <1>1, <2>1, SameValues
    <2>3. ASSUME p = Here', at'.rule # 0
          PROVE  registry'[i].name[4] < item'
        <3>1. at.rule # 0
            BY <2>3
        <3> QED
            BY <2>1, <2>2, <2>3, <3>1
    <2> QED
        BY <1>1, <2>2, <2>3
<1>4. FreshInv'
    <2> SUFFICES ASSUME runs = 1
                 PROVE  FreshInv'
        BY DEF FreshInv
    <2>1. /\ \A i \in RuleValues : \E p \in Wanted(files) :
                Rank(i) \in 1..Done(p) /\ IsWritten(i, p, Rank(i))
          /\ \A p, q \in Wanted(files) : Before(p, q) =>
                \A i \in ValuesOf(RuleAt(files, p).id),
                   j \in ValuesOf(RuleAt(files, q).id) : i < j
          /\ \A p \in Wanted(files) :
                Cardinality(ValuesOf(RuleAt(files, p).id)) = Done(p)
          /\ at.rule # 0 => \A i \in ValuesOf(RuleAt(files, Here).id) :
                registry[i].name[4] < item
        BY DEF FreshInv
    <2>2. \A i \in RuleValues' : \E p \in Wanted(files)' :
                Rank(i)' \in 1..Done(p)' /\ IsWritten(i, p, Rank(i))'
        <3> SUFFICES ASSUME NEW i \in RuleValues
                     PROVE  \E p \in Wanted(files) :
                        Rank(i)' \in 1..Done(p)' /\ IsWritten(i, p, Rank(i))'
            BY <1>1, <1>2
        <3>1. PICK p \in Wanted(files) :
                Rank(i) \in 1..Done(p) /\ IsWritten(i, p, Rank(i))
            BY <2>1
        <3>2. Rank(i)' = Rank(i)
            BY SameValues
        <3>3. IsWritten(i, p, Rank(i))'
            BY <1>1, <3>1, <3>2 DEF IsWritten
        <3> QED
            BY <3>1, <3>2, <3>3
    <2>3. \A p, q \in Wanted(files)' : Before(p, q) =>
                \A i \in ValuesOf(RuleAt(files, p).id)',
                   j \in ValuesOf(RuleAt(files, q).id)' : i < j
        <3>1. \A p : ValuesOf(RuleAt(files, p).id)'
                        = ValuesOf(RuleAt(files, p).id)
            BY <1>1 DEF ValuesOf
        <3> QED
            BY <1>2, <2>1, <3>1
    <2>4. \A p \in Wanted(files)' :
                Cardinality(ValuesOf(RuleAt(files, p).id)') = Done(p)'
        <3>1. \A p : ValuesOf(RuleAt(files, p).id)'
                        = ValuesOf(RuleAt(files, p).id)
            BY <1>1 DEF ValuesOf
        <3> QED
            BY <1>2, <2>1, <3>1
    <2>5. at'.rule # 0 => \A i \in ValuesOf(RuleAt(files, Here).id)' :
                registry'[i].name[4] < item'
        <3> SUFFICES ASSUME at'.rule # 0,
                            NEW i \in ValuesOf(RuleAt(files, Here).id)'
                     PROVE  registry'[i].name[4] < item'
            OBVIOUS
        <3>1. Here' = Here /\ item' = item
            OBVIOUS
        <3>2. i \in ValuesOf(RuleAt(files, Here).id)
                /\ registry'[i] = registry[i]
            BY <1>1, <3>1 DEF ValuesOf
        <3>3. CASE at.rule # 0
            BY <2>1, <3>1, <3>2, <3>3
        <3>4. CASE Here \in Wanted(files) /\ Done(Here) = 0
            <4>1. Cardinality(ValuesOf(RuleAt(files, Here).id)) = 0
                BY <2>1, <3>4
            <4> QED
                BY <3>2, <4>1, ValuesFinite DEF TypeOK
        <3> QED
            BY <3>3, <3>4
    <2> QED
        BY <2>2, <2>3, <2>4, <2>5 DEF FreshInv
<1> QED
    BY <1>3, <1>4

-----------------------------------------------------------------------------
(* Where the agent is.                                                     *)

\* The rule the agent is at is one of the files.
LEMMA HereIs ==
    ASSUME TypeOK, PlaceInv, InLists
    PROVE  /\ Here \in Triples
           /\ Here[1] = at.file /\ Here[2] = at.list /\ Here[3] = at.entry
           /\ at.file \in 1..Len(files) /\ at.list \in 1..Len(ListOrder)
           /\ List = ListOrder[at.list]
           /\ Conf.lists[List] = ListAt(files, at.file, List)
           /\ Entry = RuleAt(files, Here)
           /\ Here \in RulesOf(files)
                <=> at.entry <= Len(Conf.lists[List])
           /\ at.entry <= Len(Conf.lists[List]) => Entry \in Rule
<1>1. /\ at.file \in Nat \ {0} /\ at.list \in Nat \ {0}
      /\ at.entry \in Nat \ {0}
      /\ Len(ListOrder) \in Nat
      /\ files \in Configs \cup {<<>>}
    BY ConfigAssumption, LenProperties DEF TypeOK
<1>2. /\ Here[1] = at.file /\ Here[2] = at.list /\ Here[3] = at.entry
      /\ Here \in Triples
    BY <1>1 DEF Here, Triples
<1>3. agent = "lists" /\ at.list <= Len(ListOrder) /\ at.file <= Len(files)
    BY DEF InLists, PlaceInv
<1>4. at.file \in 1..Len(files) /\ at.list \in 1..Len(ListOrder)
    <2>1. Len(files) \in Nat
        <3>1. CASE files \in Configs
            BY <3>1, ConfigAssumption DEF IsConfig
        <3>2. CASE files = <<>>
            BY <3>2
        <3> QED
            BY <1>1, <3>1, <3>2
    <2> QED
        BY <1>1, <1>3, <2>1
<1>5. List = ListOrder[at.list] /\ List \in Lists
    BY <1>4, ElementOfSeq, ConfigAssumption DEF List
<1>6. Conf.lists[List] = ListAt(files, at.file, List)
    BY <1>3, <1>5 DEF PlaceInv
<1>7. Entry = RuleAt(files, Here)
    BY <1>2, <1>5, <1>6 DEF Entry, RuleAt
<1>8. Here \in RulesOf(files) <=> at.entry <= Len(Conf.lists[List])
    <2>1. Len(ListAt(files, at.file, List)) \in Nat
        BY <1>5, <1>6, LenProperties DEF TypeOK
    <2>2. ASSUME Here \in RulesOf(files)
          PROVE  at.entry <= Len(Conf.lists[List])
        <3>1. at.entry \in 1..Len(ListAt(files, at.file, List))
            BY <1>1, <1>2, <1>5, <2>2, RulesOfPlaces
        <3> QED
            BY <1>6, <2>1, <3>1
    <2>3. ASSUME at.entry <= Len(Conf.lists[List])
          PROVE  Here \in RulesOf(files)
        <3>1. at.entry \in 1..Len(ListAt(files, at.file, ListOrder[at.list]))
            BY <1>1, <1>5, <1>6, <2>1, <2>3
        <3> QED
            BY <1>1, <1>4, <3>1, RulesOfPlaces DEF Here
    <2> QED
        BY <2>2, <2>3
<1>9. at.entry <= Len(Conf.lists[List]) => Entry \in Rule
    BY <1>1, <1>7, <1>8, RulesOfPlaces
<1> QED
    BY <1>2, <1>4, <1>5, <1>6, <1>7, <1>8, <1>9

\* What is done at the place of the agent, before and after it.
LEMMA DoneIs ==
    ASSUME TypeOK, NEW p \in Wanted(files)
    PROVE  /\ Before(p, Here) => Done(p) = Len(RuleAt(files, p).rules)
           /\ Before(Here, p) => Done(p) = 0
           /\ p = Here /\ at.rule # 0 => Done(p) = at.rule - 1
           /\ p = Here /\ at.rule = 0 => Done(p) = 0
           /\ Done(p) \in Nat
<1>1. p \in Triples /\ Len(RuleAt(files, p).rules) \in Nat
    BY WantedIds DEF TypeOK
<1>2. Here \in Triples /\ at.rule \in Nat
    BY DEF TypeOK, Here, Triples
<1>3. ~(Before(p, Here) /\ Before(Here, p)) /\ ~Before(p, p)
    BY <1>1, <1>2, BeforeOrder
<1> QED
    BY <1>1, <1>2, <1>3 DEF Done

-----------------------------------------------------------------------------
(* A condition is written.                                                 *)

\* What the agent writes, and what the registry is then.
LEMMA Written ==
    ASSUME IInv, PlaceInv, InsideInv, ActionsInv, WriteCondition
    PROVE  LET rule == RuleAt(files, Here)
               value == [name |-> RuleName(ListOrder[Here[2]], rule.id, item),
                         data |-> [id |-> rule.id,
                                   cond |-> rule.rules[at.rule],
                                   actions |-> ActionOf(files, Here)]]
               n == Len(registry)
           IN  /\ Here \in Wanted(files) /\ at.rule \in Nat \ {0}
               /\ files' = files /\ runs' = runs /\ Here' = Here
               /\ at'.rule = at.rule + 1 /\ item' = item + 1 /\ item \in Nat
               /\ Done(Here) = at.rule - 1 /\ Done(Here)' = at.rule
               /\ \A p \in Wanted(files) : p # Here => Done(p)' = Done(p)
               /\ n \in Nat /\ DOMAIN registry = 1..n
               /\ \A i \in 1..n : registry'[i] =
                    IF registry[i].name = value.name THEN value ELSE registry[i]
               /\ (\E i \in 1..n : registry[i].name = value.name)
                    => DOMAIN registry' = 1..n
               /\ (\A i \in 1..n : registry[i].name # value.name)
                    => DOMAIN registry' = 1..(n + 1) /\ registry'[n + 1] = value
               /\ \A i \in 1..n : registry[i].name = value.name =>
                    i \in ValuesOf(rule.id) /\ registry[i].name[4] = item
<1> DEFINE rule == RuleAt(files, Here)
           value == [name |-> RuleName(ListOrder[Here[2]], rule.id, item),
                     data |-> [id |-> rule.id, cond |-> rule.rules[at.rule],
                               actions |-> ActionOf(files, Here)]]
           n == Len(registry)
<1>1. TypeOK /\ RuleInv /\ RegistryGiven
    BY DEF IInv
<1>2. AtCondition /\ InLists /\ at.rule # 0
    BY DEF WriteCondition, AtCondition
<1>3. /\ Here[1] = at.file /\ Here[2] = at.list /\ Here[3] = at.entry
      /\ List = ListOrder[Here[2]] /\ Entry = rule
    BY <1>1, <1>2, HereIs
<1>4. actions = ActionOf(files, Here)
    BY <1>2 DEF ActionsInv, Here
<1>5. [name |-> RuleName(List, Entry.id, item),
       data |-> [id |-> Entry.id, cond |-> Entry.rules[at.rule],
                 actions |-> actions]] = value
    BY <1>3, <1>4
<1>6. value \in Values
    BY <1>1, <1>2, <1>5, ConditionValue
<1>7. /\ registry' = Stored(registry, RuleName(List, Entry.id, item),
                            [id |-> Entry.id, cond |-> Entry.rules[at.rule],
                             actions |-> actions])
      /\ item' = item + 1 /\ at' = [at EXCEPT !.rule = @ + 1]
      /\ files' = files /\ runs' = runs
    BY DEF WriteCondition, NextItem
<1>8. /\ n \in Nat /\ DOMAIN registry = 1..n
      /\ \A i \in 1..n : registry'[i] =
            IF registry[i].name = value.name THEN value ELSE registry[i]
      /\ (\E i \in 1..n : registry[i].name = value.name)
            => DOMAIN registry' = 1..n
      /\ (\A i \in 1..n : registry[i].name # value.name)
            => DOMAIN registry' = 1..(n + 1) /\ registry'[n + 1] = value
    <2> DEFINE name == RuleName(List, Entry.id, item)
               data == [id |-> Entry.id, cond |-> Entry.rules[at.rule],
                        actions |-> actions]
    <2>1. [name |-> name, data |-> data] = value /\ value.name = name
        BY <1>3, <1>5
    <2>2. registry' = Stored(registry, name, data) /\ registry \in Seq(Values)
        BY <1>1, <1>7 DEF TypeOK
    <2> HIDE DEF name, data, value
    <2> QED
        BY <1>6, <2>1, <2>2, StoredIs
<1>9. ASSUME NEW i \in 1..n, registry[i].name = value.name
      PROVE  i \in ValuesOf(rule.id) /\ registry[i].name[4] = item
    <2>1. /\ registry[i].name[1] = "rule" /\ registry[i].name[3] = rule.id
          /\ registry[i].name[4] = item
        BY <1>9 DEF RuleName
    <2>2. i \in DOMAIN registry
        BY <1>8
    <2>3. registry[i].data.id = rule.id
        BY <1>1, <2>1, <2>2 DEF RegistryGiven
    <2> QED
        BY <2>1, <2>2, <2>3 DEF ValuesOf, RuleValues
<1>10. /\ Here' = Here /\ at'.rule = at.rule + 1 /\ at.rule \in Nat \ {0}
       /\ item \in Nat
    BY <1>1, <1>2, <1>7 DEF Here, TypeOK
<1>11. Here \in Wanted(files) /\ Here \in Triples
    BY <1>1, <1>2, HereIs DEF InsideInv
<1>12. /\ Done(Here) = at.rule - 1 /\ Done(Here)' = at.rule
       /\ \A p \in Wanted(files) : p # Here => Done(p)' = Done(p)
    <2>1. ~Before(Here, Here)
        BY <1>11, BeforeOrder
    <2> QED
        BY <1>7, <1>10, <2>1 DEF Done
<1> HIDE DEF rule, value, n
<1>13. /\ Here \in Wanted(files) /\ at.rule \in Nat \ {0}
       /\ files' = files /\ runs' = runs /\ Here' = Here
       /\ at'.rule = at.rule + 1 /\ item' = item + 1 /\ item \in Nat
       /\ Done(Here) = at.rule - 1 /\ Done(Here)' = at.rule
       /\ \A p \in Wanted(files) : p # Here => Done(p)' = Done(p)
    BY <1>7, <1>10, <1>11, <1>12
<1>14. \A i \in 1..n : registry[i].name = value.name =>
                    i \in ValuesOf(rule.id) /\ registry[i].name[4] = item
    BY <1>9
<1> QED
    BY <1>8, <1>13, <1>14 DEF rule, value, n

\* The condition is there, and no other one is lost.
LEMMA WriteWritten ==
    ASSUME IInv, PlaceInv, InsideInv, ActionsInv, WrittenInv, WriteCondition
    PROVE  WrittenInv'
<1> DEFINE rule == RuleAt(files, Here)
           value == [name |-> RuleName(ListOrder[Here[2]], rule.id, item),
                     data |-> [id |-> rule.id, cond |-> rule.rules[at.rule],
                               actions |-> ActionOf(files, Here)]]
           n == Len(registry)
<1>1. /\ Here \in Wanted(files) /\ at.rule \in Nat \ {0}
      /\ files' = files /\ Here' = Here
      /\ item' = item + 1 /\ item \in Nat
      /\ Done(Here) = at.rule - 1 /\ Done(Here)' = at.rule
      /\ \A p \in Wanted(files) : p # Here => Done(p)' = Done(p)
      /\ n \in Nat /\ DOMAIN registry = 1..n
      /\ \A i \in 1..n : registry'[i] =
            IF registry[i].name = value.name THEN value ELSE registry[i]
      /\ (\E i \in 1..n : registry[i].name = value.name)
            => DOMAIN registry' = 1..n
      /\ (\A i \in 1..n : registry[i].name # value.name)
            => DOMAIN registry' = 1..(n + 1) /\ registry'[n + 1] = value
      /\ \A i \in 1..n : registry[i].name = value.name =>
            registry[i].name[4] = item /\ registry[i].data.id = rule.id
    BY Written DEF ValuesOf
<1>2. value.name[1] = "rule" /\ value.name[2] = ListOrder[Here[2]]
      /\ value.name[4] = item
    BY DEF RuleName
<1>3. \E k \in DOMAIN registry' : registry'[k] = value
    <2> HIDE DEF value, n
    <2>1. CASE \A i \in 1..n : registry[i].name # value.name
        <3>1. n + 1 \in 1..(n + 1)
            BY <1>1
        <3> QED
            BY <1>1, <2>1, <3>1
    <2>2. CASE \E i \in 1..n : registry[i].name = value.name
        BY <1>1, <2>2
    <2> QED
        BY <2>1, <2>2
<1>4. 1..n \subseteq DOMAIN registry'
    <2>1. 1..n \subseteq 1..(n + 1)
        BY <1>1
    <2> QED
        BY <1>1, <2>1
<1> SUFFICES ASSUME NEW p \in Wanted(files), NEW r \in 1..Done(p)'
             PROVE  \E i \in RuleValues' :
                        /\ IsWritten(i, p, r)'
                        /\ p = Here' /\ at'.rule # 0
                            => registry'[i].name[4] < item'
    BY <1>1 DEF WrittenInv
<1>5. CASE p = Here /\ r = at.rule
    <2>1. PICK k \in DOMAIN registry' : registry'[k] = value
        BY <1>3
    <2>2. k \in RuleValues' /\ registry'[k].name[4] < item'
        <3> HIDE DEF value
        <3> QED
            BY <1>1, <1>2, <2>1 DEF RuleValues
    <2>3. IsWritten(k, p, r)'
        BY <1>1, <1>2, <1>5, <2>1 DEF IsWritten
    <2> QED
        BY <2>2, <2>3
<1>6. CASE ~(p = Here /\ r = at.rule)
    <2> HIDE DEF value, n
    <2>1. r \in 1..Done(p)
        <3>1. CASE p = Here
            BY <1>1, <1>6, <3>1
        <3> QED
            BY <1>1, <3>1
    <2>2. PICK i \in RuleValues :
            /\ IsWritten(i, p, r)
            /\ p = Here /\ at.rule # 0 => registry[i].name[4] < item
        BY <2>1 DEF WrittenInv
    <2>3. i \in 1..n /\ registry[i].name[1] = "rule"
        BY <1>1 DEF RuleValues
    <2>4. registry[i].name # value.name
        <3> SUFFICES ASSUME registry[i].name = value.name
                     PROVE  FALSE
            OBVIOUS
        <3>1. registry[i].name[4] = item /\ registry[i].data.id = rule.id
            BY <1>1, <2>3
        <3>2. registry[i].data.id = RuleAt(files, p).id
            BY <2>2 DEF IsWritten
        <3>3. files \in Configs \cup {<<>>}
            BY DEF IInv, TypeOK
        <3>4. p = Here
            BY <1>1, <3>1, <3>2, <3>3, WantedIds
        <3> QED
            BY <1>1, <2>2, <3>1, <3>4
    <2>5. registry'[i] = registry[i]
        BY <1>1, <2>3, <2>4
    <2>6. i \in RuleValues'
        BY <1>4, <2>3, <2>5 DEF RuleValues
    <2>7. IsWritten(i, p, r)'
        BY <1>1, <2>2, <2>5 DEF IsWritten
    <2>8. ASSUME p = Here
          PROVE  registry'[i].name[4] < item'
        <3>1. registry[i].name[4] < item
            BY <1>1, <2>2, <2>8
        <3>2. registry[i].name[4] \in Nat
            <4>1. registry[i] \in Values
                BY <2>3, ElementOfSeq DEF IInv, TypeOK, n
            <4> QED
                BY <2>3, <4>1 DEF Values
        <3> QED
            BY <1>1, <2>5, <3>1, <3>2
    <2> QED
        BY <1>1, <2>6, <2>7, <2>8
<1> QED
    BY <1>5, <1>6

\* In the first run nothing else is added.
LEMMA WriteFresh ==
    ASSUME IInv, PlaceInv, InsideInv, ActionsInv, FreshInv, WriteCondition
    PROVE  FreshInv'
<1> DEFINE rule == RuleAt(files, Here)
           value == [name |-> RuleName(ListOrder[Here[2]], rule.id, item),
                     data |-> [id |-> rule.id, cond |-> rule.rules[at.rule],
                               actions |-> ActionOf(files, Here)]]
           n == Len(registry)
           of(p) == ValuesOf(RuleAt(files, p).id)
<1> SUFFICES ASSUME runs' = 1
             PROVE  FreshInv'
    BY DEF FreshInv
<1>1. /\ Here \in Wanted(files) /\ at.rule \in Nat \ {0}
      /\ files' = files /\ runs' = runs /\ Here' = Here
      /\ item' = item + 1 /\ item \in Nat
      /\ Done(Here) = at.rule - 1 /\ Done(Here)' = at.rule
      /\ \A p \in Wanted(files) : p # Here => Done(p)' = Done(p)
      /\ n \in Nat /\ DOMAIN registry = 1..n
    BY Written
<1>2. /\ \A i \in RuleValues : \E p \in Wanted(files) :
            Rank(i) \in 1..Done(p) /\ IsWritten(i, p, Rank(i))
      /\ \A p, q \in Wanted(files) : Before(p, q) =>
            \A i \in of(p), j \in of(q) : i < j
      /\ \A p \in Wanted(files) : Cardinality(of(p)) = Done(p)
      /\ \A i \in of(Here) : registry[i].name[4] < item
    BY <1>1 DEF FreshInv
<1>3. /\ \A i \in 1..n : registry'[i] = registry[i]
      /\ DOMAIN registry' = 1..(n + 1) /\ registry'[n + 1] = value
    <2>1. \A i \in 1..n : registry[i].name # value.name
        <3> SUFFICES ASSUME NEW i \in 1..n, registry[i].name = value.name
                     PROVE  FALSE
            OBVIOUS
        <3>1. i \in of(Here) /\ registry[i].name[4] = item
            BY Written
        <3> QED
            BY <1>1, <1>2, <3>1
    <2> QED
        BY <2>1, Written
<1>4. /\ value.name[1] = "rule" /\ value.name[2] = ListOrder[Here[2]]
      /\ value.name[4] = item /\ value.data.id = rule.id
      /\ value.data = [id |-> rule.id, cond |-> rule.rules[at.rule],
                       actions |-> ActionOf(files, Here)]
    BY DEF RuleName
<1> HIDE DEF value, n
<1>5. RuleValues' = RuleValues \cup {n + 1}
    <2>1. 1..(n + 1) = 1..n \cup {n + 1}
        BY <1>1
    <2> QED
        BY <1>1, <1>3, <1>4, <2>1 DEF RuleValues
<1>6. RuleValues \subseteq 1..n /\ n + 1 \notin RuleValues
    BY <1>1 DEF RuleValues
<1>7. \A i \in RuleValues : registry'[i] = registry[i]
    BY <1>3, <1>6
<1>8. /\ ValuesOf(rule.id)' = ValuesOf(rule.id) \cup {n + 1}
      /\ \A id : id # rule.id => ValuesOf(id)' = ValuesOf(id)
    <2>1. RuleAt(files, Here)' = RuleAt(files, Here)
        BY <1>1
    <2> QED
        BY <1>3, <1>4, <1>5, <1>6, <1>7, <2>1 DEF ValuesOf
<1>9. files \in Configs \cup {<<>>} /\ registry \in Seq(Values)
    BY DEF IInv, TypeOK
<1>10. /\ of(Here)' = of(Here) \cup {n + 1}
       /\ \A p \in Wanted(files) : p # Here => of(p)' = of(p)
       /\ \A p \in Wanted(files) : of(p) \subseteq 1..n
    <2>1. of(Here)' = of(Here) \cup {n + 1}
        BY <1>1, <1>8
    <2>2. ASSUME NEW p \in Wanted(files), p # Here
          PROVE  of(p)' = of(p)
        <3>1. RuleAt(files, p).id # rule.id
            BY <1>1, <1>9, <2>2, WantedIds
        <3>2. RuleAt(files, p)' = RuleAt(files, p)
            BY <1>1
        <3> QED
            BY <1>1, <1>8, <3>1, <3>2
    <2> QED
        BY <1>6, <2>1, <2>2 DEF ValuesOf
<1>11. Wanted(files)' = Wanted(files)
    BY <1>1
<1>12. \A i \in RuleValues' : \E p \in Wanted(files)' :
            Rank(i)' \in 1..Done(p)' /\ IsWritten(i, p, Rank(i))'
    <2>1. ASSUME NEW i \in RuleValues
          PROVE  \E p \in Wanted(files) :
                    Rank(i)' \in 1..Done(p)' /\ IsWritten(i, p, Rank(i))'
        <3>1. PICK p \in Wanted(files) :
                Rank(i) \in 1..Done(p) /\ IsWritten(i, p, Rank(i))
            BY <1>2
        <3>2. Rank(i)' = Rank(i)
            <4> DEFINE S == {j \in ValuesOf(registry[i].data.id) : j <= i}
            <4>1. S' = S
                <5>1. registry'[i] = registry[i] /\ i \in 1..n
                    BY <1>6, <1>7
                <5>2. S' = {j \in RuleValues' :
                            registry'[j].data.id = registry[i].data.id
                                /\ j <= i}
                    BY <5>1 DEF ValuesOf
                <5>3. ~(n + 1 <= i)
                    BY <1>1, <5>1
                <5>4. S' = {j \in RuleValues :
                            registry[j].data.id = registry[i].data.id
                                /\ j <= i}
                    BY <1>5, <1>7, <5>2, <5>3
                <5> QED
                    BY <5>4 DEF ValuesOf
            <4>2. Rank(i) = Cardinality(S) /\ Rank(i)' = Cardinality(S')
                BY DEF Rank
            <4> HIDE DEF S
            <4> QED
                BY <4>1, <4>2
        <3>3. IsWritten(i, p, Rank(i))'
            BY <1>1, <1>7, <3>1, <3>2 DEF IsWritten
        <3>4. Rank(i)' \in 1..Done(p)'
            BY <1>1, <3>1, <3>2
        <3> QED
            BY <3>3, <3>4
    <2>2. PICK m \in Nat : m = n + 1
        BY <1>1
    <2>3. Rank(m)' = at.rule
        <3> DEFINE T == {j \in ValuesOf(registry[m].data.id) : j <= m}
        <3>1. T' = of(Here) \cup {n + 1}
            <4>1. \A j \in of(Here) \cup {n + 1} : j <= m
                BY <1>1, <1>10, <2>2
            <4>2. registry'[m].data.id = rule.id
                BY <1>3, <1>4, <2>2
            <4>3. T' = {j \in {i \in RuleValues' : registry'[i].data.id
                                                    = rule.id} : j <= m}
                BY <4>2 DEF ValuesOf
            <4>4. {i \in RuleValues' : registry'[i].data.id = rule.id}
                    = of(Here) \cup {n + 1}
                BY <1>3, <1>4, <1>5, <1>7 DEF ValuesOf
            <4> QED
                BY <4>1, <4>3, <4>4
        <3>2. IsFiniteSet(of(Here)) /\ n + 1 \notin of(Here)
            BY <1>1, <1>9, <1>10, ValuesFinite
        <3>3. Cardinality(of(Here) \cup {n + 1}) = Cardinality(of(Here)) + 1
            BY <3>2, FS_AddElement
        <3>4. Cardinality(T') = at.rule
            <4>1. Cardinality(T') = Cardinality(of(Here)) + 1
                BY <3>1, <3>3
            <4>2. Cardinality(of(Here)) = at.rule - 1
                BY <1>1, <1>2
            <4> HIDE DEF T, of
            <4> QED
                BY <1>1, <4>1, <4>2
        <3>5. Rank(m)' = Cardinality(T')
            BY DEF Rank
        <3> QED
            BY <3>4, <3>5
    <2>4. PICK p \in Wanted(files) : p = Here
        BY <1>1
    <2>5. IsWritten(m, p, Rank(m))' /\ Rank(m)' \in 1..Done(p)'
        <3>1. registry'[m] = value
            BY <1>3, <2>2
        <3>2. IsWritten(m, p, Rank(m))'
            BY <1>1, <1>4, <2>3, <2>4, <3>1 DEF IsWritten
        <3>3. Done(p)' = at.rule
            BY <1>1, <2>4 DEF Done
        <3> QED
            BY <1>1, <2>3, <3>2, <3>3
    <2> QED
        BY <1>5, <1>11, <2>1, <2>2, <2>5
<1>13. \A p, q \in Wanted(files)' : Before(p, q) =>
            \A i \in of(p)', j \in of(q)' : i < j
    <2> SUFFICES ASSUME NEW p \in Wanted(files), NEW q \in Wanted(files),
                        Before(p, q), NEW i \in of(p)', NEW j \in of(q)'
                 PROVE  i < j
        BY <1>11
    <2>1. p \in Triples /\ q \in Triples
        BY <1>9, WantedIds
    <2>2. p # q
        BY <2>1, BeforeOrder
    <2>3. CASE p = Here
        <3>1. Done(q) = 0
            BY <2>3, DoneIs DEF IInv
        <3>2. of(q) = {}
            BY <1>2, <1>9, <3>1, ValuesFinite
        <3> QED
            BY <1>10, <2>2, <2>3, <3>2
    <2>4. CASE p # Here
        <3>1. i \in of(p) /\ i \in 1..n
            BY <1>10, <2>4
        <3>2. j \in of(q) \/ j = n + 1
            <4>1. of(q)' = {k \in RuleValues' : registry'[k].data.id
                                                = RuleAt(files, q).id}
                BY <1>1 DEF ValuesOf
            <4> QED
                BY <1>3, <1>5, <1>7, <4>1 DEF ValuesOf
        <3>3. CASE j \in of(q)
            BY <1>2, <3>1, <3>3
        <3>4. CASE j = n + 1
            BY <1>1, <3>1, <3>4
        <3> QED
            BY <3>2, <3>3, <3>4
    <2> QED
        BY <2>3, <2>4
<1>14. \A p \in Wanted(files)' : Cardinality(of(p)') = Done(p)'
    <2> SUFFICES ASSUME NEW p \in Wanted(files)
                 PROVE  Cardinality(of(p)') = Done(p)'
        BY <1>11
    <2>1. CASE p = Here
        <3>1. IsFiniteSet(of(Here)) /\ n + 1 \notin of(Here)
            BY <1>1, <1>9, <1>10, ValuesFinite
        <3>2. Cardinality(of(Here) \cup {n + 1}) = Cardinality(of(Here)) + 1
            BY <3>1, FS_AddElement
        <3>3. of(p)' = of(Here) \cup {n + 1}
            BY <1>1, <1>10, <2>1
        <3>4. Cardinality(of(Here)) = at.rule - 1 /\ Done(p)' = at.rule
            BY <1>1, <1>2, <2>1
        <3> HIDE DEF of
        <3> QED
            BY <1>1, <3>2, <3>3, <3>4
    <2>2. CASE p # Here
        BY <1>1, <1>2, <1>10, <2>2
    <2> QED
        BY <2>1, <2>2
<1>15. \A i \in of(Here)' : registry'[i].name[4] < item'
    <2> SUFFICES ASSUME NEW i \in of(Here)'
                 PROVE  registry'[i].name[4] < item'
        OBVIOUS
    <2>1. CASE i = n + 1
        BY <1>1, <1>3, <1>4, <2>1
    <2>2. CASE i # n + 1
        <3>1. i \in of(Here) /\ i \in 1..n
            BY <1>1, <1>10, <2>2
        <3>2. registry[i] \in Values /\ registry[i].name[1] = "rule"
            BY <1>9, <3>1, ElementOfSeq DEF n, ValuesOf, RuleValues
        <3>3. registry[i].name[4] \in Nat
            BY <3>2 DEF Values
        <3>4. registry[i].name[4] < item /\ registry'[i] = registry[i]
            BY <1>2, <1>3, <3>1
        <3> QED
            BY <1>1, <3>3, <3>4
    <2> QED
        BY <2>1, <2>2
<1> QED
    BY <1>12, <1>13, <1>14, <1>15 DEF FreshInv

-----------------------------------------------------------------------------
(* The other steps.                                                        *)

\* Storing a value takes no name away.
LEMMA StoredNames ==
    ASSUME NEW reg \in Seq(Values), NEW name, NEW data,
           [name |-> name, data |-> data] \in Values
    PROVE  LET new == Stored(reg, name, data)
           IN  /\ \E k \in DOMAIN new : new[k].name = name
               /\ \A i \in DOMAIN reg :
                    i \in DOMAIN new /\ new[i].name = reg[i].name
<1> DEFINE new == Stored(reg, name, data)
           value == [name |-> name, data |-> data]
           n == Len(reg)
<1>1. /\ n \in Nat /\ DOMAIN reg = 1..n
      /\ \A i \in 1..n : new[i] = IF reg[i].name = name THEN value ELSE reg[i]
      /\ (\E i \in 1..n : reg[i].name = name) => DOMAIN new = 1..n
      /\ (\A i \in 1..n : reg[i].name # name) =>
            DOMAIN new = 1..(n + 1) /\ new[n + 1] = value
    BY StoredIs
<1>2. value.name = name
    OBVIOUS
<1> HIDE DEF new, value, n
<1>3. CASE \A i \in 1..n : reg[i].name # name
    <2>1. n + 1 \in 1..(n + 1) /\ 1..n \subseteq 1..(n + 1)
        BY <1>1
    <2> QED
        BY <1>1, <1>2, <1>3, <2>1 DEF new
<1>4. CASE \E i \in 1..n : reg[i].name = name
    BY <1>1, <1>2, <1>4 DEF new
<1> QED
    BY <1>3, <1>4

\* The agent is off, or about to be, or somewhere in its files.
LEMMA QuietStep ==
    ASSUME IInv, WriterInv,
           UNCHANGED <<registry, files, Conf, ids, at, item, actions, runs>>,
           \/ agent' = agent
           \/ agent' = "off"
           \/ agent = "files" /\ at.file > Len(files) /\ agent' = "ready"
    PROVE  WriterInv'
<1> USE DEF WriterInv
<1>1. PlaceInv'
    <2>1. agent' = "ready" =>
            at.file = Len(files) + 1 /\ agent \in {"files", "ready"}
        <3>1. Len(files) \in Nat
            <4>1. CASE files = <<>>
                BY <4>1
            <4>2. CASE files \in Configs
                BY <4>2, ConfigAssumption DEF IsConfig
            <4> QED
                BY <4>1, <4>2 DEF IInv, TypeOK
        <3> QED
            BY <3>1 DEF PlaceInv, IInv, TypeOK
    <2>2. runs' = 0 => agent' = "off" /\ registry' = <<>>
        BY DEF PlaceInv
    <2> QED
        BY <2>1, <2>2 DEF PlaceInv
<1>2. Here' = Here /\ SameConditions
    BY DEF Here, SameConditions, RuleValues
<1>3. InsideInv' /\ IdsInv'
    BY <1>2 DEF InsideInv, IdsInv
<1>4. ActionsInv'
    BY DEF ActionsInv, InLists
<1>5. FlagsInv'
    BY DEF FlagsInv
<1>6. WrittenInv' /\ FreshInv'
    <2>1. \A p \in Wanted(files) : Done(p)' = Done(p)
        BY <1>2 DEF Done
    <2> QED
        BY <1>2, <2>1, SameProgress DEF IInv
<1> QED
    BY <1>1, <1>3, <1>4, <1>5, <1>6

\* A start of the agent.
LEMMA StartStep ==
    ASSUME IInv, WriterInv, NEW fs \in Configs, StartAgent(fs)
    PROVE  WriterInv'
<1> USE DEF WriterInv
<1>1. /\ agent' = "files" /\ files' = fs /\ ids' = {} /\ registry' = registry
      /\ at' = Start /\ runs' = runs + 1 /\ Conf' = Nothing
      /\ Here' = <<1, 1, 1>> /\ at'.rule = 0
    BY DEF StartAgent, Start, Here
<1>2. Len(fs) \in Nat /\ runs \in Nat
    BY ConfigAssumption DEF IsConfig, IInv, TypeOK
<1>3. \A p \in RulesOf(fs) : ~Before(p, <<1, 1, 1>>)
    <2> SUFFICES ASSUME NEW p \in RulesOf(fs)
                 PROVE  ~Before(p, <<1, 1, 1>>)
        OBVIOUS
    <2>1. /\ p \in Triples /\ p[1] \in 1..Len(fs) /\ p[2] \in 1..Len(ListOrder)
          /\ p[3] \in 1..Len(ListAt(fs, p[1], ListOrder[p[2]]))
        BY RulesOfPlaces
    <2>2. /\ p[1] \in Nat /\ p[2] \in Nat /\ p[3] \in Nat
          /\ p[1] >= 1 /\ p[2] >= 1 /\ p[3] >= 1
        BY <2>1 DEF Triples
    <2> QED
        BY <2>2 DEF Before
<1>4. PlaceInv'
    <2>1. \A l \in Lists : Nothing.lists[l] = ListAt(fs, 0, l)
        BY ListAtNext DEF Nothing
    <2> QED
        BY <1>1, <1>2, <2>1 DEF PlaceInv, Start
<1>5. InsideInv' /\ ActionsInv'
    BY <1>1 DEF InsideInv, ActionsInv, InLists
<1>6. IdsInv'
    BY <1>1, <1>3 DEF IdsInv
<1>7. FlagsInv'
    BY <1>1 DEF FlagsInv, Nothing
<1>8. \A p \in Wanted(fs) : Done(p)' = 0
    BY <1>1, <1>3 DEF Done, Wanted
<1>9. WrittenInv'
    BY <1>1, <1>8 DEF WrittenInv
<1>10. FreshInv'
    <2> SUFFICES ASSUME runs' = 1
                 PROVE  FreshInv'
        BY DEF FreshInv
    <2>1. registry' = <<>>
        BY <1>1, <1>2 DEF PlaceInv
    <2>2. RuleValues' = {}
        BY <2>1 DEF RuleValues
    <2>3. \A p : ValuesOf(RuleAt(files, p).id)' = {}
        BY <2>2 DEF ValuesOf
    <2>4. Cardinality({}) = 0
        BY FS_EmptySet
    <2>5. \A p \in Wanted(files)' :
                Cardinality(ValuesOf(RuleAt(files, p).id)') = Done(p)'
        BY <1>1, <1>8, <2>3, <2>4
    <2>6. at'.rule = 0
        BY <1>1
    <2> QED
        BY <2>2, <2>3, <2>5, <2>6 DEF FreshInv
<1> QED
    BY <1>4, <1>5, <1>6, <1>7, <1>9, <1>10

\* The next file is read.
LEMMA NextFileStep ==
    ASSUME IInv, WriterInv, NextFile
    PROVE  WriterInv'
<1> USE DEF WriterInv
<1>1. /\ agent = "files" /\ at.file <= Len(files) /\ agent' = "settings"
      /\ Conf' = Merged(Conf, files[at.file])
      /\ at' = [Start EXCEPT !.file = at.file]
      /\ UNCHANGED <<registry, files, ids, item, actions, runs>>
    BY DEF NextFile
<1>2. /\ at'.file = at.file /\ at'.flag = 1 /\ at'.list = 1 /\ at'.entry = 1
      /\ at'.rule = 0
    BY <1>1 DEF Start
<1>3. /\ at.list = 1 /\ at.entry = 1 /\ at.rule = 0
      /\ at.file \in Nat \ {0}
      /\ \A l \in Lists : Conf.lists[l] = ListAt(files, at.file - 1, l)
    BY <1>1 DEF PlaceInv, IInv, TypeOK
<1>4. Here' = Here /\ at'.rule = at.rule /\ SameConditions
    BY <1>1, <1>2, <1>3 DEF Here, SameConditions, RuleValues
<1>5. PlaceInv'
    <2>1. ASSUME NEW l \in Lists
          PROVE  Conf'.lists[l] = ListAt(files, at.file, l)
        <3> DEFINE f == at.file - 1
        <3>1. f \in Nat /\ f + 1 = at.file
            BY <1>3
        <3>2. /\ l \in DOMAIN files[f + 1].lists =>
                    ListAt(files, f + 1, l) = files[f + 1].lists[l]
              /\ l \notin DOMAIN files[f + 1].lists =>
                    ListAt(files, f + 1, l) = ListAt(files, f, l)
            BY <3>1, ListAtNext
        <3>3. Conf'.lists[l] = IF l \in DOMAIN files[at.file].lists
                               THEN files[at.file].lists[l] ELSE Conf.lists[l]
            BY <1>1 DEF Merged
        <3> HIDE DEF f
        <3>4. Conf.lists[l] = ListAt(files, f, l)
            BY <1>3 DEF f
        <3> QED
            BY <3>1, <3>2, <3>3, <3>4
    <2>2. runs' # 0
        BY <1>1 DEF PlaceInv
    <2> QED
        BY <1>1, <1>2, <2>1, <2>2 DEF PlaceInv
<1>6. InsideInv' /\ ActionsInv' /\ IdsInv'
    BY <1>1, <1>2, <1>3, <1>4 DEF InsideInv, ActionsInv, InLists, IdsInv
<1>7. FlagsInv'
    BY <1>1, <1>2 DEF FlagsInv
<1>8. WrittenInv' /\ FreshInv'
    <2>1. \A p \in Wanted(files) : Done(p)' = Done(p)
        BY <1>1, <1>4 DEF Done
    <2> QED
        BY <1>1, <1>2, <1>4, <2>1, SameProgress DEF IInv
<1> QED
    BY <1>5, <1>6, <1>7, <1>8

\* A flag goes to a value of its own.
LEMMA WriteFlagStep ==
    ASSUME IInv, WriterInv, WriteFlag
    PROVE  WriterInv'
<1> USE DEF WriterInv
<1> DEFINE f == FlagOrder[at.flag]
<1>1. /\ agent = "settings" /\ at.flag <= Len(FlagOrder)
      /\ registry' = IF f \in Conf.on THEN Stored(registry, FlagName(f), TRUE)
                     ELSE registry
      /\ at' = [at EXCEPT !.flag = @ + 1]
      /\ UNCHANGED <<agent, files, Conf, ids, item, actions, runs>>
    BY DEF WriteFlag
<1>2. /\ at \in Places /\ registry \in Seq(Values)
      /\ at.flag \in Nat \ {0}
    BY DEF IInv, TypeOK, Places
<1>3. /\ at'.file = at.file /\ at'.list = at.list /\ at'.entry = at.entry
      /\ at'.rule = at.rule /\ at'.flag = at.flag + 1
    BY <1>1, <1>2 DEF Places
<1>4. Here' = Here
    BY <1>3 DEF Here
<1>5. f \in Flags
    <2>1. at.flag \in 1..Len(FlagOrder)
        BY <1>1, <1>2, ConfigAssumption
    <2> QED
        BY <2>1, ElementOfSeq, ConfigAssumption
<1>6. [name |-> FlagName(f), data |-> TRUE] \in Values
    BY <1>5, FlagValue
<1>7. /\ \A i \in DOMAIN registry :
            i \in DOMAIN registry' /\ registry'[i].name = registry[i].name
      /\ f \in Conf.on =>
            \E k \in DOMAIN registry' : registry'[k].name = FlagName(f)
    <2>1. CASE f \notin Conf.on
        BY <1>1, <2>1
    <2>2. CASE f \in Conf.on
        <3> DEFINE name == FlagName(f)
                   data == TRUE
        <3>1. registry' = Stored(registry, name, data)
                /\ [name |-> name, data |-> data] \in Values
            BY <1>1, <1>6, <2>2
        <3> HIDE DEF name, data
        <3>2. /\ \E k \in DOMAIN registry' : registry'[k].name = name
              /\ \A i \in DOMAIN registry :
                    /\ i \in DOMAIN registry'
                    /\ registry'[i].name = registry[i].name
            BY <1>2, <3>1, StoredNames
        <3> QED
            BY <3>2 DEF name
    <2> QED
        BY <2>1, <2>2
<1>8. SameConditions
    <2>1. CASE f \notin Conf.on
        BY <1>1, <2>1 DEF SameConditions, RuleValues
    <2>2. CASE f \in Conf.on
        <3> DEFINE n == Len(registry)
                   name == FlagName(f)
                   data == TRUE
                   value == [name |-> name, data |-> data]
        <3>1. registry' = Stored(registry, name, data) /\ value \in Values
            BY <1>1, <1>6, <2>2
        <3>2. value.name = name /\ name[1] = "flag" /\ "flag" # "rule"
            BY DEF FlagName
        <3> HIDE DEF name, data
        <3>3. /\ n \in Nat /\ DOMAIN registry = 1..n
              /\ \A i \in 1..n : registry'[i] =
                    IF registry[i].name = name THEN value ELSE registry[i]
              /\ (\E i \in 1..n : registry[i].name = name)
                    => DOMAIN registry' = 1..n
              /\ (\A i \in 1..n : registry[i].name # name) =>
                    DOMAIN registry' = 1..(n + 1) /\ registry'[n + 1] = value
            BY <1>2, <3>1, StoredIs
        <3> HIDE DEF n, value
        <3>4. \A i \in 1..n : /\ registry'[i].name = registry[i].name
                              /\ registry[i].name[1] = "rule"
                                    => registry'[i] = registry[i]
            BY <3>2, <3>3
        <3>5. RuleValues' = RuleValues
            <4>1. CASE \E i \in 1..n : registry[i].name = name
                BY <3>3, <3>4, <4>1 DEF RuleValues
            <4>2. CASE \A i \in 1..n : registry[i].name # name
                <5>1. 1..(n + 1) = 1..n \cup {n + 1}
                    BY <3>3
                <5> QED
                    BY <3>2, <3>3, <3>4, <4>2, <5>1 DEF RuleValues
            <4> QED
                BY <4>1, <4>2
        <3> QED
            BY <1>1, <3>3, <3>4, <3>5 DEF SameConditions, RuleValues
    <2> QED
        BY <2>1, <2>2
<1>9. PlaceInv' /\ InsideInv' /\ IdsInv' /\ ActionsInv'
    <2>1. PlaceInv'
        BY <1>1, <1>3 DEF PlaceInv
    <2> QED
        BY <1>1, <1>3, <1>4, <2>1 DEF InsideInv, IdsInv, ActionsInv, InLists
<1>10. FlagsInv'
    <2> SUFFICES ASSUME NEW n \in 1..at.flag, FlagOrder[n] \in Conf.on
                 PROVE  \E i \in DOMAIN registry' :
                            registry'[i].name = FlagName(FlagOrder[n])
        <3>1. at'.flag - 1 = at.flag /\ agent' = "settings" /\ Conf' = Conf
            BY <1>1, <1>2, <1>3
        <3> HIDE DEF f
        <3> QED
            BY <3>1 DEF FlagsInv
    <2>1. CASE n = at.flag
        BY <1>7, <2>1
    <2>2. CASE n # at.flag
        <3>1. n \in 1..(at.flag - 1)
            BY <1>2, <2>2
        <3>2. \E i \in DOMAIN registry :
                registry[i].name = FlagName(FlagOrder[n])
            BY <1>1, <3>1 DEF FlagsInv
        <3> HIDE DEF f
        <3> QED
            BY <1>7, <3>2
    <2> QED
        BY <2>1, <2>2
<1>11. WrittenInv' /\ FreshInv'
    <2>1. \A p \in Wanted(files) : Done(p)' = Done(p)
        BY <1>1, <1>3, <1>4 DEF Done
    <2>2. at.rule = 0
        BY <1>1 DEF PlaceInv
    <2> QED
        BY <1>1, <1>3, <1>8, <2>1, <2>2, SameProgress DEF IInv
<1> QED
    BY <1>9, <1>10, <1>11

\* The flags are all written.
LEMMA EndFlagsStep ==
    ASSUME IInv, WriterInv, EndFlags
    PROVE  WriterInv'
<1> USE DEF WriterInv
<1>1. /\ agent = "settings" /\ at.flag > Len(FlagOrder) /\ agent' = "lists"
      /\ actions' = {} /\ UNCHANGED <<registry, files, Conf, ids, at, runs>>
    BY DEF EndFlags
<1>2. at.list = 1 /\ at.entry = 1 /\ at.rule = 0
    BY <1>1 DEF PlaceInv
<1>3. Here' = Here /\ SameConditions
    BY <1>1 DEF Here, SameConditions, RuleValues
<1>4. PlaceInv' /\ InsideInv' /\ IdsInv'
    BY <1>1, <1>3 DEF PlaceInv, InsideInv, IdsInv
<1>5. ActionsInv'
    <2>1. ActionOf(files, <<at.file, at.list, 0>>) = {}
        BY ActionOfNone
    <2> QED
        BY <1>1, <1>2, <2>1 DEF ActionsInv
<1>6. FlagsInv'
    <2> SUFFICES ASSUME NEW f \in Conf.on
                 PROVE  \E i \in DOMAIN registry :
                            registry[i].name = FlagName(f)
        BY <1>1 DEF FlagsInv
    <2>1. PICK n \in DOMAIN FlagOrder : FlagOrder[n] = f
        BY ConfigAssumption DEF IInv, TypeOK
    <2>2. n \in 1..(at.flag - 1)
        <3>1. DOMAIN FlagOrder = 1..Len(FlagOrder) /\ Len(FlagOrder) \in Nat
            BY ConfigAssumption, LenProperties
        <3> QED
            BY <1>1, <3>1 DEF IInv, TypeOK
    <2> QED
        BY <1>1, <2>1, <2>2 DEF FlagsInv
<1>7. WrittenInv' /\ FreshInv'
    <2>1. \A p \in Wanted(files) : Done(p)' = Done(p)
        BY <1>1, <1>3 DEF Done
    <2> QED
        BY <1>1, <1>2, <1>3, <2>1, SameProgress DEF IInv
<1> QED
    BY <1>4, <1>5, <1>6, <1>7

\* The place after a rule.
LEMMA BeforeNext ==
    ASSUME NEW q \in Triples, NEW f \in Nat, NEW k \in Nat, NEW e \in Nat
    PROVE  Before(q, <<f, k, e + 1>>)
                <=> Before(q, <<f, k, e>>) \/ q = <<f, k, e>>
<1>1. /\ q[1] \in Nat /\ q[2] \in Nat /\ q[3] \in Nat
      /\ q = <<q[1], q[2], q[3]>>
    BY DEF Triples
<1> QED
    BY <1>1 DEF Before

\* A rule the agent is at and not in is wanted if its id was not seen.
LEMMA HereWanted ==
    ASSUME TypeOK, PlaceInv, IdsInv, AtEntry
    PROVE  /\ Here \in RulesOf(files) /\ Entry = RuleAt(files, Here)
           /\ Here \in Wanted(files) <=> Entry.id \notin ids
           /\ FirstUse(files, Here) <=> Here \in Wanted(files)
<1>1. InLists /\ at.rule = 0 /\ at.entry <= Len(Conf.lists[List])
    BY DEF AtEntry
<1>2. Here \in RulesOf(files) /\ Entry = RuleAt(files, Here)
    BY <1>1, HereIs
<1>3. ids = {RuleAt(files, q).id :
                q \in {o \in RulesOf(files) : Before(o, Here)}}
    BY <1>1 DEF IdsInv
<1>4. Here \in Wanted(files) <=> Entry.id \notin ids
    BY <1>2, <1>3, FirstUseIs DEF TypeOK
<1> QED
    BY <1>2, <1>4 DEF Wanted

\* Steps of processList leave the rest as it is.
LEMMA ListStep ==
    ASSUME IInv, WriterInv, InLists,
           UNCHANGED <<registry, agent, files, Conf, runs>>,
           at'.file = at.file
    PROVE  /\ PlaceInv' /\ FlagsInv' /\ SameConditions
           /\ Wanted(files)' = Wanted(files)
           /\ (\A p \in Wanted(files) : Done(p)' = Done(p)) /\ at'.rule = 0
                => WrittenInv' /\ FreshInv'
<1> USE DEF WriterInv
<1>1. PlaceInv' /\ FlagsInv'
    BY DEF PlaceInv, FlagsInv, InLists
<1>2. SameConditions
    BY DEF SameConditions, RuleValues
<1>3. ASSUME \A p \in Wanted(files) : Done(p)' = Done(p), at'.rule = 0
      PROVE  WrittenInv' /\ FreshInv'
    BY <1>2, <1>3, SameProgress DEF IInv
<1> QED
    BY <1>1, <1>2, <1>3

\* A rule with an id that was used is passed.
LEMMA SkipStep ==
    ASSUME IInv, WriterInv, SkipEntry
    PROVE  WriterInv'
<1> USE DEF WriterInv
<1>1. /\ AtEntry /\ InLists /\ at.rule = 0 /\ Entry.id \in ids
      /\ at' = [at EXCEPT !.entry = @ + 1]
      /\ UNCHANGED <<registry, agent, files, Conf, ids, item, actions, runs>>
    BY DEF SkipEntry, AtEntry
<1>2. /\ at \in Places /\ at.file \in Nat /\ at.list \in Nat
      /\ at.entry \in Nat \ {0}
    BY DEF IInv, TypeOK, Places
<1>3. /\ at'.file = at.file /\ at'.list = at.list
      /\ at'.entry = at.entry + 1 /\ at'.rule = 0
    BY <1>1, <1>2 DEF Places
<1>4. /\ Here = <<at.file, at.list, at.entry>>
      /\ Here' = <<at.file, at.list, at.entry + 1>>
    BY <1>3 DEF Here
<1>5. /\ Here \in RulesOf(files) /\ Entry = RuleAt(files, Here)
      /\ Here \notin Wanted(files) /\ ~FirstUse(files, Here)
    BY <1>1, HereWanted DEF IInv
<1>6. \A q \in RulesOf(files) :
            q \in Triples /\ (Before(q, Here') <=> Before(q, Here) \/ q = Here)
    <2>1. files \in Configs \cup {<<>>}
        BY DEF IInv, TypeOK
    <2>2. \A q \in RulesOf(files) : q \in Triples
        BY <2>1, RulesOfPlaces
    <2>3. \A q \in Triples : Before(q, <<at.file, at.list, at.entry + 1>>)
                <=> Before(q, <<at.file, at.list, at.entry>>)
                    \/ q = <<at.file, at.list, at.entry>>
        BY <1>2, BeforeNext
    <2> QED
        BY <1>4, <2>2, <2>3
<1>7. InsideInv'
    BY <1>3 DEF InsideInv
<1>8. IdsInv'
    <2>1. ids = {RuleAt(files, q).id :
                    q \in {o \in RulesOf(files) : Before(o, Here)}}
        BY <1>1 DEF IdsInv
    <2>2. ids = {RuleAt(files, q).id :
                    q \in {o \in RulesOf(files) : Before(o, Here')}}
        BY <1>1, <1>5, <1>6, <2>1
    <2> QED
        BY <1>1, <1>3, <2>2 DEF IdsInv
<1>9. ActionsInv'
    <2> DEFINE e == at.entry - 1
    <2>1. e \in Nat /\ at.entry = e + 1
        BY <1>2
    <2>2. actions = ActionOf(files, <<at.file, at.list, e>>)
        BY <1>1 DEF ActionsInv
    <2>3. ActionOf(files, Here) = ActionOf(files, <<at.file, at.list, e>>)
        <3> HIDE DEF e
        <3> QED
            <4> DEFINE p == <<at.file, at.list, e + 1>>
            <4>1. p = Here
                BY <1>4, <2>1
            <4>2. IF FirstUse(files, p) /\ RuleAt(files, p).action # {}
                  THEN ActionOf(files, p) = RuleAt(files, p).action
                  ELSE ActionOf(files, p)
                        = ActionOf(files, <<at.file, at.list, e>>)
                BY <2>1, ActionOfNext
            <4> HIDE DEF p
            <4> QED
                BY <1>5, <4>1, <4>2
    <2>4. at'.entry - 1 = at.entry
        BY <1>2, <1>3
    <2> QED
        BY <1>1, <1>3, <1>4, <2>2, <2>3, <2>4 DEF ActionsInv
<1>10. \A p \in Wanted(files) : Done(p)' = Done(p)
    BY <1>1, <1>3, <1>5, <1>6, WantedIds DEF Done, IInv, TypeOK
<1> QED
    BY <1>1, <1>3, <1>7, <1>8, <1>9, <1>10, ListStep

\* A rule with a new id is begun.
LEMMA BeginStep ==
    ASSUME IInv, WriterInv, BeginEntry
    PROVE  WriterInv'
<1> USE DEF WriterInv
<1>1. /\ AtEntry /\ InLists /\ at.rule = 0 /\ Entry.id \notin ids
      /\ ids' = ids \cup {Entry.id}
      /\ actions' = IF Entry.action = {} THEN actions ELSE Entry.action
      /\ at' = [at EXCEPT !.rule = 1]
      /\ UNCHANGED <<registry, agent, files, Conf, item, runs>>
    BY DEF BeginEntry, AtEntry
<1>2. /\ at \in Places /\ at.entry \in Nat \ {0}
      /\ files \in Configs \cup {<<>>}
    BY DEF IInv, TypeOK, Places
<1>3. /\ at'.file = at.file /\ at'.list = at.list /\ at'.entry = at.entry
      /\ at'.rule = 1 /\ Here' = Here /\ Here = <<at.file, at.list, at.entry>>
    BY <1>1, <1>2 DEF Places, Here
<1>4. /\ Here \in RulesOf(files) /\ Entry = RuleAt(files, Here)
      /\ Here \in Wanted(files) /\ FirstUse(files, Here)
    BY <1>1, HereWanted DEF IInv
<1>5. /\ Len(RuleAt(files, Here).rules) \in Nat /\ Here \in Triples
      /\ ~Before(Here, Here)
    BY <1>2, <1>4, WantedIds, BeforeOrder
<1>6. InsideInv'
    <2>1. 1 <= Len(RuleAt(files, Here).rules) + 1
        BY <1>5
    <2> QED
        BY <1>1, <1>3, <1>4, <2>1 DEF InsideInv
<1>7. IdsInv'
    <2>1. ids = {RuleAt(files, q).id :
                    q \in {o \in RulesOf(files) : Before(o, Here)}}
        BY <1>1 DEF IdsInv
    <2>2. ids' = {RuleAt(files, q).id :
                    q \in {o \in RulesOf(files) : Before(o, Here) \/ o = Here}}
        BY <1>1, <1>4, <2>1
    <2> QED
        BY <1>1, <1>3, <2>2 DEF IdsInv
<1>8. ActionsInv'
    <2> DEFINE e == at.entry - 1
    <2>1. e \in Nat /\ at.entry = e + 1
        BY <1>2
    <2>2. actions = ActionOf(files, <<at.file, at.list, e>>)
        BY <1>1 DEF ActionsInv
    <2>3. actions' = ActionOf(files, Here)
        <3> HIDE DEF e
        <3> QED
            <4> DEFINE p == <<at.file, at.list, e + 1>>
            <4>1. p = Here
                BY <1>3, <2>1
            <4>2. IF FirstUse(files, p) /\ RuleAt(files, p).action # {}
                  THEN ActionOf(files, p) = RuleAt(files, p).action
                  ELSE ActionOf(files, p)
                        = ActionOf(files, <<at.file, at.list, e>>)
                BY <2>1, ActionOfNext
            <4> HIDE DEF p
            <4> QED
                BY <1>1, <1>4, <2>2, <4>1, <4>2
    <2> QED
        BY <1>1, <1>3, <2>3 DEF ActionsInv
<1>9. \A p \in Wanted(files) : Done(p)' = Done(p)
    BY <1>1, <1>3 DEF Done
<1>10. PlaceInv' /\ FlagsInv' /\ SameConditions
    BY <1>1, <1>3, ListStep
<1>11. WrittenInv' /\ FreshInv'
    <2>1. Done(Here) = 0
        BY <1>1, <1>5 DEF Done
    <2> QED
        BY <1>1, <1>3, <1>4, <1>9, <1>10, <2>1, SameProgress DEF IInv
<1> QED
    BY <1>6, <1>7, <1>8, <1>10, <1>11

\* A condition is written.
LEMMA WriteStep ==
    ASSUME IInv, WriterInv, WriteCondition
    PROVE  WriterInv'
<1> USE DEF WriterInv
<1>1. /\ InLists /\ at.rule # 0 /\ at.rule <= Len(Entry.rules)
      /\ at' = [at EXCEPT !.rule = @ + 1]
      /\ UNCHANGED <<agent, files, Conf, ids, actions, runs>>
    BY DEF WriteCondition, AtCondition
<1>2. at \in Places /\ at.rule \in Nat
    BY DEF IInv, TypeOK, Places
<1>3. /\ at'.file = at.file /\ at'.list = at.list /\ at'.entry = at.entry
      /\ at'.rule = at.rule + 1 /\ at'.rule # 0 /\ Here' = Here
    BY <1>1, <1>2 DEF Places, Here
<1>4. PlaceInv'
    BY <1>1, <1>3 DEF PlaceInv, InLists
<1>5. InsideInv'
    <2>1. Here \in Wanted(files) /\ Entry = RuleAt(files, Here)
        BY <1>1, HereIs DEF InsideInv, IInv
    <2>2. Len(RuleAt(files, Here).rules) \in Nat
        BY <2>1, WantedIds DEF IInv, TypeOK
    <2> QED
        BY <1>1, <1>2, <1>3, <2>1, <2>2 DEF InsideInv
<1>6. IdsInv' /\ ActionsInv'
    BY <1>1, <1>3 DEF IdsInv, ActionsInv, InLists
<1>7. FlagsInv'
    <2> DEFINE name == RuleName(List, Entry.id, item)
               data == [id |-> Entry.id, cond |-> Entry.rules[at.rule],
                        actions |-> actions]
    <2>1. registry' = Stored(registry, name, data)
        BY DEF WriteCondition
    <2>2. [name |-> name, data |-> data] \in Values /\ registry \in Seq(Values)
        BY ConditionValue DEF WriteCondition, IInv, TypeOK
    <2> HIDE DEF name, data
    <2>3. \A i \in DOMAIN registry :
            i \in DOMAIN registry' /\ registry'[i].name = registry[i].name
        BY <2>1, <2>2, StoredNames
    <2>4. agent' = "lists" /\ agent = "lists"
        BY <1>1 DEF InLists
    <2> QED
        BY <1>1, <2>3, <2>4 DEF FlagsInv
<1> QED
    BY <1>4, <1>5, <1>6, <1>7, WriteWritten, WriteFresh

\* A rule is left when all its conditions are written.
LEMMA EndEntryStep ==
    ASSUME IInv, WriterInv, EndEntry
    PROVE  WriterInv'
<1> USE DEF WriterInv
<1>1. /\ InLists /\ at.rule # 0 /\ at.rule > Len(Entry.rules)
      /\ at' = [at EXCEPT !.rule = 0, !.entry = @ + 1]
      /\ UNCHANGED <<registry, agent, files, Conf, ids, item, actions, runs>>
    BY DEF EndEntry
<1>2. /\ at \in Places /\ at.file \in Nat /\ at.list \in Nat
      /\ at.entry \in Nat /\ at.rule \in Nat
    BY DEF IInv, TypeOK, Places
<1>3. /\ at'.file = at.file /\ at'.list = at.list
      /\ at'.entry = at.entry + 1 /\ at'.rule = 0
    BY <1>1, <1>2 DEF Places
<1>4. /\ Here = <<at.file, at.list, at.entry>>
      /\ Here' = <<at.file, at.list, at.entry + 1>>
    BY <1>3 DEF Here
<1>5. /\ Here \in Wanted(files) /\ Entry = RuleAt(files, Here)
      /\ at.rule <= Len(RuleAt(files, Here).rules) + 1
    BY <1>1, HereIs DEF InsideInv, IInv
<1>6. at.rule - 1 = Len(RuleAt(files, Here).rules)
    <2>1. Len(RuleAt(files, Here).rules) \in Nat
        BY <1>5, WantedIds DEF IInv, TypeOK
    <2> QED
        BY <1>1, <1>2, <1>5, <2>1
<1>7. \A q \in RulesOf(files) :
            q \in Triples /\ (Before(q, Here') <=> Before(q, Here) \/ q = Here)
    <2>1. files \in Configs \cup {<<>>}
        BY DEF IInv, TypeOK
    <2>2. \A q \in RulesOf(files) : q \in Triples
        BY <2>1, RulesOfPlaces
    <2>3. \A q \in Triples : Before(q, <<at.file, at.list, at.entry + 1>>)
                <=> Before(q, <<at.file, at.list, at.entry>>)
                    \/ q = <<at.file, at.list, at.entry>>
        BY <1>2, BeforeNext
    <2> QED
        BY <1>4, <2>2, <2>3
<1>8. InsideInv'
    BY <1>3 DEF InsideInv
<1>9. IdsInv'
    BY <1>1, <1>3, <1>7 DEF IdsInv
<1>10. ActionsInv'
    <2>1. at'.entry - 1 = at.entry
        BY <1>2, <1>3
    <2> QED
        BY <1>1, <1>3, <2>1 DEF ActionsInv, InLists
<1>11. \A p \in Wanted(files) : Done(p)' = Done(p)
    <2> SUFFICES ASSUME NEW p \in Wanted(files)
                 PROVE  Done(p)' = Done(p)
        OBVIOUS
    <2>1. Before(p, Here') <=> Before(p, Here) \/ p = Here
        BY <1>7 DEF Wanted
    <2> QED
        BY <1>1, <1>3, <1>6, <2>1 DEF Done
<1> QED
    BY <1>1, <1>3, <1>8, <1>9, <1>10, <1>11, ListStep

\* A list is left when its rules are.
LEMMA EndListStep ==
    ASSUME IInv, WriterInv, EndList
    PROVE  WriterInv'
<1> USE DEF WriterInv
<1>1. /\ InLists /\ at.rule = 0 /\ at.entry > Len(Conf.lists[List])
      /\ at' = [at EXCEPT !.list = @ + 1, !.entry = 1] /\ actions' = {}
      /\ UNCHANGED <<registry, agent, files, Conf, ids, runs>>
    BY DEF EndList
<1>2. /\ at \in Places /\ at.file \in Nat /\ at.list \in Nat
      /\ at.entry \in Nat /\ files \in Configs \cup {<<>>}
    BY DEF IInv, TypeOK, Places
<1>3. /\ at'.file = at.file /\ at'.list = at.list + 1
      /\ at'.entry = 1 /\ at'.rule = 0
    BY <1>1, <1>2 DEF Places
<1>4. /\ Here[1] = at.file /\ Here[2] = at.list /\ Here[3] = at.entry
      /\ Here'[1] = at.file /\ Here'[2] = at.list + 1 /\ Here'[3] = 1
    BY <1>3 DEF Here
<1>5. \A q \in RulesOf(files) :
            q # Here /\ (Before(q, Here') <=> Before(q, Here))
    <2> SUFFICES ASSUME NEW q \in RulesOf(files)
                 PROVE  q # Here /\ (Before(q, Here') <=> Before(q, Here))
        OBVIOUS
    <2>1. /\ q \in Triples
          /\ ListAt(files, q[1], ListOrder[q[2]]) \in Seq(Rule)
          /\ q[3] \in 1..Len(ListAt(files, q[1], ListOrder[q[2]]))
        BY <1>2, RulesOfPlaces
    <2>2. q[1] \in Nat /\ q[2] \in Nat /\ q[3] \in Nat /\ q[3] >= 1
        BY <2>1 DEF Triples
    <2>3. ASSUME q[1] = at.file, q[2] = at.list
          PROVE  q[3] < at.entry
        <3>1. ListAt(files, q[1], ListOrder[q[2]]) = Conf.lists[List]
            BY <1>1, <2>3, HereIs DEF IInv
        <3>2. Len(Conf.lists[List]) \in Nat
            BY <2>1, <3>1, LenProperties
        <3> QED
            BY <1>1, <1>2, <2>1, <3>1, <3>2
    <2>4. q # Here
        BY <1>2, <1>4, <2>2, <2>3
    <2>5. Before(q, Here') <=> Before(q, Here)
        BY <1>2, <1>4, <2>2, <2>3 DEF Before
    <2> QED
        BY <2>4, <2>5
<1>6. InsideInv'
    BY <1>3 DEF InsideInv
<1>7. IdsInv'
    BY <1>1, <1>3, <1>5 DEF IdsInv
<1>8. ActionsInv'
    <2>1. ActionOf(files, <<at'.file, at'.list, 0>>) = {}
        BY ActionOfNone
    <2> QED
        BY <1>1, <1>3, <2>1 DEF ActionsInv
<1>9. \A p \in Wanted(files) : Done(p)' = Done(p)
    <2> SUFFICES ASSUME NEW p \in Wanted(files)
                 PROVE  Done(p)' = Done(p)
        OBVIOUS
    <2>1. Before(p, Here') <=> Before(p, Here)
        BY <1>5 DEF Wanted
    <2> QED
        BY <1>1, <1>3, <2>1 DEF Done
<1> QED
    BY <1>1, <1>3, <1>6, <1>7, <1>8, <1>9, ListStep

\* A file is left when its lists are.
LEMMA EndFileStep ==
    ASSUME IInv, WriterInv, EndFile
    PROVE  WriterInv'
<1> USE DEF WriterInv
<1>1. /\ agent = "lists" /\ at.list > Len(ListOrder) /\ agent' = "files"
      /\ at' = [Start EXCEPT !.file = at.file + 1]
      /\ UNCHANGED <<registry, files, Conf, ids, item, actions, runs>>
    BY DEF EndFile
<1>2. /\ at.file \in Nat /\ at.list \in Nat /\ at.entry \in Nat
      /\ files \in Configs \cup {<<>>} /\ Len(ListOrder) \in Nat
    BY ConfigAssumption, LenProperties DEF IInv, TypeOK
<1>3. /\ at'.file = at.file + 1 /\ at'.list = 1 /\ at'.entry = 1 /\ at'.rule = 0
    BY <1>1 DEF Start
<1>4. /\ Here[1] = at.file /\ Here[2] = at.list /\ Here[3] = at.entry
      /\ Here'[1] = at.file + 1 /\ Here'[2] = 1 /\ Here'[3] = 1
    BY <1>3 DEF Here
<1>5. \A q \in RulesOf(files) :
            q # Here /\ (Before(q, Here') <=> Before(q, Here))
    <2> SUFFICES ASSUME NEW q \in RulesOf(files)
                 PROVE  q # Here /\ (Before(q, Here') <=> Before(q, Here))
        OBVIOUS
    <2>1. /\ q \in Triples /\ q[2] \in 1..Len(ListOrder)
          /\ q[3] \in 1..Len(ListAt(files, q[1], ListOrder[q[2]]))
        BY <1>2, RulesOfPlaces
    <2>2. /\ q[1] \in Nat /\ q[2] \in Nat /\ q[3] \in Nat
          /\ q[3] >= 1 /\ q[2] >= 1 /\ q[2] < at.list
        BY <1>1, <1>2, <2>1 DEF Triples
    <2> QED
        BY <1>2, <1>4, <2>2 DEF Before
<1>6. at.rule = 0
    BY <1>5 DEF InsideInv, Wanted
<1>7. PlaceInv'
    <2>1. at'.file <= Len(files) + 1
        <3>1. Len(files) \in Nat
            <4>1. CASE files = <<>>
                BY <4>1
            <4>2. CASE files \in Configs
                BY <4>2, ConfigAssumption DEF IsConfig
            <4> QED
                BY <1>2, <4>1, <4>2
        <3> QED
            BY <1>1, <1>2, <1>3, <3>1 DEF PlaceInv
    <2>2. at'.file - 1 = at.file
        BY <1>2, <1>3
    <2>3. \A l \in Lists : Conf'.lists[l] = ListAt(files, at.file, l)
        BY <1>1 DEF PlaceInv
    <2>4. runs' # 0
        BY <1>1 DEF PlaceInv
    <2> QED
        BY <1>1, <1>3, <2>1, <2>2, <2>3, <2>4 DEF PlaceInv
<1>8. InsideInv' /\ ActionsInv' /\ FlagsInv'
    BY <1>1, <1>3 DEF InsideInv, ActionsInv, InLists, FlagsInv
<1>9. IdsInv'
    BY <1>1, <1>3, <1>5, <1>6 DEF IdsInv
<1>10. WrittenInv' /\ FreshInv'
    <2>1. \A p \in Wanted(files) : Before(p, Here') <=> Before(p, Here)
        BY <1>5 DEF Wanted
    <2>2. \A p \in Wanted(files) : Done(p)' = Done(p)
        BY <1>1, <1>3, <1>6, <2>1 DEF Done
    <2>3. SameConditions
        BY <1>1 DEF SameConditions, RuleValues
    <2> QED
        BY <1>1, <1>3, <2>2, <2>3, SameProgress DEF IInv
<1> QED
    BY <1>7, <1>8, <1>9, <1>10

\* Before anything runs.
LEMMA InitWriter == Init => WriterInv
<1> SUFFICES ASSUME Init
             PROVE  WriterInv
    OBVIOUS
<1>1. /\ registry = <<>> /\ agent = "off" /\ files = <<>> /\ ids = {}
      /\ at.rule = 0 /\ runs = 0
    BY DEF Init, Start
<1>2. RulesOf(files) = {} /\ Wanted(files) = {}
    BY <1>1 DEF RulesOf, Wanted
<1>3. PlaceInv /\ InsideInv /\ ActionsInv /\ FlagsInv
    BY <1>1 DEF PlaceInv, InsideInv, ActionsInv, InLists, FlagsInv
<1>4. IdsInv
    BY <1>1, <1>2 DEF IdsInv
<1>5. WrittenInv /\ FreshInv
    BY <1>1, <1>2 DEF WrittenInv, FreshInv
<1> QED
    BY <1>3, <1>4, <1>5 DEF WriterInv

\* Every step keeps it.
LEMMA WriterSteps == IInv /\ WriterInv /\ [Next]_vars => WriterInv'
<1> SUFFICES ASSUME IInv, WriterInv, [Next]_vars
             PROVE  WriterInv'
    OBVIOUS
<1>1. ASSUME NEW fs \in Configs, StartAgent(fs)
      PROVE  WriterInv'
    BY <1>1, StartStep
<1>2. CASE NextFile \/ WriteFlag \/ EndFlags \/ EndFile
    BY <1>2, NextFileStep, WriteFlagStep, EndFlagsStep, EndFileStep
<1>3. CASE SkipEntry \/ BeginEntry \/ WriteCondition \/ EndEntry \/ EndList
    BY <1>3, SkipStep, BeginStep, WriteStep, EndEntryStep, EndListStep
<1>4. CASE BadEntry \/ BadCondition \/ AgentDies \/ Reboot
    <2>1. /\ UNCHANGED <<registry, files, Conf, ids, at, item, actions, runs>>
          /\ agent' = "off"
        BY <1>4 DEF BadEntry, BadCondition, AgentDies, Fatal, Reboot
    <2> QED
        BY <2>1, QuietStep
<1>5. CASE EndFiles
    <2>1. /\ UNCHANGED <<registry, files, Conf, ids, at, item, actions, runs>>
          /\ agent = "files" /\ at.file > Len(files) /\ agent' = "ready"
        BY <1>5 DEF EndFiles
    <2> QED
        BY <2>1, QuietStep
<1>6. CASE LoadConfig \/ UNCHANGED vars
    <2>1. /\ UNCHANGED <<registry, files, Conf, ids, at, item, actions, runs>>
          /\ agent' = agent
        BY <1>6 DEF LoadConfig, LoadRound, LoadFlag, FlagLost, SizeQueryFails,
                ItemLost, BadData, LoadItem, EndOfValues, LoadFails, Reads
    <2> QED
        BY <2>1, QuietStep
<1> QED
    BY <1>1, <1>2, <1>3, <1>4, <1>5, <1>6 DEF Next, ProcessList

\* What is done of a rule, and of those before it.
LEMMA DoneOrder ==
    ASSUME IInv, WriterInv
    PROVE  /\ \A p \in Wanted(files) :
                /\ Done(p) \in 0..Len(RuleAt(files, p).rules)
                /\ agent = "ready" => Done(p) = Len(RuleAt(files, p).rules)
           /\ \A p, q \in Wanted(files) : Before(p, q) /\ Done(q) # 0 =>
                Done(p) = Len(RuleAt(files, p).rules)
<1> USE DEF IInv, WriterInv
<1>1. files \in Configs \cup {<<>>} /\ at.rule \in Nat
    BY DEF TypeOK
<1>2. ASSUME NEW p \in Wanted(files)
      PROVE  Done(p) \in 0..Len(RuleAt(files, p).rules)
    <2>1. Len(RuleAt(files, p).rules) \in Nat
        BY <1>1, WantedIds
    <2>2. CASE p = Here /\ at.rule # 0
        <3>1. at.rule <= Len(RuleAt(files, p).rules) + 1
            BY <2>2 DEF InsideInv
        <3>2. Done(p) = at.rule - 1
            BY <2>2, DoneIs
        <3> QED
            BY <1>1, <2>1, <2>2, <3>1, <3>2
    <2>3. CASE ~(p = Here /\ at.rule # 0)
        BY <2>1, <2>3 DEF Done
    <2> QED
        BY <2>2, <2>3
<1>3. ASSUME NEW p \in Wanted(files), agent = "ready"
      PROVE  Done(p) = Len(RuleAt(files, p).rules)
    <2>1. p[1] \in 1..Len(files) /\ Len(files) \in Nat
        <3>1. p[1] \in 1..Len(files)
            BY <1>1, WantedIds, RulesOfPlaces
        <3>2. CASE files = <<>>
            BY <3>1, <3>2
        <3>3. CASE files \in Configs
            BY <3>1, <3>3, ConfigAssumption DEF IsConfig
        <3> QED
            BY <1>1, <3>2, <3>3
    <2>2. Here[1] = Len(files) + 1
        BY <1>3 DEF PlaceInv, Here
    <2>3. Before(p, Here)
        BY <2>1, <2>2 DEF Before
    <2> QED
        BY <2>3 DEF Done
<1>4. ASSUME NEW p \in Wanted(files), NEW q \in Wanted(files), Before(p, q),
             Done(q) # 0
      PROVE  Done(p) = Len(RuleAt(files, p).rules)
    <2>1. p \in Triples /\ q \in Triples /\ Here \in Triples
        BY <1>1, WantedIds DEF TypeOK, Here, Triples
    <2>2. Before(q, Here) \/ q = Here
        BY <1>4 DEF Done
    <2>3. Before(p, Here)
        BY <1>4, <2>1, <2>2, BeforeOrder
    <2> QED
        BY <2>3 DEF Done
<1> QED
    BY <1>2, <1>3, <1>4

\* Outside LeftOver, the action the code has for a rule is the rule's own.
LEMMA OwnAction ==
    ASSUME NEW fs \in Configs \cup {<<>>}, NEW p \in Wanted(fs),
           ~LeftOver(fs, p)
    PROVE  ActionOf(fs, p) = RuleAt(fs, p).action
<1>1. p \in RulesOf(fs) /\ FirstUse(fs, p)
    BY DEF Wanted
<1>2. p = <<p[1], p[2], p[3]>> /\ p[3] \in Nat \ {0}
    <2>1. /\ p \in Triples /\ p = <<p[1], p[2], p[3]>>
          /\ p[3] \in 1..Len(ListAt(fs, p[1], ListOrder[p[2]]))
        BY <1>1, RulesOfPlaces
    <2>2. p[3] \in Nat
        BY <2>1 DEF Triples
    <2> QED
        BY <2>1, <2>2
<1>3. CASE RuleAt(fs, p).action # {}
    <2> DEFINE e == p[3] - 1
    <2>1. e \in Nat /\ p = <<p[1], p[2], e + 1>>
        BY <1>2
    <2> HIDE DEF e
    <2> QED
        BY <1>1, <1>3, <2>1, ActionOfNext
<1>4. CASE RuleAt(fs, p).action = {}
    <2>1. ASSUME NEW d \in 1..p[3], FirstUse(fs, <<p[1], p[2], d>>),
                 RuleAt(fs, <<p[1], p[2], d>>).action # {}
          PROVE  FALSE
        <3>1. CASE d = p[3]
            BY <1>2, <1>4, <2>1, <3>1
        <3>2. CASE d # p[3]
            <4>1. d \in 1..(p[3] - 1)
                BY <1>2, <3>2
            <4> QED
                BY <1>4, <2>1, <4>1 DEF LeftOver
        <3> QED
            BY <3>1, <3>2
    <2> QED
        BY <1>4, <2>1 DEF ActionOf
<1> QED
    BY <1>3, <1>4

\* So what the code writes for a rule is what the rule asks for.
LEMMA WrittenIsWanted ==
    ASSUME TypeOK, NEW i, NEW p \in Wanted(files), NEW r, IsWritten(i, p, r)
    PROVE  IsCondition(i, p, r)
<1>1. files \in Configs \cup {<<>>}
    BY DEF TypeOK
<1>2. ~LeftOver(files, p) => ActionOf(files, p) = RuleAt(files, p).action
    BY <1>1, OwnAction
<1> QED
    BY <1>2 DEF IsWritten, IsCondition

\* What the invariant says of the registry is RegistryAsWanted.
LEMMA WriterWanted == IInv /\ WriterInv => RegistryAsWanted
<1> SUFFICES ASSUME IInv, WriterInv
             PROVE  RegistryAsWanted
    OBVIOUS
<1>1. files \in Configs \cup {<<>>} /\ registry \in Seq(Values) /\ TypeOK
    BY DEF IInv, TypeOK
<1>2. \A p \in Wanted(files) :
        /\ Len(RuleAt(files, p).rules) \in Nat
        /\ DOMAIN RuleAt(files, p).rules = 1..Len(RuleAt(files, p).rules)
        /\ Done(p) \in 0..Len(RuleAt(files, p).rules)
    BY <1>1, WantedIds, DoneOrder
<1>3. ASSUME runs = 1
      PROVE  FreshRegistry
    <2>1. /\ \A i \in RuleValues : \E p \in Wanted(files) :
                Rank(i) \in 1..Done(p) /\ IsWritten(i, p, Rank(i))
          /\ \A p, q \in Wanted(files) : Before(p, q) =>
                \A i \in ValuesOf(RuleAt(files, p).id),
                   j \in ValuesOf(RuleAt(files, q).id) : i < j
          /\ \A p \in Wanted(files) :
                Cardinality(ValuesOf(RuleAt(files, p).id)) = Done(p)
        BY <1>3 DEF WriterInv, FreshInv
    <2>2. \A i \in RuleValues : \E p \in Wanted(files) :
            Rank(i) \in DOMAIN RuleAt(files, p).rules
                /\ IsCondition(i, p, Rank(i))
        <3> SUFFICES ASSUME NEW i \in RuleValues
                     PROVE  \E p \in Wanted(files) :
                        Rank(i) \in DOMAIN RuleAt(files, p).rules
                            /\ IsCondition(i, p, Rank(i))
            OBVIOUS
        <3>1. PICK p \in Wanted(files) :
                Rank(i) \in 1..Done(p) /\ IsWritten(i, p, Rank(i))
            BY <2>1
        <3>2. Rank(i) \in 1..Len(RuleAt(files, p).rules)
            BY <1>2, <3>1
        <3>3. IsCondition(i, p, Rank(i))
            BY <1>1, <3>1, WrittenIsWanted
        <3> QED
            BY <1>2, <3>2, <3>3
    <2>3. \A p \in Wanted(files) :
            Done(p) = Len(RuleAt(files, p).rules) => Complete(p)
        BY <2>1 DEF Complete
    <2>4. InOrder
        <3> SUFFICES ASSUME NEW p \in Wanted(files), NEW q \in Wanted(files),
                            Before(p, q),
                            ValuesOf(RuleAt(files, q).id) # {}
                     PROVE  Complete(p)
            BY <2>1 DEF InOrder
        <3>1. Done(q) # 0
            BY <1>1, <2>1, ValuesFinite
        <3> QED
            BY <2>3, <3>1, DoneOrder
    <2>5. agent = "ready" => \A p \in Wanted(files) : Complete(p)
        BY <2>3, DoneOrder
    <2> QED
        BY <2>2, <2>4, <2>5 DEF FreshRegistry
<1>4. ASSUME agent = "ready"
      PROVE  CurrentWritten
    <2>1. ASSUME NEW p \in Wanted(files),
                 NEW r \in DOMAIN RuleAt(files, p).rules
          PROVE  \E i \in RuleValues : IsCondition(i, p, r)
        <3>1. r \in 1..Done(p)
            BY <1>2, <1>4, DoneOrder
        <3>2. PICK i \in RuleValues : IsWritten(i, p, r)
            BY <3>1 DEF WriterInv, WrittenInv
        <3> QED
            BY <1>1, <3>2, WrittenIsWanted
    <2>2. \A f \in Conf.on : \E i \in DOMAIN registry :
            registry[i].name = FlagName(f)
        BY <1>4 DEF WriterInv, FlagsInv
    <2> QED
        BY <2>1, <2>2 DEF CurrentWritten
<1> QED
    BY <1>3, <1>4 DEF RegistryAsWanted, FreshRegistry, CurrentWritten

\* What the agent has done so far, in the registry and besides it: inductive
\* together with IInv.
THEOREM WriterInvariant == Spec => []WriterInv
<1>1. Init => IInv /\ WriterInv
    BY InitIInv, InitWriter
<1>2. IInv /\ WriterInv /\ [Next]_vars => (IInv /\ WriterInv)'
    BY Step, WriterSteps
<1> QED
    BY <1>1, <1>2, PTL DEF Spec

\* The registry has each condition with the id and the action of its own rule,
\* but for the action of a rule in LeftOver: in the files' order after the first
\* run of the agent and complete before the driver is started, whatever earlier
\* runs left in it.
THEOREM AsWanted == Spec => []RegistryAsWanted
<1>1. IInv /\ WriterInv => RegistryAsWanted
    BY WriterWanted
<1> QED
    BY <1>1, Invariant, WriterInvariant, PTL

=============================================================================
