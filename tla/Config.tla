-------------------------------- MODULE Config --------------------------------
(***************************************************************************)
(* From the user's rules to the rule lists of the driver.                  *)
(*                                                                         *)
(* The agent (pkg/luna/config.go) reads its YAML files when it starts and  *)
(* writes one registry value for every condition of every rule, then       *)
(* starts the driver.  The driver (MoonMon/Config.c) reads the values once,*)
(* when it is loaded: by the agent, or at boot, before the agent.  Values  *)
(* are never removed from the registry.                                    *)
(*                                                                         *)
(* A value has a name, which identifies it, and data.  A condition is one  *)
(* line "field operator value" of a rule and is a model value here; the    *)
(* status a rule's action stands for is the set of its bits.  The strings   *)
(* the agent stores among the values are left out: they only count against *)
(* BLOCKLIST_MAX.                                                          *)
(***************************************************************************)
EXTENDS Integers, FiniteSets, SequencesExt

CONSTANTS
    Lists,          \* the lists the run uses, of the 26 there are
    ListOrder,      \* the order of ConfigLists
    Ids,            \* ids of rules
    Bits,           \* bits of a status
    Conditions,     \* what the user can write as a condition
    WithMessage,    \* conditions the agent can encode
    Validated,      \* conditions whose value is valid for the field
    Typed,          \* conditions whose field has a data type in the driver
    Flags,          \* global settings
    FlagOrder,      \* the order they are written in
    DefaultOn,      \* settings InitMoonMon sets to TRUE
    BadAction,      \* an action the agent does not know
    Configs,        \* contents of the Config directory
    BLOCKLIST_MAX,  \* values the driver reads
    MaxRuns         \* bound on starts of the agent

\* A rule without an id has the id 0, one without an action no bits.
Rule == [id : Ids \cup {0}, action : {BadAction} \cup SUBSET Bits,
         rules : Seq(Conditions)]

\* A file has some of the lists, and sets some of the flags to true or false.
IsFile(f) ==
    /\ f.on \subseteq Flags /\ f.off \subseteq Flags
    /\ DOMAIN f.lists \subseteq Lists
    /\ \A l \in DOMAIN f.lists : f.lists[l] \in Seq(Rule)

IsConfig(fs) ==
    /\ Len(fs) \in Nat /\ DOMAIN fs = 1..Len(fs)
    /\ \A i \in DOMAIN fs : IsFile(fs[i])

ASSUME ConfigAssumption ==
    /\ Ids \subseteq Nat \ {0}
    /\ ListOrder \in Seq(Lists)
    /\ \A l \in Lists : \E i \in DOMAIN ListOrder : ListOrder[i] = l
    /\ FlagOrder \in Seq(Flags)
    /\ \A f \in Flags : \E i \in DOMAIN FlagOrder : FlagOrder[i] = f
    /\ WithMessage \cup Validated \cup Typed \subseteq Conditions
    /\ DefaultOn \subseteq Flags
    /\ \A s \in SUBSET Bits : BadAction # s
    /\ \A fs \in Configs : IsConfig(fs)
    /\ BLOCKLIST_MAX \in Nat \ {0}
    /\ MaxRuns \in Nat

VARIABLES
    registry,   \* the values under Settings, in the order of their creation
    agent,      \* "off", "files", "settings", "lists" or "ready"
    files,      \* the files the agent read last
    Conf,       \* their contents so far, one file on top of the other
    ids,        \* rule ids seen by this run of the agent
    at,         \* where it is: file, flag, list, rule and condition
    item,       \* processList: number of the next value of this list
    actions,    \* processList: the status written with each condition
    driver,     \* "off", "loading", "loaded" or "failed"
    index,      \* LoadConfig: the next value to read
    groups,     \* the rule lists of the driver
    settings,   \* the flags of the driver
    runs,       \* history: starts of the agent
    given,      \* history: the conditions of each rule the user ever wrote
    faults      \* history: the driver failed to read some value

agentVars == <<agent, files, Conf, ids, at, item, actions>>
driverVars == <<driver, index, groups, settings>>
vars == <<registry, agentVars, driverVars, runs, given, faults>>

Nothing == [on |-> {}, lists |-> [l \in Lists |-> <<>>]]
Start == [file |-> 1, flag |-> 1, list |-> 1, entry |-> 1, rule |-> 0]
NoGroups == [l \in Lists |-> <<>>]

Init ==
    /\ registry = <<>>
    /\ agent = "off"
    /\ files = <<>>
    /\ Conf = Nothing
    /\ ids = {}
    /\ at = Start
    /\ item = 0
    /\ actions = {}
    /\ driver = "off"
    /\ index = 0
    /\ groups = NoGroups
    /\ settings = {}
    /\ runs = 0
    /\ given = {}
    /\ faults = FALSE

-----------------------------------------------------------------------------
(* The agent.                                                              *)

\* SetBinaryValue: a value with this name is replaced where it is.
Stored(reg, name, data) ==
    LET value == [name |-> name, data |-> data]
        same == {i \in DOMAIN reg : reg[i].name = name}
    IN  IF same = {} THEN Append(reg, value)
        ELSE [i \in DOMAIN reg |-> IF i \in same THEN value ELSE reg[i]]

FlagName(f) == <<"flag", f>>
RuleName(l, id, n) == <<"rule", l, id, n>>

\* The conditions that the files give to each rule of each list.
GivenBy(fs) ==
    {g \in [list : Lists, id : Ids, cond : Conditions] :
        \E f \in DOMAIN fs : \E l \in DOMAIN fs[f].lists :
            \E e \in ToSet(fs[f].lists[l]) :
                g.list = l /\ g.id = e.id /\ g.cond \in ToSet(e.rules)}

\* The agent starts.  The service manager starts it after the drivers that
\* are loaded at boot.
StartAgent(fs) ==
    /\ agent = "off"
    /\ driver # "loading"
    /\ runs < MaxRuns
    /\ agent' = "files"
    /\ files' = fs
    /\ Conf' = Nothing
    /\ ids' = {}
    /\ at' = Start
    /\ item' = 0
    /\ actions' = {}
    /\ runs' = runs + 1
    /\ given' = given \cup GivenBy(fs)
    /\ UNCHANGED <<registry, driverVars, faults>>

\* yaml.Unmarshal into the same Conf: what a file does not have stays.
Merged(c, file) ==
    [on |-> (c.on \cup file.on) \ file.off,
     lists |-> [l \in Lists |-> IF l \in DOMAIN file.lists THEN file.lists[l]
                                ELSE c.lists[l]]]

\* The next file is read.
NextFile ==
    /\ agent = "files"
    /\ at.file <= Len(files)
    /\ Conf' = Merged(Conf, files[at.file])
    /\ agent' = "settings"
    /\ at' = [Start EXCEPT !.file = at.file]
    /\ UNCHANGED <<registry, files, ids, item, actions, driverVars, runs,
                   given, faults>>

\* processGlobalSettings: a flag is written if it is true.
WriteFlag ==
    /\ agent = "settings"
    /\ at.flag <= Len(FlagOrder)
    /\ LET f == FlagOrder[at.flag]
       IN  registry' = IF f \in Conf.on
                       THEN Stored(registry, FlagName(f), TRUE) ELSE registry
    /\ at' = [at EXCEPT !.flag = @ + 1]
    /\ UNCHANGED <<agent, files, Conf, ids, item, actions, driverVars, runs,
                   given, faults>>

EndFlags ==
    /\ agent = "settings"
    /\ at.flag > Len(FlagOrder)
    /\ agent' = "lists"
    /\ item' = 0
    /\ actions' = {}
    /\ UNCHANGED <<registry, files, Conf, ids, at, driverVars, runs, given,
                   faults>>

List == ListOrder[at.list]
Entry == Conf.lists[List][at.entry]
InLists == agent = "lists" /\ at.list <= Len(ListOrder)
AtEntry == InLists /\ at.rule = 0 /\ at.entry <= Len(Conf.lists[List])
AtCondition == InLists /\ at.rule # 0 /\ at.rule <= Len(Entry.rules)

\* log.Fatal.  What was written so far stays in the registry.
Fatal ==
    /\ agent' = "off"
    /\ UNCHANGED <<registry, files, Conf, ids, at, item, actions, driverVars,
                   runs, given, faults>>

\* A rule without an id, or with an action there is not.
BadEntry ==
    /\ AtEntry
    /\ \/ Entry.id = 0
       \/ Entry.id \notin ids /\ Entry.action = BadAction
    /\ Fatal

\* A rule whose id was used before, in any list and file, is skipped.
SkipEntry ==
    /\ AtEntry
    /\ Entry.id \in ids
    /\ at' = [at EXCEPT !.entry = @ + 1]
    /\ UNCHANGED <<registry, agent, files, Conf, ids, item, actions,
                   driverVars, runs, given, faults>>

\* A rule without an action leaves actions as it is.
BeginEntry ==
    /\ AtEntry
    /\ Entry.id \notin ids \cup {0}
    /\ Entry.action # BadAction
    /\ ids' = ids \cup {Entry.id}
    /\ actions' = IF Entry.action = {} THEN actions ELSE Entry.action
    /\ at' = [at EXCEPT !.rule = 1]
    /\ UNCHANGED <<registry, agent, files, Conf, item, driverVars, runs, given,
                   faults>>

\* StringToMessage gives some bytes and ValidateFieldValue accepts the value.
\* Both do for the field REGISTRY_DATA, which the driver has no type for.
HasMessage(c) == c \in WithMessage
IsValid(c) == c \in Validated
Accepted(c) == IsValid(c) /\ HasMessage(c)

BadCondition == AtCondition /\ ~Accepted(Entry.rules[at.rule]) /\ Fatal

\* Variant of NextItem: the number does not change.
SameItem(n) == n

NextItem(n) == n + 1

\* The registry value of one condition.
WriteCondition ==
    /\ AtCondition
    /\ LET c == Entry.rules[at.rule] IN
        /\ Accepted(c)
        /\ registry' = Stored(registry, RuleName(List, Entry.id, item),
                              [id |-> Entry.id, cond |-> c,
                               actions |-> actions])
    /\ item' = NextItem(item)
    /\ at' = [at EXCEPT !.rule = @ + 1]
    /\ UNCHANGED <<agent, files, Conf, ids, actions, driverVars, runs, given,
                   faults>>

EndEntry ==
    /\ InLists
    /\ at.rule # 0
    /\ at.rule > Len(Entry.rules)
    /\ at' = [at EXCEPT !.rule = 0, !.entry = @ + 1]
    /\ UNCHANGED <<registry, agent, files, Conf, ids, item, actions,
                   driverVars, runs, given, faults>>

\* processList returns: its locals start over with the next list.
EndList ==
    /\ InLists
    /\ at.rule = 0
    /\ at.entry > Len(Conf.lists[List])
    /\ at' = [at EXCEPT !.list = @ + 1, !.entry = 1]
    /\ item' = 0
    /\ actions' = {}
    /\ UNCHANGED <<registry, agent, files, Conf, ids, driverVars, runs, given,
                   faults>>

EndFile ==
    /\ agent = "lists"
    /\ at.list > Len(ListOrder)
    /\ agent' = "files"
    /\ at' = [Start EXCEPT !.file = at.file + 1]
    /\ UNCHANGED <<registry, files, Conf, ids, item, actions, driverVars, runs,
                   given, faults>>

-----------------------------------------------------------------------------
(* Loading the driver.                                                     *)

\* InitMoonMon sets everything to its defaults and calls LoadConfig.
LoadDriver ==
    /\ driver' = "loading"
    /\ index' = 0
    /\ groups' = NoGroups
    /\ settings' = DefaultOn
    /\ faults' = FALSE

\* LoadConfig of the agent returns and ServiceSetupMoonMon starts the driver,
\* unless it is running.
EndFiles ==
    /\ agent = "files"
    /\ at.file > Len(files)
    /\ agent' = "ready"
    /\ IF driver = "loaded" THEN UNCHANGED <<driverVars, faults>>
       ELSE LoadDriver
    /\ UNCHANGED <<registry, files, Conf, ids, at, item, actions, runs, given>>

\* The agent is killed, or ends.
AgentDies == agent # "off" /\ Fatal

\* The machine is restarted; a restart while the driver is loaded at boot
\* only starts that over.
Reboot ==
    /\ driver # "loading"
    /\ agent' = "off"
    /\ LoadDriver
    /\ UNCHANGED <<registry, files, Conf, ids, at, item, actions, runs, given>>

-----------------------------------------------------------------------------
(* The driver's LoadConfig: one value in each round.                       *)

AtValue == driver = "loading" /\ index < Len(registry)
Value == registry[index + 1]
AtFlag == AtValue /\ Value.name[1] = "flag"
AtRule == AtValue /\ Value.name[1] = "rule"

LimitReached(i) == i >= BLOCKLIST_MAX

\* Variant of Goes: a value that is skipped is not passed.
GoesOnSuccess(n, st) ==
    /\ index' = IF st THEN index + n ELSE index
    /\ driver' = IF ~LimitReached(index') THEN "loading"
                 ELSE IF st THEN "loaded" ELSE "failed"

\* LOOP_END: InitMoonMon gives up if LoadConfig does not return a success.
Goes(n, st) ==
    /\ index' = index + n
    /\ driver' = IF ~LimitReached(index') THEN "loading"
                 ELSE IF st THEN "loaded" ELSE "failed"

Reads == UNCHANGED <<registry, agentVars, runs, given>>

\* loadGlobalSetting.  A flag is only ever set to TRUE.
LoadFlag ==
    /\ AtFlag
    /\ settings' = settings \cup {Value.name[2]}
    /\ Goes(1, TRUE)
    /\ Reads /\ UNCHANGED <<groups, faults>>

\* loadGlobalSetting returns early.
FlagLost ==
    /\ AtFlag
    /\ Goes(1, TRUE)
    /\ faults' = TRUE
    /\ Reads /\ UNCHANGED <<groups, settings>>

\* The size of a value cannot be queried: index is advanced before LOOP_END
\* and by it.
SizeQueryFails ==
    /\ AtRule
    /\ Goes(2, FALSE)
    /\ faults' = TRUE
    /\ Reads /\ UNCHANGED <<groups, settings>>

\* The value cannot be read, makeNewItem has no memory for it, or
\* loadConfigItem has none for its group.  Without memory for the header of
\* its string the item is freed twice (Config.c:740 and 1017); what comes of
\* that is left out.
ItemLost ==
    /\ AtRule
    /\ Goes(1, FALSE)
    /\ faults' = TRUE
    /\ Reads /\ UNCHANGED <<groups, settings>>

\* makeNewItem returns STATUS_BAD_DATA: the data type of the field is unknown.
HasDataType(c) == c \in Typed

BadData ==
    /\ AtRule
    /\ ~HasDataType(Value.data.cond)
    /\ Goes(1, FALSE)
    /\ Reads /\ UNCHANGED <<groups, settings, faults>>

\* The array of a type of list, as far as it is in use.
resolveList(l) == groups[l]

\* Variants of SameGroup: only the last group is looked at; the first is taken.
SameGroupLast(l, i, id) ==
    i = Len(resolveList(l)) /\ resolveList(l)[i].id = id
SameGroupAny(l, i, id) == i = 1

SameGroup(l, i, id) == resolveList(l)[i].id = id

\* loadConfigItem: a condition joins the group of its rule, whose actions it
\* can only clear, or is the first of a new group.
LoadItem ==
    /\ AtRule
    /\ HasDataType(Value.data.cond)
    /\ LET l == Value.name[2]
           d == Value.data
           same == {i \in DOMAIN resolveList(l) : SameGroup(l, i, d.id)}
       IN  IF same = {}
           THEN groups' = [groups EXCEPT ![l] =
                    Append(@, [id |-> d.id, actions |-> d.actions,
                               conds |-> <<d.cond>>])]
           ELSE LET i == CHOOSE i \in same : \A j \in same : i <= j
                IN  groups' = [groups EXCEPT
                        ![l][i].actions = @ \cap d.actions,
                        ![l][i].conds = Append(@, d.cond)]
    /\ Goes(1, TRUE)
    /\ Reads /\ UNCHANGED <<settings, faults>>

\* STATUS_NO_MORE_ENTRIES.
EndOfValues ==
    /\ driver = "loading"
    /\ index >= Len(registry)
    /\ driver' = "loaded"
    /\ Reads /\ UNCHANGED <<index, groups, settings, faults>>

\* The key cannot be opened or enumerated, or there is no memory for a value.
LoadFails ==
    /\ driver = "loading"
    /\ driver' = "failed"
    /\ Reads /\ UNCHANGED <<index, groups, settings, faults>>

-----------------------------------------------------------------------------
LoadRound ==
    \/ LoadFlag \/ FlagLost \/ SizeQueryFails \/ ItemLost \/ BadData
    \/ LoadItem \/ EndOfValues

LoadConfig == LoadRound \/ LoadFails

ProcessList ==
    \/ BadEntry \/ SkipEntry \/ BeginEntry \/ BadCondition \/ WriteCondition
    \/ EndEntry \/ EndList

Next ==
    \/ \E fs \in Configs : StartAgent(fs)
    \/ NextFile \/ WriteFlag \/ EndFlags \/ ProcessList \/ EndFile \/ EndFiles
    \/ AgentDies \/ Reboot \/ LoadConfig

Spec == Init /\ [][Next]_vars

\* DriverEntry goes on to run; no failure is counted on, and nothing is assumed
\* of the agent.
FairSpec == Spec /\ WF_vars(LoadRound)

-----------------------------------------------------------------------------
(* Properties.                                                             *)

Groups == [id : Ids, actions : SUBSET Bits, conds : Seq(Typed)]
Items == [id : Ids, cond : Conditions, actions : SUBSET Bits]
Values == [name : {"flag"} \X Flags, data : {TRUE}]
          \cup [name : {"rule"} \X Lists \X Ids \X Nat, data : Items]

\* Every variable stays in its type, and the driver does not read more than
\* BLOCKLIST_MAX values.
TypeOK ==
    /\ registry \in Seq(Values)
    /\ agent \in {"off", "files", "settings", "lists", "ready"}
    /\ files \in Configs \cup {<<>>}
    /\ Conf.on \subseteq Flags /\ Conf.lists \in [Lists -> Seq(Rule)]
    /\ ids \subseteq Ids
    /\ at \in [file : Nat \ {0}, flag : Nat \ {0}, list : Nat \ {0},
              entry : Nat \ {0}, rule : Nat]
    /\ item \in Nat
    /\ actions \in SUBSET Bits
    /\ driver \in {"off", "loading", "loaded", "failed"}
    /\ index \in 0..(BLOCKLIST_MAX + 1)
    /\ groups \in [Lists -> Seq(Groups)]
    /\ settings \subseteq Flags
    /\ runs \in 0..MaxRuns
    /\ given \subseteq [list : Lists, id : Ids, cond : Conditions]
    /\ faults \in BOOLEAN

\* List l as it is when file f is processed.
ListAt(fs, f, l) ==
    LET has == {g \in 1..f : l \in DOMAIN fs[g].lists}
    IN  IF has = {} THEN <<>>
        ELSE fs[CHOOSE g \in has : \A h \in has : h <= g].lists[l]

\* A rule's place is its file, the place of its list and its own in the list.
RulesOf(fs) ==
    UNION {{<<f, k, e>> : e \in DOMAIN ListAt(fs, f, ListOrder[k])} :
                f \in DOMAIN fs, k \in DOMAIN ListOrder}

RuleAt(fs, p) == ListAt(fs, p[1], ListOrder[p[2]])[p[3]]

Before(p, q) ==
    \/ p[1] < q[1]
    \/ p[1] = q[1] /\ p[2] < q[2]
    \/ p[1] = q[1] /\ p[2] = q[2] /\ p[3] < q[3]

FirstUse(fs, p) ==
    \A q \in RulesOf(fs) : RuleAt(fs, q).id = RuleAt(fs, p).id => ~Before(q, p)

\* What the files ask for: each rule where its id is first used.
Wanted(fs) == {p \in RulesOf(fs) : FirstUse(fs, p)}

\* A rule without an action that follows one with an action in its list: its
\* values get the action left over from there (pkg/luna/config.go:161).
LeftOver(fs, p) ==
    /\ RuleAt(fs, p).action = {}
    /\ \E d \in 1..(p[3] - 1) :
        /\ FirstUse(fs, <<p[1], p[2], d>>)
        /\ RuleAt(fs, <<p[1], p[2], d>>).action # {}

\* What the code writes for it: the action of the rule or, if it has none, of
\* the last rule of the list before it that has one.
ActionOf(fs, p) ==
    LET rule(d) == RuleAt(fs, <<p[1], p[2], d>>)
        with == {d \in 1..p[3] : FirstUse(fs, <<p[1], p[2], d>>)
                                    /\ rule(d).action # {}}
    IN  IF with = {} THEN {}
        ELSE rule(CHOOSE d \in with : \A c \in with : c <= d).action

RuleValues == {i \in DOMAIN registry : registry[i].name[1] = "rule"}

\* Value i of the registry is condition r of the rule at p, with the action of
\* this rule; nothing is said of the action of a rule in LeftOver.
IsCondition(i, p, r) ==
    /\ registry[i].name[2] = ListOrder[p[2]]
    /\ registry[i].data.id = RuleAt(files, p).id
    /\ registry[i].data.cond = RuleAt(files, p).rules[r]
    /\ ~LeftOver(files, p) =>
            registry[i].data.actions = RuleAt(files, p).action

\* As IsCondition, with the action the code has for the rule.
IsWritten(i, p, r) ==
    /\ registry[i].name[2] = ListOrder[p[2]]
    /\ registry[i].data = [id |-> RuleAt(files, p).id,
                           cond |-> RuleAt(files, p).rules[r],
                           actions |-> ActionOf(files, p)]

\* The values of a rule, and the place of a value among them.
ValuesOf(id) == {i \in RuleValues : registry[i].data.id = id}
Rank(i) == Cardinality({j \in ValuesOf(registry[i].data.id) : j <= i})

Complete(p) == Cardinality(ValuesOf(RuleAt(files, p).id))
                    = Len(RuleAt(files, p).rules)

\* The values of earlier rules come first, and a rule is begun when those
\* before it are complete.
InOrder ==
    \A p, q \in Wanted(files) : Before(p, q) =>
        /\ \A i \in ValuesOf(RuleAt(files, p).id),
              j \in ValuesOf(RuleAt(files, q).id) : i < j
        /\ ValuesOf(RuleAt(files, q).id) # {} => Complete(p)

\* The first run of the agent writes what the files ask for in their order,
\* however far it gets, and all of it if it gets to start the driver.
FreshRegistry ==
    runs = 1 =>
        /\ \A i \in RuleValues : \E p \in Wanted(files) :
                Rank(i) \in DOMAIN RuleAt(files, p).rules
                    /\ IsCondition(i, p, Rank(i))
        /\ InOrder
        /\ agent = "ready" => \A p \in Wanted(files) : Complete(p)

\* Later runs find the values of earlier ones, and still have all that the
\* files now ask for in the registry before the driver is started.
CurrentWritten ==
    agent = "ready" =>
        /\ \A p \in Wanted(files) : \A r \in DOMAIN RuleAt(files, p).rules :
                \E i \in RuleValues : IsCondition(i, p, r)
        /\ \A f \in Conf.on : \E i \in DOMAIN registry :
                registry[i].name = FlagName(f)

\* What reaches the registry is what the current files ask for: no condition
\* is lost, reordered, overwritten or stored with another rule's action,
\* neither in an empty registry nor among the values of earlier runs under the
\* same names.  The one exception is the action of a rule in LeftOver.
RegistryAsWanted == FreshRegistry /\ CurrentWritten

\* The driver enforces no condition that the user did not give to this rule
\* of this list, now or before: rules are never mixed up, whatever runs of
\* the agent were broken off and whatever the driver could not read.
GivenOnly ==
    \A l \in Lists : \A g \in ToSet(groups[l]) : \A c \in ToSet(g.conds) :
        [list |-> l, id |-> g.id, cond |-> c] \in given

\* The values read so far that belong to rule id of list l.
ReadOf(l, id) ==
    {i \in 1..index : /\ i <= Len(registry)
                      /\ registry[i].name[1] = "rule"
                      /\ registry[i].name[2] = l
                      /\ registry[i].data.id = id
                      /\ HasDataType(registry[i].data.cond)}

\* While the driver loads, each rule has one group with each of its values
\* once and the actions all of them have; a failure can only lose values.
LoadedOnce ==
    driver = "loading" =>
        \A l \in Lists, id \in Ids :
            LET its == {i \in DOMAIN groups[l] : groups[l][i].id = id}
                values == ReadOf(l, id)
            IN  /\ Cardinality(its) <= 1
                /\ values # {} /\ ~faults => its # {}
                /\ \A i \in its :
                    /\ Len(groups[l][i].conds) <= Cardinality(values)
                    /\ ~faults =>
                        /\ Len(groups[l][i].conds) = Cardinality(values)
                        /\ \A v \in values : groups[l][i].actions
                                \subseteq registry[v].data.actions

\* What the user gave reaches the agent's lists and the registry, under the
\* name of its rule.
GivenRule(l, e) ==
    e.id # 0 => \A c \in ToSet(e.rules) :
                    [list |-> l, id |-> e.id, cond |-> c] \in given

AgentGiven ==
    /\ GivenBy(files) \subseteq given
    /\ \A l \in Lists : \A i \in DOMAIN Conf.lists[l] :
            GivenRule(l, Conf.lists[l][i])

RegistryGiven ==
    \A i \in DOMAIN registry : registry[i].name[1] = "rule" =>
        /\ registry[i].name[3] = registry[i].data.id
        /\ [list |-> registry[i].name[2], id |-> registry[i].data.id,
            cond |-> registry[i].data.cond] \in given

\* Inside a rule, the agent has accepted its id and action.
RuleInv ==
    /\ agent = "settings" => at.rule = 0
    /\ InLists /\ at.rule # 0 =>
        /\ at.entry <= Len(Conf.lists[List])
        /\ Entry.id # 0 /\ Entry.action # BadAction

\* The registry does not change while the driver loads.
LoadingInv ==
    driver = "loading" =>
        /\ agent \in {"off", "ready"}
        /\ index < BLOCKLIST_MAX

\* The inductive invariant behind GivenOnly and LoadedOnce.
IInv ==
    /\ TypeOK
    /\ AgentGiven
    /\ RegistryGiven
    /\ RuleInv
    /\ LoadingInv
    /\ GivenOnly
    /\ LoadedOnce

\* The place the agent is at, and how many conditions of the rule at p it has
\* written.
Here == <<at.file, at.list, at.entry>>

Done(p) ==
    IF Before(p, Here) THEN Len(RuleAt(files, p).rules)
    ELSE IF p = Here /\ at.rule # 0 THEN at.rule - 1 ELSE 0

\* Conf has the lists as they are at the file the agent has read last.
PlaceInv ==
    /\ runs = 0 => agent = "off" /\ registry = <<>>
    /\ agent \in {"files", "settings", "ready"} =>
            at.list = 1 /\ at.entry = 1 /\ at.rule = 0
    /\ agent \in {"files", "ready"} =>
        /\ at.file <= Len(files) + 1
        /\ \A l \in Lists : Conf.lists[l] = ListAt(files, at.file - 1, l)
    /\ agent = "ready" => at.file = Len(files) + 1
    /\ agent \in {"settings", "lists"} =>
        /\ at.file <= Len(files)
        /\ \A l \in Lists : Conf.lists[l] = ListAt(files, at.file, l)

\* The agent is only inside a rule that the files ask for.
InsideInv ==
    at.rule # 0 =>
        Here \in Wanted(files) /\ at.rule <= Len(RuleAt(files, Here).rules) + 1

\* The ids seen are those of the rules the agent has come to.
IdsInv ==
    ids = {RuleAt(files, p).id :
                p \in {q \in RulesOf(files) :
                        Before(q, Here) \/ (q = Here /\ at.rule # 0)}}

\* The action that is written is that of the rule, or of the last one.
ActionsInv ==
    InLists => actions =
        ActionOf(files, <<at.file, at.list,
                          IF at.rule = 0 THEN at.entry - 1 ELSE at.entry>>)

\* The flags that are on have their value.
FlagsInv ==
    /\ agent \in {"files", "lists", "ready"} =>
        \A f \in Conf.on : \E i \in DOMAIN registry :
            registry[i].name = FlagName(f)
    /\ agent = "settings" =>
        \A n \in 1..(at.flag - 1) : FlagOrder[n] \in Conf.on =>
            \E i \in DOMAIN registry : registry[i].name = FlagName(FlagOrder[n])

\* What was written in this run is there, under a number that is not used
\* again.
WrittenInv ==
    \A p \in Wanted(files) : \A r \in 1..Done(p) : \E i \in RuleValues :
        /\ IsWritten(i, p, r)
        /\ p = Here /\ at.rule # 0 => registry[i].name[4] < item

\* In the first run nothing else is there.
FreshInv ==
    runs = 1 =>
        /\ \A i \in RuleValues : \E p \in Wanted(files) :
                Rank(i) \in 1..Done(p) /\ IsWritten(i, p, Rank(i))
        /\ \A p, q \in Wanted(files) : Before(p, q) =>
                \A i \in ValuesOf(RuleAt(files, p).id),
                   j \in ValuesOf(RuleAt(files, q).id) : i < j
        /\ \A p \in Wanted(files) :
                Cardinality(ValuesOf(RuleAt(files, p).id)) = Done(p)
        /\ at.rule # 0 => \A i \in ValuesOf(RuleAt(files, Here).id) :
                registry[i].name[4] < item

\* With IInv, the inductive invariant behind RegistryAsWanted.
WriterInv ==
    /\ PlaceInv
    /\ InsideInv
    /\ IdsInv
    /\ ActionsInv
    /\ FlagsInv
    /\ WrittenInv
    /\ FreshInv

\* Loading the driver ends, whatever is in the registry.
LoadEnds == driver = "loading" ~> driver # "loading"

=============================================================================
