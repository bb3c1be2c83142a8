-------------------------------- MODULE Match --------------------------------
(***************************************************************************)
(* What a rule means: the way of a rule's value from the user's file to    *)
(* the comparison with an event, and the loop that compares.               *)
(*                                                                         *)
(*   StringToMessage   the agent encodes the value (pkg/luna/parse.go)     *)
(*   makeNewItem       the driver stores it in one member of a CFI, the    *)
(*                     others stay zero (MoonMon/Config.c)                 *)
(*   *ListMatch        each kind of event has a switch from the field of   *)
(*                     the entry to a value of the event and to the        *)
(*                     function that compares it with a member of the CFI  *)
(*   Check*            the operators (MoonMon/Utils.c)                     *)
(*                                                                         *)
(* Inspect models what is done with the result of the loop.                *)
(*                                                                         *)
(* Numbers are small naturals.  A string is a sequence of characters, a    *)
(* character one of Chars, two bytes <<low, high>>; Lower maps upper case  *)
(* to lower case.  An IP address is a sequence of bytes of ByteBits bits,  *)
(* in the order they are written.                                          *)
(***************************************************************************)
EXTENDS Integers, Sequences, TLC

S == INSTANCE SequencesExt

CONSTANTS
    Chars,      \* characters of strings
    Lower,      \* lower case of each character
    ByteBits,   \* bits of a byte of an address
    Width,      \* bits of a number
    Numbers,    \* values of numeric fields
    Strings,    \* values of string fields
    DosDeviceLetters, \* the drives, "A:" to "Z:"
    DosDeviceMap, \* names of the devices of those that are known
    GlobalRoot, \* the prefix \??\
    Ipv4Addresses, \* values of address fields
    Ipv6Addresses,
    NULL,       \* a string pointer or address that is NULL
    Families,   \* sets of rule lists [kind, groups]; a group has an id and
                \* items
    MemoryFails \* whether ExAllocatePool2 may fail in a string comparison

ASSUME MatchAssumption ==
    /\ Chars \subseteq Nat \X Nat
    /\ Lower \in [Chars -> Chars]
    /\ \A c \in Chars : Lower[Lower[c]] = Lower[c]
    /\ \A c \in Chars : c[2] = 0 => c[1] # 0 /\ Lower[c][2] = 0
    /\ ByteBits \in Nat \ {0}
    /\ Width \in Nat \ {0}
    /\ {0, 1} \subseteq Numbers /\ Numbers \subseteq 0..(2 ^ Width - 1)
    /\ \A s \in Strings : s \in Seq(Chars)
    /\ \A set \in {Ipv4Addresses, Ipv6Addresses} :
        /\ \A a \in set : a \in Seq(0..(2 ^ ByteBits - 1))
        /\ \A a, b \in set : Len(a) = Len(b)
    /\ NULL \notin Strings
    /\ NULL \notin Ipv4Addresses \cup Ipv6Addresses
    /\ MemoryFails \in BOOLEAN

VARIABLES
    rules,      \* the rule list, fixed when the driver loads
    collected,  \* what the callback collected
    pc,         \* "scan", or how the loop ended
    group,      \* its indices, of the rule
    entry,      \* and of the entries of the rule already checked
    matches,    \* entries of the group that counted so far
    found,      \* *id: the rule that matched
    missed      \* history: an allocation failed

matchVars == <<rules, collected, pc, group, entry, matches, found, missed>>

-----------------------------------------------------------------------------
(* Fields.                                                                 *)

ProcessFields ==
    {"IMAGE_FILE_NAME", "PARENT_IMAGE_FILE_NAME", "COMMAND_LINE",
     "PARENT_COMMAND_LINE", "PWINDOW_TITLE", "PCWD"}
TargetFields ==
    {"TARGET_IMAGE_FILE_NAME", "TARGET_PARENT_IMAGE_FILE_NAME",
     "TARGET_COMMAND_LINE", "TARGET_PARENT_COMMAND_LINE",
     "TARGET_PWINDOW_TITLE", "TARGET_PCWD"}
PathFields ==
    {"MM_FILE_NAME", "MM_FILE_VOLUME", "MM_FILE_SHARE", "MM_FILE_EXTENSION",
     "MM_FILE_STREAM", "MM_FILE_FINAL_COMPONENT", "MM_FILE_PARENT_DIR"}
RegistryNames ==
    {"REG_KEY", "REG_KEY_NEW", "REG_VALUE_NAME", "REG_OLD_FILE_NAME",
     "REG_NEW_FILE_NAME"}
PipeFields ==
    {"MM_NAMED_PIPE_TYPE", "MM_NAMED_PIPE_CONFIG", "MM_NAMED_PIPE_STATE",
     "MM_NAMED_PIPE_END"}
Versions ==
    {"MM_FILE_NETWORK_PROTOCOL_VERSION_MAJOR",
     "MM_FILE_NETWORK_PROTOCOL_VERSION_MINOR"}
Ports == {"MM_NET_LOCAL_PORT", "MM_NET_REMOTE_PORT"}
ByteFields ==
    {"MM_NET_DIRECTION", "MM_NET_IP_PROTOCOL", "MM_NET_ADDRESS_TYPE",
     "MM_NET_PROMISCUOUS"}
Ipv4Fields == {"MM_NET_LOCAL_IPV4_ADDR", "MM_NET_REMOTE_IPV4_ADDR"}
Ipv6Fields == {"MM_NET_LOCAL_IPV6_ADDR", "MM_NET_REMOTE_IPV6_ADDR"}
IpFields == Ipv4Fields \cup Ipv6Fields
AddressesOf(field) ==
    IF field \in Ipv4Fields THEN Ipv4Addresses ELSE Ipv6Addresses
Times == {"MM_FILE_CREATION_TIME", "MM_FILE_CHANGE_TIME"}

StringFields ==
    ProcessFields \cup TargetFields \cup PathFields \cup RegistryNames
        \cup {"LOADED_MODULE", "MM_FILE_NEW_NAME"}

\* The member of the CFI that makeNewItem fills for a field.
getFieldDataType(field) ==
    CASE field \in StringFields -> "item"
      [] field \in ByteFields -> "itemUint8"
      [] field \in Versions \cup Ports \cup {"MM_WFP_LAYER"} -> "itemUshort"
      [] field \in PipeFields \cup
            {"REG_OP", "REG_DATA_TYPE", "MM_FILE_OPERATION",
             "MM_FILE_ACCESS_FLAGS", "MM_FILE_FLAGS", "MODULE_PROPERTIES",
             "PHOPERATION", "PHORIGINAL_DESIRED_ACCESS",
             "MM_FILE_NETWORK_PROTOCOL", "MM_NET_INTERFACE_TYPE"}
            -> "itemUlong"
      [] field \in Times -> "itemLonglong"
      [] field \in Ipv4Fields -> "ipv4Subnet"
      [] field \in Ipv6Fields -> "ipv6Subnet"
      [] field = "MM_FILE_DELETION" -> "itemBoolean"
      [] OTHER -> "bad type"

\* The switches of the *ListMatch functions: for each kind of event, the
\* fields that are compared with each member of the CFI.  The case of
\* MM_FILE_DELETION is left out: the agent refuses every value of that field.
FileCreateCases ==
    [itemUlong |-> {"MM_FILE_FLAGS"},
     item |-> PathFields \cup ProcessFields \cup {"TARGET_IMAGE_FILE_NAME"}]
FileSetCases ==
    [itemUlong |-> PipeFields \cup {"MM_FILE_OPERATION", "MM_FILE_ACCESS_FLAGS",
                                    "MM_FILE_NETWORK_PROTOCOL"},
     itemUshort |-> Versions,
     itemLonglong |-> Times,
     item |-> PathFields \cup ProcessFields
                \cup {"MM_FILE_NEW_NAME", "TARGET_IMAGE_FILE_NAME"}]
RegistryCases ==
    [itemUlong |-> {"REG_OP", "REG_DATA_TYPE"},
     item |-> RegistryNames \cup ProcessFields \cup {"TARGET_IMAGE_FILE_NAME"}]
ProcessCases == [item |-> ProcessFields]
ThreadCases == [item |-> ProcessFields \cup TargetFields]
ObjectCases ==
    [itemUlong |-> {"PHOPERATION", "PHORIGINAL_DESIRED_ACCESS"},
     item |-> ProcessFields \cup TargetFields]
ImageCases ==
    [itemUlong |-> {"MODULE_PROPERTIES"},
     item |-> {"LOADED_MODULE"} \cup ProcessFields]
NetworkCases ==
    [itemUshort |-> {"MM_WFP_LAYER"} \cup Ports,
     itemInt8 |-> {"MM_NET_DIRECTION"},
     itemUint8 |-> ByteFields \ {"MM_NET_DIRECTION"},
     itemUlong |-> {"MM_NET_INTERFACE_TYPE"},
     itemLonglong |-> {"MM_NET_INTERFACE"},
     ipv4Subnet |-> Ipv4Fields,
     ipv6Subnet |-> Ipv6Fields,
     item |-> ProcessFields \cup {"TARGET_IMAGE_FILE_NAME"}]

Cases(kind) ==
    CASE kind = "file_create" -> FileCreateCases
      [] kind = "file_set" -> FileSetCases
      [] kind = "registry" -> RegistryCases
      [] kind = "process" -> ProcessCases
      [] kind = "thread" -> ThreadCases
      [] kind = "object" -> ObjectCases
      [] kind = "image" -> ImageCases
      [] kind = "network" -> NetworkCases

Kinds == {"file_create", "file_set", "registry", "process", "thread",
          "object", "image", "network"}

FieldsOf(kind) == UNION {Cases(kind)[m] : m \in DOMAIN Cases(kind)}

\* What is compared: without a target process TARGET_IMAGE_FILE_NAME stands for
\* the acting process's image.
HasTarget(kind) == kind \in {"thread", "object"}
Attribute(kind, field) ==
    IF field = "TARGET_IMAGE_FILE_NAME" /\ ~HasTarget(kind)
    THEN "IMAGE_FILE_NAME" ELSE field

-----------------------------------------------------------------------------
(* Addresses.                                                              *)

\* A 32 bit number is the sequence of its bytes, the lowest first; htonl
\* reverses it.  Its low bits, others cleared: number & mask.
Masked(number, bits) ==
    LET whole == bits \div ByteBits
        left == bits % ByteBits
    IN  [k \in DOMAIN number |->
            CASE k <= whole -> number[k]
              [] k = whole + 1 /\ left > 0 -> number[k] % 2 ^ left
              [] OTHER -> 0]
Zeros(number) == \A k \in DOMAIN number : number[k] = 0

\* NetClassifyCallback: the engine gives host order.  The callback swaps the
\* bytes for outgoing packets and bind requests; littleEndian tells CheckIpv4
\* to swap them.
Swaps(e) == e.layer = "resource" \/ e.direction = "outbound"
littleEndian(e) == e.layer = "resource" \/ e.direction # "outbound"

-----------------------------------------------------------------------------
(* The agent and the loader.                                               *)

\* Fields whose value the agent reads as a hexadecimal number without its
\* leading zeros, or looks up by name: zero is refused.
NonZeroFields ==
    PipeFields \cup {"MM_FILE_FLAGS", "MM_FILE_ACCESS_FLAGS", "PHOPERATION",
        "PHORIGINAL_DESIRED_ACCESS", "MM_NET_INTERFACE_TYPE",
        "MM_FILE_NETWORK_PROTOCOL", "MM_FILE_OPERATION", "REG_OP",
        "MM_WFP_LAYER"}
Unsupported ==
    Times \cup {"MM_NET_INTERFACE", "MODULE_PROPERTIES", "MM_FILE_DELETION"}

\* StringToMessage gives no message and the agent does not start.
Refused(item) ==
    \/ item.field \in Unsupported
    \/ item.field \in ByteFields /\ item.value > 2
    \/ item.field \in NonZeroFields /\ item.value = 0
    \/ item.field \in StringFields /\ item.value = <<>>
    \/ item.field \in Ipv6Fields /\ item.value.prefix = 0

LowerOf(s) == [k \in DOMAIN s |-> Lower[s[k]]]

Ascii(s) == \A k \in DOMAIN s : s[k][2] = 0

\* A path that begins with a drive, in either case.
NamesDrive(s, d) == S!IsPrefix(LowerOf(d), LowerOf(s))
HasDrive(s) == \E d \in DosDeviceLetters : NamesDrive(s, d)
DriveOf(s) == CHOOSE d \in DosDeviceLetters : NamesDrive(s, d)
AfterDrive(s) == SubSeq(s, Len(DriveOf(s)) + 1, Len(s))

\* No path begins with two drives, and no name of a device with one.
ASSUME PathAssumption ==
    /\ \A s \in DosDeviceLetters \cup S!Range(DosDeviceMap) \cup {GlobalRoot} :
            s \in Seq(Chars) /\ Ascii(s) /\ s # <<>>
    /\ \A d, e \in DosDeviceLetters : NamesDrive(d, e) => d = e
    /\ DOMAIN DosDeviceMap \subseteq DosDeviceLetters
    /\ \A s \in S!Range(DosDeviceMap) : ~HasDrive(s)

\* A rule list as the loader builds it from what the agent writes.
IsItem(item) ==
    CASE item.field \in StringFields -> item.value \in Seq(Chars)
      [] item.field \in IpFields ->
            /\ item.value.addr \in AddressesOf(item.field)
            /\ item.value.prefix \in 0..(ByteBits * Len(item.value.addr))
      [] OTHER -> item.value \in Numbers
IsRuleList(r) ==
    /\ r.kind \in Kinds
    /\ r.groups \in Seq(S!ToSet(r.groups))
    /\ \A g \in S!ToSet(r.groups) :
        /\ g.items \in Seq(S!ToSet(g.items)) \ {<<>>}
        /\ \A item \in S!ToSet(g.items) : IsItem(item)

ASSUME FamiliesAssumption ==
    \A n \in DOMAIN Families : \A r \in Families[n] : IsRuleList(r)

\* Paths for which the driver sees \??\C:\..., and those for which it sees the
\* name of the device, \Device\HarddiskVolume2\...
GlobalrootFields ==
    {"IMAGE_FILE_NAME", "PARENT_IMAGE_FILE_NAME", "TARGET_IMAGE_FILE_NAME",
     "TARGET_PARENT_IMAGE_FILE_NAME", "MM_FILE_NEW_NAME"}
NtpathFields ==
    {"MM_FILE_NAME", "MM_FILE_VOLUME", "MM_FILE_PARENT_DIR",
     "REG_OLD_FILE_NAME", "REG_NEW_FILE_NAME"}

DospathToGlobalroot(s) == IF HasDrive(s) THEN GlobalRoot \o s ELSE s

\* A path that is shorter than the name of the device is not translated.
LongEnough(s) == Len(s) >= Len(DosDeviceMap[DriveOf(s)])
DospathToNtpath(s) ==
    IF HasDrive(s) /\ DriveOf(s) \in DOMAIN DosDeviceMap /\ LongEnough(s)
    THEN DosDeviceMap[DriveOf(s)] \o AfterDrive(s) ELSE s

Translated(field, s) ==
    CASE field \in GlobalrootFields -> DospathToGlobalroot(s)
      [] field \in NtpathFields -> DospathToNtpath(s)
      [] OTHER -> s

\* The mask of an IPv4 prefix is all ones shifted right, so it keeps the low
\* bits of the number whose lowest byte is the first of the address.
StringToMessage(item) ==
    CASE item.field \in StringFields ->
            LowerOf(Translated(item.field, item.value))
      [] item.field \in Ipv4Fields ->
            [bits |-> item.value.prefix,
             subnet |-> Masked(item.value.addr, item.value.prefix)]
      [] OTHER -> item.value

\* The CFI of an item: its value is in one member.
makeNewItem(item) ==
    [field_type |-> item.field, match_type |-> item.op,
     member |-> getFieldDataType(item.field),
     value |-> StringToMessage(item)]

Member(cfi, m) == IF m = cfi.member THEN cfi.value ELSE 0

-----------------------------------------------------------------------------
(* The operators: how often an entry is counted.                           *)

Once(b) == IF b THEN 1 ELSE 0

\* Bit k of x, and whether x has all bits of v: (x & v) == v.
Bit(x, k) == (x \div 2 ^ k) % 2
HasBits(x, v) == \A k \in 0..(Width - 1) : Bit(v, k) = 1 => Bit(x, k) = 1

\* Variant of CheckNumber: NOT_AND falls through to NOT_EQUALS as well.
CheckNumberThrough(op, x, v) ==
    CASE op = "and" -> Once(HasBits(x, v))
      [] op = "notand" -> Once(~HasBits(x, v)) + Once(x = v) + Once(x # v)
      [] op = "equals" -> Once(x = v)
      [] op = "notequals" -> Once(x # v)
      [] OTHER -> 0

\* CheckUlongEntry and its copies for the other widths.  NOT_AND has no break.
CheckNumber(op, x, v) ==
    CASE op = "and" -> Once(HasBits(x, v))
      [] op = "notand" -> Once(~HasBits(x, v)) + Once(x = v)
      [] op = "equals" -> Once(x = v)
      [] op = "notequals" -> Once(x # v)
      [] op \in {"notlessthan", "greaterthan"} -> Once(x > v)
      [] op = "greaterorequal" -> Once(x >= v)
      [] op \in {"notgreaterthan", "lessthan"} -> Once(x < v)
      [] op = "lessorequal" -> Once(x <= v)
      [] OTHER -> 0

\* The comparison looks only at the address: the operator is not used.
CheckIpv4(e, addr, value) ==
    LET given == IF Swaps(e) THEN addr ELSE S!Reverse(addr)
        seen == IF littleEndian(e) THEN S!Reverse(given) ELSE given
    IN  Once(~Zeros(given) /\ Masked(seen, value.bits) = value.subnet)

\* Whole bytes are compared, and of the last one the bits that are left after
\* it is shifted to the left.
CheckIpv6(addr, value) ==
    LET whole == value.prefix \div ByteBits
        left == value.prefix % ByteBits
    IN  Once(/\ addr # NULL
             /\ \A k \in 1..whole : addr[k] = value.addr[k]
             /\ left > 0 => addr[whole + 1] % 2 ^ left
                                = value.addr[whole + 1] % 2 ^ left)

Bytes(s) == [n \in 1..(2 * Len(s)) |-> s[(n + 1) \div 2][2 - (n % 2)]]

\* Variant of StartsWith: without memory the answer is TRUE.
StartsWithOpen(prefix, s, memory) ==
    memory => S!IsPrefix(prefix, LowerOf(s))

\* Each compares with a lower case copy of the event's string; without memory
\* for it the answer is FALSE.
StartsWith(prefix, s, memory) == memory /\ S!IsPrefix(prefix, LowerOf(s))
EndsWith(suffix, s, memory) == memory /\ S!IsSuffix(suffix, LowerOf(s))

\* Variant of Contains: the last offset is not tried.
ContainsShort(search, s, memory) ==
    /\ memory
    /\ \E at \in 0..(2 * (Len(s) - Len(search)) - 1) :
        \A n \in DOMAIN Bytes(search) :
            Bytes(LowerOf(s))[at + n] = Bytes(search)[n]

\* The search moves by bytes, not by characters.
Contains(search, s, memory) ==
    /\ memory
    /\ \E at \in 0..(2 * (Len(s) - Len(search))) :
        \A n \in DOMAIN Bytes(search) :
            Bytes(LowerOf(s))[at + n] = Bytes(search)[n]

Equals(search, s, memory) ==
    Len(search) = Len(s) /\ Contains(search, s, memory)

CheckUnicodeEntry(op, s, v, memory) ==
    IF s = NULL THEN 0 ELSE
    CASE op = "equals" -> Once(Equals(v, s, memory))
      [] op = "notequals" -> Once(~Equals(v, s, memory))
      [] op = "startswith" -> Once(StartsWith(v, s, memory))
      [] op = "notstartswith" -> Once(~StartsWith(v, s, memory))
      [] op = "endswith" -> Once(EndsWith(v, s, memory))
      [] op = "notendswith" -> Once(~EndsWith(v, s, memory))
      [] op = "contains" -> Once(Contains(v, s, memory))
      [] op = "notcontains" -> Once(~Contains(v, s, memory))
      [] OTHER -> 0

-----------------------------------------------------------------------------
(* The loop.                                                               *)

\* The process description that a case reads, if it reads one.
Reads(kind, field) ==
    IF HasTarget(kind) /\ field \in TargetFields THEN {"TPI"}
    ELSE IF Attribute(kind, field) \in ProcessFields THEN {"PI"} ELSE {}

\* Variant of Tests: the thread list has the slip of the object list.
TestsActing(kind, field) ==
    IF kind = "process" THEN {}
    ELSE IF field = "TARGET_IMAGE_FILE_NAME" THEN {"PI"}
    ELSE Reads(kind, field)

\* The one whose presence it tests.  InspectProcess* always has the process
\* itself.  The case of the object list for TARGET_IMAGE_FILE_NAME tests
\* OB->PI and reads OB->TPI.
Tests(kind, field) ==
    IF kind = "process" THEN {}
    ELSE IF kind = "object" /\ field = "TARGET_IMAGE_FILE_NAME" THEN {"PI"}
    ELSE Reads(kind, field)

Present(e) == {p \in {"PI", "TPI"} : e[p]}
Missing(kind, field, e) == ~(Tests(kind, field) \subseteq Present(e))
Faults(kind, field, e) ==
    ~Missing(kind, field, e) /\ ~(Reads(kind, field) \subseteq Present(e))

Counts(kind, cfi, e, memory) ==
    LET field == cfi.field_type
        m == CHOOSE m \in DOMAIN Cases(kind) : field \in Cases(kind)[m]
        x == e.value[Attribute(kind, field)]
    IN  IF field \notin FieldsOf(kind) \/ Missing(kind, field, e) THEN 0 ELSE
        CASE field \in Ipv4Fields -> CheckIpv4(e, x, cfi.value)
          [] field \in Ipv6Fields -> CheckIpv6(x, cfi.value)
          [] field \in StringFields ->
                CheckUnicodeEntry(cfi.match_type, x, cfi.value, memory)
          [] OTHER -> CheckNumber(cfi.match_type, x, Member(cfi, m))

\* A bind request has no remote end, no ports and no protocol.
ConnectOnly == Ports \cup {"MM_NET_IP_PROTOCOL", "MM_NET_REMOTE_IPV4_ADDR",
                           "MM_NET_REMOTE_IPV6_ADDR"}

\* The values an attribute of an event can have.  The direction is the
\* packet's; without that metadata it stays 0.  Nothing assigns OB->Operation.
ValuesOf(a, c) ==
    LET unset == c.layer = "resource" /\ a \in ConnectOnly
    IN  CASE a = "MM_NET_DIRECTION" -> {Once(c.direction = "inbound")}
          [] a = "PHOPERATION" -> {0}
          [] a \in StringFields -> Strings \cup {NULL}
          [] a \in Ipv4Fields -> {v \in Ipv4Addresses : unset => Zeros(v)}
          [] a \in Ipv6Fields ->
                IF unset THEN {NULL} ELSE Ipv6Addresses \cup {NULL}
          [] OTHER -> IF unset THEN {0} ELSE Numbers

ItemsOf(r) == UNION {S!ToSet(g.items) : g \in S!ToSet(r.groups)}
Attributes(r) == {Attribute(r.kind, item.field) : item \in ItemsOf(r)}

\* What the rules of r are compared with: the attributes they look at.
AttributeValues(r, c) ==
    {v \in {s @@ a @@ n :
                s \in [Attributes(r) \cap StringFields -> Strings \cup {NULL}],
                a \in [Attributes(r) \cap IpFields
                            -> Ipv4Addresses \cup Ipv6Addresses \cup {NULL}],
                n \in [Attributes(r) \ (StringFields \cup IpFields)
                            -> Numbers]} :
        \A a \in Attributes(r) : v[a] \in ValuesOf(a, c)}

Contexts(kind) ==
    {c \in [PI : BOOLEAN, TPI : BOOLEAN, layer : {"connect", "resource"},
            direction : {"unknown", "inbound", "outbound"}] :
        /\ kind = "process" => c.PI
        /\ c.TPI => HasTarget(kind)
        /\ kind # "network" => c.layer = "connect"
        /\ kind # "network" \/ c.layer = "resource" => c.direction = "unknown"}

MatchInit ==
    /\ \E n \in DOMAIN Families : rules \in Families[n]
    /\ \A item \in ItemsOf(rules) : ~Refused(item)
    /\ \E c \in Contexts(rules.kind) : \E v \in AttributeValues(rules, c) :
        collected = [PI |-> c.PI, TPI |-> c.TPI, layer |-> c.layer,
                 direction |-> c.direction, value |-> v]
    /\ pc = "scan"
    /\ group = 1 /\ entry = 0
    /\ matches = 0
    /\ found = 0
    /\ missed = FALSE

Group == rules.groups[group]
InGroup == pc = "scan" /\ group <= Len(rules.groups)

\* One entry.  The loop is a do-while, and no group is empty.
CheckEntry(memory) ==
    /\ InGroup
    /\ entry < Len(Group.items)
    /\ LET cfi == makeNewItem(Group.items[entry + 1])
       IN  IF Faults(rules.kind, cfi.field_type, collected)
           THEN pc' = "fault" /\ UNCHANGED <<matches, missed>>
           ELSE /\ matches' = matches
                        + Counts(rules.kind, cfi, collected, memory)
                /\ missed' = (missed \/ (~memory /\
                                         cfi.field_type \in StringFields))
                /\ UNCHANGED pc
    /\ entry' = entry + 1
    /\ UNCHANGED <<rules, collected, group, found>>

GroupHit ==
    /\ InGroup
    /\ entry = Len(Group.items)
    /\ matches >= Len(Group.items)
    /\ pc' = "true"
    /\ found' = Group.id
    /\ UNCHANGED <<rules, collected, group, entry, matches, missed>>

GroupMiss ==
    /\ InGroup
    /\ entry = Len(Group.items)
    /\ matches < Len(Group.items)
    /\ group' = group + 1
    /\ entry' = 0
    /\ matches' = 0
    /\ UNCHANGED <<rules, collected, pc, found, missed>>

ListMiss ==
    /\ pc = "scan"
    /\ group > Len(rules.groups)
    /\ pc' = "false"
    /\ UNCHANGED <<rules, collected, group, entry, matches, found, missed>>

MatchNext ==
    \/ CheckEntry(TRUE)
    \/ MemoryFails /\ CheckEntry(FALSE)
    \/ GroupHit \/ GroupMiss \/ ListMiss

MatchSpec == MatchInit /\ [][MatchNext]_matchVars

-----------------------------------------------------------------------------
(* Properties.                                                             *)

\* Every variable stays in its type.
MatchTypeOK ==
    /\ rules.kind \in Kinds
    /\ pc \in {"scan", "true", "false", "fault"}
    /\ group \in 1..(Len(rules.groups) + 1)
    /\ entry \in Nat /\ matches \in Nat
    /\ found \in {0} \cup {g.id : g \in S!ToSet(rules.groups)}
    /\ missed \in BOOLEAN

NumberOps == {"and", "notand", "equals", "notequals", "greaterthan",
              "notgreaterthan", "greaterorequal", "lessthan", "notlessthan",
              "lessorequal"}
Positive == {"startswith", "endswith", "contains", "equals"}
Negative == {"notstartswith", "notendswith", "notcontains", "notequals"}

\* The table of operators in docs/Configuration.md, for a number, a string
\* and an address.
MeansNumber(op, x, v) ==
    CASE op = "and" -> HasBits(x, v)
      [] op = "notand" -> ~HasBits(x, v)
      [] op = "equals" -> x = v
      [] op = "notequals" -> x # v
      [] op = "greaterthan" -> x > v
      [] op = "notgreaterthan" -> ~(x > v)
      [] op = "greaterorequal" -> x >= v
      [] op = "lessthan" -> x < v
      [] op = "notlessthan" -> ~(x < v)
      [] op = "lessorequal" -> x <= v

\* v occurs in s from its k-th character.
OccursAt(v, s, k) ==
    /\ k \in 1..(Len(s) - Len(v) + 1)
    /\ \A n \in DOMAIN v : s[k + n - 1] = v[n]

Occurs(v, s) == \E k \in DOMAIN s : OccursAt(v, s, k)

MeansString(op, s, v) ==
    CASE op = "equals" -> s = v
      [] op = "notequals" -> s # v
      [] op = "startswith" -> OccursAt(v, s, 1)
      [] op = "notstartswith" -> ~OccursAt(v, s, 1)
      [] op = "endswith" -> OccursAt(v, s, Len(s) - Len(v) + 1)
      [] op = "notendswith" -> ~OccursAt(v, s, Len(s) - Len(v) + 1)
      [] op = "contains" -> Occurs(v, s)
      [] op = "notcontains" -> ~Occurs(v, s)

\* The first bits are the high bits of the first bytes.
SamePrefix(a, b, prefix) ==
    LET whole == prefix \div ByteBits
        left == prefix % ByteBits
        High(x) == x \div 2 ^ (ByteBits - left)
    IN  /\ \A k \in DOMAIN a : k <= whole => a[k] = b[k]
        /\ left > 0 => High(a[whole + 1]) = High(b[whole + 1])

\* The path a rule names is the one whose drive is written as the events of
\* the field write it, however long it is.
RootOf(field, d) ==
    IF field \in GlobalrootFields THEN GlobalRoot \o d ELSE DosDeviceMap[d]

AsInEvents(field, s) ==
    IF field \in GlobalrootFields \cup NtpathFields /\ HasDrive(s)
    THEN RootOf(field, DriveOf(s)) \o AfterDrive(s) ELSE s

\* Strings are compared without regard to case.
Means(item, e) ==
    LET x == e.value[Attribute(rules.kind, item.field)]
    IN  CASE item.field \in Ipv4Fields \cup Ipv6Fields ->
                (item.op = "equals")
                    <=> SamePrefix(x, item.value.addr, item.value.prefix)
          [] item.field \in StringFields ->
                MeansString(item.op, LowerOf(x),
                            LowerOf(AsInEvents(item.field, item.value)))
          [] OTHER -> MeansNumber(item.op, x, item.value)

\* The entries the code evaluates as the table says.  Left out: the event
\* lacks what the entry is about; notand, notlessthan and notgreaterthan; the
\* direction of a packet; addresses whose prefix ends inside a byte, that are
\* all zeros, or compared other than by equals; the address of an IPv4 bind
\* request; strings with characters outside ASCII; and, where the driver sees
\* the name of the device, a path on a drive that is not known or shorter than
\* that name (pkg/luna/parse.go:234), which the agent leaves as it is.
Regular(item, e) ==
    LET kind == rules.kind
        x == e.value[Attribute(kind, item.field)]
    IN  /\ item.field \in FieldsOf(kind)
        /\ ~Missing(kind, item.field, e)
        /\ x # NULL
        /\ CASE item.field \in Ipv4Fields ->
                    /\ item.op = "equals"
                    /\ item.value.prefix % ByteBits = 0
                    /\ ~Zeros(x)
                    /\ e.layer = "connect"
             [] item.field \in Ipv6Fields ->
                    item.op = "equals" /\ item.value.prefix % ByteBits = 0
             [] item.field \in StringFields ->
                    /\ item.op \in Positive \cup Negative
                    /\ Ascii(x) /\ Ascii(item.value)
                    /\ item.field \in NtpathFields /\ HasDrive(item.value) =>
                        /\ DriveOf(item.value) \in DOMAIN DosDeviceMap
                        /\ LongEnough(item.value)
             [] OTHER ->
                    /\ item.op \in NumberOps \
                            {"notand", "notlessthan", "notgreaterthan"}
                    /\ item.field # "MM_NET_DIRECTION"

AllHold(g, e) == \A item \in S!ToSet(g.items) : Means(item, e)

\* For rules of regular entries the loop ends as the documentation says: with
\* the first rule all of whose conditions hold, or with none.  This spans the
\* agent's translation of paths and its encoding, the member the loader fills,
\* the case and the operator.
MatchesDocs ==
    /\ ~missed
    /\ \A item \in ItemsOf(rules) : Regular(item, collected)
    => LET hits == {g \in DOMAIN rules.groups :
                        AllHold(rules.groups[g], collected)}
       IN  /\ pc = "true" => /\ group \in hits
                             /\ \A g \in hits : group <= g
                             /\ found = rules.groups[group].id
           /\ pc = "false" => hits = {}

\* The loop compares a count of matches with the number of entries, so an
\* entry that counted twice would make up for one that does not hold.  None
\* does, also where a case falls through into the next: the entries that
\* counted are some of those already checked.
CountedOnce == matches <= entry

\* Running out of memory can only hide a match of a rule without negative
\* operators, it never makes one up.
MissesOnly ==
    /\ missed /\ pc = "true"
    /\ \A item \in ItemsOf(rules) :
            item.op \notin Negative /\ Regular(item, collected)
    => AllHold(rules.groups[group], collected)

\* A rule is evaluated without touching a process description that the
\* callback did not find, except the image of the target of an object access.
FaultsOnlyInTarget ==
    pc = "fault" =>
        /\ rules.kind = "object"
        /\ rules.groups[group].items[entry].field = "TARGET_IMAGE_FILE_NAME"
        /\ collected.PI /\ ~collected.TPI

-----------------------------------------------------------------------------
(* The inductive invariant.                                                *)

\* The values the rules look at have the type of their field.
CollectedInv ==
    /\ collected.PI \in BOOLEAN /\ collected.TPI \in BOOLEAN
    /\ rules.kind = "process" => collected.PI
    /\ \A item \in ItemsOf(rules) :
        LET x == collected.value[Attribute(rules.kind, item.field)]
        IN  /\ ~Refused(item)
            /\ item.field \in StringFields => x \in Strings \cup {NULL}
            /\ item.field \in IpFields
                    => x \in AddressesOf(item.field) \cup {NULL}

\* Where the loop is.
PlaceInv ==
    /\ group <= Len(rules.groups) => entry \in 0..Len(Group.items)
    /\ pc \in {"true", "fault"} => group <= Len(rules.groups)
    /\ pc = "true" => /\ entry = Len(Group.items) /\ matches >= entry
                      /\ found = Group.id
    /\ pc = "false" => group = Len(rules.groups) + 1

AllRegular == \A item \in ItemsOf(rules) : Regular(item, collected)
NoNegative == \A item \in ItemsOf(rules) : item.op \notin Negative

\* All entries checked so far counted if and only if they hold; without
\* memory an entry that holds may not have counted.
CountInv ==
    AllRegular /\ pc # "fault" /\ group <= Len(rules.groups) =>
        LET hold == \A k \in 1..entry : Means(Group.items[k], collected)
        IN  /\ ~missed \/ NoNegative => (matches = entry => hold)
            /\ ~missed => (hold => matches = entry)

\* The rules before this one do not hold.
EarlierInv ==
    AllRegular /\ ~missed =>
        \A g \in 1..(group - 1) : ~AllHold(rules.groups[g], collected)

LoopInv ==
    /\ IsRuleList(rules)
    /\ MatchTypeOK /\ CollectedInv /\ PlaceInv /\ CountInv /\ EarlierInv
    /\ CountedOnce /\ FaultsOnlyInTarget

=============================================================================
