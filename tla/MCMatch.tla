------------------------------ MODULE MCMatch ------------------------------
(* Match on every field and operator of every kind of event, one condition  *)
(* at a time, and on lists of two rules of one or two conditions.           *)
EXTENDS Match

CONSTANT NumberValues

\* Two letters in both cases, and two characters outside ASCII whose bytes
\* hold the code of the first letter.
a == <<1, 0>>
A == <<3, 0>>
b == <<2, 0>>
wide == <<0, 1>>
colon == <<4, 0>>
slash == <<5, 0>>
MCChars == {a, A, b, wide, colon, slash}
MCLower == [c \in MCChars |-> IF c = A THEN a ELSE c]

\* Two drives, of which one is known.
MCLetters == {<<A, colon>>, <<b, colon>>}
Device == <<slash, b, b>>
MCDevices == <<A, colon>> :> Device
MCGlobalRoot == <<slash, slash>>

MCStrings ==
    {<<a>>, <<A, b>>, <<b, a>>, <<b, a, b>>, <<wide, wide>>,
     Device, Device \o <<A>>, MCGlobalRoot \o <<A, colon, a>>}
Patterns == {<<a>>, <<A, b>>, <<b, a>>, <<a, a>>}

MCAddresses == {<<0, 0>>, <<1, 2>>, <<2, 1>>, <<1, 3>>}
Prefixes ==
    {[addr |-> p, prefix |-> n] : p \in {<<1, 2>>, <<2, 1>>}, n \in 0..4}

Item(f, o, v) == [field |-> f, op |-> o, value |-> v]
One(kind, item) ==
    [kind |-> kind, groups |-> <<[id |-> 1, items |-> <<item>>]>>]

Delivered(kind) == FieldsOf(kind) \ Unsupported
Strs(kind) == Delivered(kind) \cap StringFields
Addrs(kind) == Delivered(kind) \cap (Ipv4Fields \cup Ipv6Fields)
Nums(kind) == Delivered(kind) \ (StringFields \cup Ipv4Fields \cup Ipv6Fields)

\* Every field of every kind of event, with few operators and values.
NumberItems(kind) ==
    {Item(f, o, 1) : f \in Nums(kind), o \in {"equals", "lessthan"}}
StringItems(kind) ==
    {Item(f, o, <<a>>) : f \in Strs(kind), o \in {"equals", "notcontains"}}
AddressItems(kind) ==
    {Item(f, o, v) : f \in Addrs(kind), o \in {"equals", "notequals"},
                     v \in Prefixes}
\* Every operator and value, on one field.
OperatorItems(kind) ==
    {Item("MM_NET_LOCAL_PORT", o, v) : o \in NumberOps, v \in NumberValues}
PatternItems(kind) ==
    {Item("COMMAND_LINE", o, v) : o \in Positive \cup Negative, v \in Patterns}

\* Every path field: a drive, paths that are long enough and too short to be
\* translated, on a drive that is known and on one that is not.
Paths == {<<a, colon>>, <<a, colon, a>>, <<A, colon, b>>, <<b, colon, a>>}
PathItems(kind) ==
    {Item(f, o, v) :
        f \in FieldsOf(kind) \cap (GlobalrootFields \cup NtpathFields),
        o \in {"equals", "startswith", "notendswith"}, v \in Paths}

\* A field of another kind of event, which has no case in the switch.
StrangeItems(kind) == {Item("LOADED_MODULE", o, <<a>>) : o \in Positive}

Single(kinds, items(_)) == UNION {{One(k, it) : it \in items(k)} : k \in kinds}

\* Two rules of one or two conditions on the operation and the name of a file.
Op(o, v) == Item("MM_FILE_OPERATION", o, v)
Name(o, v) == Item("MM_FILE_NAME", o, v)
Groups ==
    {<<Op("equals", 1)>>, <<Op("and", 1)>>, <<Op("notand", 1)>>}
PairGroups ==
    {<<Op(o, 1), Name(n, <<a>>)>> : o \in {"equals", "notand"},
                                    n \in {"contains", "notcontains"}}
    \cup {<<Op("notand", 2), Op("equals", 1)>>}
\* A tuple of sets that each hold values of one type only.
Lists(first, second) ==
    {[kind |-> "file_set", groups |-> <<[id |-> 1, items |-> g],
                                        [id |-> 2, items |-> h]>>] :
        g \in first, h \in second}

MCFamilies ==
    <<Single(Kinds, NumberItems), Single(Kinds, StringItems),
      Single(Kinds, AddressItems), Single({"network"}, OperatorItems),
      Single({"process"}, PatternItems), Single({"registry"}, StrangeItems),
      Single(Kinds, PathItems),
      Lists(Groups, Groups), Lists(PairGroups, Groups),
      Lists(Groups, PairGroups), Lists(PairGroups, PairGroups)>>
=============================================================================
