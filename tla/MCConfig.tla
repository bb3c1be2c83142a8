------------------------------- MODULE MCConfig -------------------------------
(* Config on two lists, two rules and a few files.                         *)
EXTENDS Config

CONSTANTS block, include, keep, process, c1, c2, untyped, invalid, b1, b2

BlockThenInclude == <<block, include>>
KeepThenProcess == <<keep, process>>

denied == {b1, b2}
pending == {b1}
none == {}

R(id, action, rules) == [id |-> id, action |-> action, rules |-> rules]
NoList == [l \in {} |-> <<>>]
Only(l, rules) == [m \in {l} |-> rules]
Both(bs, is) == [m \in {block, include} |-> IF m = block THEN bs ELSE is]
Plain(lists) == [on |-> {}, off |-> {}, lists |-> lists]

\* Two rules, the second without an action; the same rules changed and moved;
\* ids used twice; two files, the second of which turns a flag off and has
\* only one list; a field without a type; what the agent refuses.
Cases ==
    {<<Plain(Only(block, <<R(1, pending, <<c1, c2>>), R(2, none, <<c1>>)>>))>>,
     <<Plain(Both(<<R(2, denied, <<c2, c1>>)>>, <<R(1, none, <<c1>>)>>))>>,
     <<Plain(Both(<<R(1, denied, <<c1>>), R(1, pending, <<c2>>)>>,
                  <<R(2, none, <<c2>>), R(1, none, <<c1>>)>>))>>,
     <<[on |-> {keep}, off |-> {process},
        lists |-> Only(block, <<R(1, denied, <<c1>>)>>)],
       [on |-> {process}, off |-> {keep},
        lists |-> Only(include, <<R(2, none, <<c2>>)>>)]>>,
     <<Plain(Only(block, <<R(1, denied, <<untyped, c2>>), R(2, none, <<c1>>)>>))>>}

Refused ==
    {<<Plain(Only(block, <<R(1, denied, <<c1, invalid>>), R(2, none, <<c2>>)>>))>>,
     <<Plain(Both(<<R(0, none, <<c1>>)>>, <<R(2, none, <<c2>>)>>))>>,
     <<Plain(Only(block, <<R(2, none, <<c2>>), R(1, BadAction, <<c1>>)>>))>>}

AllCases == Cases \cup Refused
=============================================================================
