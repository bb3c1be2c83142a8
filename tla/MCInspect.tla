------------------------------ MODULE MCInspect ------------------------------
(* Inspect on small rule lists: up to two rules in each list, some of which *)
(* accept the same events, with and without actions.                        *)
EXTENDS Inspect

CONSTANTS f1, f2, u, v, fail, pending

\* Accepts any event with u in f1; a rule of two entries.
One == <<[field |-> f1, accept |-> {u}]>>
Two == <<[field |-> f1, accept |-> {u, v}], [field |-> f2, accept |-> {v}]>>

\* The lists of at most two of the given pairs of entries and action, with
\* ids counted from base.
ListsOf(base, templates) ==
    LET rule(i, t) == [id |-> base + i, entries |-> t[1], actions |-> t[2]]
    IN  {<<>>}
        \cup {<<rule(1, t)>> : t \in templates}
        \cup {<<rule(1, t[1]), rule(2, t[2])>> : t \in templates \X templates}

BlockLists ==
    ListsOf(10, {<<One, Zero>>, <<One, fail>>, <<Two, Zero>>, <<Two, pending>>})
IncludeLists == ListsOf(20, {<<One, Zero>>, <<Two, fail>>})
ExcludeLists == ListsOf(30, {<<One, Zero>>, <<Two, Zero>>})

Lengths(lists) == [l \in Lists |-> Len(lists[l])]

RuleLists(blocks) ==
    {[block |-> b, include |-> i, exclude |-> e] :
        b \in blocks, i \in IncludeLists, e \in ExcludeLists}

BlockingConfigs ==
    {[kind |-> k, lists |-> ls, counts |-> Lengths(ls),
      KEEP_EXCLUDES |-> keep] :
        k \in Blocking, ls \in RuleLists(BlockLists), keep \in BOOLEAN}

ReportingConfigs ==
    {[kind |-> k, lists |-> ls, counts |-> Lengths(ls),
      KEEP_EXCLUDES |-> keep] :
        k \in AllKinds \ (Blocking \cup {"thread"}),
        ls \in RuleLists({<<>>}), keep \in BOOLEAN}

\* Zero to three process termination rules of each kind.
ThreadConfigs ==
    {[kind |-> "thread", lists |-> ls,
      counts |-> [block |-> 0, include |-> i, exclude |-> e],
      KEEP_EXCLUDES |-> keep] :
        ls \in RuleLists({<<>>}), i \in 0..3, e \in 0..3, keep \in BOOLEAN}

AllConfigs == BlockingConfigs \cup ReportingConfigs \cup ThreadConfigs
=============================================================================
