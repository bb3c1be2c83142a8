-------------------------- MODULE MCEventPipeline --------------------------
(* EventPipeline on small instances: the entries of two or three events,   *)
(* in every order that keeps the entries of one event in order.            *)
EXTENDS EventPipeline, TLC

CONSTANTS a, b, end

\* The driver's callbacks log concurrently, so events are interleaved.
Interleave(all) ==
    {s \in [1..Cardinality(all) -> all] :
        /\ \A i, j \in 1..Cardinality(all) : s[i] = s[j] => i = j
        /\ \A i, j \in 1..Cardinality(all) :
            /\ s[i].id = s[j].id
            /\ s[j].field = end \/ (s[i].field = a /\ s[j].field = b)
            => i <= j}

E(i, f) == [id |-> i, field |-> f]
TwoEvents == Interleave({E(1, a), E(1, b), E(1, end), E(2, a), E(2, b),
                         E(2, end)})
\* Three short events; the second is ended twice, as the image load callback
\* does.
InSequence ==
    {<<E(1, a), E(1, end), E(2, a), E(2, end), E(2, end), E(3, b),
       E(3, end)>>}

AllStreams == TwoEvents \cup InSequence
=============================================================================
