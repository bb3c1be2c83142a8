---------------------------- MODULE LossyChannel ----------------------------
(***************************************************************************)
(* What the driver promises to those who log and to the agent that reads:  *)
(* one channel for each callback thread, first in first out, that may lose *)
(* entries.  There is no lock, no byte counter, no common list and no      *)
(* purge loop here; an entry is known by its thread and the number of the  *)
(* call that logged it, which also says which of two is the older one.     *)
(*                                                                         *)
(* The detailed queue is LogQueue, which states its refinement mapping.    *)
(***************************************************************************)
EXTENDS Naturals, Sequences

CONSTANTS
    Threads,    \* the threads that log
    MaxCalls    \* bound on the entries of one thread

VARIABLES
    sent,       \* entries each thread has logged
    channel,    \* those that are on their way
    delivered,  \* those the agent got of all threads, in order
    lost        \* those that are lost

vars == <<sent, channel, delivered, lost>>

Init ==
    /\ sent = [t \in Threads |-> 0]
    /\ channel = [t \in Threads |-> {}]
    /\ delivered = <<>>
    /\ lost = [t \in Threads |-> {}]

\* A thread logs its next entry.
Send(t) ==
    /\ sent[t] < MaxCalls
    /\ sent' = [sent EXCEPT ![t] = @ + 1]
    /\ channel' = [channel EXCEPT ![t] = @ \cup {sent[t] + 1}]
    /\ UNCHANGED <<delivered, lost>>

\* A thread's next entry is lost before it is in the channel.
SendLost(t) ==
    /\ sent[t] < MaxCalls
    /\ sent' = [sent EXCEPT ![t] = @ + 1]
    /\ lost' = [lost EXCEPT ![t] = @ \cup {sent[t] + 1}]
    /\ UNCHANGED <<channel, delivered>>

\* Any entry that is on its way is lost.
Lose(t) ==
    /\ \E n \in channel[t] :
        /\ channel' = [channel EXCEPT ![t] = @ \ {n}]
        /\ lost' = [lost EXCEPT ![t] = @ \cup {n}]
    /\ UNCHANGED <<sent, delivered>>

\* The agent gets the thread's oldest entry.
Deliver(t) ==
    /\ \E n \in channel[t] :
        /\ \A m \in channel[t] : n <= m
        /\ channel' = [channel EXCEPT ![t] = @ \ {n}]
        /\ delivered' = Append(delivered, <<t, n>>)
    /\ UNCHANGED <<sent, lost>>

Next == \E t \in Threads : Send(t) \/ SendLost(t) \/ Lose(t) \/ Deliver(t)

Spec == Init /\ [][Next]_vars
=============================================================================
