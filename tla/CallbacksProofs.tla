-------------------------- MODULE CallbacksProofs --------------------------
(***************************************************************************)
(* Proofs about Callbacks: for every set of rights, each of the nine       *)
(* callbacks gives back what it took, reads only what it holds, writes a   *)
(* well-formed event, logs its denials and never widens an access.         *)
(***************************************************************************)
EXTENDS Callbacks, TLAPS, SequenceTheorems

-----------------------------------------------------------------------------
(* The order of the steps.                                                 *)

Early == {"gate", "acting", "refer", "target", "names"}
Late == {"inspect", "header", "details", "end", "finally", "done"}

\* Which stages the kinds of callbacks go through, each once, and the gate
\* first.
LEMMA StagesFacts ==
    ASSUME NEW k \in Kinds
    PROVE  /\ Stages(k) \in Seq(Early) /\ Len(Stages(k)) \in 1..4
           /\ \A i, j \in 1..Len(Stages(k)) : Stages(k)[i] = Stages(k)[j] => i = j
           /\ \A i \in 1..Len(Stages(k)) :
                /\ Stages(k)[i] = "gate" =>
                    i = 1 /\ k \in {"thread", "object", "registry", "file_set"}
                /\ Stages(k)[i] = "refer" => k \in {"process_create", "thread", "image"}
                /\ Stages(k)[i] = "target" => k \in {"thread", "object"}
                /\ Stages(k)[i] = "names" =>
                    k \in {"image", "registry", "file_create", "file_set", "network"}
           /\ k \in {"thread", "object", "registry", "file_set"} => Stages(k)[1] = "gate"
<1>1. CASE k = "process_create"
    <2>1. /\ Stages(k) \in Seq(Early) /\ Len(Stages(k)) = 2
          /\ Stages(k)[1] = "acting" /\ Stages(k)[2] = "refer"
        BY <1>1 DEF Stages, Early
    <2>2. \A i \in 1..Len(Stages(k)) : i = 1 \/ i = 2
        BY <2>1
    <2> QED
        BY <1>1, <2>1, <2>2
<1>2. CASE k = "process_exit"
    <2>1. /\ Stages(k) \in Seq(Early) /\ Len(Stages(k)) = 1
          /\ Stages(k)[1] = "acting"
        BY <1>2 DEF Stages, Early
    <2>2. \A i \in 1..Len(Stages(k)) : i = 1
        BY <2>1
    <2> QED
        BY <1>2, <2>1, <2>2
<1>3. CASE k = "thread"
    <2>1. /\ Stages(k) \in Seq(Early) /\ Len(Stages(k)) = 4
          /\ Stages(k)[1] = "gate" /\ Stages(k)[2] = "refer"
          /\ Stages(k)[3] = "target" /\ Stages(k)[4] = "acting"
        BY <1>3 DEF Stages, Early
    <2>2. \A i \in 1..Len(Stages(k)) : i = 1 \/ i = 2 \/ i = 3 \/ i = 4
        BY <2>1
    <2> QED
        BY <1>3, <2>1, <2>2
<1>4. CASE k = "image"
    <2>1. /\ Stages(k) \in Seq(Early) /\ Len(Stages(k)) = 3
          /\ Stages(k)[1] = "names" /\ Stages(k)[2] = "refer"
          /\ Stages(k)[3] = "acting"
        BY <1>4 DEF Stages, Early
    <2>2. \A i \in 1..Len(Stages(k)) : i = 1 \/ i = 2 \/ i = 3
        BY <2>1
    <2> QED
        BY <1>4, <2>1, <2>2
<1>5. CASE k = "object"
    <2>1. /\ Stages(k) \in Seq(Early) /\ Len(Stages(k)) = 3
          /\ Stages(k)[1] = "gate" /\ Stages(k)[2] = "target"
          /\ Stages(k)[3] = "acting"
        BY <1>5 DEF Stages, Early
    <2>2. \A i \in 1..Len(Stages(k)) : i = 1 \/ i = 2 \/ i = 3
        BY <2>1
    <2> QED
        BY <1>5, <2>1, <2>2
<1>6. CASE k = "registry"
    <2>1. /\ Stages(k) \in Seq(Early) /\ Len(Stages(k)) = 3
          /\ Stages(k)[1] = "gate" /\ Stages(k)[2] = "acting"
          /\ Stages(k)[3] = "names"
        BY <1>6 DEF Stages, Early
    <2>2. \A i \in 1..Len(Stages(k)) : i = 1 \/ i = 2 \/ i = 3
        BY <2>1
    <2> QED
        BY <1>6, <2>1, <2>2
<1>7. CASE k = "file_create" \/ k = "network"
    <2>0. Stages(k) = <<"names", "acting">>
        BY <1>7 DEF Stages
    <2>1. /\ Stages(k) \in Seq(Early) /\ Len(Stages(k)) = 2
          /\ Stages(k)[1] = "names" /\ Stages(k)[2] = "acting"
        BY <2>0 DEF Early
    <2>2. \A i \in 1..Len(Stages(k)) : i = 1 \/ i = 2
        BY <2>1
    <2> QED
        BY <1>7, <2>1, <2>2
<1>8. CASE k = "file_set"
    <2>1. /\ Stages(k) \in Seq(Early) /\ Len(Stages(k)) = 3
          /\ Stages(k)[1] = "gate" /\ Stages(k)[2] = "names"
          /\ Stages(k)[3] = "acting"
        BY <1>8 DEF Stages, Early
    <2>2. \A i \in 1..Len(Stages(k)) : i = 1 \/ i = 2 \/ i = 3
        BY <2>1
    <2> QED
        BY <1>8, <2>1, <2>2
<1> QED
    BY <1>1, <1>2, <1>3, <1>4, <1>5, <1>6, <1>7, <1>8 DEF Kinds

\* What a callback can be called for.
LEMMA CallFacts ==
    ASSUME call \in Calls
    PROVE  /\ call.kind \in Kinds /\ call.class \in Classes(call.kind)
           /\ call.keep \in BOOLEAN /\ call.access \subseteq Rights
           /\ call.kind # "object" => call.client = "no"
<1>1. PICK k \in Kinds :
        call \in [kind : {k}, class : Classes(k), keep : BOOLEAN,
            resist : IF k = "object" THEN BOOLEAN ELSE {FALSE},
            client : IF k = "object" THEN {"no", "user", "kernel"} ELSE {"no"},
            access : IF k = "object" THEN SUBSET Rights ELSE {{}}]
    BY DEF Calls
<1>2. call.kind = k /\ call.class \in Classes(k) /\ call.keep \in BOOLEAN
      /\ call.client \in (IF k = "object" THEN {"no", "user", "kernel"} ELSE {"no"})
      /\ call.access \in (IF k = "object" THEN SUBSET Rights ELSE {{}})
    BY <1>1
<1> QED
    BY <1>2

\* The place of the callback's own stages in Steps, and of the common ones.
LEMMA StepsFacts ==
    ASSUME call \in Calls
    PROVE  LET own == Stages(call.kind)  k == Len(own) IN
           /\ Steps \in Seq(Early \cup Late) /\ Len(Steps) = k + 6 /\ k \in 1..4
           /\ \A i \in 1..k : Steps[i] = own[i] /\ own[i] \in Early
           /\ Steps[k + 1] = "inspect" /\ Steps[k + 2] = "header"
           /\ Steps[k + 3] = "details" /\ Steps[k + 4] = "end"
           /\ Steps[k + 5] = "finally" /\ Steps[k + 6] = "done"
           /\ \A i, j \in 1..(k + 6) : Steps[i] = Steps[j] => i = j
<1> DEFINE own == Stages(call.kind)
           k == Len(own)
           tail == <<"inspect", "header", "details", "end", "finally", "done">>
<1>1. own \in Seq(Early) /\ k \in 1..4 /\ \A i, j \in 1..k : own[i] = own[j] => i = j
    BY CallFacts, StagesFacts
<1>2. /\ tail \in Seq(Late) /\ Len(tail) = 6
      /\ tail[1] = "inspect" /\ tail[2] = "header" /\ tail[3] = "details"
      /\ tail[4] = "end" /\ tail[5] = "finally" /\ tail[6] = "done"
    BY DEF Late
<1>3. Steps = own \o tail
    BY DEF Steps
<1> HIDE DEF own, tail
<1>4. \A i \in 1..k : own[i] \in Early
    BY <1>1
<1>5. own \in Seq(Early \cup Late) /\ tail \in Seq(Early \cup Late)
    BY <1>1, <1>2
<1>6. /\ own \o tail \in Seq(Early \cup Late) /\ Len(own \o tail) = k + 6
      /\ \A i \in 1..k : (own \o tail)[i] = own[i]
      /\ \A i \in 1..6 : (own \o tail)[k + i] = tail[i]
    <2> DEFINE S == Early \cup Late
    <2> HIDE DEF S
    <2>0. own \in Seq(S) /\ tail \in Seq(S)
        BY <1>5 DEF S
    <2>1. /\ own \o tail \in Seq(S) /\ Len(own \o tail) = Len(own) + Len(tail)
          /\ \A i \in 1..(Len(own) + Len(tail)) :
                (own \o tail)[i] = IF i <= Len(own) THEN own[i] ELSE tail[i - Len(own)]
        BY <2>0, ConcatProperties, Zenon
    <2>2. /\ own \o tail \in Seq(Early \cup Late) /\ Len(own \o tail) = k + 6
          /\ \A i \in 1..(k + 6) :
                (own \o tail)[i] = IF i <= k THEN own[i] ELSE tail[i - k]
        BY <1>2, <2>1 DEF S
    <2>3. \A i \in 1..k : i \in 1..(k + 6) /\ i <= k
        BY <1>1
    <2>4. \A i \in 1..6 : k + i \in 1..(k + 6) /\ ~(k + i <= k) /\ (k + i) - k = i
        BY <1>1
    <2> QED
        BY <2>2, <2>3, <2>4
<1>7. /\ Steps[k + 1] = "inspect" /\ Steps[k + 2] = "header"
      /\ Steps[k + 3] = "details" /\ Steps[k + 4] = "end"
      /\ Steps[k + 5] = "finally" /\ Steps[k + 6] = "done"
    BY <1>2, <1>3, <1>6
<1>8. \A i \in 1..(k + 6) : i \in 1..k \/ i = k + 1 \/ i = k + 2 \/ i = k + 3
                            \/ i = k + 4 \/ i = k + 5 \/ i = k + 6
    BY <1>1
<1>9. \A i \in 1..k : Steps[i] = own[i] /\ Steps[i] \notin Late
    BY <1>3, <1>4, <1>6 DEF Early, Late
<1>10. \A i, j \in 1..(k + 6) : Steps[i] = Steps[j] => i = j
    <2>1. \A i, j \in 1..k : Steps[i] = Steps[j] => i = j
        BY <1>1, <1>9
    <2>2. \A i \in 1..(k + 6) : i \notin 1..k => Steps[i] \in Late
        BY <1>7, <1>8 DEF Late
    <2>3. \A i \in 1..k, j \in 1..(k + 6) :
            j \notin 1..k => Steps[i] # Steps[j]
        BY <1>9, <2>2
    <2>4. \A i, j \in 1..(k + 6) :
            i \notin 1..k /\ j \notin 1..k /\ Steps[i] = Steps[j] => i = j
        <3> DEFINE n == <<"inspect", "header", "details", "end", "finally",
                          "done">>
        <3>1. \A i \in 1..(k + 6) : i \notin 1..k =>
                \E m \in 1..6 : i = k + m /\ Steps[i] = n[m]
            BY <1>1, <1>7, <1>8
        <3>2. \A m, o \in 1..6 : n[m] = n[o] => m = o
            OBVIOUS
        <3> HIDE DEF n
        <3> QED
            BY <3>1, <3>2
    <2> QED
        BY <2>1, <2>3, <2>4
<1> QED
    BY <1>1, <1>3, <1>4, <1>6, <1>7, <1>9, <1>10 DEF own

\* A callback has a place in its order, and at a stage it comes to it.
LEMMA PlaceOf ==
    ASSUME call \in Calls, PcInv, pc \notin {"asleep", "bugcheck"}
    PROVE  /\ \E n \in 1..Len(Steps) : pc = Steps[n]
           /\ Ahead(pc)
<1>1. PICK n \in 1..Len(Steps) : pc = Steps[n]
    BY DEF PcInv
<1>2. n <= n
    BY StepsFacts
<1> QED
    BY <1>1, <1>2 DEF Ahead

\* The kinds of callbacks that have a stage.
LEMMA KindsAt ==
    ASSUME call \in Calls, PcInv
    PROVE  /\ pc = "gate" => Is({"thread", "object", "registry", "file_set"})
           /\ pc = "refer" => Is({"process_create", "thread", "image"})
           /\ pc = "target" => Is({"thread", "object"})
           /\ pc = "names" =>
                Is({"image", "registry", "file_create", "file_set", "network"})
<1> SUFFICES ASSUME pc \in {"gate", "refer", "target", "names"}
             PROVE  /\ pc = "gate" => Is({"thread", "object", "registry", "file_set"})
                    /\ pc = "refer" => Is({"process_create", "thread", "image"})
                    /\ pc = "target" => Is({"thread", "object"})
                    /\ pc = "names" => Is({"image", "registry", "file_create",
                                           "file_set", "network"})
    OBVIOUS
<1> DEFINE own == Stages(call.kind)
           k == Len(own)
<1>1. PICK n \in 1..Len(Steps) : pc = Steps[n]
    BY PlaceOf
<1>2. n \in 1..k \/ n = k + 1 \/ n = k + 2 \/ n = k + 3 \/ n = k + 4 \/ n = k + 5
      \/ n = k + 6
    BY StepsFacts
<1>3. n \in 1..k /\ pc = own[n]
    BY <1>1, <1>2, StepsFacts
<1>4. call.kind \in Kinds
    BY CallFacts
<1> QED
    BY <1>3, <1>4, StagesFacts DEF Is

\* The next stage, and what is ahead then.
LEMMA Moves ==
    ASSUME call \in Calls, call' = call, PcInv, Running, Advance
    PROVE  /\ pc' \in {Steps[n] : n \in 1..Len(Steps)} /\ pc' # "gate"
           /\ pc \in Early => pc' \in Early \cup {"inspect"}
           /\ pc = "inspect" => pc' = "header"
           /\ pc = "header" => pc' = "details"
           /\ pc = "details" => pc' = "end"
           /\ pc = "end" => pc' = "finally"
           /\ pc = "finally" => pc' = "done"
           /\ \A s : Ahead(s)' => Ahead(s) /\ s # pc
<1> DEFINE own == Stages(call.kind)
           k == Len(own)
<1>1. PICK i \in 1..Len(Steps) : pc = Steps[i]
    BY PlaceOf DEF Running
<1>2. /\ Len(Steps) = k + 6 /\ k \in 1..4
      /\ \A m \in 1..k : Steps[m] \in Early
      /\ Steps[k + 1] = "inspect" /\ Steps[k + 2] = "header"
      /\ Steps[k + 3] = "details" /\ Steps[k + 4] = "end"
      /\ Steps[k + 5] = "finally" /\ Steps[k + 6] = "done"
      /\ \A m, n \in 1..(k + 6) : Steps[m] = Steps[n] => m = n
    BY StepsFacts
<1>3. \A m \in 1..k : Steps[m] = "gate" => m = 1
    BY StepsFacts, StagesFacts, CallFacts
<1>4. Steps' = Steps
    BY DEF Steps
<1> HIDE DEF k
<1>5. (CHOOSE n \in 1..Len(Steps) : Steps[n] = pc) = i
    BY <1>1, <1>2
<1>6. pc' = Steps[1 + i]
    BY <1>5 DEF Advance
<1>7. i # k + 6
    BY <1>1, <1>2 DEF Running
<1>8. 1 + i \in 1..(k + 6) /\ i \in 1..(k + 6)
    BY <1>2, <1>7
<1>9. pc' # "gate"
    <2>1. 1 + i \in 1..k \/ 1 + i = k + 1 \/ 1 + i = k + 2 \/ 1 + i = k + 3
          \/ 1 + i = k + 4 \/ 1 + i = k + 5 \/ 1 + i = k + 6
        BY <1>2, <1>8
    <2>2. 1 + i # 1
        BY <1>8
    <2> QED
        BY <1>2, <1>3, <1>6, <2>1, <2>2
<1>10. pc \in Early => pc' \in Early \cup {"inspect"}
    <2> SUFFICES ASSUME pc \in Early
                 PROVE  pc' \in Early \cup {"inspect"}
        OBVIOUS
    <2>1. i \in 1..k \/ i = k + 1 \/ i = k + 2 \/ i = k + 3 \/ i = k + 4 \/ i = k + 5
          \/ i = k + 6
        BY <1>2, <1>8
    <2>2. i \in 1..k
        BY <1>1, <1>2, <2>1 DEF Early
    <2>3. 1 + i \in 1..k \/ 1 + i = k + 1
        BY <1>2, <2>2
    <2> QED
        BY <1>2, <1>6, <2>3
<1>11. /\ pc = "inspect" => 1 + i = k + 2
       /\ pc = "header" => 1 + i = k + 3
       /\ pc = "details" => 1 + i = k + 4
       /\ pc = "end" => 1 + i = k + 5
       /\ pc = "finally" => 1 + i = k + 6
    <2>1. \A j \in 1..6 : k + j \in 1..(k + 6) /\ (i = k + j => 1 + i = k + (j + 1))
        BY <1>2
    <2>2. /\ pc = "inspect" => i = k + 1
          /\ pc = "header" => i = k + 2
          /\ pc = "details" => i = k + 3
          /\ pc = "end" => i = k + 4
          /\ pc = "finally" => i = k + 5
        BY <1>1, <1>2, <1>8, <2>1
    <2> QED
        BY <1>2, <2>2
<1>12. ASSUME NEW s, Ahead(s)'
       PROVE  Ahead(s) /\ s # pc
    <2>1. PICK m, n \in 1..Len(Steps) : m <= n /\ Steps[m] = pc' /\ Steps[n] = s
        BY <1>4, <1>12 DEF Ahead
    <2>2. m = 1 + i
        BY <1>2, <1>6, <1>8, <2>1
    <2>3. i <= n /\ i # n
        BY <1>8, <2>1, <2>2, <1>2
    <2> QED
        BY <1>1, <1>2, <2>1, <2>3 DEF Ahead
<1> QED
    BY <1>2, <1>6, <1>8, <1>9, <1>10, <1>11, <1>12

\* What is ahead after a jump to the inspection or to the finally block.
LEMMA Jumps ==
    ASSUME call \in Calls, call' = call, pc' \in {"inspect", "finally", "done"}
    PROVE  /\ pc' \in {Steps[n] : n \in 1..Len(Steps)}
           /\ \A s \in Early : ~Ahead(s)'
<1> DEFINE own == Stages(call.kind)
           k == Len(own)
<1>1. /\ Len(Steps) = k + 6 /\ k \in 1..4
      /\ Steps[k + 1] = "inspect" /\ Steps[k + 2] = "header"
      /\ Steps[k + 3] = "details" /\ Steps[k + 4] = "end"
      /\ Steps[k + 5] = "finally" /\ Steps[k + 6] = "done"
      /\ \A m, n \in 1..(k + 6) : Steps[m] = Steps[n] => m = n
    BY StepsFacts
<1>2. Steps' = Steps
    BY DEF Steps
<1> HIDE DEF k
<1>3. \A j \in 1..6 : k + j \in 1..(k + 6)
    BY <1>1
<1>4. ASSUME NEW s \in Early, Ahead(s)'
      PROVE  FALSE
    <2>1. PICK m, n \in 1..Len(Steps) : m <= n /\ Steps[m] = pc' /\ Steps[n] = s
        BY <1>2, <1>4 DEF Ahead
    <2>2. m = k + 1 \/ m = k + 5 \/ m = k + 6
        BY <1>1, <1>3, <2>1
    <2>3. n = k + 1 \/ n = k + 2 \/ n = k + 3 \/ n = k + 4 \/ n = k + 5 \/ n = k + 6
        BY <1>1, <2>1, <2>2
    <2> QED
        BY <1>1, <2>1, <2>3 DEF Early
<1> QED
    BY <1>1, <1>3, <1>4

\* In the common stages none of a callback's own is ahead.
LEMMA PastEarly ==
    ASSUME call \in Calls, pc \in Late, NEW s \in Early
    PROVE  ~Ahead(s)
<1> DEFINE own == Stages(call.kind)
           k == Len(own)
<1>1. /\ Len(Steps) = k + 6 /\ k \in 1..4
      /\ \A i \in 1..k : Steps[i] \in Early
      /\ Steps[k + 1] = "inspect" /\ Steps[k + 2] = "header"
      /\ Steps[k + 3] = "details" /\ Steps[k + 4] = "end"
      /\ Steps[k + 5] = "finally" /\ Steps[k + 6] = "done"
    BY StepsFacts
<1> HIDE DEF k
<1>2. SUFFICES ASSUME NEW m \in 1..Len(Steps), NEW n \in 1..Len(Steps), m <= n,
                      Steps[m] = pc, Steps[n] = s
               PROVE  FALSE
    BY DEF Ahead
<1>3. m \notin 1..k
    BY <1>1, <1>2 DEF Early, Late
<1>4. n = k + 1 \/ n = k + 2 \/ n = k + 3 \/ n = k + 4 \/ n = k + 5 \/ n = k + 6
    BY <1>1, <1>2, <1>3
<1> QED
    BY <1>1, <1>2, <1>4 DEF Early

-----------------------------------------------------------------------------
(* Steps and stages.                                                       *)

LEMMA FlowKept ==
    ASSUME [Next]_vars
    PROVE  call' = call /\ mode' = mode
<1>1. CASE Before \/ Processes
    BY <1>1 DEF Before, Ignore, NapTime, Pass, Processes, PinActing, PinTarget,
       Unprobed, processInfoInit, Refer, ReferFails, AddNewProcess, flow
<1>2. CASE Names
    BY <1>2 DEF Names, ImageName, FileName, NetValues, KeyName, KeyNameFaults,
       QueryName, QueryFails, CallerName, flow
<1>3. CASE Reports \/ Finally \/ Fault \/ UNCHANGED vars
    BY <1>3 DEF Reports, InspectEvent, Skip, Header, Detail, End, Finally, Fault,
       flow, vars
<1> QED
    BY <1>1, <1>2, <1>3 DEF Next

\* How a step leaves a stage.
LEMMA Leaves ==
    ASSUME call \in Calls, PcInv, [Next]_vars
    PROVE  \/ pc' = pc
           \/ Running /\ Advance
           \/ Running /\ pc' \in {"inspect", "finally", "done", "bugcheck"}
           \/ Running /\ pc' = "asleep" /\ Is({"object"})
<1>1. CASE Before
    BY <1>1 DEF Before, Ignore, NapTime, Pass, Running, At, Naps, Defends
<1>2. CASE Processes
    BY <1>2 DEF Processes, PinActing, PinTarget,
       Unprobed, processInfoInit, Refer, ReferFails, AddNewProcess, Running, At
<1>3. CASE Names
    BY <1>3 DEF Names, ImageName, FileName, NetValues, KeyName, KeyNameFaults,
       QueryName, QueryFails, CallerName, Running, At
<1>4. CASE Reports \/ UNCHANGED vars
    BY <1>4 DEF Reports, InspectEvent, Skip, Header, Detail, End, Running, At, vars
<1>5. CASE Finally \/ Fault
    BY <1>5 DEF Finally, Fault, Running, At
<1> QED
    BY <1>1, <1>2, <1>3, <1>4, <1>5 DEF Next

LEMMA PcStep ==
    ASSUME call \in Calls, PcInv, [Next]_vars
    PROVE  PcInv'
<1>1. call' = call /\ Steps' = Steps
    BY FlowKept DEF Steps
<1>2. CASE pc' = pc
    BY <1>1, <1>2 DEF PcInv, Is
<1>3. CASE Running /\ Advance
    BY <1>1, <1>3, Moves, StepsFacts DEF PcInv, Early, Late
<1>4. CASE Running /\ pc' \in {"inspect", "finally", "done", "bugcheck"}
    BY <1>1, <1>4, Jumps DEF PcInv
<1>5. CASE Running /\ pc' = "asleep" /\ Is({"object"})
    BY <1>1, <1>5 DEF PcInv, Is
<1> QED
    BY <1>2, <1>3, <1>4, <1>5, Leaves

\* A stage that is ahead after a step was ahead before, and is not the one
\* that was left.
LEMMA AheadBack ==
    ASSUME call \in Calls, PcInv, [Next]_vars, Running', NEW s \in Early, Ahead(s)'
    PROVE  Running /\ Ahead(s) /\ (pc' # pc => s # pc)
<1>1. call' = call /\ Steps' = Steps
    BY FlowKept DEF Steps
<1>2. CASE pc' = pc
    BY <1>1, <1>2 DEF Ahead, Running
<1>3. CASE Running /\ Advance
    BY <1>1, <1>3, Moves
<1>4. CASE Running /\ pc' \in {"inspect", "finally", "done", "bugcheck"}
    BY <1>1, <1>4, Jumps DEF Running
<1>5. CASE pc' = "asleep"
    BY <1>5 DEF Running
<1> QED
    BY <1>2, <1>3, <1>4, <1>5, Leaves

-----------------------------------------------------------------------------
(* What is taken and found.                                                *)

\* What a step takes is held once more.
LEMMA TakeEffect ==
    ASSUME held \in [Resources -> Int], NEW rs, Take(rs)
    PROVE  /\ held' = [r \in Resources |-> held'[r]]
           /\ \A r \in Resources : held'[r] = IF r \in rs THEN held[r] + 1 ELSE held[r]
BY DEF Take

\* Two finds of one step.
FoundTwice(fs, r, gs, q) == backing' = With(With(backing, fs, r), gs, q)

\* What is found is in the resource, and the rest where it was.
LEMMA FoundTwiceFacts ==
    ASSUME NEW fs, NEW r, NEW gs, NEW q, FoundTwice(fs, r, gs, q)
    PROVE  /\ DOMAIN backing' = gs \cup (fs \cup DOMAIN backing)
           /\ \A f \in gs : backing'[f] = q
           /\ \A f \in fs \ gs : backing'[f] = r
           /\ \A f \in (DOMAIN backing \ fs) \ gs : backing'[f] = backing[f]
<1> DEFINE c == With(backing, fs, r)
<1>1. /\ DOMAIN c = fs \cup DOMAIN backing
      /\ \A f \in fs : c[f] = r
      /\ \A f \in DOMAIN backing \ fs : c[f] = backing[f]
    BY DEF With
<1>2. backing' = With(c, gs, q)
    BY DEF FoundTwice
<1> HIDE DEF c
<1>3. backing' = [f \in gs \cup DOMAIN c |-> IF f \in gs THEN q ELSE c[f]]
    BY <1>2 DEF With
<1>4. /\ DOMAIN backing' = gs \cup DOMAIN c
      /\ \A f \in gs : backing'[f] = q
      /\ \A f \in DOMAIN c \ gs : backing'[f] = c[f]
    BY <1>3
<1> QED
    BY <1>1, <1>4

LEMMA FoundFacts ==
    ASSUME NEW fs, NEW r, Found(fs, r)
    PROVE  /\ DOMAIN backing' = fs \cup DOMAIN backing
           /\ \A f \in fs : backing'[f] = r
           /\ \A f \in DOMAIN backing \ fs : backing'[f] = backing[f]
<1>1. backing' = [f \in fs \cup DOMAIN backing |->
                    IF f \in fs THEN r ELSE backing[f]]
    BY DEF Found, With
<1> QED
    BY <1>1

\* A stage that is left is not ahead any more.
LEMMA Left ==
    ASSUME call \in Calls, PcInv, [Next]_vars, Running,
           Advance \/ pc' \in {"inspect", "finally", "done"},
           NEW s \in Early, pc = s
    PROVE  ~Ahead(s)'
BY FlowKept, Moves, Jumps

LEMMA RunningBack ==
    ASSUME call \in Calls, PcInv, [Next]_vars, Running'
    PROVE  Running
BY Leaves DEF Running

\* The three ends of processInfoInit.
LEMMA InfoInit ==
    ASSUME processInfoInit
    PROVE  \E d \in {"PI", "TPI"}, ref \in {{}, {"ref"}} :
            /\ d = IF pc = "target" THEN "TPI" ELSE "PI"
            /\ ref = IF pc = "target" /\ Is({"object"}) THEN {"ref"} ELSE {}
            /\ \/ /\ found' = found \cup {d} /\ failed' = failed
                  /\ Found({d}, d) /\ Take({d} \cup ref)
               \/ /\ found' = found /\ failed' = failed
                  /\ Is({"process_create"}) /\ Found({d}, d) /\ Take({d})
               \/ /\ found' = found /\ failed' = failed
                  /\ ~Is({"process_create"}) /\ backing' = backing /\ Take(ref)
               \/ /\ found' = found /\ failed' = failed \cup {"probe"}
                  /\ Found({d}, d) /\ Take({d} \cup ref)
BY DEF processInfoInit, At

\* What the lookup of the SID and the new slot leave held.
LEMMA AddEffect ==
    ASSUME held \in [Resources -> Int], AddNewProcess
    PROVE  /\ held' \in [Resources -> Int]
           /\ held'["PI"] \in {0, held["PI"]}
           /\ held'["SID"] \in {0, held["SID"], held["SID"] + 1}
           /\ held'["SUBJECT"] \in {held["SUBJECT"], held["SUBJECT"] + 1}
           /\ held'["ref"] = held["ref"] + 1
           /\ \A r \in Resources \ {"PI", "SID", "SUBJECT", "ref"} : held'[r] = held[r]
           /\ backing' = backing \/ Found({"PI"}, "slot")
<1>1. PICK took \in SUBSET {"SUBJECT", "SID"}, copied \in {{}, {"PI"}, {"PI", "SID"}} :
        /\ held' = [r \in Resources |->
                     IF r \in copied THEN 0
                     ELSE held[r] + (IF r \in {"ref"} \cup took THEN 1 ELSE 0)]
        /\ backing' = backing \/ Found({"PI"}, "slot")
    BY DEF AddNewProcess
<1>2. \A r \in Resources : held'[r] =
        IF r \in copied THEN 0 ELSE IF r \in {"ref"} \cup took THEN held[r] + 1 ELSE held[r]
    BY <1>1
<1>3. held' \in [Resources -> Int]
    BY <1>1, <1>2
<1> QED
    BY <1>1, <1>2, <1>3 DEF Resources

LEMMA UntakenStep ==
    ASSUME call \in Calls, PcInv, Untaken, [Next]_vars
    PROVE  Untaken'
<1>0. call' = call
    BY FlowKept
<1>1. SUFFICES ASSUME Running'
               PROVE  Untaken'
    BY DEF Untaken
<1>2. Running /\ \A s \in Early : Ahead(s)' => Ahead(s)
    BY <1>1, AheadBack, RunningBack
<1>3. /\ Ahead("acting")' => Ahead("acting")
      /\ Ahead("target")' => Ahead("target")
      /\ Ahead("refer")' => Ahead("refer")
      /\ Ahead("names")' => Ahead("names")
    BY <1>2 DEF Early
<1>4. held \in [Resources -> 0..1] /\ held \in [Resources -> Int]
    BY <1>2 DEF Untaken
<1>5. ASSUME held' = held, found' = found,
             ~Ahead("names")' \/ DOMAIN backing' \cap {"REG_KEY", "LOADED_MODULE"} = {}
      PROVE  Untaken'
    BY <1>0, <1>2, <1>3, <1>5 DEF Untaken, Is
<1>6. ASSUME DOMAIN backing' = DOMAIN backing
      PROVE  ~Ahead("names")' \/ DOMAIN backing' \cap {"REG_KEY", "LOADED_MODULE"} = {}
    BY <1>2, <1>3, <1>6 DEF Untaken
<1>7. ASSUME PinActing
      PROVE  Untaken'
    <2>1. pc = "acting" /\ Ahead("acting") /\ ~Ahead("acting")'
        BY <1>2, <1>7, PlaceOf, Left DEF PinActing, At, Early
    <2>2. /\ held' = [r \in Resources |-> held'[r]]
          /\ \A r \in Resources : held'[r] = IF r = "pin" THEN held[r] + 1 ELSE held[r]
        BY <1>4, <1>7, TakeEffect DEF PinActing
    <2>3. /\ found' \subseteq found \cup {"PI"}
          /\ DOMAIN backing' \subseteq DOMAIN backing \cup {"PI"}
        <3>1. CASE found' = found \cup {"PI"} /\ Found({"PI"}, "pin")
            <4>1. DOMAIN backing' = {"PI"} \cup DOMAIN backing
                BY <3>1, FoundFacts
            <4> QED
                BY <3>1, <4>1
        <3>2. CASE UNCHANGED event
            BY <3>2 DEF event
        <3> QED
            BY <1>7, <3>1, <3>2 DEF PinActing
    <2>4. held["pin"] = 0 /\ "pin" \in Resources
        BY <1>2, <2>1 DEF Untaken, Resources
    <2>5. held' \in [Resources -> 0..1]
        BY <1>4, <2>2, <2>4
    <2>6. \A r \in Resources \ {"pin"} : held'[r] = held[r]
        BY <2>2
    <2> QED
        BY <1>0, <1>2, <1>3, <2>1, <2>3, <2>5, <2>6 DEF Untaken, Is, Resources
<1>8. ASSUME PinTarget
      PROVE  Untaken'
    <2>1. pc = "target" /\ Ahead("target") /\ ~Ahead("target")' /\ Is({"thread", "object"})
        BY <1>2, <1>8, PlaceOf, Left, KindsAt DEF PinTarget, At, Early
    <2>2. /\ held' = [r \in Resources |-> held'[r]]
          /\ \A r \in Resources : held'[r] = IF r = "tpin" THEN held[r] + 1 ELSE held[r]
        BY <1>4, <1>8, TakeEffect DEF PinTarget
    <2>3. /\ found' = found \cup {"TPI"}
          /\ DOMAIN backing' = DOMAIN backing \cup {"TPI"}
        BY <1>8, FoundFacts DEF PinTarget
    <2>4. held["tpin"] = 0 /\ "tpin" \in Resources
        BY <1>2, <2>1 DEF Untaken, Resources
    <2>5. held' \in [Resources -> 0..1]
        BY <1>4, <2>2, <2>4
    <2>6. \A r \in Resources \ {"tpin"} : held'[r] = held[r]
        BY <2>2
    <2> QED
        BY <1>0, <1>2, <1>3, <2>1, <2>3, <2>5, <2>6 DEF Untaken, Is, Resources
<1>9. ASSUME processInfoInit, pc = "target"
      PROVE  Untaken'
    <2>1. Ahead("target") /\ ~Ahead("target")' /\ Is({"thread", "object"})
        BY <1>2, <1>9, PlaceOf, Left, KindsAt DEF processInfoInit, Early
    <2>2. PICK rs \in {{"TPI"}, {}, {"TPI", "ref"}, {"ref"}} :
            /\ Take(rs) /\ ("ref" \in rs => Is({"object"}))
            /\ found' \subseteq found \cup {"TPI"}
            /\ DOMAIN backing' \subseteq DOMAIN backing \cup {"TPI"}
        <3>1. Found({"TPI"}, "TPI") => DOMAIN backing' = {"TPI"} \cup DOMAIN backing
            BY FoundFacts
        <3>2. PICK ref \in {{}, {"ref"}} :
                /\ ref = IF Is({"object"}) THEN {"ref"} ELSE {}
                /\ found' = found \cup {"TPI"} \/ found' = found
                /\ Take({"TPI"} \cup ref) \/ Take({"TPI"}) \/ Take(ref)
                /\ backing' = backing \/ Found({"TPI"}, "TPI")
            BY <1>9, InfoInit
        <3>3. {"TPI"} \cup ref \in {{"TPI"}, {"TPI", "ref"}} /\ ref \in {{}, {"ref"}}
            BY <3>2
        <3>4. "ref" \in ref => Is({"object"})
            BY <3>2
        <3> QED
            BY <3>1, <3>2, <3>3, <3>4
    <2>3. /\ held' = [r \in Resources |-> held'[r]]
          /\ \A r \in Resources : held'[r] = IF r \in rs THEN held[r] + 1 ELSE held[r]
        BY <1>4, <2>2, TakeEffect
    <2>4. held["TPI"] = 0 /\ ("ref" \in rs => held["ref"] = 0)
        BY <1>2, <2>1, <2>2 DEF Untaken
    <2>5. held' \in [Resources -> 0..1]
        <3> SUFFICES ASSUME NEW r \in Resources PROVE held'[r] \in 0..1
            BY <2>3
        <3>1. held[r] \in 0..1
            BY <1>4
        <3>2. r \in rs => held[r] = 0
            BY <2>2, <2>4
        <3> QED
            BY <2>3, <3>1, <3>2
    <2>6. \A r \in Resources \ {"TPI", "ref"} : held'[r] = held[r]
        BY <2>2, <2>3
    <2>7. ~Is({"object"}) => held'["ref"] = held["ref"]
        BY <2>2, <2>3 DEF Resources
    <2> QED
        BY <1>0, <1>2, <1>3, <2>1, <2>2, <2>5, <2>6, <2>7 DEF Untaken, Is, Resources
<1>10. ASSUME processInfoInit, pc # "target"
       PROVE  Untaken'
    <2>1. pc = "acting" /\ Ahead("acting") /\ ~Ahead("acting")'
        BY <1>2, <1>10, PlaceOf, Left DEF processInfoInit, Early, At
    <2>2. PICK rs \in {{"PI"}, {}} :
            /\ Take(rs)
            /\ found' \subseteq found \cup {"PI"}
            /\ DOMAIN backing' \subseteq DOMAIN backing \cup {"PI"}
        <3>1. Found({"PI"}, "PI") => DOMAIN backing' = {"PI"} \cup DOMAIN backing
            BY FoundFacts
        <3> QED
            BY <1>10, <3>1, InfoInit
    <2>3. /\ held' = [r \in Resources |-> held'[r]]
          /\ \A r \in Resources : held'[r] = IF r \in rs THEN held[r] + 1 ELSE held[r]
        BY <1>4, <2>2, TakeEffect
    <2>4. held["PI"] = 0
        BY <1>2, <2>1 DEF Untaken
    <2>5. held' \in [Resources -> 0..1]
        BY <1>4, <2>2, <2>3, <2>4
    <2>6. \A r \in Resources \ {"PI"} : held'[r] = held[r]
        BY <2>2, <2>3
    <2> QED
        BY <1>0, <1>2, <1>3, <2>1, <2>2, <2>5, <2>6 DEF Untaken, Is, Resources
<1>11. ASSUME Refer
       PROVE  Untaken'
    <2>1. pc = "refer" /\ Ahead("refer") /\ ~Ahead("refer")' /\ Is({"thread", "image"})
        BY <1>2, <1>11, PlaceOf, Left, KindsAt DEF Refer, At, Early, Is
    <2>2. /\ held' = [r \in Resources |-> held'[r]]
          /\ \A r \in Resources : held'[r] = IF r = "ref" THEN held[r] + 1 ELSE held[r]
        BY <1>4, <1>11, TakeEffect DEF Refer
    <2>3. found' = found /\ backing' = backing
        BY <1>11 DEF Refer, event
    <2>4. held["ref"] = 0
        BY <1>2, <2>1 DEF Untaken, Is
    <2>5. held' \in [Resources -> 0..1]
        BY <1>4, <2>2, <2>4
    <2>6. \A r \in Resources \ {"ref"} : held'[r] = held[r]
        BY <2>2
    <2> QED
        BY <1>0, <1>2, <1>3, <2>1, <2>3, <2>5, <2>6 DEF Untaken, Is, Resources
<1>12. ASSUME AddNewProcess
       PROVE  Untaken'
    <2>1. pc = "refer" /\ Ahead("refer") /\ ~Ahead("refer")' /\ Is({"process_create"})
        BY <1>2, <1>12, PlaceOf, Left DEF AddNewProcess, At, Early
    <2>2. found' = found /\ DOMAIN backing' \subseteq DOMAIN backing \cup {"PI"}
        <3>1. Found({"PI"}, "slot") => DOMAIN backing' = {"PI"} \cup DOMAIN backing
            BY FoundFacts
        <3> QED
            BY <1>4, <1>12, <3>1, AddEffect DEF AddNewProcess
    <2>3. held["ref"] = 0 /\ held["SID"] = 0 /\ held["SUBJECT"] = 0
        BY <1>2, <2>1 DEF Untaken, Is
    <2>4. held' \in [Resources -> 0..1]
        <3> SUFFICES ASSUME NEW r \in Resources PROVE held'[r] \in 0..1
            BY <1>4, <1>12, AddEffect
        <3> QED
            BY <1>4, <1>12, <2>3, AddEffect
    <2>5. \A r \in Resources \ {"PI", "SID", "SUBJECT", "ref"} : held'[r] = held[r]
        BY <1>4, <1>12, AddEffect
    <2>6. held'["PI"] \in {0, held["PI"]}
        BY <1>4, <1>12, AddEffect
    <2> QED
        BY <1>0, <1>2, <1>3, <2>1, <2>2, <2>4, <2>5, <2>6 DEF Untaken, Is, Resources
<1>13. ASSUME NEW rs \in SUBSET {"OBINFO", "IMAGE", "KEY", "OBJECT", "FILE"},
              Take(rs), found' = found, pc = "names",
              \/ rs \subseteq {"OBINFO", "IMAGE"} /\ Is({"image"})
              \/ rs \subseteq {"KEY", "OBJECT", "FILE"} /\ Is({"registry"}),
              Advance \/ pc' = "finally"
       PROVE  Untaken'
    <2>1. Ahead("names") /\ ~Ahead("names")'
        BY <1>2, <1>13, PlaceOf, Left DEF Early
    <2>2. /\ held' = [r \in Resources |-> held'[r]]
          /\ \A r \in Resources : held'[r] = IF r \in rs THEN held[r] + 1 ELSE held[r]
        BY <1>4, <1>13, TakeEffect
    <2>3. \A r \in rs : held[r] = 0
        BY <1>2, <1>13, <2>1 DEF Untaken
    <2>4. held' \in [Resources -> 0..1]
        BY <1>4, <2>2, <2>3
    <2>5. \A r \in Resources \ {"OBINFO", "IMAGE", "KEY", "OBJECT", "FILE"} : held'[r] = held[r]
        BY <1>13, <2>2
    <2>6. Is({"image"}) => \A r \in {"KEY", "OBJECT", "FILE"} : held'[r] = held[r]
        BY <1>13, <2>2 DEF Resources, Is
    <2>7. Is({"registry"}) => \A r \in {"OBINFO", "IMAGE"} : held'[r] = held[r]
        BY <1>13, <2>2 DEF Resources, Is
    <2> QED
        BY <1>0, <1>2, <1>3, <1>13, <2>1, <2>4, <2>5, <2>6, <2>7 DEF Untaken, Is, Resources
<1>14. ASSUME held' = held, found' = found, pc = "names", Advance \/ pc' = "finally"
       PROVE  Untaken'
    <2>1. ~Ahead("names")'
        BY <1>2, <1>14, Left DEF Early
    <2> QED
        BY <1>5, <1>14, <2>1
<1>15. CASE Pass
    <2>1. held' = held /\ found' = found /\ Advance /\ pc = "gate"
        BY <1>15 DEF Pass, At
    <2>2. SetFields \cap {"REG_KEY", "LOADED_MODULE"} = {} \/ ~Is({"file_set"})
        BY <1>15 DEF Pass, SetFields, Class, SetLogged, Dependent, Renaming
    <2>3. \/ DOMAIN backing' \subseteq DOMAIN backing \cup SetFields /\ Is({"file_set"})
          \/ backing' = backing
        BY <1>15, FoundFacts DEF Pass
    <2>4. ~Ahead("names")' \/ DOMAIN backing' \cap {"REG_KEY", "LOADED_MODULE"} = {}
        BY <1>2, <1>3, <2>2, <2>3 DEF Untaken
    <2> QED
        BY <1>5, <2>1, <2>4
<1>16. CASE ImageName
    <2>1. pc = "names" /\ Is({"image"}) /\ Advance /\ found' = found
        BY <1>16 DEF ImageName, At
    <2>2. held' = held \/ Take({"OBINFO"}) \/ Take({"IMAGE"})
        BY <1>16 DEF ImageName
    <2>3. CASE held' = held
        BY <1>14, <2>1, <2>3
    <2>4. CASE Take({"OBINFO"})
        BY <1>13, <2>1, <2>4
    <2>5. CASE Take({"IMAGE"})
        BY <1>13, <2>1, <2>5
    <2> QED
        BY <2>2, <2>3, <2>4, <2>5
<1>17. CASE FileName \/ NetValues \/ CallerName
    <2>1. pc = "names" /\ Advance /\ found' = found /\ held' = held
        BY <1>17 DEF FileName, NetValues, CallerName, At
    <2> QED
        BY <1>14, <2>1
<1>18. CASE KeyName \/ KeyNameFaults
    <2>1. pc = "names" /\ found' = found /\ Is({"registry"})
          /\ (Advance \/ pc' = "finally")
        BY <1>18 DEF KeyName, KeyNameFaults, At
    <2>2. held' = held \/ Take({"KEY"})
        BY <1>18 DEF KeyName, KeyNameFaults
    <2> QED
        BY <1>13, <1>14, <2>1, <2>2
<1>19. CASE QueryName \/ QueryFails
    <2>1. pc = "names" /\ found' = found /\ Is({"registry"})
          /\ (Advance \/ pc' = "finally")
        BY <1>19 DEF QueryName, QueryFails, At, event
    <2>2. \E rs \in SUBSET {"OBJECT", "FILE"} : Take(rs)
        <3>1. Buffers \subseteq {"OBJECT", "FILE"}
            BY DEF Buffers
        <3>2. CASE QueryName
            BY <3>1, <3>2 DEF QueryName
        <3>3. CASE QueryFails
            BY <3>1, <3>3 DEF QueryFails
        <3> QED
            BY <1>19, <3>2, <3>3
    <2> QED
        BY <1>13, <2>1, <2>2
<1>20. CASE Ignore \/ NapTime \/ Unprobed \/ ReferFails \/ Reports \/ Fault
            \/ UNCHANGED vars
    <2>1. held' = held /\ found' = found /\ backing' = backing
        BY <1>20 DEF Ignore, NapTime, Unprobed, ReferFails, Reports, InspectEvent,
           Skip, Header, Detail, End, Fault, event, vars
    <2> QED
        BY <1>5, <1>6, <2>1
<1>21. ASSUME Finally
       PROVE  FALSE
    <2>1. pc' = "done"
        BY <1>0, <1>2, <1>21, Moves DEF Finally, At
    <2> QED
        BY <1>1, <2>1 DEF Running
<1>22. CASE Before
    BY <1>15, <1>20, <1>22 DEF Before
<1>23. CASE Processes
    BY <1>7, <1>8, <1>9, <1>10, <1>11, <1>12, <1>20, <1>23 DEF Processes
<1>24. CASE Names
    BY <1>16, <1>17, <1>18, <1>19, <1>24 DEF Names
<1> QED
    BY <1>20, <1>21, <1>22, <1>23, <1>24 DEF Next

\* Steps that do not touch what Owned is about.
LEMMA OwnedQuiet ==
    ASSUME Owned, Running, call' = call, Ahead("names")' => Ahead("names"),
           found' = found,
           \A r \in {"pin", "PI", "tpin", "TPI", "OBINFO", "IMAGE", "KEY"} :
                held'[r] = held[r],
           \A f \in {"probe", "memory", "value"} : f \in failed' <=> f \in failed,
           \A f \in {"REG_KEY", "LOADED_MODULE"} :
                f \in DOMAIN backing' <=> f \in DOMAIN backing,
           Is({"process_create"}) => DOMAIN backing' \subseteq DOMAIN backing \cup {"PI"}
    PROVE  Owned'
BY DEF Owned, Is, Class

\* The finally block will give back what was taken.
LEMMA OwnedStep ==
    ASSUME call \in Calls, PcInv, Untaken, Owned, [Next]_vars
    PROVE  Owned'
<1>0. call' = call
    BY FlowKept
<1>1. SUFFICES ASSUME Running'
               PROVE  Owned'
    BY DEF Owned
<1>2. Running /\ (Ahead("names")' => Ahead("names"))
    BY <1>1, AheadBack, RunningBack DEF Early
<1>3. held \in [Resources -> 0..1] /\ held \in [Resources -> Int]
    BY <1>2 DEF Untaken
<1>4. CASE Ignore \/ NapTime \/ Unprobed \/ ReferFails \/ Reports \/ Fault
           \/ UNCHANGED vars
    <2>1. held' = held /\ found' = found /\ backing' = backing
          /\ failed' \in {failed, failed \cup {"fault"}}
        BY <1>4 DEF Ignore, NapTime, Unprobed, ReferFails, Reports, InspectEvent,
           Skip, Header, Detail, End, Fault, event, vars
    <2> QED
        BY <1>0, <1>2, <2>1, OwnedQuiet
<1>5. CASE Pass
    <2>1. held' = held /\ found' = found /\ failed' = failed /\ pc = "gate"
        BY <1>5 DEF Pass, At
    <2>2. SetFields \cap {"REG_KEY", "LOADED_MODULE"} = {} \/ ~Is({"file_set"})
        BY <1>5 DEF Pass, SetFields, Class, SetLogged, Dependent, Renaming
    <2>3. \/ DOMAIN backing' = DOMAIN backing \cup SetFields /\ Is({"file_set"})
          \/ backing' = backing
        BY <1>5, FoundFacts DEF Pass
    <2>4. \A f \in {"REG_KEY", "LOADED_MODULE"} :
                f \in DOMAIN backing' <=> f \in DOMAIN backing
        BY <2>2, <2>3
    <2>5. ~Is({"process_create"})
        BY <2>1, KindsAt DEF Is
    <2> QED
        BY <1>0, <1>2, <2>1, <2>4, <2>5, OwnedQuiet
<1>6. CASE FileName \/ NetValues
    <2>1. held' = held /\ found' = found /\ failed' = failed
          /\ Is({"file_create", "file_set", "network"})
        BY <1>6 DEF FileName, NetValues, Is
    <2>2. /\ NetFields \cap {"REG_KEY", "LOADED_MODULE"} = {}
          /\ FileParts \cap {"REG_KEY", "LOADED_MODULE"} = {}
        BY DEF NetFields, FileParts
    <2>3. PICK fs, r : Found(fs, r) /\ fs \cap {"REG_KEY", "LOADED_MODULE"} = {}
        <3>1. CASE FileName
            <4>1. Found(FileParts, "NAME") \/ Found({"MM_FILE_NAME"}, "caller")
                BY <3>1 DEF FileName
            <4>2. {"MM_FILE_NAME"} \cap {"REG_KEY", "LOADED_MODULE"} = {}
                OBVIOUS
            <4> QED
                BY <2>2, <4>1, <4>2
        <3>2. CASE NetValues
            BY <2>2, <3>2 DEF NetValues
        <3> QED
            BY <1>6, <3>1, <3>2
    <2>4. DOMAIN backing' = fs \cup DOMAIN backing
        BY <2>3, FoundFacts
    <2>5. \A f \in {"REG_KEY", "LOADED_MODULE"} :
                f \in DOMAIN backing' <=> f \in DOMAIN backing
        BY <2>3, <2>4
    <2>6. ~Is({"process_create"})
        BY <2>1 DEF Is
    <2> QED
        BY <1>0, <1>2, <2>1, <2>5, <2>6, OwnedQuiet
<1>7. CASE PinActing
    <2>1. pc = "acting" /\ Ahead("acting") /\ ~Is({"process_create"}) /\ failed' = failed
        BY <1>2, <1>7, PlaceOf DEF PinActing, At
    <2>2. \A r \in Resources : held'[r] = IF r = "pin" THEN held[r] + 1 ELSE held[r]
        BY <1>3, <1>7, TakeEffect DEF PinActing
    <2>3. /\ found' \in {found, found \cup {"PI"}}
          /\ DOMAIN backing' \in {DOMAIN backing, {"PI"} \cup DOMAIN backing}
        <3>1. CASE found' = found \cup {"PI"} /\ Found({"PI"}, "pin")
            BY <3>1, FoundFacts
        <3>2. CASE UNCHANGED event
            BY <3>2 DEF event
        <3> QED
            BY <1>7, <3>1, <3>2 DEF PinActing
    <2>4. held["pin"] = 0 /\ held["PI"] = 0
        BY <1>2, <2>1 DEF Untaken
    <2>5. held'["pin"] = 1 /\ held'["PI"] = 0
          /\ \A r \in {"tpin", "TPI", "OBINFO", "IMAGE", "KEY"} : held'[r] = held[r]
        BY <2>2, <2>4 DEF Resources
    <2> QED
        BY <1>0, <1>2, <2>1, <2>3, <2>5 DEF Owned, Is, Class
<1>8. CASE PinTarget
    <2>1. pc = "target" /\ Ahead("target") /\ Is({"thread", "object"}) /\ failed' = failed
        BY <1>2, <1>8, PlaceOf, KindsAt DEF PinTarget, At
    <2>2. \A r \in Resources : held'[r] = IF r = "tpin" THEN held[r] + 1 ELSE held[r]
        BY <1>3, <1>8, TakeEffect DEF PinTarget
    <2>3. /\ found' = found \cup {"TPI"}
          /\ DOMAIN backing' = {"TPI"} \cup DOMAIN backing
        BY <1>8, FoundFacts DEF PinTarget
    <2>4. held["tpin"] = 0 /\ held["TPI"] = 0
        BY <1>2, <2>1 DEF Untaken
    <2>5. held'["tpin"] = 1 /\ held'["TPI"] = 0
          /\ \A r \in {"pin", "PI", "OBINFO", "IMAGE", "KEY"} : held'[r] = held[r]
        BY <2>2, <2>4 DEF Resources
    <2> QED
        BY <1>0, <1>2, <2>1, <2>3, <2>5 DEF Owned, Is, Class
<1>9. CASE processInfoInit /\ pc = "target"
    <2>1. Ahead("target") /\ Is({"thread", "object"}) /\ ~Is({"process_create"})
        BY <1>2, <1>9, PlaceOf, KindsAt DEF Is
    <2>2. PICK ref \in {{}, {"ref"}} :
            \/ /\ found' = found \cup {"TPI"} /\ failed' = failed
               /\ Found({"TPI"}, "TPI") /\ Take({"TPI"} \cup ref)
            \/ /\ found' = found /\ failed' = failed /\ backing' = backing /\ Take(ref)
            \/ /\ found' = found /\ failed' = failed \cup {"probe"}
               /\ Found({"TPI"}, "TPI") /\ Take({"TPI"} \cup ref)
        BY <1>9, <2>1, InfoInit
    <2>3. DOMAIN backing' \in {DOMAIN backing, {"TPI"} \cup DOMAIN backing}
        BY <2>2, FoundFacts
    <2>4. held["tpin"] = 0 /\ held["TPI"] = 0 /\ "TPI" \notin found
        BY <1>2, <2>1 DEF Untaken
    <2>5. ASSUME NEW rs \in {ref, {"TPI"} \cup ref}, Take(rs)
          PROVE  /\ \A r \in {"pin", "PI", "tpin", "OBINFO", "IMAGE", "KEY"} : held'[r] = held[r]
                 /\ held'["TPI"] = IF "TPI" \in rs THEN 1 ELSE 0
        <3>1. \A r \in Resources : held'[r] = IF r \in rs THEN held[r] + 1 ELSE held[r]
            BY <1>3, <2>5, TakeEffect
        <3>2. \A r \in {"pin", "PI", "tpin", "OBINFO", "IMAGE", "KEY"} :
                r \in Resources /\ r \notin rs
            BY DEF Resources
        <3> QED
            BY <2>4, <3>1, <3>2 DEF Resources
    <2>6. CASE found' = found \cup {"TPI"} /\ failed' = failed /\ Take({"TPI"} \cup ref)
        <3>1. /\ \A r \in {"pin", "PI", "tpin", "OBINFO", "IMAGE", "KEY"} : held'[r] = held[r]
              /\ held'["TPI"] = 1
            BY <2>5, <2>6
        <3> QED
            BY <1>0, <1>2, <2>1, <2>3, <2>4, <2>6, <3>1 DEF Owned, Is, Class
    <2>7. CASE found' = found /\ failed' = failed /\ Take(ref)
        <3>1. /\ \A r \in {"pin", "PI", "tpin", "OBINFO", "IMAGE", "KEY"} : held'[r] = held[r]
              /\ held'["TPI"] = 0
            BY <2>2, <2>5, <2>7
        <3> QED
            BY <1>0, <1>2, <2>1, <2>3, <2>4, <2>7, <3>1 DEF Owned, Is, Class
    <2>8. CASE found' = found /\ failed' = failed \cup {"probe"} /\ Take({"TPI"} \cup ref)
        <3>1. \A r \in {"pin", "PI", "tpin", "OBINFO", "IMAGE", "KEY"} : held'[r] = held[r]
            BY <2>5, <2>8
        <3> QED
            BY <1>0, <1>2, <2>1, <2>3, <2>4, <2>8, <3>1 DEF Owned, Is, Class
    <2> QED
        BY <2>2, <2>6, <2>7, <2>8
<1>10. CASE processInfoInit /\ pc # "target"
    <2>1. pc = "acting" /\ Ahead("acting")
          /\ Is({"process_create", "thread", "image", "object"})
        BY <1>2, <1>10, PlaceOf DEF processInfoInit, At, Probes
    <2>2. \/ /\ found' = found \cup {"PI"} /\ failed' = failed
             /\ Found({"PI"}, "PI") /\ Take({"PI"})
          \/ /\ found' = found /\ failed' = failed
             /\ Is({"process_create"}) /\ Found({"PI"}, "PI") /\ Take({"PI"})
          \/ /\ found' = found /\ failed' = failed
             /\ ~Is({"process_create"}) /\ backing' = backing /\ Take({})
          \/ /\ found' = found /\ failed' = failed \cup {"probe"}
             /\ Found({"PI"}, "PI") /\ Take({"PI"})
        <3>1. {"PI"} \cup {} = {"PI"}
            OBVIOUS
        <3> QED
            BY <1>10, <3>1, InfoInit
    <2>3. DOMAIN backing' \in {DOMAIN backing, {"PI"} \cup DOMAIN backing}
        BY <2>2, FoundFacts
    <2>4. held["pin"] = 0 /\ held["PI"] = 0 /\ "PI" \notin found
        BY <1>2, <2>1 DEF Untaken
    <2>5. ASSUME NEW rs \in {{}, {"PI"}}, Take(rs)
          PROVE  /\ \A r \in {"pin", "tpin", "TPI", "OBINFO", "IMAGE", "KEY"} : held'[r] = held[r]
                 /\ held'["PI"] = IF "PI" \in rs THEN 1 ELSE 0
        <3>1. \A r \in Resources : held'[r] = IF r \in rs THEN held[r] + 1 ELSE held[r]
            BY <1>3, <2>5, TakeEffect
        <3>2. \A r \in {"pin", "tpin", "TPI", "OBINFO", "IMAGE", "KEY"} :
                r \in Resources /\ r \notin rs
            BY DEF Resources
        <3> QED
            BY <2>4, <3>1, <3>2 DEF Resources
    <2>6. CASE found' = found \cup {"PI"} /\ failed' = failed /\ Take({"PI"})
        <3>1. /\ \A r \in {"pin", "tpin", "TPI", "OBINFO", "IMAGE", "KEY"} : held'[r] = held[r]
              /\ held'["PI"] = 1
            BY <2>5, <2>6
        <3> QED
            BY <1>0, <1>2, <2>1, <2>3, <2>4, <2>6, <3>1 DEF Owned, Is, Class
    <2>7. CASE found' = found /\ failed' = failed /\ Is({"process_create"}) /\ Take({"PI"})
        <3>1. \A r \in {"pin", "tpin", "TPI", "OBINFO", "IMAGE", "KEY"} : held'[r] = held[r]
            BY <2>5, <2>7
        <3> QED
            BY <1>0, <1>2, <2>1, <2>3, <2>4, <2>7, <3>1 DEF Owned, Is, Class
    <2>8. CASE found' = found /\ failed' = failed /\ backing' = backing /\ Take({})
        <3>1. /\ \A r \in {"pin", "tpin", "TPI", "OBINFO", "IMAGE", "KEY"} : held'[r] = held[r]
              /\ held'["PI"] = held["PI"]
            BY <2>4, <2>5, <2>8
        <3> QED
            BY <1>0, <1>2, <2>8, <3>1, OwnedQuiet
    <2>9. CASE found' = found /\ failed' = failed \cup {"probe"} /\ Take({"PI"})
        <3>1. \A r \in {"pin", "tpin", "TPI", "OBINFO", "IMAGE", "KEY"} : held'[r] = held[r]
            BY <2>5, <2>9
        <3> QED
            BY <1>0, <1>2, <2>1, <2>3, <2>4, <2>9, <3>1 DEF Owned, Is, Class
    <2> QED
        BY <2>2, <2>6, <2>7, <2>8, <2>9
<1>11. CASE Refer
    <2>1. found' = found /\ failed' = failed /\ backing' = backing
        BY <1>11 DEF Refer, event
    <2>2. \A r \in Resources : held'[r] = IF r = "ref" THEN held[r] + 1 ELSE held[r]
        BY <1>3, <1>11, TakeEffect DEF Refer
    <2>3. \A r \in {"pin", "PI", "tpin", "TPI", "OBINFO", "IMAGE", "KEY"} : held'[r] = held[r]
        BY <2>2 DEF Resources
    <2> QED
        BY <1>0, <1>2, <2>1, <2>3, OwnedQuiet
<1>12. CASE AddNewProcess
    <2>1. found' = found /\ failed' = failed /\ Is({"process_create"})
        BY <1>12 DEF AddNewProcess
    <2>2. DOMAIN backing' \subseteq DOMAIN backing \cup {"PI"}
        <3>1. Found({"PI"}, "slot") => DOMAIN backing' = {"PI"} \cup DOMAIN backing
            BY FoundFacts
        <3> QED
            BY <1>3, <1>12, <3>1, AddEffect
    <2>3. \A r \in {"pin", "tpin", "TPI", "OBINFO", "IMAGE", "KEY"} : held'[r] = held[r]
        BY <1>3, <1>12, AddEffect DEF Resources
    <2> QED
        BY <1>0, <1>2, <2>1, <2>2, <2>3 DEF Owned, Is, Class
<1>13. CASE ImageName
    <2>1. pc = "names" /\ Ahead("names") /\ Is({"image"}) /\ ~Is({"process_create"})
          /\ found' = found
        BY <1>2, <1>13, PlaceOf DEF ImageName, At, Is
    <2>2. ~Ahead("names")'
        BY <1>2, <2>1, <1>13, Left DEF Early, ImageName
    <2>3. /\ held["OBINFO"] = 0 /\ held["IMAGE"] = 0
          /\ "LOADED_MODULE" \notin DOMAIN backing /\ "memory" \notin failed
        BY <1>2, <2>1 DEF Untaken, Owned
    <2>4. CASE held' = held /\ backing' = backing
               /\ failed' \in {failed \cup {"memory"}, failed \cup {"no name"}}
        BY <1>0, <1>2, <2>1, <2>2, <2>3, <2>4 DEF Owned, Is, Class
    <2>5. ASSUME NEW r \in {"OBINFO", "IMAGE"}, Take({r}), Found({"LOADED_MODULE"}, r),
                 failed' = failed
          PROVE  Owned'
        <3>1. \A q \in Resources : held'[q] = IF q = r THEN held[q] + 1 ELSE held[q]
            BY <1>3, <2>5, TakeEffect
        <3>2. \A q \in {"pin", "PI", "tpin", "TPI", "KEY"} : held'[q] = held[q]
            BY <3>1 DEF Resources
        <3>3. held'["OBINFO"] = 1 - held'["IMAGE"]
            BY <2>3, <3>1 DEF Resources
        <3>4. DOMAIN backing' = {"LOADED_MODULE"} \cup DOMAIN backing
            BY <2>5, FoundFacts
        <3> QED
            BY <1>0, <1>2, <2>1, <2>2, <2>3, <2>5, <3>2, <3>3, <3>4 DEF Owned, Is, Class
    <2> QED
        BY <1>13, <2>4, <2>5 DEF ImageName
<1>14. CASE KeyName
    <2>1. pc = "names" /\ Ahead("names") /\ Is({"registry"}) /\ Class(KeyNamed)
          /\ found' = found /\ failed' = failed /\ ~Is({"process_create"})
        BY <1>2, <1>14, PlaceOf DEF KeyName, At, Is
    <2>2. ~Ahead("names")'
        BY <1>2, <2>1, <1>14, Left DEF Early, KeyName
    <2>3. held["KEY"] = 0 /\ DOMAIN backing \cap {"REG_KEY", "LOADED_MODULE"} = {}
        BY <1>2, <2>1 DEF Untaken
    <2>4. CASE held' = held /\ backing' = backing
        BY <1>0, <1>2, <2>1, <2>4, OwnedQuiet
    <2>5. ASSUME Take({"KEY"}), NEW value \in SUBSET {"REG_VALUE_NAME"},
                 backing' = With(With(backing, value, "caller"), {"REG_KEY"}, "KEY")
          PROVE  Owned'
        <3>1. \A q \in Resources : held'[q] = IF q = "KEY" THEN held[q] + 1 ELSE held[q]
            BY <1>3, <2>5, TakeEffect
        <3>2. \A q \in {"pin", "PI", "tpin", "TPI", "OBINFO", "IMAGE"} : held'[q] = held[q]
            BY <3>1 DEF Resources
        <3>3. held'["KEY"] = 1
            BY <2>3, <3>1 DEF Resources
        <3>4. DOMAIN backing' = {"REG_KEY"} \cup (value \cup DOMAIN backing)
            <4>1. FoundTwice(value, "caller", {"REG_KEY"}, "KEY")
                BY <2>5 DEF FoundTwice
            <4> QED
                BY <4>1, FoundTwiceFacts
        <3>5. "REG_KEY" \in DOMAIN backing' /\ "LOADED_MODULE" \notin DOMAIN backing'
            BY <2>3, <3>4
        <3> QED
            BY <1>0, <1>2, <2>1, <2>2, <2>3, <3>2, <3>3, <3>5 DEF Owned, Is, Class
    <2>6. \/ held' = held /\ backing' = backing
          \/ \E value \in SUBSET {"REG_VALUE_NAME"} :
                /\ Take({"KEY"})
                /\ backing' = With(With(backing, value, "caller"), {"REG_KEY"}, "KEY")
        BY <1>14 DEF KeyName
    <2> QED
        BY <2>4, <2>5, <2>6
<1>15. CASE KeyNameFaults
    <2>1. pc = "names" /\ Ahead("names") /\ Is({"registry"}) /\ ~Is({"process_create"})
          /\ found' = found /\ held' = held /\ failed' = failed \cup {"value"}
        BY <1>2, <1>15, PlaceOf DEF KeyNameFaults, At, Is
    <2>2. ~Ahead("names")'
        BY <1>2, <2>1, <1>15, Left DEF Early, KeyNameFaults
    <2>3. DOMAIN backing' = {"REG_KEY"} \cup DOMAIN backing
        BY <1>15, FoundFacts DEF KeyNameFaults
    <2> QED
        BY <1>0, <1>2, <2>1, <2>2, <2>3 DEF Owned, Is, Class
<1>16. CASE QueryName \/ QueryFails
    <2>1. pc = "names" /\ Ahead("names") /\ Is({"registry"}) /\ Class(ObjectNamed)
          /\ found' = found /\ failed' = failed
        BY <1>2, <1>16, PlaceOf DEF QueryName, QueryFails, At, event
    <2>2. ~Is({"process_create"}) /\ ~Class(KeyNamed)
        BY <2>1 DEF Is, Class, ObjectNamed, KeyNamed
    <2>3. \E rs \in SUBSET {"OBJECT", "FILE"} : Take(rs)
        BY <1>16 DEF QueryName, QueryFails, Buffers
    <2>4. \A q \in {"pin", "PI", "tpin", "TPI", "OBINFO", "IMAGE", "KEY"} : held'[q] = held[q]
        <3>1. PICK rs \in SUBSET {"OBJECT", "FILE"} : Take(rs)
            BY <2>3
        <3>2. \A q \in Resources : held'[q] = IF q \in rs THEN held[q] + 1 ELSE held[q]
            BY <1>3, <3>1, TakeEffect
        <3> QED
            BY <3>2 DEF Resources
    <2>5. "LOADED_MODULE" \in DOMAIN backing' <=> "LOADED_MODULE" \in DOMAIN backing
        <3>1. CASE backing' = backing
            BY <3>1
        <3>2. ASSUME NEW other \in {{}, OtherNames},
                     backing' = With(With(backing, other, OtherSource), {"REG_KEY"}, "OBJECT")
              PROVE  "LOADED_MODULE" \in DOMAIN backing' <=> "LOADED_MODULE" \in DOMAIN backing
            <4>1. DOMAIN backing' = {"REG_KEY"} \cup (other \cup DOMAIN backing)
                BY <3>2 DEF With
            <4>2. "LOADED_MODULE" \notin other
                BY <3>2 DEF OtherNames
            <4> QED
                BY <4>1, <4>2
        <3> QED
            BY <1>16, <3>1, <3>2 DEF QueryName, QueryFails, event
    <2> QED
        BY <1>0, <1>2, <2>1, <2>2, <2>4, <2>5 DEF Owned, Is, Class
<1>17. CASE CallerName
    <2>1. Is({"registry"}) /\ Class(CallerNamed \cup Unnamed)
          /\ found' = found /\ failed' = failed /\ held' = held
        BY <1>17 DEF CallerName
    <2>2. ~Is({"process_create"}) /\ ~Class(KeyNamed)
        BY <2>1 DEF Is, Class, CallerNamed, Unnamed, KeyNamed
    <2>3. DOMAIN backing' \in {DOMAIN backing, {"REG_KEY"} \cup DOMAIN backing}
        <3>1. Found({"REG_KEY"}, "caller") => DOMAIN backing' = {"REG_KEY"} \cup DOMAIN backing
            BY FoundFacts
        <3> QED
            BY <1>17, <3>1 DEF CallerName
    <2> QED
        BY <1>0, <1>2, <2>1, <2>2, <2>3 DEF Owned, Is, Class
<1>18. ASSUME Finally
       PROVE  FALSE
    <2>1. pc' = "done"
        BY <1>0, <1>2, <1>18, Moves DEF Finally, At
    <2> QED
        BY <1>1, <2>1 DEF Running
<1>19. CASE Before
    BY <1>4, <1>5, <1>19 DEF Before
<1>20. CASE Processes
    BY <1>4, <1>7, <1>8, <1>9, <1>10, <1>11, <1>12, <1>20 DEF Processes
<1>21. CASE Names
    BY <1>6, <1>13, <1>14, <1>15, <1>16, <1>17, <1>21 DEF Names
<1> QED
    BY <1>4, <1>18, <1>19, <1>20, <1>21 DEF Next


-----------------------------------------------------------------------------
(* What is read is held.                                                   *)

\* Steps take, except for the finally block and the copy into a new slot.
LEMMA HeldGrows ==
    ASSUME held \in [Resources -> 0..1], [Next]_vars, ~Finally, ~AddNewProcess,
           NEW r \in Resources
    PROVE  held'[r] >= held[r]
<1>0. held \in [Resources -> Int] /\ held[r] \in 0..1
    OBVIOUS
<1>1. ASSUME NEW rs, Take(rs)
      PROVE  held'[r] >= held[r]
    BY <1>0, <1>1, TakeEffect
<1>2. CASE held' = held
    BY <1>0, <1>2
<1>3. CASE Before
    BY <1>2, <1>3 DEF Before, Ignore, NapTime, Pass
<1>4. CASE Processes
    <2>1. CASE processInfoInit
        BY <1>1, <1>2, <2>1 DEF processInfoInit
    <2> QED
        BY <1>1, <1>2, <1>4, <2>1 DEF Processes, PinActing, PinTarget, Unprobed,
           Refer, ReferFails
<1>5. CASE Names
    BY <1>1, <1>2, <1>5 DEF Names, ImageName, FileName, NetValues, KeyName,
       KeyNameFaults, QueryName, QueryFails, CallerName
<1>6. CASE Reports \/ Fault \/ UNCHANGED vars
    BY <1>2, <1>6 DEF Reports, InspectEvent, Skip, Header, Detail, End, Fault, vars
<1> QED
    BY <1>3, <1>4, <1>5, <1>6 DEF Next

\* A field that a step finds is in something that is held then, but for the
\* two exceptions.
Excepted(f) ==
    f \in CASE Is({"file_create", "file_set"}) -> FileParts
            [] Is({"process_create"}) -> {"PI"}
            [] OTHER -> {}

Backs(f) ==
    \/ f \in DOMAIN backing /\ backing'[f] = backing[f]
    \/ backing'[f] = "caller"
    \/ backing'[f] \in Resources /\ (held'[backing'[f]] > 0 \/ ~Collecting' \/ Excepted(f))

LEMMA BackingStep ==
    ASSUME held \in [Resources -> 0..1], [Next]_vars
    PROVE  /\ DOMAIN backing \subseteq DOMAIN backing'
           /\ \A f \in DOMAIN backing' : Backs(f)
<1>0. held \in [Resources -> Int]
    OBVIOUS
<1> DEFINE Goal == /\ DOMAIN backing \subseteq DOMAIN backing'
                   /\ \A f \in DOMAIN backing' : Backs(f)
<1> SUFFICES Goal
    OBVIOUS
<1>1. CASE backing' = backing
    BY <1>1 DEF Backs
<1>2. ASSUME NEW fs, Found(fs, "caller")
      PROVE  Goal
    <2>1. /\ DOMAIN backing' = fs \cup DOMAIN backing
          /\ \A f \in fs : backing'[f] = "caller"
          /\ \A f \in DOMAIN backing \ fs : backing'[f] = backing[f]
        BY <1>2, FoundFacts
    <2> QED
        BY <2>1 DEF Backs
<1>3. ASSUME NEW fs, NEW r \in Resources, NEW rs, Found(fs, r), Take(rs), r \in rs
      PROVE  Goal
    <2>1. held'[r] = held[r] + 1 /\ held[r] \in 0..1
        BY <1>0, <1>3, TakeEffect
    <2>2. held'[r] > 0
        BY <2>1
    <2>3. /\ DOMAIN backing' = fs \cup DOMAIN backing
          /\ \A f \in fs : backing'[f] = r
          /\ \A f \in DOMAIN backing \ fs : backing'[f] = backing[f]
        BY <1>3, FoundFacts
    <2> QED
        BY <2>2, <2>3 DEF Backs
<1>4. ASSUME NEW fs, NEW r \in Resources, Found(fs, r), \A f \in fs : Excepted(f)
      PROVE  Goal
    <2>1. /\ DOMAIN backing' = fs \cup DOMAIN backing
          /\ \A f \in fs : backing'[f] = r
          /\ \A f \in DOMAIN backing \ fs : backing'[f] = backing[f]
        BY <1>4, FoundFacts
    <2> QED
        BY <1>4, <2>1 DEF Backs
<1>5. ASSUME NEW fs, NEW q, NEW r \in Resources, NEW rs, r \in rs, Take(rs),
             backing' = With(With(backing, fs, q), {"REG_KEY"}, r),
             q = "caller" \/ (q \in rs /\ q \in Resources)
      PROVE  Goal
    <2>1. \A t \in Resources : t \in rs => held'[t] = held[t] + 1 /\ held[t] \in 0..1
        BY <1>0, <1>5, TakeEffect
    <2>2. \A t \in Resources : t \in rs => held'[t] > 0
        BY <2>1
    <2>3. /\ DOMAIN backing' = {"REG_KEY"} \cup (fs \cup DOMAIN backing)
          /\ \A f \in {"REG_KEY"} : backing'[f] = r
          /\ \A f \in fs \ {"REG_KEY"} : backing'[f] = q
          /\ \A f \in (DOMAIN backing \ fs) \ {"REG_KEY"} : backing'[f] = backing[f]
        <3>1. backing' = With(With(backing, fs, q), {"REG_KEY"}, r)
            BY <1>5, Zenon
        <3>2. FoundTwice(fs, q, {"REG_KEY"}, r)
            BY <3>1 DEF FoundTwice
        <3> QED
            BY <3>2, FoundTwiceFacts
    <2>4. r \in Resources /\ held'[r] > 0
        BY <1>5, <2>2
    <2>5. q = "caller" \/ (q \in Resources /\ held'[q] > 0)
        BY <1>5, <2>2
    <2>6. \A f \in DOMAIN backing' : Backs(f)
        <3> SUFFICES ASSUME NEW f \in DOMAIN backing'
                     PROVE  Backs(f)
            OBVIOUS
        <3>1. CASE f = "REG_KEY"
            BY <2>3, <2>4, <3>1 DEF Backs
        <3>2. CASE f # "REG_KEY" /\ f \in fs
            BY <2>3, <2>5, <3>2 DEF Backs
        <3>3. CASE f # "REG_KEY" /\ f \notin fs
            BY <2>3, <3>3 DEF Backs
        <3> QED
            BY <3>1, <3>2, <3>3
    <2> QED
        BY <2>3, <2>6
<1> HIDE DEF Goal
<1>6. CASE Before
    BY <1>1, <1>2, <1>6 DEF Before, Ignore, NapTime, Pass, event
<1>7. CASE PinActing \/ PinTarget
    BY <1>1, <1>3, <1>7 DEF PinActing, PinTarget, event, Resources
<1>8. CASE processInfoInit
    <2>1. PICK d \in {"PI", "TPI"}, ref \in {{}, {"ref"}} :
            \/ backing' = backing
            \/ Found({d}, d) /\ Take({d} \cup ref)
            \/ Found({d}, d) /\ Take({d})
        BY <1>8, InfoInit
    <2>2. d \in Resources /\ d \in {d} \cup ref /\ d \in {d}
        BY DEF Resources
    <2> QED
        BY <1>1, <1>3, <2>1, <2>2
<1>9. CASE AddNewProcess
    <2>1. backing' = backing \/ Found({"PI"}, "slot")
        BY <1>0, <1>9, AddEffect
    <2>2. Is({"process_create"}) /\ "slot" \in Resources
        BY <1>9 DEF AddNewProcess, Resources
    <2>3. \A f \in {"PI"} : Excepted(f)
        BY <2>2 DEF Excepted, Is
    <2> QED
        BY <1>1, <1>4, <2>1, <2>2, <2>3
<1>10. CASE Unprobed \/ Refer \/ ReferFails
    BY <1>1, <1>10 DEF Unprobed, Refer, ReferFails, event
<1>11. CASE ImageName
    <2>1. \/ backing' = backing
          \/ \E r \in {"OBINFO", "IMAGE"} : Take({r}) /\ Found({"LOADED_MODULE"}, r)
        BY <1>11 DEF ImageName
    <2>2. {"OBINFO", "IMAGE"} \subseteq Resources
        BY DEF Resources
    <2> QED
        BY <1>1, <1>3, <2>1, <2>2
<1>12. CASE FileName
    <2>1. Found(FileParts, "NAME") \/ Found({"MM_FILE_NAME"}, "caller")
        BY <1>12 DEF FileName
    <2>2. Is({"file_create", "file_set"}) /\ "NAME" \in Resources
        BY <1>12 DEF FileName, Resources
    <2>3. \A f \in FileParts : Excepted(f)
        BY <2>2 DEF Excepted, Is
    <2> QED
        BY <1>2, <1>4, <2>1, <2>2, <2>3
<1>13. CASE NetValues \/ CallerName
    BY <1>1, <1>2, <1>13 DEF NetValues, CallerName
<1>14. CASE KeyName
    <2>1. \/ backing' = backing
          \/ \E value \in SUBSET {"REG_VALUE_NAME"} :
                /\ Take({"KEY"})
                /\ backing' = With(With(backing, value, "caller"), {"REG_KEY"}, "KEY")
        BY <1>14 DEF KeyName
    <2>2. "KEY" \in Resources /\ "KEY" \in {"KEY"}
        BY DEF Resources
    <2> QED
        BY <1>1, <1>5, <2>1, <2>2
<1>15. CASE KeyNameFaults
    <2>1. Found({"REG_KEY"}, "KEY") /\ ~Collecting' /\ "KEY" \in Resources
        BY <1>15 DEF KeyNameFaults, Collecting, Resources
    <2>2. /\ DOMAIN backing' = {"REG_KEY"} \cup DOMAIN backing
          /\ backing'["REG_KEY"] = "KEY"
          /\ \A f \in DOMAIN backing \ {"REG_KEY"} : backing'[f] = backing[f]
        BY <2>1, FoundFacts
    <2> QED
        BY <2>1, <2>2 DEF Backs, Goal
<1>16. CASE QueryName
    <2>1. CASE backing' = backing
        BY <1>1, <2>1
    <2>2. CASE Take(Buffers) /\ \E other \in {{}, OtherNames} :
                    backing' = With(With(backing, other, OtherSource), {"REG_KEY"}, "OBJECT")
        <3>1. PICK other, q, rs :
                /\ q = OtherSource /\ rs = Buffers /\ Take(rs)
                /\ backing' = With(With(backing, other, q), {"REG_KEY"}, "OBJECT")
            BY <2>2
        <3>2. "OBJECT" \in Resources /\ "OBJECT" \in rs
              /\ (q = "caller" \/ (q \in rs /\ q \in Resources))
            BY <3>1 DEF OtherSource, Buffers, Resources
        <3> QED
            BY <1>5, <3>1, <3>2
    <2> QED
        BY <1>16, <2>1, <2>2 DEF QueryName
<1>17. CASE QueryFails
    BY <1>1, <1>17 DEF QueryFails, event
<1>18. CASE Reports \/ Fault \/ Finally \/ UNCHANGED vars
    BY <1>1, <1>18 DEF Reports, InspectEvent, Skip, Header, Detail, End, Fault,
       Finally, vars, event
<1> QED
    BY <1>6, <1>7, <1>8, <1>9, <1>10, <1>11, <1>12, <1>13, <1>14, <1>15, <1>16,
       <1>17, <1>18 DEF Next, Processes, Names

\* From the finally block a callback only returns.
LEMMA FinallyOnly ==
    ASSUME pc = "finally", [Next]_vars
    PROVE  Finally \/ UNCHANGED vars
<1>1. ~Before
    BY DEF Before, Ignore, NapTime, Pass, At
<1>2. ~Processes
    BY DEF Processes, PinActing, PinTarget, Unprobed, processInfoInit, Refer,
       ReferFails, AddNewProcess, At
<1>3. ~Names
    BY DEF Names, ImageName, FileName, NetValues, KeyName, KeyNameFaults, QueryName,
       QueryFails, CallerName, At
<1>4. ~Reports /\ ~Fault
    BY DEF Reports, InspectEvent, Skip, Header, Detail, End, Fault, At
<1> QED
    BY <1>1, <1>2, <1>3, <1>4 DEF Next

LEMMA BackedStep ==
    ASSUME call \in Calls, PcInv, Untaken, Owned, Backed, [Next]_vars
    PROVE  Backed'
<1>0. call' = call
    BY FlowKept
<1>1. SUFFICES ASSUME Collecting'
               PROVE  Backed'
    BY DEF Backed
<1>2. Running
    BY <1>1, RunningBack DEF Collecting
<1>3. pc # "finally"
    <2>1. CASE Finally
        BY <1>0, <1>1, <1>2, <2>1, Moves DEF Finally, At, Collecting, Running
    <2> QED
        BY <1>1, <2>1, FinallyOnly DEF vars, Collecting
<1>4. Collecting /\ held \in [Resources -> 0..1]
    BY <1>2, <1>3 DEF Collecting, Untaken
<1>5. \A f \in DOMAIN backing' : Backs(f)
    BY <1>4, BackingStep
<1>6. SUFFICES ASSUME NEW f \in DOMAIN backing'
               PROVE  \/ backing'[f] = "caller"
                      \/ backing'[f] \in Resources /\ held'[backing'[f]] > 0
                      \/ Excepted(f)
    BY <1>0 DEF Backed, Excepted, Is
<1>7. CASE ~(f \in DOMAIN backing /\ backing'[f] = backing[f])
    BY <1>1, <1>5, <1>7 DEF Backs
<1>8. CASE f \in DOMAIN backing /\ backing'[f] = backing[f] /\ AddNewProcess
    <2>1. Is({"process_create"}) /\ DOMAIN backing \subseteq {"PI"}
        BY <1>2, <1>8 DEF AddNewProcess, Owned
    <2> QED
        BY <1>8, <2>1 DEF Excepted, Is
<1>9. CASE f \in DOMAIN backing /\ backing'[f] = backing[f] /\ ~AddNewProcess
    <2> DEFINE r == backing[f]
    <2>1. \/ r = "caller"
          \/ r \in Resources /\ held[r] > 0
          \/ Excepted(f)
        BY <1>4, <1>9 DEF Backed, Excepted
    <2>2. ~Finally
        BY <1>3 DEF Finally, At
    <2> HIDE DEF r
    <2>3. r \in Resources => held'[r] >= held[r] /\ held[r] \in 0..1
        BY <1>4, <1>9, <2>2, HeldGrows
    <2>4. (r \in Resources /\ held[r] > 0) => held'[r] > 0
        <3>1. held' \in [Resources -> 0..1]
            BY <1>1, <1>2, UntakenStep DEF Untaken, Collecting
        <3> QED
            BY <2>3, <3>1
    <2> QED
        BY <1>9, <2>1, <2>4 DEF r
<1> QED
    BY <1>7, <1>8, <1>9

\* What a step reads.
LEMMA StaleStep ==
    ASSUME [Next]_vars
    PROVE  \/ stale' = stale
           \/ /\ InspectEvent \/ Detail
              /\ \E fs \in SUBSET Gone : stale' = stale \cup fs
<1>1. CASE InspectEvent
    BY <1>1 DEF InspectEvent
<1>2. CASE Detail
    <2>1. {DetailsOf[next]} \cap {g \in Gone : Written(g)} \in SUBSET Gone
        OBVIOUS
    <2> QED
        BY <1>2, <2>1 DEF Detail
<1>3. CASE Before \/ Processes
    BY <1>3 DEF Before, Ignore, NapTime, Pass, Processes, PinActing, PinTarget,
       Unprobed, processInfoInit, Refer, ReferFails, AddNewProcess
<1>4. CASE Names
    BY <1>4 DEF Names, ImageName, FileName, NetValues, KeyName, KeyNameFaults,
       QueryName, QueryFails, CallerName
<1>5. CASE Skip \/ Header \/ End \/ Finally \/ Fault \/ UNCHANGED vars
    BY <1>5 DEF Skip, Header, End, Finally, Fault, vars
<1> QED
    BY <1>1, <1>2, <1>3, <1>4, <1>5 DEF Next, Reports

\* Only what was found is read, and only the exceptions are gone then.
LEMMA HeldWhenReadStep ==
    ASSUME call \in Calls, Untaken, Backed, HeldWhenRead, [Next]_vars
    PROVE  HeldWhenRead'
<1>0. call' = call
    BY FlowKept
<1>1. Collecting => \A f \in Gone : Excepted(f)
    <2> SUFFICES ASSUME Collecting, NEW f \in Gone
                 PROVE  Excepted(f)
        OBVIOUS
    <2>1. f \in DOMAIN backing /\ backing[f] # "caller" /\ held[backing[f]] <= 0
        BY DEF Gone
    <2>2. \/ backing[f] = "caller"
          \/ backing[f] \in Resources /\ held[backing[f]] > 0
          \/ Excepted(f)
        BY <2>1 DEF Backed, Excepted
    <2>3. backing[f] \in Resources => held[backing[f]] \in 0..1
        BY DEF Untaken, Collecting
    <2> QED
        BY <2>1, <2>2, <2>3
<1>2. CASE stale' = stale
    BY <1>0, <1>2 DEF HeldWhenRead, Is
<1>3. CASE Collecting /\ \E fs \in SUBSET Gone : stale' = stale \cup fs
    BY <1>0, <1>1, <1>3 DEF HeldWhenRead, Is, Excepted
<1>4. CASE InspectEvent \/ Detail
    <2>1. Collecting
        BY <1>4 DEF InspectEvent, Detail, At, Collecting, Running
    <2> QED
        BY <1>2, <1>3, <2>1, StaleStep
<1> QED
    BY <1>2, <1>4, StaleStep

-----------------------------------------------------------------------------
(* Everything is given back.                                               *)

\* What the finally block gives back is what was taken, but for Unbalanced.
LEMMA FinallyBalances ==
    ASSUME call \in Calls, call' = call, Running, Untaken, Owned, Finally,
           NEW r \in Resources \ Unbalanced
    PROVE  held'[r] = 0
<1>1. /\ held \in [Resources -> 0..1] /\ pc = "finally"
      /\ held' = [q \in Resources |-> held[q] - (IF q \in Given THEN 1 ELSE 0)]
    BY DEF Finally, Give, Untaken, At
<1>2. held'[r] = held[r] - (IF r \in Given THEN 1 ELSE 0) /\ held[r] \in 0..1
    BY <1>1
<1>3. SUFFICES IF r \in Given THEN held[r] = 1 ELSE held[r] = 0
    BY <1>2
<1>4. /\ \A s \in Early : ~Ahead(s)
      /\ r \in Resources
    BY <1>1, PastEarly DEF Late
<1>5. /\ held["NAME"] = 0 /\ held["slot"] = 0
      /\ ~Is({"thread", "object"}) => held["tpin"] = 0 /\ held["TPI"] = 0
      /\ ~Is({"process_create"}) => held["SID"] = 0 /\ held["SUBJECT"] = 0
      /\ ~Is({"image"}) => held["OBINFO"] = 0 /\ held["IMAGE"] = 0
      /\ ~Is({"registry"}) => held["KEY"] = 0 /\ held["OBJECT"] = 0 /\ held["FILE"] = 0
      /\ \A q \in Resources : held[q] \in 0..1
    BY <1>1 DEF Untaken
<1>6. CASE Is({"process_create"})
    <2>1. Given = {}
        BY <1>6 DEF Given, Is
    <2>2. r \notin {"ref", "PI", "SID", "SUBJECT"}
        BY <1>6 DEF Unbalanced
    <2>3. held["pin"] = 0
        BY <1>6 DEF Owned
    <2> QED
        BY <1>4, <1>5, <1>6, <2>1, <2>2, <2>3 DEF Resources, Is
<1>7. CASE Is({"thread", "object"})
    <2>1. Given = GivesPI \cup GivesTPI
        BY <1>7 DEF Given, Is
    <2>2. r # "ref"
        BY DEF Unbalanced
    <2>3. r \in {"PI", "TPI"} =>
            /\ held["PI"] = IF "PI" \in found /\ held["pin"] = 0 THEN 1 ELSE 0
            /\ held["TPI"] = IF "TPI" \in found /\ held["tpin"] = 0 THEN 1 ELSE 0
        BY <1>7 DEF Owned, Unbalanced, Is
    <2>4. held["pin"] \in 0..1 /\ held["tpin"] \in 0..1
        BY <1>5 DEF Resources
    <2> QED
        BY <1>4, <1>5, <1>7, <2>1, <2>2, <2>3, <2>4 DEF Resources, Is, GivesPI, GivesTPI
<1>8. CASE Is({"image"})
    <2>1. Given = GivesPI \cup GivesImage
        BY <1>8 DEF Given, Is
    <2>2. r # "ref"
        BY DEF Unbalanced
    <2>3. r = "PI" => held["PI"] = IF "PI" \in found /\ held["pin"] = 0 THEN 1 ELSE 0
        BY <1>8 DEF Owned, Unbalanced, Is
    <2>4. held["pin"] \in 0..1 /\ held["OBINFO"] \in 0..1 /\ held["IMAGE"] \in 0..1
        BY <1>5 DEF Resources
    <2>5. r = "IMAGE" => IF held["OBINFO"] = 1 THEN held["IMAGE"] = 0
                         ELSE held["IMAGE"] = 1 /\ "memory" \notin failed
        BY <2>4 DEF Unbalanced, Owned
    <2> QED
        BY <1>4, <1>5, <1>8, <2>1, <2>2, <2>3, <2>4, <2>5
           DEF Resources, Is, GivesPI, GivesImage
<1>9. CASE Is({"registry"})
    <2>1. Given = GivesRegistry \cup (GivesPI \cap {"pin"})
        BY <1>9 DEF Given, Is
    <2>2. r # "ref"
        BY DEF Unbalanced
    <2>3. held["PI"] = 0
        BY <1>9 DEF Owned, Is
    <2>4. held["pin"] \in 0..1 /\ held["OBJECT"] \in 0..1 /\ held["FILE"] \in 0..1
        BY <1>5 DEF Resources
    <2>5. r = "KEY" => held["KEY"] = IF "REG_KEY" \in DOMAIN backing /\ Class(KeyNamed)
                                     THEN 1 ELSE 0
        BY DEF Owned, Unbalanced
    <2> QED
        BY <1>4, <1>5, <1>9, <2>1, <2>2, <2>3, <2>4, <2>5
           DEF Resources, Is, GivesPI, GivesRegistry
<1>10. CASE ~Is({"process_create", "thread", "object", "image", "registry"})
    <2>1. Given = GivesPI \cap {"pin"}
        BY <1>10 DEF Given, Is
    <2>2. r # "ref"
        BY DEF Unbalanced
    <2>3. held["PI"] = 0
        BY <1>10 DEF Owned, Is
    <2>4. held["pin"] \in 0..1
        BY <1>5 DEF Resources
    <2> QED
        BY <1>4, <1>5, <1>10, <2>1, <2>2, <2>3, <2>4 DEF Resources, Is, GivesPI
<1> QED
    BY <1>3, <1>6, <1>7, <1>8, <1>9, <1>10 DEF Is

\* A callback that has returned takes no further step.
LEMMA Stops ==
    ASSUME ~Running, [Next]_vars
    PROVE  UNCHANGED vars
<1>1. ~Before
    BY DEF Before, Ignore, NapTime, Pass, At, Running
<1>2. ~Processes
    BY DEF Processes, PinActing, PinTarget, Unprobed, processInfoInit, Refer,
       ReferFails, AddNewProcess, At, Running
<1>3. ~Names
    BY DEF Names, ImageName, FileName, NetValues, KeyName, KeyNameFaults, QueryName,
       QueryFails, CallerName, At, Running
<1>4. ~Reports /\ ~Fault /\ ~Finally
    BY DEF Reports, InspectEvent, Skip, Header, Detail, End, Fault, Finally, At, Running
<1> QED
    BY <1>1, <1>2, <1>3, <1>4 DEF Next

\* No step leads to the gate.
LEMMA GateStep ==
    ASSUME call \in Calls, PcInv, GateInv, [Next]_vars
    PROVE  GateInv' /\ (pc' = "gate" => UNCHANGED vars)
<1> SUFFICES ASSUME pc' = "gate"
             PROVE  UNCHANGED vars
    BY DEF GateInv, vars, verdict
<1>0. call' = call
    BY FlowKept
<1>1. SUFFICES ASSUME pc = "gate", Next
               PROVE  FALSE
    BY <1>0, Leaves, Moves
<1>2. Ignore \/ NapTime \/ Pass \/ Fault
    <2>1. ~Processes
        BY <1>1 DEF Processes, PinActing, PinTarget, Unprobed, processInfoInit, Refer,
           ReferFails, AddNewProcess, At
    <2>2. ~Names
        BY <1>1 DEF Names, ImageName, FileName, NetValues, KeyName, KeyNameFaults,
           QueryName, QueryFails, CallerName, At
    <2>3. ~Reports /\ ~Finally
        BY <1>1 DEF Reports, InspectEvent, Skip, Header, Detail, End, Finally, At
    <2> QED
        BY <1>1, <2>1, <2>2, <2>3 DEF Next, Before
<1>3. CASE Pass
    BY <1>0, <1>1, <1>3, Moves DEF Pass, Running
<1> QED
    BY <1>1, <1>2, <1>3 DEF Ignore, NapTime, Fault

\* Whatever the way a callback comes to its end, it has given back what it took.
LEMMA BalancedStep ==
    ASSUME call \in Calls, PcInv, GateInv, Untaken, Owned, Balanced, [Next]_vars
    PROVE  Balanced'
<1>0. call' = call
    BY FlowKept
<1>1. SUFFICES ASSUME Returned', NEW r \in Resources, r \notin Unbalanced'
               PROVE  held'[r] = 0
    BY DEF Balanced
<1>2. CASE ~Running
    <2>1. UNCHANGED vars
        BY <1>2, Stops
    <2>2. Unbalanced' = Unbalanced
        BY <1>0, <2>1 DEF Unbalanced, vars, event, Is
    <2> QED
        BY <1>1, <2>1, <2>2 DEF vars, Balanced, Returned
<1>3. CASE Running /\ Finally
    <2>1. Unbalanced' = Unbalanced
        BY <1>0, <1>3 DEF Unbalanced, Finally, event, Is
    <2> QED
        BY <1>0, <1>1, <1>3, <2>1, FinallyBalances
<1>4. CASE Ignore \/ NapTime
    BY <1>1, <1>4 DEF Ignore, NapTime, At, GateInv
<1>5. CASE Running /\ ~Finally /\ ~Ignore /\ ~NapTime
    <2>1. pc # "finally"
        BY <1>1, <1>5, FinallyOnly DEF vars, Returned, Running
    <2>2. ~Advance
        <3>1. pc \in Early \cup Late
            BY <1>5, PlaceOf, StepsFacts DEF Running
        <3> QED
            BY <1>0, <1>1, <1>5, <2>1, <3>1, Moves DEF Early, Late, Returned, Running
    <2>3. ~Before
        BY <1>5, <2>2 DEF Before, Pass
    <2>4. ~Processes
        BY <1>1, <2>2 DEF Processes, PinActing, PinTarget, Unprobed, processInfoInit,
           Refer, ReferFails, AddNewProcess, Returned
    <2>5. ~Names
        BY <1>1, <2>2 DEF Names, ImageName, FileName, NetValues, KeyName,
           KeyNameFaults, QueryName, QueryFails, CallerName, Returned
    <2>6. ~Reports
        BY <1>1, <2>2 DEF Reports, InspectEvent, Skip, Header, Detail, End, At, Returned
    <2>7. ~Fault /\ pc' # pc
        BY <1>1, <1>5 DEF Fault, Returned, Running
    <2> QED
        BY <1>5, <2>3, <2>4, <2>5, <2>6, <2>7 DEF Next, vars
<1> QED
    BY <1>2, <1>3, <1>4, <1>5


-----------------------------------------------------------------------------
(* The entries of an event.                                                *)

HeaderNames == {"MATCH_ID", "EVENT_TYPE", "PID"}

\* No entry is there twice, none has the name of a leading or the last one,
\* and the status and the access are there where they are needed.
Details(d, kind) ==
    /\ Len(d) \in 1..14
    /\ \A i, j \in 1..Len(d) : d[i] = d[j] => i = j
    /\ \A i \in 1..Len(d) : d[i] \notin HeaderNames /\ d[i] # "EVENT_END"
    /\ kind \in {"process_create", "registry", "file_create", "file_set"} =>
        \E i \in 1..Len(d) : d[i] = "CREATION_STATUS"
    /\ kind = "object" => \E i \in 1..Len(d) : d[i] = "PHDESIRED_ACCESS"

LEMMA DetailsFacts ==
    ASSUME call \in Calls
    PROVE  Details(DetailsOf, call.kind)
<1>1. CASE call.kind = "process_create"
    <2> DEFINE d == ProcessDetails
    <2>1. /\ Len(d) = 5
          /\ d[1] = "PFLAGS" /\ d[2] = "PARENT_PID" /\ d[3] = "CREATING_THREAD_ID"
          /\ d[4] = "PI" /\ d[5] = "CREATION_STATUS"
        BY DEF ProcessDetails
    <2>2. DetailsOf = d
        BY <1>1 DEF DetailsOf, Is
    <2> HIDE DEF d
    <2>3. \A i \in 1..Len(d) : i = 1 \/ i = 2 \/ i = 3 \/ i = 4 \/ i = 5
        BY <2>1
    <2>4. \A i, j \in 1..Len(d) : d[i] = d[j] => i = j
        BY <2>1, <2>3
    <2>5. \A i \in 1..Len(d) : d[i] \notin HeaderNames /\ d[i] # "EVENT_END"
        BY <2>1, <2>3 DEF HeaderNames
    <2>6. 5 \in 1..Len(d) /\ d[5] = "CREATION_STATUS"
        BY <2>1
    <2>7. Details(d, "process_create")
        BY <2>1, <2>4, <2>5, <2>6 DEF Details
    <2> QED
        BY <1>1, <2>2, <2>7
<1>2. CASE call.kind = "process_exit"
    <2> DEFINE d == ExitDetails
    <2>1. /\ Len(d) = 2
          /\ d[1] = "CREATION_STATUS" /\ d[2] = "PI"
        BY DEF ExitDetails
    <2>2. DetailsOf = d
        BY <1>2 DEF DetailsOf, Is
    <2> HIDE DEF d
    <2>3. \A i \in 1..Len(d) : i = 1 \/ i = 2
        BY <2>1
    <2>4. \A i, j \in 1..Len(d) : d[i] = d[j] => i = j
        BY <2>1, <2>3
    <2>5. \A i \in 1..Len(d) : d[i] \notin HeaderNames /\ d[i] # "EVENT_END"
        BY <2>1, <2>3 DEF HeaderNames
    <2>7. Details(d, "process_exit")
        BY <2>1, <2>4, <2>5 DEF Details
    <2> QED
        BY <1>2, <2>2, <2>7
<1>3. CASE call.kind = "thread"
    <2> DEFINE d == ThreadDetails
    <2>1. /\ Len(d) = 5
          /\ d[1] = "PARENT_PID" /\ d[2] = "CREATING_THREAD_ID"
          /\ d[3] = "THREAD_ID" /\ d[4] = "PI" /\ d[5] = "TPI"
        BY DEF ThreadDetails
    <2>2. DetailsOf = d
        BY <1>3 DEF DetailsOf, Is
    <2> HIDE DEF d
    <2>3. \A i \in 1..Len(d) : i = 1 \/ i = 2 \/ i = 3 \/ i = 4 \/ i = 5
        BY <2>1
    <2>4. \A i, j \in 1..Len(d) : d[i] = d[j] => i = j
        BY <2>1, <2>3
    <2>5. \A i \in 1..Len(d) : d[i] \notin HeaderNames /\ d[i] # "EVENT_END"
        BY <2>1, <2>3 DEF HeaderNames
    <2>7. Details(d, "thread")
        BY <2>1, <2>4, <2>5 DEF Details
    <2> QED
        BY <1>3, <2>2, <2>7
<1>4. CASE call.kind = "image"
    <2> DEFINE d == ImageDetails
    <2>1. /\ Len(d) = 3
          /\ d[1] = "LOADED_MODULE" /\ d[2] = "MODULE_PROPERTIES" /\ d[3] = "PI"
        BY DEF ImageDetails
    <2>2. DetailsOf = d
        BY <1>4 DEF DetailsOf, Is
    <2> HIDE DEF d
    <2>3. \A i \in 1..Len(d) : i = 1 \/ i = 2 \/ i = 3
        BY <2>1
    <2>4. \A i, j \in 1..Len(d) : d[i] = d[j] => i = j
        BY <2>1, <2>3
    <2>5. \A i \in 1..Len(d) : d[i] \notin HeaderNames /\ d[i] # "EVENT_END"
        BY <2>1, <2>3 DEF HeaderNames
    <2>7. Details(d, "image")
        BY <2>1, <2>4, <2>5 DEF Details
    <2> QED
        BY <1>4, <2>2, <2>7
<1>5. CASE call.kind = "object"
    <2> DEFINE d == ObjectDetails
    <2>1. /\ Len(d) = 6
          /\ d[1] = "TARGET_PID" /\ d[2] = "PHOPERATION"
          /\ d[3] = "PHDESIRED_ACCESS" /\ d[4] = "PHORIGINAL_DESIRED_ACCESS"
          /\ d[5] = "PI" /\ d[6] = "TPI"
        BY DEF ObjectDetails
    <2>2. DetailsOf = d
        BY <1>5 DEF DetailsOf, Is
    <2> HIDE DEF d
    <2>3. \A i \in 1..Len(d) : i = 1 \/ i = 2 \/ i = 3 \/ i = 4 \/ i = 5 \/ i = 6
        BY <2>1
    <2>4. \A i, j \in 1..Len(d) : d[i] = d[j] => i = j
        BY <2>1, <2>3
    <2>5. \A i \in 1..Len(d) : d[i] \notin HeaderNames /\ d[i] # "EVENT_END"
        BY <2>1, <2>3 DEF HeaderNames
    <2>6. 3 \in 1..Len(d) /\ d[3] = "PHDESIRED_ACCESS"
        BY <2>1
    <2>7. Details(d, "object")
        BY <2>1, <2>4, <2>5, <2>6 DEF Details
    <2> QED
        BY <1>5, <2>2, <2>7
<1>6. CASE call.kind = "registry"
    <2> DEFINE d == RegistryDetails
    <2>1. /\ Len(d) = 8
          /\ d[1] = "REG_OP" /\ d[2] = "CREATION_STATUS" /\ d[3] = "PI"
          /\ d[4] = "REG_VALUE_NAME" /\ d[5] = "REG_KEY" /\ d[6] = "REG_KEY_NEW"
          /\ d[7] = "REG_OLD_FILE_NAME" /\ d[8] = "REG_NEW_FILE_NAME"
        BY DEF RegistryDetails
    <2>2. DetailsOf = d
        BY <1>6 DEF DetailsOf, Is
    <2> HIDE DEF d
    <2>3. \A i \in 1..Len(d) : 
            \/ i = 1 \/ i = 2 \/ i = 3 \/ i = 4 \/ i = 5 \/ i = 6
            \/ i = 7 \/ i = 8
        BY <2>1
    <2>4. \A i, j \in 1..Len(d) : d[i] = d[j] => i = j
        BY <2>1, <2>3
    <2>5. \A i \in 1..Len(d) : d[i] \notin HeaderNames /\ d[i] # "EVENT_END"
        BY <2>1, <2>3 DEF HeaderNames
    <2>6. 2 \in 1..Len(d) /\ d[2] = "CREATION_STATUS"
        BY <2>1
    <2>7. Details(d, "registry")
        BY <2>1, <2>4, <2>5, <2>6 DEF Details
    <2> QED
        BY <1>6, <2>2, <2>7
<1>7. CASE call.kind = "file_create"
    <2> DEFINE d == FileCreateDetails
    <2>1. /\ Len(d) = 4
          /\ d[1] = "CREATION_STATUS" /\ d[2] = "PI" /\ d[3] = "MM_FILE_NAME"
          /\ d[4] = "MM_FILE_PARTS"
        BY DEF FileCreateDetails
    <2>2. DetailsOf = d
        BY <1>7 DEF DetailsOf, Is
    <2> HIDE DEF d
    <2>3. \A i \in 1..Len(d) : i = 1 \/ i = 2 \/ i = 3 \/ i = 4
        BY <2>1
    <2>4. \A i, j \in 1..Len(d) : d[i] = d[j] => i = j
        BY <2>1, <2>3
    <2>5. \A i \in 1..Len(d) : d[i] \notin HeaderNames /\ d[i] # "EVENT_END"
        BY <2>1, <2>3 DEF HeaderNames
    <2>6. 1 \in 1..Len(d) /\ d[1] = "CREATION_STATUS"
        BY <2>1
    <2>7. Details(d, "file_create")
        BY <2>1, <2>4, <2>5, <2>6 DEF Details
    <2> QED
        BY <1>7, <2>2, <2>7
<1>8. CASE call.kind = "file_set"
    <2> DEFINE d == FileSetDetails
    <2>1. /\ Len(d) = 12
          /\ d[1] = "MM_FILE_OPERATION" /\ d[2] = "CREATION_STATUS" /\ d[3] = "PI"
          /\ d[4] = "MM_FILE_NAME" /\ d[5] = "MM_FILE_PARTS"
          /\ d[6] = "MM_FILE_CREATION_TIME" /\ d[7] = "MM_FILE_CHANGE_TIME"
          /\ d[8] = "MM_FILE_ACCESS_FLAGS" /\ d[9] = "MM_FILE_NEW_NAME"
          /\ d[10] = "MM_FILE_NETWORK_PROTOCOL" /\ d[11] = "MM_NAMED_PIPE"
          /\ d[12] = "MM_FILE_DELETION"
        BY DEF FileSetDetails
    <2>2. DetailsOf = d
        BY <1>8 DEF DetailsOf, Is
    <2> HIDE DEF d
    <2>3. \A i \in 1..Len(d) : 
            \/ i = 1 \/ i = 2 \/ i = 3 \/ i = 4 \/ i = 5 \/ i = 6
            \/ i = 7 \/ i = 8 \/ i = 9 \/ i = 10 \/ i = 11 \/ i = 12
        BY <2>1
    <2>4. \A i, j \in 1..Len(d) : d[i] = d[j] => i = j
        BY <2>1, <2>3
    <2>5. \A i \in 1..Len(d) : d[i] \notin HeaderNames /\ d[i] # "EVENT_END"
        BY <2>1, <2>3 DEF HeaderNames
    <2>6. 2 \in 1..Len(d) /\ d[2] = "CREATION_STATUS"
        BY <2>1
    <2>7. Details(d, "file_set")
        BY <2>1, <2>4, <2>5, <2>6 DEF Details
    <2> QED
        BY <1>8, <2>2, <2>7
<1>9. CASE call.kind = "network"
    <2> DEFINE d == NetworkDetails
    <2>1. /\ Len(d) = 14
          /\ d[1] = "MM_WFP_LAYER" /\ d[2] = "PI" /\ d[3] = "MM_NET_DIRECTION"
          /\ d[4] = "MM_NET_IP_PROTOCOL" /\ d[5] = "MM_NET_REMOTE_PORT"
          /\ d[6] = "MM_NET_REMOTE_IPV4_ADDR" /\ d[7] = "MM_NET_REMOTE_IPV6_ADDR"
          /\ d[8] = "MM_NET_ADDRESS_TYPE" /\ d[9] = "MM_NET_PROMISCUOUS"
          /\ d[10] = "MM_NET_LOCAL_PORT" /\ d[11] = "MM_NET_LOCAL_IPV4_ADDR"
          /\ d[12] = "MM_NET_INTERFACE_TYPE" /\ d[13] = "MM_NET_INTERFACE"
          /\ d[14] = "MM_NET_LOCAL_IPV6_ADDR"
        BY DEF NetworkDetails
    <2>2. DetailsOf = d
        BY <1>9 DEF DetailsOf, Is
    <2> HIDE DEF d
    <2>3. \A i \in 1..Len(d) : 
            \/ i = 1 \/ i = 2 \/ i = 3 \/ i = 4 \/ i = 5 \/ i = 6
            \/ i = 7 \/ i = 8 \/ i = 9 \/ i = 10 \/ i = 11 \/ i = 12
            \/ i = 13 \/ i = 14
        BY <2>1
    <2>4. \A i, j \in 1..Len(d) : d[i] = d[j] => i = j
        BY <2>1, <2>3
    <2>5. \A i \in 1..Len(d) : d[i] \notin HeaderNames /\ d[i] # "EVENT_END"
        BY <2>1, <2>3 DEF HeaderNames
    <2>7. Details(d, "network")
        BY <2>1, <2>4, <2>5 DEF Details
    <2> QED
        BY <1>9, <2>2, <2>7
<1> QED
    BY <1>1, <1>2, <1>3, <1>4, <1>5, <1>6, <1>7, <1>8, <1>9, CallFacts DEF Kinds

-----------------------------------------------------------------------------
(* The status, the access and the log.                                     *)

\* Up to the inspection nothing is written, and the status and the access
\* change in few places.
LEMMA EarlySteps ==
    ASSUME call \in Calls, PcInv, Before \/ Processes \/ Names
    PROVE  /\ pc \in Early /\ output' = output /\ skip' = skip
           /\ pc' \in (Early \ {"gate"}) \cup {"inspect", "finally", "done", "asleep"}
           /\ pc' = "finally" => pc = "names" \/ ~Is({"registry"})
           /\ pc' \in {"done", "asleep"} => pc = "gate"
           /\ failed \subseteq failed'
           /\ \/ status' = status
              \/ status' = "failed" /\ Is({"registry"}) /\ ~Ahead("names")'
                 /\ pc' \in Early \cup {"inspect"}
              \/ status' = "no memory" /\ pc' = "finally"
           /\ IF pc = "gate" THEN Ignore \/ NapTime \/ Pass
              ELSE access' = access /\ desired' = desired
<1>0. call' = call /\ [Next]_vars
    BY FlowKept DEF Next
<1>1. /\ pc \in Early
      /\ pc = "gate" => Ignore \/ NapTime \/ Pass
    <2>1. CASE Before
        BY <2>1 DEF Before, Ignore, NapTime, Pass, Early, At
    <2>2. CASE Processes
        BY <2>2 DEF Processes, PinActing, PinTarget, Unprobed, processInfoInit, Refer,
           ReferFails, AddNewProcess, Early, At
    <2>3. CASE Names
        BY <2>3 DEF Names, ImageName, FileName, NetValues, KeyName, KeyNameFaults,
           QueryName, QueryFails, CallerName, Early, At
    <2> QED
        BY <2>1, <2>2, <2>3
<1>2. Running
    BY <1>1 DEF Early, Running
<1>3. Advance => pc' \in (Early \ {"gate"}) \cup {"inspect"}
    BY <1>0, <1>1, <1>2, Moves
<1>4. CASE Before
    BY <1>1, <1>3, <1>4 DEF Before, Ignore, NapTime, Pass, output, Early, At
<1>5. CASE Processes
    <2>1. output' = output /\ verdict' = verdict /\ pc # "gate"
        BY <1>5 DEF Processes, PinActing, PinTarget, Unprobed, processInfoInit, Refer,
           ReferFails, AddNewProcess, output, verdict, At
    <2>2. Advance \/ (pc' \in {"inspect", "finally"} /\ pc = "refer")
        BY <1>5 DEF Processes, PinActing, PinTarget, Unprobed, processInfoInit, Refer,
           ReferFails, AddNewProcess, At
    <2>3. failed \subseteq failed'
        BY <1>5 DEF Processes, PinActing, PinTarget, Unprobed, processInfoInit, Refer,
           ReferFails, AddNewProcess
    <2>4. pc = "refer" => ~Is({"registry"})
        BY KindsAt DEF Is
    <2> QED
        BY <1>1, <1>3, <2>1, <2>2, <2>3, <2>4 DEF verdict, Early
<1>6. CASE Names
    <2>1. /\ output' = output /\ skip' = skip /\ pc = "names" /\ failed \subseteq failed'
          /\ access' = access /\ desired' = desired
        BY <1>6 DEF Names, ImageName, FileName, NetValues, KeyName, KeyNameFaults,
           QueryName, QueryFails, CallerName, output, verdict, At
    <2>2. CASE KeyName
        <3>1. Advance /\ Is({"registry"}) /\ status' \in {status, "failed"}
            BY <2>2 DEF KeyName
        <3>2. ~Ahead("names")'
            BY <1>0, <1>2, <2>1, <3>1, Left DEF Early
        <3> QED
            BY <1>1, <1>3, <2>1, <3>1, <3>2 DEF Early
    <2>3. CASE QueryFails
        BY <1>1, <2>1, <2>3 DEF QueryFails
    <2>4. CASE ~KeyName /\ ~QueryFails
        <3>1. status' = status /\ (Advance \/ pc' = "finally")
            BY <1>6, <2>4 DEF Names, ImageName, FileName, NetValues, KeyNameFaults,
               QueryName, CallerName, verdict
        <3> QED
            BY <1>1, <1>3, <2>1, <3>1 DEF Early
    <2> QED
        BY <2>2, <2>3, <2>4
<1> QED
    BY <1>4, <1>5, <1>6

\* The other steps, and where they lead.
LEMMA LateSteps ==
    ASSUME call \in Calls, PcInv, [Next]_vars
    PROVE  \/ UNCHANGED vars
           \/ Before \/ Processes \/ Names
           \/ InspectEvent /\ pc = "inspect" /\ pc' = "header"
           \/ Skip /\ pc = "header" /\ pc' = "finally"
           \/ Header /\ pc = "header" /\ pc' = "details"
           \/ /\ Detail /\ pc = "details"
              /\ pc' = IF next < Len(DetailsOf) THEN "details" ELSE "end"
           \/ End /\ pc = "end" /\ pc' = "finally"
           \/ Finally /\ pc = "finally" /\ pc' = "done"
           \/ /\ Fault /\ Running /\ pc # "finally" /\ output' = output /\ verdict' = verdict
              /\ \/ pc' = "bugcheck" /\ failed' = failed
                 \/ pc' = "finally" /\ failed' = failed \cup {"fault"}
<1>0. call' = call
    BY FlowKept
<1>1. CASE InspectEvent
    BY <1>0, <1>1, Moves DEF InspectEvent, At, Running
<1>2. CASE Skip
    BY <1>2 DEF Skip, At
<1>3. CASE Header
    BY <1>0, <1>3, Moves DEF Header, At, Running
<1>4. CASE Detail
    BY <1>0, <1>4, Moves DEF Detail, At, Running
<1>5. CASE End
    BY <1>0, <1>5, Moves DEF End, At, Running
<1>6. CASE Finally
    BY <1>0, <1>6, Moves DEF Finally, At, Running
<1>7. CASE Fault
    BY <1>7 DEF Fault, Running, output, verdict
<1> QED
    BY <1>1, <1>2, <1>3, <1>4, <1>5, <1>6, <1>7 DEF Next, Reports

LEMMA StatusStep ==
    ASSUME call \in Calls, PcInv, GateInv, LogInv, StatusInv, [Next]_vars
    PROVE  StatusInv'
<1>0. call' = call /\ DetailsOf' = DetailsOf
    BY FlowKept DEF DetailsOf, Is
<1>1. CASE UNCHANGED vars
    <2>1. Ahead("names")' => Ahead("names")
        BY <1>0, <1>1 DEF Ahead, Steps, vars
    <2> QED
        BY <1>0, <1>1, <2>1 DEF StatusInv, vars, verdict, output, Is, Faulted
<1>2. CASE Before \/ Processes \/ Names
    <2>1. /\ pc \in Early /\ log' = log /\ reported' = reported
          /\ pc' \in Early \cup {"inspect", "finally", "done", "asleep"}
          /\ pc' = "finally" => pc = "names" \/ ~Is({"registry"})
          /\ pc' \in {"done", "asleep"} => pc = "gate"
          /\ \/ status' = status
             \/ status' = "failed" /\ Is({"registry"}) /\ ~Ahead("names")'
                /\ pc' \in Early \cup {"inspect"}
             \/ status' = "no memory" /\ pc' = "finally"
        BY <1>2, EarlySteps DEF output
    <2>2. /\ status = "success" \/ (status = "failed" /\ Is({"registry"}) /\ ~Ahead("names"))
          /\ log = <<>>
        BY <2>1 DEF StatusInv, LogInv, Early
    <2>3. pc = "names" => status = "success"
        BY <2>1, <2>2, PlaceOf DEF Early
    <2>4. pc = "gate" => status = "success"
        BY DEF GateInv
    <2>5. (pc' \in Early \cup {"inspect"} /\ Ahead("names")') => Ahead("names")
        BY <1>2, AheadBack DEF Early, Running, Next
    <2>6. CASE pc' \in Early \cup {"inspect"}
        <3>1. status' = "success"
              \/ (status' = "failed" /\ Is({"registry"}) /\ ~Ahead("names")')
            BY <2>1, <2>2, <2>5, <2>6 DEF Early
        <3> QED
            BY <1>0, <2>6, <3>1 DEF StatusInv, Early, Is
    <2>7. CASE pc' = "finally"
        <3>1. status' = "success" \/ (status' = "no memory" /\ log' = <<>>)
            BY <2>1, <2>2, <2>3, <2>7 DEF Early
        <3> QED
            BY <2>7, <3>1 DEF StatusInv
    <2>8. CASE pc' \in {"done", "asleep"}
        <3>1. status' = "success"
            BY <2>1, <2>4, <2>8 DEF Early
        <3> QED
            BY <2>8, <3>1 DEF StatusInv
    <2> QED
        BY <2>1, <2>6, <2>7, <2>8
<1>3. CASE InspectEvent /\ pc = "inspect" /\ pc' = "header"
    <2>1. status = "success" \/ (status = "failed" /\ Is({"registry"}))
        BY <1>3 DEF StatusInv
    <2>2. PICK denied \in BOOLEAN :
            /\ denied => call.kind \in Blocking /\ ~skip'
            /\ IF Is({"object"}) THEN status' = status ELSE status' = Verdict(denied)
        BY <1>3 DEF InspectEvent
    <2>3. /\ status' \in {"success", "denied"}
          /\ status' = "denied" =>
                ~skip' /\ Is({"process_create", "registry", "file_create", "file_set"})
        BY <2>1, <2>2 DEF Verdict, Blocking, Is
    <2> QED
        BY <1>0, <1>3, <2>3 DEF StatusInv, Is
<1>4. CASE Skip /\ pc = "header" /\ pc' = "finally"
    <2>1. status' = status /\ skip
        BY <1>4 DEF Skip, verdict, Logged
    <2>2. status = "success"
        BY <1>4, <2>1 DEF StatusInv
    <2> QED
        BY <1>4, <2>1, <2>2 DEF StatusInv
<1>5. CASE Header /\ pc = "header" /\ pc' = "details"
    <2>1. status' = status /\ skip' = skip /\ next' = 1
        BY <1>5 DEF Header, verdict, LogInv
    <2>2. \A i \in 1..(next' - 1) : FALSE
        BY <2>1
    <2> QED
        BY <1>0, <1>5, <2>1, <2>2 DEF StatusInv, Is
<1>6. CASE Detail /\ pc = "details" /\ pc' = IF next < Len(DetailsOf) THEN "details" ELSE "end"
    <2>1. /\ status' = status /\ skip' = skip /\ next' = next + 1
          /\ reported'.status = IF DetailsOf[next] = "CREATION_STATUS" THEN status
                                ELSE reported.status
        BY <1>6 DEF Detail, verdict
    <2>2. next \in 1..Len(DetailsOf) /\ Len(DetailsOf) \in 1..14
        BY <1>6, DetailsFacts DEF LogInv, Details
    <2>3. \A i \in 1..next : DetailsOf[i] = "CREATION_STATUS" => reported'.status = status
        <3> SUFFICES ASSUME NEW i \in 1..next, DetailsOf[i] = "CREATION_STATUS"
                     PROVE  reported'.status = status
            OBVIOUS
        <3>1. i = next \/ i \in 1..(next - 1)
            BY <2>2
        <3> QED
            BY <1>6, <2>1, <3>1 DEF StatusInv
    <2>4. status \in {"success", "denied"}
          /\ (status = "denied" =>
                ~skip /\ Is({"process_create", "registry", "file_create", "file_set"}))
        BY <1>6 DEF StatusInv
    <2>5. pc' = "end" /\ status = "denied" => reported'.status = "denied"
        <3> SUFFICES ASSUME pc' = "end", status = "denied"
                     PROVE  reported'.status = "denied"
            OBVIOUS
        <3>1. PICK i \in 1..Len(DetailsOf) : DetailsOf[i] = "CREATION_STATUS"
            BY <2>4, DetailsFacts DEF Details, Is
        <3>2. i \in 1..next
            BY <1>6, <2>2
        <3> QED
            BY <2>3, <3>1, <3>2
    <2>6. next' - 1 = next
        BY <2>1, <2>2
    <2> QED
        BY <1>0, <1>6, <2>1, <2>3, <2>4, <2>5, <2>6 DEF StatusInv, Is
<1>7. CASE End /\ pc = "end" /\ pc' = "finally"
    BY <1>7 DEF StatusInv, End, verdict, Faulted
<1>8. CASE Finally /\ pc = "finally" /\ pc' = "done"
    BY <1>8 DEF StatusInv, Finally, verdict, output, Faulted
<1>9. ASSUME pc' = "bugcheck" \/ (pc' = "finally" /\ failed' = failed \cup {"fault"})
      PROVE  StatusInv'
    BY <1>9 DEF StatusInv, Faulted
<1> QED
    BY <1>1, <1>2, <1>3, <1>4, <1>5, <1>6, <1>7, <1>8, <1>9, LateSteps

\* What the last step appends.
LEMMA EndEffect ==
    ASSUME log \in Seq(EntryTypes), End
    PROVE  /\ log' \in Seq(EntryTypes)
           /\ \/ Len(log') = Len(log) + 1
              \/ Len(log') = Len(log) + 2 /\ Is({"image"})
           /\ \A i \in 1..Len(log') :
                log'[i] = IF i <= Len(log) THEN log[i] ELSE "EVENT_END"
<1> DEFINE ends == Ends
           all == EntryTypes
<1>1. /\ ends \in Seq(all) /\ log \in Seq(all)
      /\ Len(ends) = 1 \/ (Len(ends) = 2 /\ Is({"image"}))
      /\ \A i \in 1..Len(ends) : ends[i] = "EVENT_END"
    <2>1. "EVENT_END" \in all
        BY DEF EntryTypes
    <2> HIDE DEF all
    <2>2. CASE Is({"image"})
        <3>1. ends = <<"EVENT_END", "EVENT_END">>
            BY <2>2 DEF Ends
        <3>2. ends \in Seq(all) /\ Len(ends) = 2 /\ ends[1] = "EVENT_END" /\ ends[2] = "EVENT_END"
            BY <2>1, <3>1
        <3>3. \A i \in 1..2 : i = 1 \/ i = 2
            OBVIOUS
        <3> QED
            BY <2>2, <3>2, <3>3 DEF all
    <2>3. CASE ~Is({"image"})
        <3>1. ends = <<"EVENT_END">>
            BY <2>3 DEF Ends
        <3>2. ends \in Seq(all) /\ Len(ends) = 1 /\ ends[1] = "EVENT_END"
            BY <2>1, <3>1
        <3> QED
            BY <3>2 DEF all
    <2> QED
        BY <2>2, <2>3
<1>2. log' = log \o ends
    BY DEF End
<1> HIDE DEF ends
<1>3. /\ log \o ends \in Seq(all) /\ Len(log \o ends) = Len(log) + Len(ends)
      /\ \A i \in 1..(Len(log) + Len(ends)) :
            (log \o ends)[i] = IF i <= Len(log) THEN log[i] ELSE ends[i - Len(log)]
    <2> HIDE DEF all
    <2> QED
        BY <1>1, ConcatProperties, Zenon
<1>4. Len(log) \in Nat /\ Len(ends) \in Nat
    BY <1>1
<1>5. \A i \in 1..(Len(log) + Len(ends)) : ~(i <= Len(log)) => i - Len(log) \in 1..Len(ends)
    BY <1>4
<1>6. \A i \in 1..Len(log') : log'[i] = IF i <= Len(log) THEN log[i] ELSE "EVENT_END"
    BY <1>1, <1>2, <1>3, <1>4, <1>5
<1> QED
    BY <1>1, <1>2, <1>3, <1>6

\* What an entry appends.
LEMMA DetailEffect ==
    ASSUME call \in Calls, log \in Seq(EntryTypes), Detail, next \in 1..Len(DetailsOf)
    PROVE  /\ log' \in Seq(EntryTypes) /\ Len(log) \in Nat
           /\ \/ log' = log
              \/ /\ Len(log') = Len(log) + 1
                 /\ \A i \in 1..Len(log') :
                        log'[i] = IF i <= Len(log) THEN log[i] ELSE DetailsOf[next]
<1> DEFINE f == DetailsOf[next]
           all == EntryTypes
<1>1. f \in all /\ log \in Seq(all)
    BY DEF EntryTypes
<1>2. log' = log \/ log' = Append(log, f)
    BY DEF Detail
<1> HIDE DEF f, all
<1>3. /\ Append(log, f) \in Seq(all) /\ Len(Append(log, f)) = Len(log) + 1 /\ Len(log) \in Nat
      /\ \A i \in 1..(Len(log) + 1) :
            Append(log, f)[i] = IF i <= Len(log) THEN log[i] ELSE f
    BY <1>1
<1>4. log' \in Seq(all)
    BY <1>1, <1>2, <1>3
<1>5. \/ log' = log
      \/ /\ Len(log') = Len(log) + 1
         /\ \A i \in 1..Len(log') : log'[i] = IF i <= Len(log) THEN log[i] ELSE f
    BY <1>2, <1>3
<1> QED
    BY <1>3, <1>4, <1>5 DEF f, all

LEMMA LogTypeStep ==
    ASSUME call \in Calls, PcInv, LogInv, log \in Seq(EntryTypes), next \in 1..15,
           [Next]_vars
    PROVE  log' \in Seq(EntryTypes)' /\ next' \in 1..15
<1>0. EntryTypes' = EntryTypes
    BY FlowKept DEF EntryTypes, DetailsOf, Is
<1>1. SUFFICES log' \in Seq(EntryTypes) /\ next' \in 1..15
    BY <1>0
<1>2. CASE output' = output
    BY <1>2 DEF output
<1>3. CASE Skip \/ Header
    <2> DEFINE all == EntryTypes
    <2>1. "EVENT_END" \in all /\ "MATCH_ID" \in all /\ "EVENT_TYPE" \in all /\ "PID" \in all
        BY DEF EntryTypes
    <2>2. next' = next /\ log' \in {<<>>, <<"EVENT_END">>, <<"MATCH_ID", "EVENT_TYPE", "PID">>}
        BY <1>3 DEF Skip, Header
    <2> HIDE DEF all
    <2>3. /\ <<>> \in Seq(all) /\ <<"EVENT_END">> \in Seq(all)
          /\ <<"MATCH_ID", "EVENT_TYPE", "PID">> \in Seq(all)
        BY <2>1
    <2>4. log' \in Seq(all)
        BY <2>2, <2>3
    <2> QED
        BY <2>2, <2>4 DEF all
<1>4. CASE Detail
    <2>1. next \in 1..Len(DetailsOf) /\ Len(DetailsOf) \in 1..14 /\ next' = next + 1
        BY <1>4, DetailsFacts DEF Detail, At, LogInv, Details
    <2>2. next' \in 1..15
        <3> DEFINE L == Len(DetailsOf)
        <3>1. next \in 1..L /\ L \in 1..14 /\ next' = next + 1
            BY <2>1
        <3> HIDE DEF L
        <3> QED
            BY <3>1
    <2>3. log' \in Seq(EntryTypes)
        BY <1>4, <2>1, DetailEffect
    <2> QED
        BY <2>2, <2>3
<1>5. CASE End
    BY <1>5, EndEffect DEF End
<1>6. Before \/ Processes \/ Names => output' = output
    BY EarlySteps
<1>7. InspectEvent \/ Finally \/ Fault \/ UNCHANGED vars => output' = output
    BY DEF InspectEvent, Finally, Fault, vars
<1> QED
    BY <1>2, <1>3, <1>4, <1>5, <1>6, <1>7 DEF Next, Reports

LEMMA LogStep ==
    ASSUME call \in Calls, PcInv, LogInv, log \in Seq(EntryTypes), [Next]_vars
    PROVE  LogInv'
<1>0. call' = call /\ DetailsOf' = DetailsOf
    BY FlowKept DEF DetailsOf, Is
<1>1. CASE UNCHANGED vars
    BY <1>0, <1>1 DEF LogInv, vars, verdict, output, Faulted, Entries
<1>2. CASE Before \/ Processes \/ Names
    <2>1. /\ pc \in Early /\ log' = log /\ next' = next
          /\ pc' \in Early \cup {"inspect", "finally", "done", "asleep"}
        BY <1>2, EarlySteps DEF output
    <2>2. log' = <<>> /\ next' = 1
        BY <2>1 DEF LogInv, Early
    <2>3. Entries' = {}
        BY <2>2 DEF Entries
    <2> QED
        BY <2>1, <2>2, <2>3 DEF LogInv, Early
<1>3. CASE InspectEvent /\ pc = "inspect" /\ pc' = "header"
    BY <1>3 DEF LogInv, InspectEvent, output
<1>4. CASE Skip /\ pc = "header" /\ pc' = "finally"
    <2>1. log' = <<>> \/ log' = <<"EVENT_END">>
        BY <1>4 DEF Skip
    <2>2. Entries' \subseteq {"EVENT_END"}
        BY <2>1 DEF Entries
    <2> QED
        BY <1>4, <2>2 DEF LogInv
<1>5. CASE Header /\ pc = "header" /\ pc' = "details"
    <2>1. next' = 1 /\ skip' = skip /\ (~skip \/ call.keep)
          /\ log' = <<"MATCH_ID", "EVENT_TYPE", "PID">>
        BY <1>5 DEF Header, verdict, LogInv, Logged
    <2>2. /\ Len(log') = 3 /\ log'[1] = "MATCH_ID" /\ log'[2] = "EVENT_TYPE" /\ log'[3] = "PID"
        BY <2>1
    <2>3. Len(DetailsOf) \in 1..14
        BY DetailsFacts DEF Details
    <2>4. \A m, n \in 1..Len(log') : m < n => log'[m] # log'[n]
        <3>1. \A m \in 1..Len(log') : m = 1 \/ m = 2 \/ m = 3
            BY <2>2
        <3> QED
            BY <2>2, <3>1
    <2>5. \A m \in 4..Len(log') : FALSE
        BY <2>2
    <2>6. next' \in 1..(Len(DetailsOf) + 1) /\ next' <= Len(DetailsOf)
        <3> DEFINE L == Len(DetailsOf)
        <3>1. L \in 1..14 /\ next' = 1
            BY <2>1, <2>3
        <3> HIDE DEF L
        <3>2. next' \in 1..(L + 1) /\ next' <= L
            BY <3>1
        <3> QED
            BY <3>2 DEF L
    <2>7. ~skip' \/ call'.keep
        BY <1>0, <2>1
    <2>8. Len(log') >= 3
        BY <2>2
    <2> QED
        BY <1>0, <1>5, <2>2, <2>4, <2>5, <2>6, <2>7, <2>8 DEF LogInv
<1>6. CASE Detail /\ pc = "details" /\ pc' = IF next < Len(DetailsOf) THEN "details" ELSE "end"
    <2>1. /\ skip' = skip /\ next' = next + 1
          /\ next \in 1..Len(DetailsOf) /\ Len(DetailsOf) \in 1..14
          /\ ~skip \/ call.keep
        BY <1>6, DetailsFacts DEF Detail, verdict, LogInv, Details
    <2>2. /\ Len(log) >= 3
          /\ log[1] = "MATCH_ID" /\ log[2] = "EVENT_TYPE" /\ log[3] = "PID"
          /\ \A m \in 4..Len(log) : \E i \in 1..(next - 1) : log[m] = DetailsOf[i]
          /\ \A m, n \in 1..Len(log) : m < n => log[m] # log[n]
          /\ Len(log) \in Nat
        BY <1>6 DEF LogInv
    <2>3. /\ next' \in 1..(Len(DetailsOf) + 1)
          /\ pc' = "details" => next' <= Len(DetailsOf)
          /\ pc' = "end" => next' = Len(DetailsOf) + 1
          /\ pc' \in {"details", "end"}
          /\ \A i \in 1..(next - 1) : i \in 1..(next' - 1)
          /\ next \in 1..(next' - 1)
        BY <1>6, <2>1
    <2>4. CASE log' = log
        <3>1. \A m \in 4..Len(log') : \E i \in 1..(next' - 1) : log'[m] = DetailsOf[i]
            BY <2>2, <2>3, <2>4
        <3> QED
            BY <1>0, <2>1, <2>2, <2>3, <2>4, <3>1 DEF LogInv
    <2>5. CASE /\ Len(log') = Len(log) + 1
               /\ \A i \in 1..Len(log') :
                    log'[i] = IF i <= Len(log) THEN log[i] ELSE DetailsOf[next]
        <3>1. /\ log'[1] = "MATCH_ID" /\ log'[2] = "EVENT_TYPE" /\ log'[3] = "PID"
              /\ Len(log') >= 3
            BY <2>2, <2>5
        <3>2. \A m \in 4..Len(log') : \E i \in 1..(next' - 1) : log'[m] = DetailsOf[i]
            <4> SUFFICES ASSUME NEW m \in 4..Len(log')
                         PROVE  \E i \in 1..(next' - 1) : log'[m] = DetailsOf[i]
                OBVIOUS
            <4>1. CASE m <= Len(log)
                <5>1. m \in 4..Len(log) /\ m \in 1..Len(log')
                    BY <2>2, <4>1
                <5> QED
                    BY <2>2, <2>3, <2>5, <4>1, <5>1
            <4>2. CASE ~(m <= Len(log))
                <5>1. m \in 1..Len(log')
                    BY <2>2
                <5> QED
                    BY <2>3, <2>5, <4>2, <5>1
            <4> QED
                BY <4>1, <4>2
        <3>3. \A m \in 1..Len(log) : log[m] # DetailsOf[next]
            <4> SUFFICES ASSUME NEW m \in 1..Len(log)
                         PROVE  log[m] # DetailsOf[next]
                OBVIOUS
            <4>1. m = 1 \/ m = 2 \/ m = 3 \/ m \in 4..Len(log)
                BY <2>2
            <4>2. DetailsOf[next] \notin {"MATCH_ID", "EVENT_TYPE", "PID"}
                BY <2>1, DetailsFacts DEF Details, HeaderNames
            <4>3. CASE m \in 4..Len(log)
                <5>1. PICK i \in 1..(next - 1) : log[m] = DetailsOf[i]
                    BY <2>2, <4>3
                <5>2. i \in 1..Len(DetailsOf) /\ i # next
                    BY <2>1
                <5> QED
                    BY <2>1, <5>1, <5>2, DetailsFacts DEF Details
            <4> QED
                BY <2>2, <4>1, <4>2, <4>3
        <3>4. \A m, n \in 1..Len(log') : m < n => log'[m] # log'[n]
            <4> SUFFICES ASSUME NEW m \in 1..Len(log'), NEW n \in 1..Len(log'), m < n
                         PROVE  log'[m] # log'[n]
                OBVIOUS
            <4>1. m \in 1..Len(log) /\ m <= Len(log)
                BY <2>2, <2>5
            <4>2. CASE n <= Len(log)
                <5>1. n \in 1..Len(log)
                    BY <2>2, <4>2
                <5> QED
                    BY <2>2, <2>5, <4>1, <4>2, <5>1
            <4>3. CASE ~(n <= Len(log))
                BY <2>5, <3>3, <4>1, <4>3
            <4> QED
                BY <4>2, <4>3
        <3> QED
            BY <1>0, <2>1, <2>3, <3>1, <3>2, <3>4 DEF LogInv
    <2> QED
        BY <1>6, <2>1, <2>4, <2>5, DetailEffect
<1>7. CASE End /\ pc = "end" /\ pc' = "finally"
    <2>1. Len(log) \in Nat /\ Len(log) >= 3
        BY <1>7 DEF LogInv
    <2>2. log'[Len(log')] = "EVENT_END"
        BY <1>7, <2>1, EndEffect
    <2> QED
        BY <1>7, <2>2 DEF LogInv
<1>8. CASE Finally /\ pc = "finally" /\ pc' = "done"
    BY <1>8 DEF LogInv
<1>9. ASSUME pc' = "bugcheck" \/ (pc' = "finally" /\ failed' = failed \cup {"fault"})
      PROVE  LogInv'
    BY <1>9 DEF LogInv, Faulted
<1> QED
    BY <1>1, <1>2, <1>3, <1>4, <1>5, <1>6, <1>7, <1>8, <1>9, LateSteps

\* An event is open while it has leading entries and details alone.
LEMMA OpenFacts ==
    ASSUME call \in Calls, NEW l, Len(l) \in Nat, NEW k \in 1..(Len(DetailsOf) + 1),
           l[1] = "MATCH_ID", l[2] = "EVENT_TYPE", l[3] = "PID",
           \A m \in 4..Len(l) : \E i \in 1..(k - 1) : l[m] = DetailsOf[i]
    PROVE  \A m \in 1..Len(l) : l[m] # "EVENT_END"
<1>1. /\ \A i \in 1..Len(DetailsOf) : DetailsOf[i] # "EVENT_END"
      /\ Len(DetailsOf) \in 1..14
    BY DetailsFacts DEF Details
<1>2. \A i \in 1..(k - 1) : i \in 1..Len(DetailsOf)
    <2> DEFINE L == Len(DetailsOf)
    <2>1. L \in 1..14 /\ k \in 1..(L + 1)
        BY <1>1
    <2> HIDE DEF L
    <2>2. \A i \in 1..(k - 1) : i \in 1..L
        BY <2>1
    <2> QED
        BY <2>2 DEF L
<1> SUFFICES ASSUME NEW m \in 1..Len(l)
             PROVE  l[m] # "EVENT_END"
    OBVIOUS
<1>3. m = 1 \/ m = 2 \/ m = 3 \/ m \in 4..Len(l)
    OBVIOUS
<1> QED
    BY <1>1, <1>2, <1>3

LEMMA FirstThree ==
    ASSUME NEW S, NEW s \in Seq(S), Len(s) >= 3,
           s[1] = "MATCH_ID", s[2] = "EVENT_TYPE", s[3] = "PID"
    PROVE  SubSeq(s, 1, 3) = <<"MATCH_ID", "EVENT_TYPE", "PID">>
<1> DEFINE t == SubSeq(s, 1, 3)
           u == <<"MATCH_ID", "EVENT_TYPE", "PID">>
<1>1. /\ t \in Seq(S) /\ Len(t) = 3
      /\ \A i \in 1..3 : t[i] = s[i]
    <2>1. Len(s) \in Nat /\ 1 \in 1..(Len(s) + 1) /\ 3 \in 0..Len(s)
        OBVIOUS
    <2>2. /\ t \in Seq(S)
          /\ Len(t) = IF 1 <= 3 THEN 3 - 1 + 1 ELSE 0
          /\ \A i \in 1..(3 - 1 + 1) : t[i] = s[1 + i - 1]
        BY <2>1, SubSeqProperties
    <2>3. \A i \in 1..3 : 1 + i - 1 = i
        OBVIOUS
    <2> QED
        BY <2>2, <2>3
<1>2. u \in Seq({"MATCH_ID", "EVENT_TYPE", "PID"}) /\ Len(u) = 3
      /\ u[1] = "MATCH_ID" /\ u[2] = "EVENT_TYPE" /\ u[3] = "PID"
    OBVIOUS
<1> HIDE DEF t, u
<1>3. \A i \in 1..3 : i = 1 \/ i = 2 \/ i = 3
    OBVIOUS
<1>4. \A i \in 1..3 : t[i] = u[i]
    BY <1>1, <1>2, <1>3
<1>5. t = u
    BY <1>1, <1>2, <1>4, SeqEqual
<1> QED
    BY <1>5 DEF t, u

\* The rights a handle must not have are gone once the gate is passed.
LEMMA GrantedFacts ==
    ASSUME Is({"object"})
    PROVE  /\ Granted \subseteq access
           /\ (call.client = "kernel" \/ (call.client = "user" /\ call.resist)) => Granted = {}
BY DEF Granted, Defends

LEMMA AccessStep ==
    ASSUME call \in Calls, PcInv, LogInv, AccessInv, log \in Seq(EntryTypes), [Next]_vars
    PROVE  AccessInv'
<1>0. call' = call /\ DetailsOf' = DetailsOf
    BY FlowKept DEF DetailsOf, Is
<1>1. SUFFICES ASSUME Is({"object"})
               PROVE  AccessInv'
    BY <1>0 DEF AccessInv, Is
<1> DEFINE Bare == call.client = "kernel" \/ (call.client = "user" /\ call.resist)
<1>2. /\ access \subseteq call.access
      /\ pc = "gate" => access = call.access
      /\ pc # "gate" /\ ~Faulted /\ pc # "bugcheck" => (Bare => access = {})
      /\ pc \in {"target", "acting", "inspect", "header", "details", "end"} =>
            desired = access
      /\ pc = "details" => \A i \in 1..(next - 1) :
            DetailsOf[i] = "PHDESIRED_ACCESS" => reported.access = access
      /\ pc = "end" => reported.access = access
      /\ pc \in {"finally", "done"} /\ "EVENT_END" \in Entries => reported.access = access
    BY <1>1 DEF AccessInv
<1>3. ASSUME access' \subseteq call.access, pc' # "gate",
             pc' # "bugcheck" /\ ~Faulted' => (Bare => access' = {}),
             pc' \in {"target", "acting", "inspect", "header", "details", "end"} =>
                desired' = access',
             pc' = "details" => \A i \in 1..(next' - 1) :
                DetailsOf[i] = "PHDESIRED_ACCESS" => reported'.access = access',
             pc' = "end" => reported'.access = access',
             pc' \in {"finally", "done"} /\ "EVENT_END" \in Entries' =>
                reported'.access = access'
      PROVE  AccessInv'
    BY <1>0, <1>3 DEF AccessInv, Is
<1> HIDE DEF Bare
<1>4. CASE UNCHANGED vars
    BY <1>0, <1>4 DEF AccessInv, vars, verdict, output, Faulted, Entries, Is
<1>5. CASE Before \/ Processes \/ Names
    <2>1. /\ pc \in Early /\ log' = log
          /\ pc' \in (Early \ {"gate"}) \cup {"inspect", "finally", "done", "asleep"}
          /\ failed \subseteq failed'
          /\ IF pc = "gate" THEN Ignore \/ NapTime \/ Pass
             ELSE access' = access /\ desired' = desired
          /\ pc' \in {"done", "asleep"} => pc = "gate"
        BY <1>5, EarlySteps DEF output
    <2>2. "EVENT_END" \notin Entries'
        <3>1. log' = <<>>
            BY <2>1 DEF LogInv, Early
        <3> QED
            BY <3>1 DEF Entries
    <2>3. /\ pc' # "gate" /\ pc' \notin {"header", "details", "end", "bugcheck"}
          /\ ~Faulted' => ~Faulted
        BY <2>1 DEF Early, Faulted
    <2>4. CASE pc = "gate"
        <3>1. access' \subseteq access /\ (Bare => access' = {}) /\ (Pass => desired' = access')
            BY <1>1, <2>1, <2>4, GrantedFacts DEF Ignore, NapTime, Pass, Bare
        <3>2. pc' \in {"target", "acting", "inspect"} => Pass
            BY <2>1, <2>4 DEF Ignore, NapTime
        <3> QED
            BY <1>2, <1>3, <2>2, <2>3, <3>1, <3>2
    <2>5. CASE pc # "gate"
        <3>1. pc \in {"target", "acting"}
            BY <1>1, <2>1, <2>5, KindsAt DEF Early, Is
        <3> QED
            BY <1>2, <1>3, <2>1, <2>2, <2>3, <2>5, <3>1
    <2> QED
        BY <2>4, <2>5
<1>6. CASE InspectEvent /\ pc = "inspect" /\ pc' = "header"
    <2>1. access' \subseteq access /\ desired' = access' /\ failed' = failed
        <3>1. \/ access' = access /\ desired' = desired
              \/ \E mask \in SUBSET Rights : Masked(mask)
            BY <1>1, <1>6 DEF InspectEvent
        <3> QED
            BY <1>2, <1>6, <3>1 DEF InspectEvent, Masked
    <2>2. ~Faulted' => ~Faulted
        BY <2>1 DEF Faulted
    <2> QED
        BY <1>2, <1>3, <1>6, <2>1, <2>2
<1>7. CASE Skip /\ pc = "header" /\ pc' = "finally"
    <2>1. access' = access /\ failed' = failed
        BY <1>7 DEF Skip, verdict
    <2>2. log' = <<>>
        BY <1>1, <1>7 DEF Skip, Is
    <2>3. "EVENT_END" \notin Entries' /\ (~Faulted' => ~Faulted)
        BY <2>1, <2>2 DEF Entries, Faulted
    <2> QED
        BY <1>2, <1>3, <1>7, <2>1, <2>3
<1>8. CASE Header /\ pc = "header" /\ pc' = "details"
    <2>1. access' = access /\ desired' = desired /\ failed' = failed /\ next' = 1
        BY <1>8 DEF Header, verdict, LogInv
    <2>2. ~Faulted' => ~Faulted
        BY <2>1 DEF Faulted
    <2>3. \A i \in 1..(next' - 1) : FALSE
        BY <2>1
    <2> QED
        BY <1>2, <1>3, <1>8, <2>1, <2>2, <2>3
<1>9. CASE Detail /\ pc = "details" /\ pc' = IF next < Len(DetailsOf) THEN "details" ELSE "end"
    <2>1. /\ access' = access /\ desired' = desired /\ failed' = failed
          /\ next' = next + 1
          /\ reported'.access = IF DetailsOf[next] = "PHDESIRED_ACCESS" THEN desired
                                ELSE reported.access
        BY <1>9 DEF Detail, verdict
    <2>2. next \in 1..Len(DetailsOf) /\ Len(DetailsOf) \in 1..14
        BY <1>9, DetailsFacts DEF LogInv, Details
    <2>3. \A i \in 1..next : DetailsOf[i] = "PHDESIRED_ACCESS" => reported'.access = access
        <3> SUFFICES ASSUME NEW i \in 1..next, DetailsOf[i] = "PHDESIRED_ACCESS"
                     PROVE  reported'.access = access
            OBVIOUS
        <3>1. i = next \/ i \in 1..(next - 1)
            BY <2>2
        <3> QED
            BY <1>2, <1>9, <2>1, <3>1
    <2>4. pc' = "end" => reported'.access = access
        <3> SUFFICES ASSUME pc' = "end"
                     PROVE  reported'.access = access
            OBVIOUS
        <3>1. PICK i \in 1..Len(DetailsOf) : DetailsOf[i] = "PHDESIRED_ACCESS"
            BY <1>1, DetailsFacts DEF Details, Is
        <3>2. i \in 1..next
            BY <1>9, <2>2
        <3> QED
            BY <2>3, <3>1, <3>2
    <2>5. next' - 1 = next /\ (~Faulted' => ~Faulted) /\ pc' \in {"details", "end"}
        BY <1>9, <2>1, <2>2 DEF Faulted
    <2> QED
        BY <1>2, <1>3, <1>9, <2>1, <2>3, <2>4, <2>5
<1>10. CASE End /\ pc = "end" /\ pc' = "finally"
    <2>1. access' = access /\ failed' = failed /\ reported' = reported
        BY <1>10 DEF End, verdict
    <2>2. ~Faulted' => ~Faulted
        BY <2>1 DEF Faulted
    <2> QED
        BY <1>2, <1>3, <1>10, <2>1, <2>2
<1>11. CASE Finally /\ pc = "finally" /\ pc' = "done"
    <2>1. access' = access /\ failed' = failed /\ reported' = reported /\ log' = log
        BY <1>11 DEF Finally, verdict, output
    <2>2. (~Faulted' => ~Faulted) /\ Entries' = Entries
        BY <2>1 DEF Faulted, Entries
    <2> QED
        BY <1>2, <1>3, <1>11, <2>1, <2>2
<1>12. CASE /\ Running /\ pc # "finally" /\ output' = output /\ verdict' = verdict
            /\ \/ pc' = "bugcheck" /\ failed' = failed
               \/ pc' = "finally" /\ failed' = failed \cup {"fault"}
    <2>1. access' = access /\ log' = log
        BY <1>12 DEF verdict, output
    <2>2. "EVENT_END" \notin Entries
        <3>1. pc \in Early \cup Late /\ pc \notin {"finally", "done"}
            BY <1>12, PlaceOf, StepsFacts DEF Running
        <3>2. CASE pc \in Early \cup {"inspect", "header"}
            <4>1. log = <<>>
                BY <3>2 DEF LogInv, Early
            <4> QED
                BY <4>1 DEF Entries
        <3>3. CASE pc \in {"details", "end"}
            <4>1. /\ Len(log) \in Nat
                  /\ log[1] = "MATCH_ID" /\ log[2] = "EVENT_TYPE" /\ log[3] = "PID"
                  /\ \A m \in 4..Len(log) : \E i \in 1..(next - 1) : log[m] = DetailsOf[i]
                  /\ next \in 1..(Len(DetailsOf) + 1)
                BY <3>3 DEF LogInv
            <4>5. \A m \in 1..Len(log) : log[m] # "EVENT_END"
                BY <4>1, OpenFacts
            <4> QED
                BY <4>5 DEF Entries
        <3> QED
            BY <3>1, <3>2, <3>3 DEF Late
    <2>3. "EVENT_END" \notin Entries'
        BY <2>1, <2>2 DEF Entries
    <2>4. pc' = "finally" => Faulted'
        BY <1>12 DEF Faulted
    <2> QED
        BY <1>2, <1>3, <1>12, <2>1, <2>3, <2>4
<1> QED
    BY <1>4, <1>5, <1>6, <1>7, <1>8, <1>9, <1>10, <1>11, <1>12, LateSteps

\* The agent can put together what was written.
LEMMA WellFramedStep ==
    ASSUME call \in Calls, PcInv, LogInv, LogInv', WellFramed, log \in Seq(EntryTypes),
           log' \in Seq(EntryTypes), [Next]_vars
    PROVE  WellFramed'
<1>0. call' = call /\ DetailsOf' = DetailsOf
    BY FlowKept DEF DetailsOf, Is
<1>1. ASSUME Entries' \ {"EVENT_END"} # {} =>
                /\ SubSeq(log', 1, 3) = <<"MATCH_ID", "EVENT_TYPE", "PID">>
                /\ Returned' /\ ~Faulted' => log'[Len(log')] = "EVENT_END",
             \A m, n \in 1..Len(log') : m < n =>
                \/ log'[m] # log'[n] /\ log'[m] # "EVENT_END"
                \/ Is({"image"}) /\ n = Len(log') /\ log'[n] = "EVENT_END",
             skip' /\ ~call.keep =>
                Entries' \subseteq IF Is({"image"}) THEN {"EVENT_END"} ELSE {},
             pc' = "end" => ~skip' \/ call.keep
      PROVE  WellFramed'
    BY <1>0, <1>1 DEF WellFramed, Framed, LoggedUnlessExcluded, Is
<1>2. CASE UNCHANGED vars
    BY <1>0, <1>2 DEF WellFramed, Framed, LoggedUnlessExcluded, vars, verdict, output,
       Faulted, Entries, Returned, Is
<1>3. ASSUME log' = <<>>, pc' # "end"
      PROVE  WellFramed'
    <2>1. Entries' = {} /\ Len(log') = 0
        BY <1>3 DEF Entries
    <2>2. \A m \in 1..Len(log') : FALSE
        BY <2>1
    <2> QED
        BY <1>1, <1>3, <2>1, <2>2
<1>4. CASE Before \/ Processes \/ Names
    <2>1. /\ pc \in Early /\ log' = log /\ pc' # "end"
        BY <1>4, EarlySteps DEF output, Early
    <2> QED
        BY <1>3, <2>1 DEF LogInv, Early
<1>5. CASE InspectEvent /\ pc = "inspect" /\ pc' = "header"
    BY <1>3, <1>5 DEF LogInv, InspectEvent, output
<1>6. CASE Skip /\ pc = "header" /\ pc' = "finally"
    <2>1. CASE Is({"image"})
        <3>1. log' = <<"EVENT_END">>
            BY <1>6, <2>1 DEF Skip
        <3>2. Len(log') = 1 /\ log'[1] = "EVENT_END"
            BY <3>1
        <3>3. \A m \in 1..Len(log') : m = 1
            BY <3>2
        <3>4. Entries' \subseteq {"EVENT_END"}
            BY <3>2, <3>3 DEF Entries
        <3>5. \A m, n \in 1..Len(log') : ~(m < n)
            BY <3>3
        <3> QED
            BY <1>1, <1>6, <2>1, <3>4, <3>5
    <2>2. CASE ~Is({"image"})
        BY <1>3, <1>6, <2>2 DEF Skip
    <2> QED
        BY <2>1, <2>2
<1>7. ASSUME pc' \in {"details", "end"}
      PROVE  WellFramed'
    <2>1. /\ ~skip' \/ call.keep
          /\ next' \in 1..(Len(DetailsOf) + 1)
          /\ Len(log') >= 3 /\ Len(log') \in Nat
          /\ log'[1] = "MATCH_ID" /\ log'[2] = "EVENT_TYPE" /\ log'[3] = "PID"
          /\ \A m \in 4..Len(log') : \E i \in 1..(next' - 1) : log'[m] = DetailsOf[i]
          /\ \A m, n \in 1..Len(log') : m < n => log'[m] # log'[n]
        BY <1>0, <1>7 DEF LogInv
    <2>2. \A m \in 1..Len(log') : log'[m] # "EVENT_END"
        <3>1. PICK l, k : l = log' /\ k = next'
            OBVIOUS
        <3>2. /\ k \in 1..(Len(DetailsOf) + 1)
              /\ Len(l) \in Nat
              /\ l[1] = "MATCH_ID" /\ l[2] = "EVENT_TYPE" /\ l[3] = "PID"
              /\ \A m \in 4..Len(l) : \E i \in 1..(k - 1) : l[m] = DetailsOf[i]
            BY <2>1, <3>1
        <3>3. \A m \in 1..Len(l) : l[m] # "EVENT_END"
            BY <3>2, OpenFacts
        <3> QED
            BY <3>1, <3>3
    <2>3. SubSeq(log', 1, 3) = <<"MATCH_ID", "EVENT_TYPE", "PID">>
        BY <2>1, FirstThree
    <2>4. ~Returned'
        BY <1>7 DEF Returned
    <2> QED
        BY <1>1, <2>1, <2>2, <2>3, <2>4
<1>8. CASE End /\ pc = "end" /\ pc' = "finally"
    <2>1. /\ ~skip \/ call.keep
          /\ next \in 1..(Len(DetailsOf) + 1)
          /\ Len(log) >= 3 /\ Len(log) \in Nat
          /\ log[1] = "MATCH_ID" /\ log[2] = "EVENT_TYPE" /\ log[3] = "PID"
          /\ \A m \in 4..Len(log) : \E i \in 1..(next - 1) : log[m] = DetailsOf[i]
          /\ \A m, n \in 1..Len(log) : m < n => log[m] # log[n]
        BY <1>8 DEF LogInv
    <2>2. \A m \in 1..Len(log) : log[m] # "EVENT_END"
        BY <2>1, OpenFacts
    <2>3. /\ \/ Len(log') = Len(log) + 1
             \/ Len(log') = Len(log) + 2 /\ Is({"image"})
          /\ \A i \in 1..Len(log') :
                log'[i] = IF i <= Len(log) THEN log[i] ELSE "EVENT_END"
        BY <1>8, EndEffect
    <2>4. SubSeq(log', 1, 3) = <<"MATCH_ID", "EVENT_TYPE", "PID">>
        <3>1. Len(log') >= 3
            BY <2>1, <2>3
        <3>2. \A i \in 1..3 : i \in 1..Len(log') /\ i <= Len(log)
            BY <2>1, <2>3
        <3>3. \A i \in 1..3 : log'[i] = log[i]
            BY <2>3, <3>2
        <3>4. log'[1] = log[1] /\ log'[2] = log[2] /\ log'[3] = log[3]
            BY <3>3
        <3>5. log'[1] = "MATCH_ID" /\ log'[2] = "EVENT_TYPE" /\ log'[3] = "PID"
            BY <2>1, <3>4
        <3> QED
            BY <3>1, <3>5, FirstThree
    <2>5. ASSUME NEW m \in 1..Len(log'), NEW n \in 1..Len(log'), m < n
          PROVE  \/ log'[m] # log'[n] /\ log'[m] # "EVENT_END"
                 \/ Is({"image"}) /\ n = Len(log') /\ log'[n] = "EVENT_END"
        <3>1. CASE n <= Len(log)
            <4>1. m \in 1..Len(log) /\ n \in 1..Len(log)
                BY <2>1, <2>5, <3>1
            <4> QED
                BY <2>1, <2>2, <2>3, <2>5, <4>1
        <3>2. CASE ~(n <= Len(log)) /\ m <= Len(log)
            <4>1. m \in 1..Len(log)
                BY <2>1, <2>5, <3>2
            <4> QED
                BY <2>2, <2>3, <2>5, <3>2, <4>1
        <3>3. CASE ~(n <= Len(log)) /\ ~(m <= Len(log))
            <4>1. Len(log') = Len(log) + 2 /\ n = Len(log') /\ Is({"image"})
                BY <2>1, <2>3, <2>5, <3>3
            <4> QED
                BY <2>3, <2>5, <3>3, <4>1
        <3> QED
            BY <3>1, <3>2, <3>3
    <2>6. skip' = skip /\ ~Returned'
        BY <1>8 DEF End, verdict, Returned
    <2> QED
        BY <1>1, <1>8, <2>1, <2>4, <2>5, <2>6
<1>9. CASE Finally /\ pc = "finally" /\ pc' = "done"
    <2>1. skip' = skip /\ failed' = failed /\ log' = log
        BY <1>9 DEF Finally, verdict, output
    <2>2. Entries' = Entries /\ Faulted' = Faulted
        BY <2>1 DEF Entries, Faulted
    <2>3. ~Faulted /\ Entries \ {"EVENT_END"} # {} => log[Len(log)] = "EVENT_END"
        BY <1>9 DEF LogInv
    <2> QED
        BY <1>1, <1>9, <2>1, <2>2, <2>3 DEF WellFramed, Framed, LoggedUnlessExcluded
<1>10. CASE /\ output' = output /\ verdict' = verdict /\ pc' \in {"bugcheck", "finally"}
    <2>1. skip' = skip /\ log' = log
        BY <1>10 DEF verdict, output
    <2>2. Entries' = Entries /\ ~Returned'
        BY <1>10, <2>1 DEF Entries, Returned
    <2> QED
        BY <1>1, <1>10, <2>1, <2>2 DEF WellFramed, Framed, LoggedUnlessExcluded
<1> QED
    BY <1>2, <1>4, <1>5, <1>6, <1>7, <1>8, <1>9, <1>10, LateSteps

-----------------------------------------------------------------------------
(* The invariant.                                                          *)

LEMMA FoundStep ==
    ASSUME [Next]_vars, found \subseteq {"PI", "TPI"}
    PROVE  found' \subseteq {"PI", "TPI"}
<1>1. CASE Before \/ Names
    BY <1>1 DEF Before, Ignore, NapTime, Pass, Names, ImageName, FileName, NetValues,
       KeyName, KeyNameFaults, QueryName, QueryFails, CallerName, event
<1>2. CASE processInfoInit
    BY <1>2, InfoInit
<1>3. CASE Processes /\ ~processInfoInit
    BY <1>3 DEF Processes, PinActing, PinTarget, Unprobed, Refer, ReferFails,
       AddNewProcess, event
<1>4. CASE Reports \/ Finally \/ Fault \/ UNCHANGED vars
    BY <1>4 DEF Reports, InspectEvent, Skip, Header, Detail, End, Finally, Fault, vars,
       event
<1> QED
    BY <1>1, <1>2, <1>3, <1>4 DEF Next

LEMMA VerdictStep ==
    ASSUME [Next]_vars, access \subseteq Rights, desired \subseteq Rights, skip \in BOOLEAN,
           status \in {"success", "denied", "failed", "no memory"}
    PROVE  /\ access' \subseteq Rights /\ desired' \subseteq Rights /\ skip' \in BOOLEAN
           /\ status' \in {"success", "denied", "failed", "no memory"}
<1>1. CASE Before
    <2>1. Granted \subseteq Rights
        BY DEF Granted
    <2> QED
        BY <1>1, <2>1 DEF Before, Ignore, NapTime, Pass
<1>2. CASE Names
    BY <1>2 DEF Names, ImageName, FileName, NetValues, KeyName, KeyNameFaults,
       QueryName, QueryFails, CallerName, verdict
<1>3. CASE InspectEvent
    <2>1. \/ access' = access /\ desired' = desired
          \/ \E mask \in SUBSET Rights : Masked(mask)
        BY <1>3 DEF InspectEvent
    <2>2. access' \subseteq Rights /\ desired' \subseteq Rights
        BY <2>1 DEF Masked
    <2> QED
        BY <1>3, <2>2 DEF InspectEvent, Verdict
<1>4. CASE Processes
    BY <1>4 DEF Processes, PinActing, PinTarget, Unprobed, processInfoInit, Refer,
       ReferFails, AddNewProcess, verdict
<1>5. CASE Skip \/ Header \/ Detail \/ End \/ Finally \/ Fault \/ UNCHANGED vars
    BY <1>5 DEF Skip, Header, Detail, End, Finally, Fault, vars, verdict
<1> QED
    BY <1>1, <1>2, <1>3, <1>4, <1>5 DEF Next, Reports

LEMMA FailedStep ==
    ASSUME [Next]_vars, failed \subseteq {"memory", "no name", "probe", "value", "fault"}
    PROVE  failed' \subseteq {"memory", "no name", "probe", "value", "fault"}
<1>1. CASE Before \/ Processes
    BY <1>1 DEF Before, Ignore, NapTime, Pass, Processes, PinActing, PinTarget,
       Unprobed, processInfoInit, Refer, ReferFails, AddNewProcess
<1>2. CASE Names
    BY <1>2 DEF Names, ImageName, FileName, NetValues, KeyName, KeyNameFaults,
       QueryName, QueryFails, CallerName
<1>3. CASE Reports \/ Finally \/ Fault \/ UNCHANGED vars
    BY <1>3 DEF Reports, InspectEvent, Skip, Header, Detail, End, Finally, Fault, vars
<1> QED
    BY <1>1, <1>2, <1>3 DEF Next

LEMMA TypeStep ==
    ASSUME TypeOK, PcInv, PcInv', GateInv, Untaken, Untaken', LogInv, [Next]_vars
    PROVE  TypeOK'
<1>0. call' = call /\ mode' = mode /\ Steps' = Steps /\ call \in Calls
    BY FlowKept DEF TypeOK, Steps
<1>1. pc' \in {Steps[n] : n \in 1..Len(Steps)}' \cup {"asleep", "bugcheck"}
    BY DEF PcInv
<1>2. log' \in Seq(EntryTypes)' /\ next' \in 1..15
    BY <1>0, LogTypeStep DEF TypeOK
<1>3. held' \in [Resources -> -1..1]
    <2>1. CASE Running'
        BY <2>1 DEF Untaken
    <2>2. CASE ~Running /\ ~Running'
        BY <2>2, Stops DEF TypeOK, vars
    <2>3. CASE Running /\ Finally
        <3>1. /\ held \in [Resources -> 0..1]
              /\ held' = [r \in Resources |-> held[r] - (IF r \in Given THEN 1 ELSE 0)]
            BY <2>3 DEF Untaken, Finally, Give
        <3> QED
            BY <3>1
    <2>4. CASE Running /\ ~Finally /\ ~Running'
        <3>1. \/ Before \/ Processes \/ Names
              \/ Fault
            BY <1>0, <2>4, LateSteps DEF Running, vars
        <3>2. CASE Fault
            BY <3>2 DEF Fault, TypeOK
        <3>3. CASE Before \/ Processes \/ Names
            <4>1. pc = "gate" /\ (Ignore \/ NapTime \/ Pass) /\ pc' \in {"done", "asleep"}
                BY <1>0, <2>4, <3>3, EarlySteps DEF Early, Running
            <4> QED
                BY <4>1 DEF Ignore, NapTime, Pass, TypeOK
        <3> QED
            BY <3>1, <3>2, <3>3
    <2> QED
        BY <2>1, <2>2, <2>3, <2>4, RunningBack
<1>4. CASE UNCHANGED vars
    BY <1>0, <1>1, <1>2, <1>3, <1>4 DEF TypeOK, vars, event, verdict, output
<1>5. CASE Running
    <2>1. held \in [Resources -> 0..1]
        BY <1>5 DEF Untaken
    <2>2. /\ DOMAIN backing \subseteq DOMAIN backing'
          /\ \A f \in DOMAIN backing' : Backs(f)
        BY <2>1, BackingStep
    <2>3. \A f \in DOMAIN backing' : backing'[f] \in Resources \cup {"caller"}
        BY <2>2 DEF Backs, TypeOK
    <2>4. found' \subseteq {"PI", "TPI"}
        BY FoundStep DEF TypeOK
    <2>5. access' \subseteq Rights /\ desired' \subseteq Rights /\ skip' \in BOOLEAN
          /\ status' \in {"success", "denied", "failed", "no memory"}
        BY VerdictStep DEF TypeOK
    <2>6. failed' \subseteq {"memory", "no name", "probe", "value", "fault"}
        BY FailedStep DEF TypeOK
    <2>7. stale' \subseteq DOMAIN backing'
        <3>1. stale' = stale \/ \E fs \in SUBSET Gone : stale' = stale \cup fs
            BY StaleStep
        <3>2. Gone \subseteq DOMAIN backing
            BY DEF Gone
        <3> QED
            BY <2>2, <3>1, <3>2 DEF TypeOK
    <2> QED
        BY <1>0, <1>1, <1>2, <1>3, <2>3, <2>4, <2>5, <2>6, <2>7 DEF TypeOK
<1> QED
    BY <1>4, <1>5, Stops

LEMMA InitOK == Init => IInv
<1> SUFFICES ASSUME Init
             PROVE  IInv
    OBVIOUS
<1> USE DEF Init
<1>1. /\ call \in Calls /\ call.kind \in Kinds /\ call.access \subseteq Rights
      /\ call.kind # "object" => call.client = "no"
    BY CallFacts
<1>2. pc = Steps[1] /\ 1 \in 1..Len(Steps) /\ pc \in Early
    BY <1>1, StepsFacts
<1>3. Is({"object"}) => pc = "gate"
    BY <1>1, StagesFacts DEF Is
<1>4. PcInv /\ Running /\ pc \notin {"asleep", "bugcheck"}
    BY <1>2 DEF PcInv, Early, Running
<1>5. /\ \A r \in Resources : held[r] = 0
      /\ held \in [Resources -> 0..1] /\ held \in [Resources -> -1..1]
    OBVIOUS
<1>6. DOMAIN backing = {}
    OBVIOUS
<1>7. Entries = {} /\ Len(log) = 0 /\ \A m \in 1..Len(log) : FALSE
    BY DEF Entries
<1>8. TypeOK
    <2>1. log \in Seq(EntryTypes)
        OBVIOUS
    <2>2. access \subseteq Rights
        BY <1>1
    <2>3. mode \in Modes /\ found \subseteq {"PI", "TPI"} /\ desired \subseteq Rights
          /\ failed \subseteq {"memory", "no name", "probe", "value", "fault"}
        OBVIOUS
    <2>4. skip \in BOOLEAN /\ status \in {"success", "denied", "failed", "no memory"}
        OBVIOUS
    <2>7. next \in 1..15 /\ stale \subseteq DOMAIN backing
        OBVIOUS
    <2>5. pc \in {Steps[n] : n \in 1..Len(Steps)} \cup {"asleep", "bugcheck"}
        BY <1>4 DEF PcInv
    <2>6. \A f \in DOMAIN backing : backing[f] \in Resources \cup {"caller"}
        BY <1>6
    <2> HIDE DEF Init
    <2> QED
        BY <1>1, <1>5, <2>1, <2>2, <2>3, <2>4, <2>5, <2>6, <2>7 DEF TypeOK
<1>9. GateInv
    BY <1>5 DEF GateInv
<1>10. Untaken
    BY <1>5, <1>6 DEF Untaken, Resources
<1>11. Owned
    BY <1>5, <1>6 DEF Owned, Resources
<1>12. Backed
    BY <1>6 DEF Backed
<1>13. StatusInv
    BY <1>2 DEF StatusInv, Early
<1>14. AccessInv
    BY <1>2, <1>3, <1>7 DEF AccessInv, Early
<1>15. LogInv
    BY <1>2 DEF LogInv, Early
<1>16. Balanced /\ DenialLogged
    BY <1>2 DEF Balanced, DenialLogged, Returned, Early
<1>17. HeldWhenRead
    BY DEF HeldWhenRead
<1>18. WellFramed
    BY <1>2, <1>7 DEF WellFramed, Framed, LoggedUnlessExcluded, Early
<1>19. AccessShrinks
    BY <1>2, <1>7 DEF AccessShrinks, Early, Returned
<1> QED
    BY <1>4, <1>8, <1>9, <1>10, <1>11, <1>12, <1>13, <1>14, <1>15, <1>16, <1>17,
       <1>18, <1>19 DEF IInv

LEMMA IInvStep == IInv /\ [Next]_vars => IInv'
<1> SUFFICES ASSUME IInv, [Next]_vars
             PROVE  IInv'
    OBVIOUS
<1>1. /\ TypeOK /\ PcInv /\ GateInv /\ Untaken /\ Owned /\ Backed /\ StatusInv
      /\ AccessInv /\ LogInv /\ Balanced /\ HeldWhenRead /\ WellFramed
      /\ call \in Calls /\ log \in Seq(EntryTypes)
    BY DEF IInv, TypeOK
<1>2. PcInv' /\ GateInv' /\ Untaken'
    BY <1>1, PcStep, GateStep, UntakenStep
<1>3. Owned' /\ Backed'
    BY <1>1, OwnedStep, BackedStep
<1>4. LogInv' /\ StatusInv' /\ AccessInv'
    BY <1>1, LogStep, StatusStep, AccessStep
<1>5. TypeOK'
    BY <1>1, <1>2, TypeStep
<1>6. Balanced' /\ HeldWhenRead'
    BY <1>1, BalancedStep, HeldWhenReadStep
<1>7. WellFramed'
    <2>1. log' \in Seq(EntryTypes)
        <3>1. EntryTypes' = EntryTypes
            BY FlowKept DEF EntryTypes, DetailsOf, Is
        <3> QED
            BY <1>5, <3>1 DEF TypeOK
    <2> QED
        BY <1>1, <1>4, <2>1, WellFramedStep
<1>8. DenialLogged' /\ AccessShrinks'
    <2>1. DenialLogged'
        BY <1>4 DEF StatusInv, DenialLogged
    <2>2. AccessShrinks'
        BY <1>4 DEF AccessInv, AccessShrinks, Returned
    <2> QED
        BY <2>1, <2>2
<1> QED
    BY <1>2, <1>3, <1>4, <1>5, <1>6, <1>7, <1>8 DEF IInv

\* Whatever a call is made for, and wherever an exception falls, the invariant
\* holds throughout the call.
THEOREM Invariant == Spec => []IInv
BY InitOK, IInvStep, PTL DEF Spec

\* The variables of a call keep their types; no resource is held twice or
\* given back more than once too often.
THEOREM TypeCorrect == Spec => []TypeOK
<1>1. IInv => TypeOK
    BY DEF IInv
<1> QED
    BY <1>1, Invariant, PTL

\* A callback that returns has given back every pin, string, name and buffer
\* it took, once, but for the leaks and the double release Unbalanced names.
THEOREM GivesBack == Spec => []Balanced
<1>1. IInv => Balanced
    BY DEF IInv
<1> QED
    BY <1>1, Invariant, PTL

\* No rule and no log entry reads what is not held, but for the parts of a
\* file name and the description of a created process.
THEOREM ReadsWhatIsHeld == Spec => []HeldWhenRead
<1>1. IInv => HeldWhenRead
    BY DEF IInv
<1> QED
    BY <1>1, Invariant, PTL

\* Every event the callbacks write has its three leading entries first, no
\* entry twice and an end, unless an exception cut it; an excluded event is
\* not written.
THEOREM EventsAreWellFramed == Spec => []WellFramed
<1>1. IInv => WellFramed
    BY DEF IInv
<1> QED
    BY <1>1, Invariant, PTL

\* An operation that is denied has its denial in the log, unless an exception
\* cut the event.
THEOREM DenialsAreLogged == Spec => []DenialLogged
<1>1. IInv => DenialLogged
    BY DEF IInv
<1> QED
    BY <1>1, Invariant, PTL

\* For every set of rights: a handle never has more of them than asked for, a
\* protected client's has none, and the log has those the handle got.
THEOREM AccessOnlyShrinks == Spec => []AccessShrinks
<1>1. IInv => AccessShrinks
    BY DEF IInv
<1> QED
    BY <1>1, Invariant, PTL

=============================================================================
