-------------------------- MODULE FileOutputProofs --------------------------
(***************************************************************************)
(* Proofs about FileOutput: for every number and size of records, every    *)
(* number of configuration files and every limit, no record is lost but    *)
(* for the named causes, files are bounded, and rotation removes the       *)
(* oldest files.                                                           *)
(***************************************************************************)
EXTENDS FileOutput, TLAPS, FiniteSetTheorems, SequenceTheorems,
        WellFoundedInduction

-----------------------------------------------------------------------------
(* Sums of sizes, and the content of a file.                               *)

\* No record takes no bytes.
LEMMA FirstTakeNone ==
    ASSUME NEW content, NEW m \in Nat
    PROVE  FirstTake(content, 0, m)
<1> DEFINE b == [n \in 0..0 |-> 0]
<1>1. b \in [0..0 -> 0..m] /\ b[0] = 0 /\ 1..0 = {}
    OBVIOUS
<1> HIDE DEF b
<1> QED
    BY <1>1 DEF FirstTake

\* What takes m bytes at most takes n at most.
LEMMA FirstTakeMore ==
    ASSUME NEW content, NEW k \in Nat, NEW m \in Nat, NEW n \in Nat, m <= n,
           FirstTake(content, k, m)
    PROVE  FirstTake(content, k, n)
<1>1. PICK b \in [0..k -> 0..m] :
        b[0] = 0 /\ \A i \in 1..k : b[i] = b[i - 1] + Size(content[i])
    BY DEF FirstTake
<1>2. b \in [0..k -> 0..n]
    OBVIOUS
<1> QED
    BY <1>1, <1>2 DEF FirstTake

\* A record more takes its size more, and the ones before it what they took.
LEMMA FirstTakeAppend ==
    ASSUME NEW s \in Seq(0..Records), NEW r \in 1..Records, NEW m \in Nat,
           FirstTake(s, Len(s), m)
    PROVE  /\ FirstTake(Append(s, r), Len(s), m)
           /\ FirstTake(Append(s, r), Len(s) + 1, m + Size(r))
<1> DEFINE t == Append(s, r)
           k == Len(s)
<1>1. PICK b \in [0..k -> 0..m] :
        b[0] = 0 /\ \A i \in 1..k : b[i] = b[i - 1] + Size(s[i])
    BY DEF FirstTake
<1>2. k \in Nat /\ Size(r) \in Nat
    BY FileAssumption
<1>3. /\ \A i \in 1..k : t[i] = s[i]
      /\ t[k + 1] = r
    OBVIOUS
<1> HIDE DEF t, k
<1>4. FirstTake(t, k, m)
    BY <1>1, <1>3 DEF FirstTake
<1> DEFINE c == [i \in 0..(k + 1) |-> IF i <= k THEN b[i] ELSE b[k] + Size(r)]
<1>5. b[k] \in 0..m
    BY <1>2
<1>6. c \in [0..(k + 1) -> 0..(m + Size(r))]
    <2> SUFFICES ASSUME NEW i \in 0..(k + 1) PROVE c[i] \in 0..(m + Size(r))
        OBVIOUS
    <2>1. CASE i <= k
        <3>1. b[i] \in 0..m
            BY <2>1, <1>2
        <3> QED
            BY <2>1, <3>1, <1>2
    <2>2. CASE ~(i <= k)
        BY <2>2, <1>2, <1>5
    <2> QED
        BY <2>1, <2>2
<1>7. c[0] = 0
    BY <1>1, <1>2
<1>8. ASSUME NEW i \in 1..(k + 1) PROVE c[i] = c[i - 1] + Size(t[i])
    <2>1. i - 1 \in 0..k /\ c[i - 1] = b[i - 1]
        BY <1>2
    <2>2. CASE i <= k
        BY <2>1, <2>2, <1>1, <1>2, <1>3
    <2>3. CASE ~(i <= k)
        <3>1. i = k + 1 /\ i - 1 = k
            BY <2>3, <1>2
        <3> QED
            BY <3>1, <2>1, <1>2, <1>3
    <2> QED
        BY <2>2, <2>3
<1> HIDE DEF c
<1>9. FirstTake(t, k + 1, m + Size(r))
    BY <1>6, <1>7, <1>8 DEF FirstTake
<1> QED
    BY <1>4, <1>9 DEF t, k

\* A write leaves a sequence of records.
LEMMA AppendedTyped ==
    ASSUME NEW s \in Seq(0..Records), NEW p \in Nat, NEW r \in 0..Records
    PROVE  Appended(s, p, r) \in Seq(0..Records)
<1> DEFINE l == IF p < Len(s) THEN Len(s) ELSE p + 1
<1>1. l \in Nat /\ Len(s) \in Nat
    OBVIOUS
<1>2. ASSUME NEW n \in 1..l
      PROVE  (IF n = p + 1 THEN r ELSE IF n <= Len(s) THEN s[n] ELSE 0) \in 0..Records
    <2>1. CASE n = p + 1
        BY <2>1
    <2>2. CASE n # p + 1 /\ n <= Len(s)
        <3>1. n \in 1..Len(s)
            BY <1>1, <2>2
        <3> QED
            BY <3>1, <2>2, ElementOfSeq
    <2>3. CASE n # p + 1 /\ ~(n <= Len(s))
        BY <2>3, FileAssumption
    <2> QED
        BY <2>1, <2>2, <2>3
<1> QED
    BY <1>1, <1>2 DEF Appended

\* A write at the end of a file appends the record.
LEMMA AppendedAtEnd ==
    ASSUME NEW s \in Seq(0..Records), NEW r \in 0..Records
    PROVE  Appended(s, Len(s), r) = Append(s, r)
<1>1. Len(s) \in Nat /\ ~(Len(s) < Len(s))
    OBVIOUS
<1>2. Appended(s, Len(s), r) =
        [n \in 1..(Len(s) + 1) |-> IF n = Len(s) + 1 THEN r
                                   ELSE IF n <= Len(s) THEN s[n] ELSE 0]
    BY <1>1 DEF Appended
<1>3. /\ Len(Append(s, r)) = Len(s) + 1
      /\ \A n \in 1..(Len(s) + 1) : Append(s, r)[n] =
            IF n = Len(s) + 1 THEN r ELSE IF n <= Len(s) THEN s[n] ELSE 0
    BY <1>1
<1>4. Appended(s, Len(s), r) \in Seq(0..Records) /\ Append(s, r) \in Seq(0..Records)
    BY <1>1, AppendedTyped
<1>5. Len(Appended(s, Len(s), r)) = Len(s) + 1
    BY <1>1, <1>2, <1>4
<1>6. \A n \in 1..(Len(s) + 1) : Appended(s, Len(s), r)[n] = Append(s, r)[n]
    BY <1>2, <1>3
<1> HIDE DEF Appended
<1> QED
    BY <1>3, <1>4, <1>5, <1>6, SeqEqual

\* The records of a file that got one more.
LEMMA RecordsAppend ==
    ASSUME NEW s \in Seq(0..Records), NEW r \in 1..Records
    PROVE  RecordsOf(Append(s, r)) = RecordsOf(s) \cup {r}
<1>1. Len(s) \in Nat /\ Len(Append(s, r)) = Len(s) + 1
    OBVIOUS
<1>2. \A n \in 1..Len(s) : n \in 1..(Len(s) + 1) /\ Append(s, r)[n] = s[n]
    BY <1>1
<1>3. Append(s, r)[Len(s) + 1] = r /\ Len(s) + 1 \in 1..(Len(s) + 1)
    BY <1>1
<1>4. \A n \in 1..(Len(s) + 1) : n \in 1..Len(s) \/ n = Len(s) + 1
    BY <1>1
<1> DEFINE t == Append(s, r)
<1> HIDE DEF t
<1>5. {t[n] : n \in 1..(Len(s) + 1)} = {s[n] : n \in 1..Len(s)} \cup {r}
    BY <1>2, <1>3, <1>4 DEF t
<1>6. r # 0
    BY FileAssumption
<1> QED
    BY <1>1, <1>5, <1>6 DEF RecordsOf, t

\* A file only has records that were sent.
LEMMA RecordsTyped ==
    ASSUME NEW s \in Seq(0..Records)
    PROVE  RecordsOf(s) \subseteq 1..Records
<1>1. \A n \in 1..Len(s) : s[n] \in 0..Records
    BY ElementOfSeq
<1> QED
    BY <1>1, FileAssumption DEF RecordsOf

-----------------------------------------------------------------------------
(* Types.                                                                  *)

Handles == [position : Nat, failed : BOOLEAN, record : 0..Records, sum : Nat]
Stages == {"none", "check", "returned", "rotate", "create", "take", "flush",
           "test"}

LEMMA ClosedTyped == Closed \in Handles
BY FileAssumption DEF Closed, Handles

\* Where the goroutines are after one of them moved.
LEMMA GoEffect ==
    ASSUME pc \in [Writers -> Stages], NEW w \in Writers, NEW stage \in Stages,
           Go(w, stage)
    PROVE  /\ pc' \in [Writers -> Stages]
           /\ pc'[w] = stage
           /\ \A v \in Writers : v # w => pc'[v] = pc[v]
BY DEF Go

\* The agent ends: no goroutine is left.
LEMMA EndedEffect ==
    ASSUME TypeOK, Ended
    PROVE  /\ loaded' = -1
           /\ pc' = [w \in Writers |-> "none"]
           /\ handle' = [w \in Writers |-> Closed]
           /\ spoiled' = spoiled \/ spoiled' = spoiled \cup {"stopped"}
BY DEF Ended

\* The new directory of a rotation.
LEMMA RotateFiles ==
    ASSUME TypeOK, NEW w \in Writers, Rotate(w)
    PROVE  \E gone \in SUBSET Surplus(Archived \cup {second}) :
            /\ Current \in DOMAIN files
            /\ \A v \in Writers : ~Open(v)
            /\ DOMAIN files' = (Archived \cup {second}) \ gone
            /\ \A n \in DOMAIN files' :
                    files'[n] = files[IF n = second THEN Current ELSE n]
            /\ files' \in [DOMAIN files' -> Seq(0..Records)]
            /\ removed' = removed \cup
                    UNION {RecordsOf(files[IF n = second THEN Current ELSE n]) : n \in gone}
            /\ gone # Surplus(Archived \cup {second}) => "remove" \in faults'
<1>1. PICK gone \in SUBSET Surplus(Archived \cup {second}) :
        /\ \/ gone = Surplus(Archived \cup {second}) /\ UNCHANGED faults
           \/ gone # Surplus(Archived \cup {second}) /\ Allowed("remove")
              /\ faults' = faults \cup {"remove"}
        /\ LET renamed == [n \in Archived \cup {second} |->
                            IF n = second THEN files[Current] ELSE files[n]]
           IN  /\ files' = [n \in DOMAIN renamed \ gone |-> renamed[n]]
               /\ removed' = removed \cup UNION {RecordsOf(renamed[n]) : n \in gone}
    BY DEF Rotate, Stamp
<1>2. Current \in DOMAIN files /\ \A v \in Writers : ~Open(v)
    BY DEF Rotate
<1>3. gone \subseteq Archived \cup {second}
    BY DEF Surplus
<1> DEFINE A == Archived \cup {second}
           f(n) == files[IF n = second THEN Current ELSE n]
           renamed == [n \in A |-> IF n = second THEN files[Current] ELSE files[n]]
<1>4. files' = [n \in A \ gone |-> f(n)]
    BY <1>1
<1>5. \A n \in A : f(n) \in Seq(0..Records)
    BY <1>2 DEF TypeOK, Archived
<1>6. {RecordsOf(renamed[n]) : n \in gone} = {RecordsOf(f(n)) : n \in gone}
    BY <1>3
<1>7. removed' = removed \cup UNION {RecordsOf(f(n)) : n \in gone}
    BY <1>1, <1>6
<1>8. gone # Surplus(A) => "remove" \in faults'
    BY <1>1
<1> HIDE DEF f
<1>9. /\ DOMAIN files' = A \ gone
      /\ \A n \in DOMAIN files' : files'[n] = f(n)
      /\ files' \in [DOMAIN files' -> Seq(0..Records)]
    BY <1>4, <1>5
<1> QED
    BY <1>2, <1>7, <1>8, <1>9 DEF f

\* The part of TypeOK about the directory, and the rest of it.
FilesTyped ==
    DOMAIN files \subseteq Nat /\ files \in [DOMAIN files -> Seq(0..Records)]
OthersTyped ==
    /\ running \in BOOLEAN /\ written_bytes \in Nat
    /\ loaded \in -1..YamlFiles
    /\ pc \in [Writers -> Stages] /\ handle \in [Writers -> Handles]
    /\ sent \in 0..Records
    /\ second \in FirstSecond..LastSecond /\ starts \in 0..MaxStarts
    /\ faults \subseteq {"remove", "rename", "open", "flush"}
    /\ spoiled \subseteq {"stopped", "writers", "second", "rename", "flush"}
    /\ removed \subseteq 1..Records

LEMMA TypeParts ==
    /\ TypeOK <=> FilesTyped /\ OthersTyped
    /\ TypeOK' <=> FilesTyped' /\ OthersTyped'
BY DEF TypeOK, FilesTyped, OthersTyped, Stages, Handles

LEMMA Numbers ==
    /\ Records \in Nat /\ YamlFiles \in Nat /\ LastSecond \in Nat
    /\ MaxStarts \in Nat /\ FirstSecond \in Nat \ {0} /\ FirstSecond <= LastSecond
    /\ ROTATE_SIZE \in Nat /\ ROTATE_COUNT \in Nat
    /\ \A r \in 1..Records : Size(r) \in Nat
BY FileAssumption

\* The directory stays one.
LEMMA FilesTypeStep ==
    ASSUME TypeOK, Started, [Next]_vars
    PROVE  FilesTyped'
<1>1. FilesTyped /\ \A n \in DOMAIN files : files[n] \in Seq(0..Records)
    BY DEF TypeOK, FilesTyped
<1>2. CASE files' = files
    BY <1>1, <1>2 DEF FilesTyped
<1>3. ASSUME NEW w \in Writers, Rotate(w)
      PROVE  FilesTyped'
    <2>1. PICK gone \in SUBSET Surplus(Archived \cup {second}) :
            /\ DOMAIN files' = (Archived \cup {second}) \ gone
            /\ files' \in [DOMAIN files' -> Seq(0..Records)]
        BY <1>3, RotateFiles
    <2>2. second \in Nat
        BY Numbers DEF TypeOK
    <2>3. DOMAIN files' \subseteq Nat
        BY <2>1, <2>2, <1>1 DEF FilesTyped, Archived
    <2> QED
        BY <2>1, <2>3 DEF FilesTyped
<1>4. ASSUME NEW w \in Writers, Create(w)
      PROVE  FilesTyped'
    <2>1. /\ DOMAIN files' = DOMAIN files \cup {Current}
          /\ \A n \in DOMAIN files' :
                files'[n] = IF n = Current THEN <<>> ELSE files[n]
          /\ files' = [n \in DOMAIN files' |-> files'[n]]
        BY <1>4 DEF Create
    <2>2. <<>> \in Seq(0..Records)
        OBVIOUS
    <2>3. ASSUME NEW n \in DOMAIN files'
          PROVE  files'[n] \in Seq(0..Records)
        <3>1. CASE n = Current
            BY <2>1, <2>2, <3>1
        <3>2. CASE n # Current
            BY <2>1, <1>1, <3>2
        <3> QED
            BY <3>1, <3>2
    <2> QED
        BY <2>1, <2>3, <1>1 DEF FilesTyped, Current
<1>5. ASSUME NEW w \in Writers, Flush(w)
      PROVE  FilesTyped'
    <2>1. handle[w].position \in Nat /\ handle[w].record \in 0..Records
        BY DEF TypeOK
    <2>2. ASSUME Current \in DOMAIN files
          PROVE  Appended(files[Current], handle[w].position, handle[w].record)
                    \in Seq(0..Records)
        BY <2>1, <2>2, <1>1, AppendedTyped
    <2>3. DOMAIN files' = DOMAIN files /\ files' \in [DOMAIN files -> Seq(0..Records)]
        BY <1>1, <1>5, <2>2 DEF Flush, FilesTyped
    <2> QED
        BY <2>3, <1>1 DEF FilesTyped
<1> QED
    BY <1>2, <1>3, <1>4, <1>5 DEF Next, Goroutine, Start, Stop, Tick, InitLogs,
       Check, RotateFails, NothingToRotate, CreateFails, Take, FlushFails, Test, vars

\* The fields of a handle after some of them change.
LEMMA HandleFields ==
    ASSUME NEW h \in Handles, NEW x, NEW y
    PROVE  /\ [h EXCEPT !.record = x, !.sum = y] \in
                [position : {h.position}, failed : {h.failed}, record : {x}, sum : {y}]
           /\ [h EXCEPT !.position = @ + 1, !.record = x, !.sum = y] \in
                [position : {h.position + 1}, failed : {h.failed}, record : {x}, sum : {y}]
           /\ [h EXCEPT !.failed = TRUE, !.record = x, !.sum = y] \in
                [position : {h.position}, failed : {TRUE}, record : {x}, sum : {y}]
<1>1. [h EXCEPT !.record = x, !.sum = y] \in
        [position : {h.position}, failed : {h.failed}, record : {x}, sum : {y}]
    BY DEF Handles
<1>2. [h EXCEPT !.position = @ + 1, !.record = x, !.sum = y] \in
        [position : {h.position + 1}, failed : {h.failed}, record : {x}, sum : {y}]
    BY DEF Handles
<1>3. [h EXCEPT !.failed = TRUE, !.record = x, !.sum = y] \in
        [position : {h.position}, failed : {TRUE}, record : {x}, sum : {y}]
    BY DEF Handles
<1> QED
    BY <1>1, <1>2, <1>3

\* What a writer does to its handle, and to no other one.
LEMMA HandleChange ==
    ASSUME handle \in [Writers -> Handles], NEW w \in Writers,
           NEW p \in Nat, NEW f \in BOOLEAN, NEW r \in 0..Records, NEW n \in Nat,
           NEW h \in [position : {p}, failed : {f}, record : {r}, sum : {n}],
           handle' = [handle EXCEPT ![w] = h]
    PROVE  /\ handle' \in [Writers -> Handles]
           /\ handle'[w].position = p /\ handle'[w].failed = f
           /\ handle'[w].record = r /\ handle'[w].sum = n
           /\ \A v \in Writers : v # w => handle'[v] = handle[v]
<1>1. h \in Handles /\ h.position = p /\ h.failed = f /\ h.record = r /\ h.sum = n
    BY DEF Handles
<1>2. handle'[w] = h /\ \A v \in Writers : v # w => handle'[v] = handle[v]
    OBVIOUS
<1>3. handle' \in [Writers -> Handles]
    BY <1>1
<1> QED
    BY <1>1, <1>2, <1>3

LEMMA TakeEffect ==
    ASSUME OthersTyped, NEW w \in Writers, Take(w)
    PROVE  /\ sent' = sent + 1 /\ sent + 1 \in 1..Records
           /\ handle' \in [Writers -> Handles]
           /\ handle'[w].position = handle[w].position
           /\ handle'[w].failed = handle[w].failed
           /\ handle'[w].record = sent + 1
           /\ handle'[w].sum = written_bytes +
                    IF handle[w].failed THEN 0 ELSE Size(sent + 1)
           /\ \A v \in Writers : v # w => handle'[v] = handle[v]
<1>1. sent' = sent + 1 /\ sent + 1 \in 1..Records /\ written_bytes \in Nat
    BY Numbers DEF Take, OthersTyped
<1> DEFINE n == written_bytes + IF handle[w].failed THEN 0 ELSE Size(sent + 1)
           h == [handle[w] EXCEPT !.record = sent + 1, !.sum = n]
<1>2. handle \in [Writers -> Handles] /\ handle[w] \in Handles
    BY DEF OthersTyped
<1>3. n \in Nat /\ sent + 1 \in 0..Records
    BY <1>1, Numbers
<1>4. handle[w].position \in Nat /\ handle[w].failed \in BOOLEAN
    BY <1>2 DEF Handles
<1>5. Sum(w, IF handle[w].failed THEN 0 ELSE Size(sent + 1)) = n
    BY DEF Sum
<1> HIDE DEF n
<1>6. handle' = [handle EXCEPT ![w] = h]
    BY <1>2, <1>5 DEF Take
<1>7. h \in [position : {handle[w].position}, failed : {handle[w].failed},
             record : {sent + 1}, sum : {n}]
    BY <1>2, HandleFields
<1> HIDE DEF h
<1> DEFINE p == handle[w].position
           f == handle[w].failed
           r == sent + 1
<1>8. p \in Nat /\ f \in BOOLEAN /\ r \in 0..Records /\ n \in Nat
    BY <1>3, <1>4
<1>9. h \in [position : {p}, failed : {f}, record : {r}, sum : {n}]
    BY <1>7
<1> HIDE DEF p, f, r
<1>10. /\ handle' \in [Writers -> Handles]
       /\ handle'[w].position = p /\ handle'[w].failed = f
       /\ handle'[w].record = r /\ handle'[w].sum = n
       /\ \A v \in Writers : v # w => handle'[v] = handle[v]
    BY <1>2, <1>6, <1>8, <1>9, HandleChange
<1> QED
    BY <1>1, <1>10 DEF p, f, r, n

LEMMA FlushEffect ==
    ASSUME OthersTyped, NEW w \in Writers, Flush(w)
    PROVE  /\ handle' \in [Writers -> Handles]
           /\ handle'[w].position = handle[w].position + 1
           /\ \A v \in Writers : v # w => handle'[v] = handle[v]
<1> DEFINE h == [handle[w] EXCEPT !.position = @ + 1, !.record = 0, !.sum = 0]
<1>2. handle \in [Writers -> Handles] /\ handle[w] \in Handles
    BY DEF OthersTyped
<1>4. handle[w].position + 1 \in Nat /\ handle[w].failed \in BOOLEAN /\ 0 \in 0..Records
    BY <1>2, Numbers DEF Handles
<1>6. handle' = [handle EXCEPT ![w] = h]
    BY <1>2 DEF Flush
<1>7. h \in [position : {handle[w].position + 1}, failed : {handle[w].failed},
             record : {0}, sum : {0}]
    BY <1>2, HandleFields
<1> HIDE DEF h
<1> DEFINE p == handle[w].position + 1
           f == handle[w].failed
<1>8. p \in Nat /\ f \in BOOLEAN /\ 0 \in 0..Records /\ 0 \in Nat
    BY <1>4
<1>9. h \in [position : {p}, failed : {f}, record : {0}, sum : {0}]
    BY <1>7
<1> HIDE DEF p, f
<1>10. /\ handle' \in [Writers -> Handles]
       /\ handle'[w].position = p
       /\ \A v \in Writers : v # w => handle'[v] = handle[v]
    BY <1>2, <1>6, <1>8, <1>9, HandleChange
<1> QED
    BY <1>10 DEF p

LEMMA FlushFailsEffect ==
    ASSUME OthersTyped, NEW w \in Writers, FlushFails(w)
    PROVE  /\ handle' \in [Writers -> Handles]
           /\ handle'[w].position = handle[w].position
           /\ \A v \in Writers : v # w => handle'[v] = handle[v]
<1> DEFINE h == [handle[w] EXCEPT !.failed = TRUE, !.record = 0, !.sum = 0]
<1>2. handle \in [Writers -> Handles] /\ handle[w] \in Handles
    BY DEF OthersTyped
<1>4. handle[w].position \in Nat /\ 0 \in 0..Records
    BY <1>2, Numbers DEF Handles
<1>6. handle' = [handle EXCEPT ![w] = h]
    BY <1>2 DEF FlushFails
<1>7. h \in [position : {handle[w].position}, failed : {TRUE}, record : {0}, sum : {0}]
    BY <1>2, HandleFields
<1> HIDE DEF h
<1> QED
    BY <1>2, <1>4, <1>6, <1>7, HandleChange

\* Everything else stays in its type.
LEMMA OthersTypeStep ==
    ASSUME TypeOK, Started, [Next]_vars
    PROVE  OthersTyped'
<1>0. OthersTyped /\ pc \in [Writers -> Stages] /\ handle \in [Writers -> Handles]
    BY TypeParts DEF OthersTyped
<1>1. CASE Start
    <2>1. loaded' \in -1..YamlFiles /\ starts' \in 0..MaxStarts
        BY <1>0, <1>1, Numbers DEF Start, OthersTyped
    <2>2. running' \in BOOLEAN /\ written_bytes' \in Nat
        BY <1>1 DEF Start
    <2> QED
        BY <1>0, <1>1, <2>1, <2>2 DEF Start, OthersTyped, history
<1>2. CASE Stop
    <2>1. Ended
        BY <1>2 DEF Stop
    <2>2. handle' \in [Writers -> Handles] /\ pc' \in [Writers -> Stages]
        BY <2>1, EndedEffect, ClosedTyped DEF Stages
    <2>3. loaded' \in -1..YamlFiles
        BY <2>1, EndedEffect, Numbers
    <2>4. spoiled' \subseteq {"stopped", "writers", "second", "rename", "flush"}
        BY <2>1, EndedEffect, <1>0 DEF OthersTyped
    <2> QED
        BY <1>0, <1>2, <2>2, <2>3, <2>4 DEF Stop, OthersTyped
<1>3. CASE Tick
    BY <1>0, <1>3, Numbers DEF Tick, OthersTyped, memory, history
<1>4. CASE InitLogs
    <2>1. loaded + 1 \in Writers /\ loaded + 1 \in -1..YamlFiles
        BY <1>4, Numbers DEF InitLogs, Writers
    <2>2. pc' \in [Writers -> Stages]
        BY <1>4, <1>0, <2>1, GoEffect DEF InitLogs, Stages
    <2> QED
        BY <1>0, <1>4, <2>1, <2>2, Numbers DEF InitLogs, OthersTyped, history
<1>5. ASSUME NEW w \in Writers, Check(w)
      PROVE  OthersTyped'
    <2>1. pc' \in [Writers -> Stages]
        BY <1>5, <1>0, GoEffect DEF Check, Stages
    <2> QED
        BY <1>0, <1>5, <2>1 DEF Check, OthersTyped
<1>6. ASSUME NEW w \in Writers, Rotate(w)
      PROVE  OthersTyped'
    <2>1. pc' \in [Writers -> Stages]
        BY <1>6, <1>0, GoEffect DEF Rotate, Stages
    <2>2. PICK gone \in SUBSET Surplus(Archived \cup {second}) :
            /\ Current \in DOMAIN files
            /\ removed' = removed \cup
                    UNION {RecordsOf(files[IF n = second THEN Current ELSE n]) : n \in gone}
        BY <1>6, RotateFiles
    <2>4. \A n \in gone : RecordsOf(files[IF n = second THEN Current ELSE n])
                            \subseteq 1..Records
        <3> SUFFICES ASSUME NEW n \in gone
                     PROVE  RecordsOf(files[IF n = second THEN Current ELSE n])
                                \subseteq 1..Records
            OBVIOUS
        <3>1. (IF n = second THEN Current ELSE n) \in DOMAIN files
            BY <2>2 DEF Surplus, Archived
        <3> QED
            BY <3>1, RecordsTyped DEF TypeOK
    <2>5. removed' \subseteq 1..Records
        BY <2>2, <2>4 DEF TypeOK
    <2>6. /\ faults' \subseteq {"remove", "rename", "open", "flush"}
          /\ spoiled' \subseteq {"stopped", "writers", "second", "rename", "flush"}
        BY <1>6 DEF Rotate, TypeOK
    <2> QED
        BY <1>0, <1>6, <2>1, <2>5, <2>6 DEF Rotate, OthersTyped
<1>7. ASSUME NEW w \in Writers, RotateFails(w)
      PROVE  OthersTyped'
    <2>1. pc' \in [Writers -> Stages]
        BY <1>7, <1>0, GoEffect DEF RotateFails, Stages
    <2> QED
        BY <1>0, <1>7, <2>1 DEF RotateFails, OthersTyped
<1>8. ASSUME NEW w \in Writers, NothingToRotate(w)
      PROVE  OthersTyped'
    <2>1. pc' \in [Writers -> Stages]
        BY <1>8, <1>0, GoEffect DEF NothingToRotate, Stages
    <2> QED
        BY <1>0, <1>8, <2>1 DEF NothingToRotate, OthersTyped, history
<1>9. ASSUME NEW w \in Writers, Create(w)
      PROVE  OthersTyped'
    <2>1. pc' \in [Writers -> Stages]
        BY <1>9, <1>0, GoEffect DEF Create, Stages
    <2> QED
        BY <1>0, <1>9, <2>1 DEF Create, OthersTyped, history
<1>10. ASSUME NEW w \in Writers, CreateFails(w)
       PROVE  OthersTyped'
    <2>1. Ended
        BY <1>10 DEF CreateFails
    <2>2. handle' \in [Writers -> Handles] /\ pc' \in [Writers -> Stages]
        BY <2>1, EndedEffect, ClosedTyped DEF Stages
    <2>3. loaded' \in -1..YamlFiles
        BY <2>1, EndedEffect, Numbers
    <2>4. spoiled' \subseteq {"stopped", "writers", "second", "rename", "flush"}
        BY <2>1, EndedEffect, <1>0 DEF OthersTyped
    <2> QED
        BY <1>0, <1>10, <2>2, <2>3, <2>4 DEF CreateFails, OthersTyped
<1>11. ASSUME NEW w \in Writers, Take(w)
       PROVE  OthersTyped'
    <2>1. pc' \in [Writers -> Stages]
        BY <1>11, <1>0, GoEffect DEF Take, Stages
    <2>2. sent' \in 0..Records /\ handle' \in [Writers -> Handles]
        BY <1>0, <1>11, TakeEffect
    <2> QED
        BY <1>0, <1>11, <2>1, <2>2 DEF Take, OthersTyped, history
<1>12. ASSUME NEW w \in Writers, Flush(w)
       PROVE  OthersTyped'
    <2>1. pc' \in [Writers -> Stages]
        BY <1>12, <1>0, GoEffect DEF Flush, Stages
    <2>2. handle' \in [Writers -> Handles]
        BY <1>0, <1>12, FlushEffect
    <2>3. written_bytes' \in Nat
        BY <1>0, <1>12 DEF Flush, Handles
    <2> QED
        BY <1>0, <1>12, <2>1, <2>2, <2>3 DEF Flush, OthersTyped, history
<1>13. ASSUME NEW w \in Writers, FlushFails(w)
       PROVE  OthersTyped'
    <2>1. pc' \in [Writers -> Stages]
        BY <1>13, <1>0, GoEffect DEF FlushFails, Stages
    <2>2. handle' \in [Writers -> Handles]
        BY <1>0, <1>13, FlushFailsEffect
    <2>3. written_bytes' \in Nat
        BY <1>0, <1>13 DEF FlushFails, Handles
    <2> QED
        BY <1>0, <1>13, <2>1, <2>2, <2>3 DEF FlushFails, OthersTyped
<1>14. ASSUME NEW w \in Writers, Test(w)
       PROVE  OthersTyped'
    <2>1. pc' \in [Writers -> Stages]
        BY <1>14, <1>0, GoEffect DEF Test, Stages
    <2>2. handle' \in [Writers -> Handles] /\ written_bytes' \in Nat
        BY <1>14, <1>0, ClosedTyped DEF Test, OthersTyped
    <2> QED
        BY <1>0, <1>14, <2>1, <2>2 DEF Test, OthersTyped, history
<1>15. CASE UNCHANGED vars
    BY <1>0, <1>15 DEF OthersTyped, vars, memory, history
<1> QED
    BY <1>1, <1>2, <1>3, <1>4, <1>5, <1>6, <1>7, <1>8, <1>9, <1>10, <1>11,
       <1>12, <1>13, <1>14, <1>15 DEF Next, Goroutine

\* Every step keeps the types.
LEMMA TypeStep ==
    ASSUME TypeOK, Started, [Next]_vars
    PROVE  TypeOK'
BY TypeParts, FilesTypeStep, OthersTypeStep

-----------------------------------------------------------------------------
(* Where the goroutines are.                                               *)

\* Every step keeps Started.
LEMMA StartedStep ==
    ASSUME TypeOK, Started, [Next]_vars
    PROVE  Started'
<1>0. /\ OthersTyped /\ pc \in [Writers -> Stages] /\ handle \in [Writers -> Handles]
      /\ loaded \in -1..YamlFiles /\ running \in BOOLEAN
    BY TypeParts DEF OthersTyped
<1>a. Writers = 1..YamlFiles
    BY DEF Writers
<1>1. CASE Start
    <2>1. \A v \in Writers : pc'[v] = "none" /\ handle'[v] = handle[v]
        BY <1>0, <1>1, <1>a, Numbers DEF Start, Started
    <2> QED
        BY <2>1, <1>1 DEF Start, Started, Open
<1>2. ASSUME Ended PROVE Started'
    <2>1. \A v \in Writers : pc'[v] = "none" /\ handle'[v] = Closed
        BY <1>2, EndedEffect
    <2> QED
        BY <1>2, <2>1 DEF Ended, Started, Open
<1>3. CASE Tick
    BY <1>3 DEF Tick, Started, Open, memory
<1>4. CASE InitLogs
    <2>1. loaded + 1 \in Writers /\ loaded' = loaded + 1 /\ loaded \in 0..(YamlFiles - 1)
        BY <1>4, Numbers DEF InitLogs, Writers
    <2>2. pc'[loaded + 1] = "check"
          /\ \A v \in Writers : v # loaded + 1 => pc'[v] = pc[v]
        BY <1>4, <1>0, <2>1, GoEffect DEF InitLogs, Stages
    <2>3. pc[loaded + 1] = "none"
        BY <2>1, <1>a, Numbers DEF Started
    <2>4. \A v \in Writers : handle'[v] = handle[v]
        BY <1>4 DEF InitLogs
    <2>5. \A v \in Writers : pc[v] \notin {"flush", "test"}
        BY <2>1, Numbers DEF Started
    <2>6. written_bytes' = 0 /\ running' = running
        BY <1>4 DEF InitLogs
    <2>7. ASSUME NEW v \in Writers
          PROVE  /\ pc'[v] # "none" => v <= loaded'
                 /\ Open(v)' => running'
                 /\ ~Open(v)' => handle'[v] = Closed
                 /\ pc'[v] \notin {"flush", "test"}
        <3>1. CASE v = loaded + 1
            BY <2>1, <2>2, <2>3, <2>4, <3>1 DEF Started, Open
        <3>2. CASE v # loaded + 1
            BY <2>1, <2>2, <2>4, <2>5, <2>6, <3>2, <1>a, Numbers DEF Started, Open
        <3> QED
            BY <3>1, <3>2
    <2> QED
        BY <2>6, <2>7 DEF Started
<1>5. ASSUME NEW w \in Writers, pc[w] \notin {"none", "take", "flush", "test"},
             NEW stage \in {"returned", "rotate", "create"}, Go(w, stage),
             UNCHANGED <<running, written_bytes, loaded, handle>>
      PROVE  Started'
    <2>1. pc'[w] = stage /\ \A v \in Writers : v # w => pc'[v] = pc[v]
        BY <1>5, <1>0, GoEffect DEF Stages
    <2>2. ASSUME NEW v \in Writers
          PROVE  /\ pc'[v] # "none" => pc[v] # "none"
                 /\ Open(v)' <=> Open(v)
                 /\ pc'[v] \in {"flush", "test"} => pc[v] \in {"flush", "test"}
        BY <2>1, <1>5 DEF Open
    <2> QED
        BY <2>2, <1>5 DEF Started
<1>6. ASSUME NEW w \in Writers, Create(w)
      PROVE  Started'
    <2>1. pc'[w] = "take" /\ \A v \in Writers : v # w => pc'[v] = pc[v]
        BY <1>6, <1>0, GoEffect DEF Create, Stages
    <2>2. pc[w] = "create" /\ running' /\ UNCHANGED <<written_bytes, loaded, handle>>
        BY <1>6 DEF Create
    <2>3. ASSUME NEW v \in Writers
          PROVE  /\ pc'[v] # "none" => pc[v] # "none"
                 /\ ~Open(v)' => ~Open(v)
                 /\ pc'[v] \in {"flush", "test"} => pc[v] \in {"flush", "test"}
        BY <2>1, <2>2 DEF Open
    <2> QED
        BY <2>2, <2>3 DEF Started
<1>7. ASSUME NEW w \in Writers, Take(w)
      PROVE  Started'
    <2>1. pc'[w] = "flush" /\ \A v \in Writers : v # w => pc'[v] = pc[v]
        BY <1>7, <1>0, GoEffect DEF Take, Stages
    <2>2. pc[w] = "take" /\ loaded = YamlFiles /\ UNCHANGED <<running, written_bytes, loaded>>
        BY <1>7 DEF Take
    <2>3. \A v \in Writers : v # w => handle'[v] = handle[v]
        BY <1>7, <1>0, TakeEffect
    <2> QED
        BY <2>1, <2>2, <2>3 DEF Started, Open
<1>8. ASSUME NEW w \in Writers, Go(w, "test"), pc[w] = "flush",
             \A v \in Writers : v # w => handle'[v] = handle[v],
             UNCHANGED <<running, loaded>>
      PROVE  Started'
    <2>1. pc'[w] = "test" /\ \A v \in Writers : v # w => pc'[v] = pc[v]
        BY <1>8, <1>0, GoEffect DEF Stages
    <2>2. loaded = YamlFiles /\ running
        BY <1>8 DEF Started, Open
    <2> QED
        BY <1>8, <2>1, <2>2, <1>a, Numbers DEF Started, Open
<1>9. ASSUME NEW w \in Writers, Test(w)
      PROVE  Started'
    <2>1. pc[w] = "test" /\ UNCHANGED <<running, loaded>> /\ loaded = YamlFiles /\ running
        BY <1>9 DEF Test, Started, Open
    <2>2. \A v \in Writers : v # w => pc'[v] = pc[v] /\ handle'[v] = handle[v]
        BY <1>9, <1>0 DEF Test, Go
    <2>3. \/ pc'[w] = "rotate" /\ handle'[w] = Closed
          \/ pc'[w] = "take" /\ handle'[w] = handle[w]
        BY <1>9, <1>0 DEF Test, Go
    <2> QED
        BY <2>1, <2>2, <2>3, <1>a, Numbers DEF Started, Open
<1>10. CASE UNCHANGED vars
    BY <1>10 DEF Started, Open, vars, memory
<1>11. ASSUME NEW w \in Writers, Goroutine(w)
       PROVE  Started'
    <2>1. ASSUME Check(w) PROVE Started'
        BY <1>5, <2>1 DEF Check
    <2>2. ASSUME Rotate(w) \/ NothingToRotate(w) \/ RotateFails(w) PROVE Started'
        BY <1>5, <2>2 DEF Rotate, NothingToRotate, RotateFails
    <2>3. ASSUME CreateFails(w) PROVE Started'
        BY <1>2, <2>3 DEF CreateFails
    <2>4. ASSUME Flush(w) PROVE Started'
        BY <1>0, <1>8, <2>4, FlushEffect DEF Flush
    <2>5. ASSUME FlushFails(w) PROVE Started'
        BY <1>0, <1>8, <2>5, FlushFailsEffect DEF FlushFails
    <2> QED
        BY <1>6, <1>7, <1>9, <1>11, <2>1, <2>2, <2>3, <2>4, <2>5 DEF Goroutine
<1> QED
    BY <1>1, <1>2, <1>3, <1>4, <1>10, <1>11 DEF Next, Stop

\* Every step keeps one writer, unless it is the one that spoils it.
LEMMA OneWriterStep ==
    ASSUME TypeOK, Started, OneWriter, [Next]_vars
    PROVE  OneWriter'
<1>0. pc \in [Writers -> Stages] /\ loaded \in -1..YamlFiles
    BY TypeParts DEF OthersTyped
<1>1. "writers" \in spoiled => "writers" \in spoiled'
    BY DEF Next, Goroutine, Start, Stop, Ended, Tick, InitLogs, Check, Rotate,
       RotateFails, NothingToRotate, Create, CreateFails, Take, Flush,
       FlushFails, Test, vars, history
<1>2. SUFFICES ASSUME "writers" \notin spoiled, "writers" \notin spoiled'
               PROVE  \A v, w \in Writers : pc'[v] \in Active /\ pc'[w] \in Active => v = w
    BY <1>1 DEF OneWriter
<1>3. \A v, w \in Writers : pc[v] \in Active /\ pc[w] \in Active => v = w
    BY <1>2 DEF OneWriter
<1>4. ASSUME \A v \in Writers : pc'[v] \in Active => pc[v] \in Active
      PROVE  \A v, w \in Writers : pc'[v] \in Active /\ pc'[w] \in Active => v = w
    BY <1>3, <1>4
<1>5. ASSUME NEW w \in Writers, NEW stage \in Stages, Go(w, stage),
             pc[w] \in Active \/ stage \notin Active
      PROVE  \A v \in Writers : pc'[v] \in Active => pc[v] \in Active
    BY <1>0, <1>5, GoEffect
<1>6. CASE InitLogs
    <2>1. loaded + 1 \in Writers
        BY <1>6, Numbers DEF InitLogs, Writers
    <2> QED
        BY <1>4, <1>5, <1>6, <2>1 DEF InitLogs, Stages, Active
<1>7. ASSUME NEW w \in Writers, Check(w)
      PROVE  \A u, v \in Writers : pc'[u] \in Active /\ pc'[v] \in Active => u = v
    <2>1. CASE running
        BY <1>4, <1>5, <1>7, <2>1 DEF Check, Stages, Active
    <2>2. CASE ~running
        <3>1. \A v \in Writers : pc[v] \notin {"rotate", "create"}
            BY <1>2, <1>7, <2>2 DEF Check
        <3>2. \A v \in Writers : pc[v] \notin Active
            BY <2>2, <3>1 DEF Started, Open, Active
        <3>3. \A v \in Writers : v # w => pc'[v] = pc[v]
            BY <1>0, <1>7, GoEffect DEF Check, Stages
        <3> QED
            BY <3>2, <3>3
    <2> QED
        BY <2>1, <2>2
<1>8. ASSUME Ended
      PROVE  \A v \in Writers : pc'[v] \in Active => pc[v] \in Active
    BY <1>8, EndedEffect DEF Active
<1>9. CASE Start \/ Tick \/ UNCHANGED vars
    BY <1>4, <1>9 DEF Start, Tick, vars, memory
<1>10. CASE Stop
    BY <1>4, <1>8, <1>10 DEF Stop
<1>11. ASSUME NEW w \in Writers, Goroutine(w)
       PROVE  \A u, v \in Writers : pc'[u] \in Active /\ pc'[v] \in Active => u = v
    <2>1. ASSUME CreateFails(w)
          PROVE  \A v \in Writers : pc'[v] \in Active => pc[v] \in Active
        BY <1>8, <2>1 DEF CreateFails
    <2>2. ASSUME Rotate(w) \/ RotateFails(w) \/ NothingToRotate(w)
          PROVE  \A v \in Writers : pc'[v] \in Active => pc[v] \in Active
        BY <1>5, <2>2 DEF Rotate, RotateFails, NothingToRotate, Stages, Active
    <2>3. ASSUME Create(w) \/ Take(w) \/ Flush(w) \/ FlushFails(w)
          PROVE  \A v \in Writers : pc'[v] \in Active => pc[v] \in Active
        BY <1>5, <2>3 DEF Create, Take, Flush, FlushFails, Stages, Active
    <2>4. ASSUME Test(w)
          PROVE  \A v \in Writers : pc'[v] \in Active => pc[v] \in Active
        BY <1>5, <2>4 DEF Test, Stages, Active
    <2> QED
        BY <1>4, <1>7, <1>11, <2>1, <2>2, <2>3, <2>4 DEF Goroutine
<1> QED
    BY <1>6, <1>9, <1>10, <1>11 DEF Next

-----------------------------------------------------------------------------
(* The directory.                                                          *)

\* What each step does to the files.
LEMMA FileSteps ==
    ASSUME [Next]_vars
    PROVE  \/ files' = files
           \/ \E w \in Writers : Rotate(w) \/ Create(w) \/ Flush(w)
BY DEF Next, Goroutine, Start, Stop, Tick, InitLogs, Check, RotateFails,
       NothingToRotate, CreateFails, Take, FlushFails, Test, vars

LEMMA CreateFiles ==
    ASSUME NEW w \in Writers, Create(w)
    PROVE  /\ DOMAIN files' = DOMAIN files \cup {Current}
           /\ files'[Current] = <<>>
           /\ \A n \in DOMAIN files : n # Current => files'[n] = files[n]
BY DEF Create

\* A flush of the only writer appends its record to the log.
LEMMA FlushFiles ==
    ASSUME TypeOK, OpenLog, "writers" \notin spoiled, NEW w \in Writers, Flush(w)
    PROVE  /\ Current \in DOMAIN files /\ DOMAIN files' = DOMAIN files
           /\ handle[w].position = Len(files[Current])
           /\ sent \in 1..Records
           /\ files'[Current] = Append(files[Current], sent)
           /\ \A n \in DOMAIN files : n # Current => files'[n] = files[n]
           /\ written_bytes' = written_bytes + Size(sent)
           /\ pc[w] = "flush"
<1>1. /\ Current \in DOMAIN files
      /\ handle[w].position = Len(files[Current])
      /\ handle[w].record = sent /\ sent > 0
      /\ handle[w].sum = written_bytes + IF handle[w].failed THEN 0 ELSE Size(sent)
      /\ pc[w] = "flush" /\ ~handle[w].failed
    BY DEF OpenLog, Open, Flush
<1>2. sent \in 1..Records
    BY <1>1, Numbers DEF TypeOK
<1>3. files[Current] \in Seq(0..Records) /\ sent \in 0..Records
    BY <1>1 DEF TypeOK
<1>4. Appended(files[Current], handle[w].position, handle[w].record)
        = Append(files[Current], sent)
    BY <1>1, <1>3, AppendedAtEnd
<1>5. files' = [files EXCEPT ![Current] =
            Appended(files[Current], handle[w].position, handle[w].record)]
    BY DEF Flush
<1>6. DOMAIN files' = DOMAIN files /\ files = [n \in DOMAIN files |-> files[n]]
    BY <1>5 DEF TypeOK
<1>7. written_bytes' = written_bytes + Size(sent)
    BY <1>1 DEF Flush
<1> QED
    BY <1>1, <1>2, <1>4, <1>5, <1>6, <1>7

LEMMA SecondFacts ==
    ASSUME TypeOK
    PROVE  second \in Nat \ {0} /\ second \notin Others /\ second # Current
<1>1. second \in FirstSecond..LastSecond
    BY DEF TypeOK
<1>2. Others \cap (FirstSecond..LastSecond) = {}
    BY FileAssumption
<1> QED
    BY <1>1, <1>2, Numbers DEF Current

\* Every step keeps the names.
LEMMA NamesStep ==
    ASSUME TypeOK, NamesInv, [Next]_vars
    PROVE  NamesInv'
<1>1. second' \in Nat /\ second' >= second /\ second \in FirstSecond..second'
    <2>1. second \in FirstSecond..LastSecond
        BY DEF TypeOK
    <2>2. second' = second \/ second' = second + 1
        BY DEF Next, Goroutine, Start, Stop, Tick, InitLogs, Check, Rotate,
           RotateFails, NothingToRotate, Create, CreateFails, Take, Flush,
           FlushFails, Test, vars
    <2> QED
        BY <2>1, <2>2, Numbers
<1>2. \A n \in FirstSecond..second : n \in FirstSecond..second'
    BY <1>1, SecondFacts, Numbers
<1>3. Current \notin Others
    BY FileAssumption DEF Current
<1>4. CASE files' = files
    BY <1>2, <1>4 DEF NamesInv
<1>5. ASSUME NEW w \in Writers, Rotate(w)
      PROVE  NamesInv'
    <2>1. PICK gone \in SUBSET Surplus(Archived \cup {second}) :
            /\ DOMAIN files' = (Archived \cup {second}) \ gone
            /\ \A n \in DOMAIN files' :
                    files'[n] = files[IF n = second THEN Current ELSE n]
        BY <1>5, RotateFiles
    <2>2. IsFiniteSet(DOMAIN files \cup {second})
        BY FS_AddElement DEF NamesInv
    <2>3. IsFiniteSet(DOMAIN files')
        BY <2>1, <2>2, FS_Subset DEF Archived
    <2>4. ASSUME NEW n \in DOMAIN files'
          PROVE  /\ n \in Others => files'[n] = <<>>
                 /\ n \notin Others => n = Current \/ n \in FirstSecond..second'
        <3>1. CASE n = second
            BY <1>1, <3>1, SecondFacts
        <3>2. CASE n # second
            BY <1>2, <2>1, <3>2 DEF NamesInv, Archived
        <3> QED
            BY <3>1, <3>2
    <2> QED
        BY <2>3, <2>4 DEF NamesInv
<1>6. ASSUME NEW w \in Writers, Create(w)
      PROVE  NamesInv'
    <2>1. IsFiniteSet(DOMAIN files')
        BY <1>6, CreateFiles, FS_AddElement DEF NamesInv
    <2> QED
        BY <1>2, <1>3, <1>6, <2>1, CreateFiles DEF NamesInv
<1>7. ASSUME NEW w \in Writers, Flush(w)
      PROVE  NamesInv'
    <2>1. /\ DOMAIN files' = DOMAIN files
          /\ \A n \in DOMAIN files : n # Current => files'[n] = files[n]
        BY <1>7 DEF Flush, TypeOK
    <2> QED
        BY <1>2, <1>3, <2>1 DEF NamesInv
<1> QED
    BY <1>4, <1>5, <1>6, <1>7, FileSteps

\* Every step keeps what the one writer knows.
LEMMA OpenLogStep ==
    ASSUME TypeOK, Started, OneWriter, OpenLog, [Next]_vars, OneWriter'
    PROVE  OpenLog'
<1>0. /\ OthersTyped /\ pc \in [Writers -> Stages] /\ handle \in [Writers -> Handles]
      /\ loaded \in -1..YamlFiles /\ running \in BOOLEAN /\ written_bytes \in Nat
    BY TypeParts DEF OthersTyped
<1>1. "writers" \in spoiled => "writers" \in spoiled'
    BY DEF Next, Goroutine, Start, Stop, Ended, Tick, InitLogs, Check, Rotate,
       RotateFails, NothingToRotate, Create, CreateFails, Take, Flush,
       FlushFails, Test, vars, history
<1> DEFINE Known(v) ==
        /\ Open(v) =>
            /\ Current \in DOMAIN files
            /\ handle[v].position = Len(files[Current])
            /\ FirstTake(files[Current], Len(files[Current]), written_bytes)
        /\ pc[v] \in {"rotate", "create"} => written_bytes = 0
        /\ pc[v] \in {"take", "flush"} => written_bytes <= ROTATE_SIZE
        /\ pc[v] = "flush" =>
            /\ handle[v].record = sent /\ sent > 0
            /\ handle[v].sum = written_bytes + IF handle[v].failed THEN 0 ELSE Size(sent)
<1>2. SUFFICES ASSUME "writers" \notin spoiled, "writers" \notin spoiled',
                      NEW v \in Writers
               PROVE  Known(v)'
    BY <1>1 DEF OpenLog
<1>3. Known(v)
    BY <1>2 DEF OpenLog
<1>4. ASSUME pc'[v] \notin Active PROVE Known(v)'
    BY <1>4 DEF Active, Open
<1>5. ASSUME pc'[v] = pc[v], files' = files, handle' = handle, sent' = sent,
             written_bytes' = written_bytes
      PROVE  Known(v)'
    BY <1>3, <1>5 DEF Open
<1>6. ASSUME Ended \/ Start PROVE Known(v)'
    <2>1. ASSUME Start PROVE pc'[v] = "none"
        <3>1. loaded = -1 /\ v >= 1 /\ v \in Int
            BY <2>1, Numbers DEF Start, Writers
        <3>2. pc[v] = "none"
            BY <3>1, Numbers DEF Started
        <3> QED
            BY <2>1, <3>2 DEF Start
    <2>2. ASSUME Ended PROVE pc'[v] = "none"
        BY <2>2, EndedEffect
    <2> HIDE DEF Known
    <2> QED
        BY <1>4, <1>6, <2>1, <2>2 DEF Active
<1>7. CASE Tick \/ UNCHANGED vars
    <2>1. /\ pc'[v] = pc[v] /\ files' = files /\ handle' = handle /\ sent' = sent
          /\ written_bytes' = written_bytes
        BY <1>7 DEF Tick, vars, memory
    <2> HIDE DEF Known
    <2> QED
        BY <1>5, <2>1
<1>8. CASE InitLogs
    <2>1. loaded + 1 \in Writers
        BY <1>8, Numbers DEF InitLogs, Writers
    <2>2. pc'[loaded + 1] = "check" /\ (v # loaded + 1 => pc'[v] = pc[v])
        BY <1>0, <1>8, <2>1, GoEffect DEF InitLogs, Stages
    <2>3. /\ files' = files /\ handle' = handle /\ sent' = sent
          /\ written_bytes' = written_bytes
        BY <1>8, Numbers DEF InitLogs, Started
    <2> HIDE DEF Known
    <2> QED
        BY <1>4, <1>5, <2>2, <2>3 DEF Active
<1>9. ASSUME NEW w \in Writers, Goroutine(w), v # w PROVE Known(v)'
    <2>1. CASE CreateFails(w)
        BY <1>6, <2>1 DEF CreateFails
    <2>2. CASE ~CreateFails(w)
        <3>1. pc'[v] = pc[v]
            BY <1>0, <1>9, <2>2, GoEffect DEF Goroutine, Check, Rotate, RotateFails,
               NothingToRotate, Create, Take, Flush, FlushFails, Test, Stages
        <3>2. CASE pc[w] \in Active
            <4>1. pc[v] \notin Active
                BY <1>2, <1>9, <3>2 DEF OneWriter
            <4> HIDE DEF Known
            <4> QED
                BY <1>4, <3>1, <4>1
        <3>3. CASE pc[w] \notin Active
            <4>1. Check(w)
                BY <1>9, <2>2, <3>3 DEF Goroutine, Rotate, RotateFails,
                    NothingToRotate, Create, Take, Flush, FlushFails, Test, Active
            <4> HIDE DEF Known
            <4>2. /\ files' = files /\ handle' = handle /\ sent' = sent
                  /\ written_bytes' = written_bytes
                BY <4>1 DEF Check
            <4> QED
                BY <1>5, <3>1, <4>2
        <3> QED
            BY <3>2, <3>3
    <2> QED
        BY <2>1, <2>2
<1>10. CASE Check(v)
    <2>1. pc'[v] = IF running THEN "returned" ELSE "rotate"
        BY <1>0, <1>10, GoEffect DEF Check, Stages
    <2>2. written_bytes' = written_bytes /\ pc[v] = "check"
        BY <1>10 DEF Check
    <2>3. CASE running
        <3> HIDE DEF Known
        <3> QED
            BY <1>4, <2>1, <2>3 DEF Active
    <2>4. CASE ~running
        <3>1. v <= loaded /\ v >= 1 /\ v \in Int
            BY <2>2, Numbers DEF Started, Writers
        <3>2. written_bytes = 0
            BY <1>0, <2>4, <3>1, Numbers DEF Started
        <3> QED
            BY <2>1, <2>2, <2>4, <3>2 DEF Open
    <2> QED
        BY <2>3, <2>4
<1>11. CASE Rotate(v) \/ RotateFails(v) \/ NothingToRotate(v)
    <2>1. pc'[v] = "create" /\ pc[v] = "rotate" /\ written_bytes' = written_bytes
        BY <1>0, <1>11, GoEffect DEF Rotate, RotateFails, NothingToRotate, Stages
    <2> QED
        BY <1>3, <2>1 DEF Open
<1>12. CASE Create(v)
    <2>1. /\ pc'[v] = "take" /\ pc[v] = "create" /\ written_bytes' = written_bytes
          /\ handle' = handle
        BY <1>0, <1>12, GoEffect DEF Create, Stages
    <2>2. written_bytes = 0
        BY <1>3, <2>1
    <2>3. handle[v].position = 0
        BY <2>1 DEF Started, Open, Closed
    <2>4. Current \in DOMAIN files' /\ files'[Current] = <<>> /\ Len(<<>>) = 0
        BY <1>12, CreateFiles
    <2>5. FirstTake(<<>>, 0, written_bytes)
        BY <1>0, FirstTakeNone
    <2> QED
        BY <2>1, <2>2, <2>3, <2>4, <2>5, Numbers DEF Open
<1>13. CASE Take(v)
    <2>1. pc'[v] = "flush" /\ pc[v] = "take" /\ UNCHANGED <<written_bytes, files>>
        BY <1>0, <1>13, GoEffect DEF Take, Stages
    <2>2. /\ sent' = sent + 1 /\ sent + 1 \in 1..Records
          /\ handle'[v].position = handle[v].position
          /\ handle'[v].failed = handle[v].failed
          /\ handle'[v].record = sent + 1
          /\ handle'[v].sum = written_bytes +
                IF handle[v].failed THEN 0 ELSE Size(sent + 1)
        BY <1>0, <1>13, TakeEffect
    <2> QED
        BY <1>3, <2>1, <2>2 DEF Open
<1>14. CASE Flush(v)
    <2>1. pc'[v] = "test"
        BY <1>0, <1>14, GoEffect DEF Flush, Stages
    <2>2. /\ Current \in DOMAIN files' /\ sent \in 1..Records
          /\ files'[Current] = Append(files[Current], sent)
          /\ written_bytes' = written_bytes + Size(sent)
          /\ handle[v].position = Len(files[Current])
          /\ files[Current] \in Seq(0..Records)
          /\ FirstTake(files[Current], Len(files[Current]), written_bytes)
        BY <1>2, <1>3, <1>14, FlushFiles DEF TypeOK, Open
    <2>3. handle'[v].position = Len(files[Current]) + 1
        BY <1>0, <1>14, <2>2, FlushEffect
    <2>4. Len(Append(files[Current], sent)) = Len(files[Current]) + 1
        BY <2>2
    <2>5. FirstTake(Append(files[Current], sent), Len(files[Current]) + 1,
                    written_bytes + Size(sent))
        BY <1>0, <2>2, FirstTakeAppend
    <2> QED
        BY <2>1, <2>2, <2>3, <2>4, <2>5 DEF Open
<1>15. CASE FlushFails(v)
    <2>1. pc'[v] = "test" /\ pc[v] = "flush" /\ files' = files
        BY <1>0, <1>15, GoEffect DEF FlushFails, Stages
    <2>2. handle'[v].position = handle[v].position
        BY <1>0, <1>15, FlushFailsEffect
    <2>3. sent \in 1..Records
        BY <1>3, <2>1, Numbers DEF TypeOK
    <2>4. written_bytes' = written_bytes + IF handle[v].failed THEN 0 ELSE Size(sent)
        BY <1>3, <1>15, <2>1 DEF FlushFails
    <2>5. written_bytes' \in Nat /\ written_bytes <= written_bytes'
        BY <1>0, <2>3, <2>4, Numbers
    <2>6. Current \in DOMAIN files /\ handle[v].position = Len(files[Current])
          /\ FirstTake(files[Current], Len(files[Current]), written_bytes)
          /\ Len(files[Current]) \in Nat
        BY <1>3, <2>1 DEF Open, TypeOK
    <2>7. FirstTake(files[Current], Len(files[Current]), written_bytes')
        BY <1>0, <2>5, <2>6, FirstTakeMore
    <2> QED
        BY <2>1, <2>2, <2>6, <2>7 DEF Open
<1>16. CASE Test(v)
    <2>1. pc[v] = "test" /\ UNCHANGED <<files, sent>>
        BY <1>16 DEF Test
    <2>2. CASE written_bytes > ROTATE_SIZE
        BY <1>0, <1>16, <2>1, <2>2, GoEffect DEF Test, Stages, Open
    <2>3. CASE ~(written_bytes > ROTATE_SIZE)
        <3>1. pc'[v] = "take" /\ UNCHANGED <<written_bytes, handle>>
            BY <1>0, <1>16, <2>3, GoEffect DEF Test, Stages
        <3> QED
            BY <1>0, <1>3, <2>1, <2>3, <3>1, Numbers DEF Open
    <2> QED
        BY <2>2, <2>3
<1> HIDE DEF Known
<1>17. ASSUME NEW w \in Writers, Goroutine(w) PROVE Known(v)'
    <2>1. CASE v = w
        BY <1>6, <1>10, <1>11, <1>12, <1>13, <1>14, <1>15, <1>16, <1>17, <2>1
           DEF Goroutine, CreateFails
    <2> QED
        BY <1>9, <1>17, <2>1
<1> QED
    BY <1>6, <1>7, <1>8, <1>17 DEF Next, Stop

\* Every step keeps the files bounded.
LEMMA SizeStep ==
    ASSUME TypeOK, OpenLog, SizeBounded, [Next]_vars
    PROVE  SizeBounded'
<1>1. "writers" \in spoiled => "writers" \in spoiled'
    BY DEF Next, Goroutine, Start, Stop, Ended, Tick, InitLogs, Check, Rotate,
       RotateFails, NothingToRotate, Create, CreateFails, Take, Flush,
       FlushFails, Test, vars, history
<1>2. SUFFICES ASSUME "writers" \notin spoiled, NEW n \in DOMAIN files', files'[n] # <<>>
               PROVE  FirstTake(files'[n], Len(files'[n]) - 1, ROTATE_SIZE)
    BY <1>1 DEF SizeBounded
<1>3. \A m \in DOMAIN files : files[m] # <<>> =>
            FirstTake(files[m], Len(files[m]) - 1, ROTATE_SIZE)
    BY <1>2 DEF SizeBounded
<1>4. CASE files' = files
    BY <1>2, <1>3, <1>4
<1>5. ASSUME NEW w \in Writers, Rotate(w)
      PROVE  \E m \in DOMAIN files : files'[n] = files[m]
    BY <1>5, RotateFiles DEF Archived
<1>6. ASSUME NEW w \in Writers, Create(w)
      PROVE  \E m \in DOMAIN files : files'[n] = files[m]
    BY <1>2, <1>6, CreateFiles
<1>7. ASSUME NEW w \in Writers, Flush(w)
      PROVE  FirstTake(files'[n], Len(files'[n]) - 1, ROTATE_SIZE)
    <2>1. /\ Current \in DOMAIN files /\ DOMAIN files' = DOMAIN files
          /\ sent \in 1..Records
          /\ files'[Current] = Append(files[Current], sent)
          /\ \A m \in DOMAIN files : m # Current => files'[m] = files[m]
          /\ pc[w] = "flush"
        BY <1>2, <1>7, FlushFiles
    <2>2. CASE n # Current
        BY <1>2, <1>3, <2>1, <2>2
    <2>3. CASE n = Current
        <3>1. /\ FirstTake(files[Current], Len(files[Current]), written_bytes)
              /\ written_bytes <= ROTATE_SIZE
              /\ files[Current] \in Seq(0..Records) /\ written_bytes \in Nat
            BY <1>2, <2>1 DEF OpenLog, Open, TypeOK
        <3>2. Len(files[Current]) \in Nat
              /\ Len(Append(files[Current], sent)) - 1 = Len(files[Current])
            BY <2>1, <3>1
        <3>3. FirstTake(Append(files[Current], sent), Len(files[Current]), written_bytes)
            BY <2>1, <3>1, FirstTakeAppend
        <3>4. FirstTake(Append(files[Current], sent), Len(files[Current]), ROTATE_SIZE)
            BY <3>1, <3>2, <3>3, FirstTakeMore, Numbers
        <3> QED
            BY <2>1, <2>3, <3>2, <3>4
    <2> QED
        BY <2>2, <2>3
<1> QED
    BY <1>2, <1>3, <1>4, <1>5, <1>6, <1>7, FileSteps

-----------------------------------------------------------------------------
(* No record is lost.                                                      *)

LEMMA KeptMember ==
    /\ \A r : r \in Kept <=> \E n \in DOMAIN files : r \in RecordsOf(files[n])
    /\ \A r : r \in Kept' <=> \E n \in DOMAIN files' : r \in RecordsOf(files'[n])
BY DEF Kept, RecordsOf

\* A cause that was noted stays.
LEMMA SpoiledStays ==
    ASSUME [Next]_vars
    PROVE  spoiled \subseteq spoiled'
BY DEF Next, Goroutine, Start, Stop, Ended, Tick, InitLogs, Check, Rotate,
   RotateFails, NothingToRotate, Create, CreateFails, Take, Flush,
   FlushFails, Test, vars, history

\* A rotation into a new name only moves records to the removed ones.
LEMMA KeptRotate ==
    ASSUME TypeOK, NEW w \in Writers, Rotate(w), spoiled' = {}
    PROVE  /\ second \notin Archived
           /\ Kept' \cup removed' = Kept \cup removed
           /\ Kept' \subseteq Kept
<1>1. PICK gone \in SUBSET Surplus(Archived \cup {second}) :
        /\ Current \in DOMAIN files
        /\ DOMAIN files' = (Archived \cup {second}) \ gone
        /\ \A n \in DOMAIN files' :
                files'[n] = files[IF n = second THEN Current ELSE n]
        /\ removed' = removed \cup
                UNION {RecordsOf(files[IF n = second THEN Current ELSE n]) : n \in gone}
    BY RotateFiles
<1>2. second \notin Archived
    BY DEF Rotate
<1> DEFINE A == Archived \cup {second}
           g(n) == RecordsOf(files[IF n = second THEN Current ELSE n])
<1>3. gone \subseteq A
    BY DEF Surplus
<1>4. \A r : r \in Kept <=> \E n \in A : r \in g(n)
    <2> SUFFICES ASSUME NEW r PROVE r \in Kept <=> \E n \in A : r \in g(n)
        OBVIOUS
    <2>1. ASSUME NEW n \in DOMAIN files, r \in RecordsOf(files[n])
          PROVE  \E m \in A : r \in g(m)
        <3>1. CASE n = Current
            BY <2>1, <3>1
        <3>2. CASE n # Current
            BY <1>2, <2>1, <3>2 DEF Archived
        <3> QED
            BY <3>1, <3>2
    <2>2. ASSUME NEW n \in A, r \in g(n)
          PROVE  \E m \in DOMAIN files : r \in RecordsOf(files[m])
        <3>1. CASE n = second
            BY <1>1, <2>2, <3>1
        <3>2. CASE n # second
            BY <2>2, <3>2 DEF Archived
        <3> QED
            BY <3>1, <3>2
    <2> HIDE DEF A, g
    <2> QED
        BY <2>1, <2>2, KeptMember
<1>5. \A r : r \in Kept' <=> \E n \in A \ gone : r \in g(n)
    BY <1>1, KeptMember
<1>6. \A r : r \in removed' <=> r \in removed \/ \E n \in gone : r \in g(n)
    BY <1>1
<1> HIDE DEF A, g
<1> QED
    BY <1>2, <1>3, <1>4, <1>5, <1>6

LEMMA KeptCreate ==
    ASSUME NEW w \in Writers, Create(w), Current \notin DOMAIN files
    PROVE  Kept' = Kept
<1>1. RecordsOf(<<>>) = {}
    BY DEF RecordsOf
<1>2. \A r : r \in Kept' <=> r \in Kept
    BY <1>1, CreateFiles, KeptMember
<1> QED
    BY <1>2

LEMMA KeptFlush ==
    ASSUME TypeOK, OpenLog, "writers" \notin spoiled, NEW w \in Writers, Flush(w)
    PROVE  Kept' = Kept \cup {sent}
<1>1. /\ Current \in DOMAIN files /\ DOMAIN files' = DOMAIN files
      /\ sent \in 1..Records
      /\ files'[Current] = Append(files[Current], sent)
      /\ \A n \in DOMAIN files : n # Current => files'[n] = files[n]
    BY FlushFiles
<1>2. RecordsOf(files'[Current]) = RecordsOf(files[Current]) \cup {sent}
    BY <1>1, RecordsAppend DEF TypeOK
<1>3. \A r : r \in Kept' <=> r \in Kept \/ r = sent
    BY <1>1, <1>2, KeptMember
<1> QED
    BY <1>3

\* Every step keeps the log out of the way of what comes next.
LEMMA WayStep ==
    ASSUME TypeOK, Started, OneWriter, OpenLog, NothingInWay, NothingLost, [Next]_vars
    PROVE  NothingInWay'
<1>0. pc \in [Writers -> Stages] /\ sent \in 0..Records
    BY TypeParts DEF OthersTyped
<1>1. SUFFICES ASSUME spoiled = {}, spoiled' = {}, NEW v \in Writers
               PROVE  /\ pc'[v] = "create" => Current \notin DOMAIN files'
                      /\ pc'[v] = "flush" => sent' \notin Kept'
    BY SpoiledStays DEF NothingInWay
<1> DEFINE Goal == /\ pc'[v] = "create" => Current \notin DOMAIN files'
                   /\ pc'[v] = "flush" => sent' \notin Kept'
<1>2. /\ pc[v] = "create" => Current \notin DOMAIN files
      /\ pc[v] = "flush" => sent \notin Kept
    BY <1>1 DEF NothingInWay
<1>3. Kept \subseteq 1..sent
    BY <1>1 DEF NothingLost
<1>4. ASSUME pc'[v] \notin {"create", "flush"} PROVE Goal
    BY <1>4
<1>5. ASSUME pc'[v] = pc[v], files' = files, sent' = sent PROVE Goal
    <2>1. Kept' = Kept
        BY <1>5 DEF Kept
    <2> QED
        BY <1>2, <1>5, <2>1
<1>6. ASSUME Ended PROVE Goal
    BY <1>4, <1>6, EndedEffect
<1>7. CASE Start \/ Tick \/ UNCHANGED vars
    <2>1. pc' = pc /\ files' = files /\ sent' = sent
        BY <1>7 DEF Start, Tick, vars, memory
    <2> QED
        BY <1>5, <2>1
<1>8. CASE InitLogs
    <2>1. loaded + 1 \in Writers
        BY <1>8, Numbers DEF InitLogs, Writers
    <2>2. pc'[loaded + 1] = "check" /\ (v # loaded + 1 => pc'[v] = pc[v])
        BY <1>0, <1>8, <2>1, GoEffect DEF InitLogs, Stages
    <2>3. files' = files /\ sent' = sent
        BY <1>8 DEF InitLogs
    <2>4. Goal
        <3> HIDE DEF Goal
        <3> QED
            BY <1>4, <1>5, <2>2, <2>3
    <2> QED
        BY <2>4
<1>9. ASSUME NEW w \in Writers, Goroutine(w), v # w PROVE Goal
    <2>1. CASE CreateFails(w)
        BY <1>6, <2>1 DEF CreateFails
    <2>2. CASE ~CreateFails(w)
        <3>1. pc'[v] = pc[v]
            BY <1>0, <1>9, <2>2, GoEffect DEF Goroutine, Check, Rotate, RotateFails,
               NothingToRotate, Create, Take, Flush, FlushFails, Test, Stages
        <3>2. CASE pc[w] \in Active
            <4>1. pc[v] \notin Active
                BY <1>1, <1>9, <3>2 DEF OneWriter
            <4> HIDE DEF Goal
            <4> QED
                BY <1>4, <3>1, <4>1 DEF Active
        <3>3. CASE pc[w] \notin Active
            <4>1. Check(w)
                BY <1>9, <2>2, <3>3 DEF Goroutine, Rotate, RotateFails,
                    NothingToRotate, Create, Take, Flush, FlushFails, Test, Active
            <4>2. files' = files /\ sent' = sent
                BY <4>1 DEF Check
            <4> HIDE DEF Goal
            <4> QED
                BY <1>5, <3>1, <4>2
        <3> QED
            BY <3>2, <3>3
    <2> QED
        BY <2>1, <2>2
<1>10. CASE Check(v) \/ Create(v) \/ Flush(v) \/ FlushFails(v) \/ Test(v)
    <2>1. pc'[v] \notin {"create", "flush"}
        BY <1>0, <1>10, GoEffect DEF Check, Create, Flush, FlushFails, Test, Stages
    <2> QED
        BY <1>4, <2>1
<1>11. CASE Rotate(v)
    <2>1. pc'[v] = "create"
        BY <1>0, <1>11, GoEffect DEF Rotate, Stages
    <2>2. Current \notin DOMAIN files'
        BY <1>11, RotateFiles, SecondFacts DEF Archived
    <2> QED
        BY <2>1, <2>2
<1>12. CASE NothingToRotate(v)
    <2>1. pc'[v] = "create"
        BY <1>0, <1>12, GoEffect DEF NothingToRotate, Stages
    <2> QED
        BY <1>12, <2>1 DEF NothingToRotate
<1>13. ASSUME RotateFails(v) PROVE FALSE
    BY <1>1, <1>13 DEF RotateFails
<1>14. CASE Take(v)
    <2>1. pc'[v] = "flush" /\ files' = files /\ sent' = sent + 1
        BY <1>0, <1>14, GoEffect DEF Take, Stages
    <2>2. Kept' = Kept
        BY <2>1 DEF Kept
    <2>3. sent + 1 \notin Kept
        BY <1>0, <1>3, Numbers
    <2> QED
        BY <2>1, <2>2, <2>3
<1>15. ASSUME NEW w \in Writers, Goroutine(w) PROVE Goal
    <2>1. CASE v = w
        BY <1>6, <1>10, <1>11, <1>12, <1>13, <1>14, <1>15, <2>1
           DEF Goroutine, CreateFails
    <2> QED
        BY <1>9, <1>15, <2>1
<1> QED
    BY <1>6, <1>7, <1>8, <1>15 DEF Next, Stop

\* A record that stays where it is, in all that concerns NothingLost.
LEMMA SameFlight ==
    ASSUME \A v \in Writers : pc'[v] = "flush" <=> pc[v] = "flush",
           \A v \in Writers : pc[v] = "flush" => handle'[v] = handle[v]
    PROVE  InFlight' = InFlight
<1>1. \A r : r \in InFlight <=> \E v \in Writers : pc[v] = "flush" /\ r = handle[v].record
    BY DEF InFlight
<1>2. \A r : r \in InFlight' <=> \E v \in Writers : pc'[v] = "flush" /\ r = handle'[v].record
    BY DEF InFlight
<1>3. \A r : r \in InFlight' <=> r \in InFlight
    BY <1>1, <1>2
<1> QED
    BY <1>3

\* Steps that leave the files alone, and neither take nor flush a record.
LEMMA QuietSteps ==
    ASSUME TypeOK, Started, OneWriter, [Next]_vars, spoiled = {}, spoiled' = {},
           ~ \E w \in Writers : Rotate(w) \/ Create(w) \/ Take(w) \/ Flush(w)
    PROVE  InFlight' = InFlight /\ UNCHANGED <<files, sent, removed>>
<1>0. pc \in [Writers -> Stages] /\ handle \in [Writers -> Handles]
      /\ loaded \in -1..YamlFiles
    BY TypeParts DEF OthersTyped
<1>1. ASSUME Ended
      PROVE  InFlight' = InFlight
    <2>1. \A v \in Writers : pc[v] # "flush" /\ pc'[v] = "none"
        BY <1>1, EndedEffect DEF Ended
    <2> QED
        BY <2>1, SameFlight
<1>2. CASE Start \/ Tick \/ UNCHANGED vars
    <2>1. pc' = pc /\ handle' = handle /\ files' = files /\ sent' = sent
          /\ removed' = removed
        BY <1>2 DEF Start, Tick, vars, memory, history
    <2> QED
        BY <2>1, SameFlight
<1>3. CASE Stop
    BY <1>1, <1>3 DEF Stop
<1>4. CASE InitLogs
    <2>1. loaded + 1 \in Writers /\ pc[loaded + 1] = "none"
        BY <1>4, Numbers DEF InitLogs, Writers, Started
    <2>2. pc'[loaded + 1] = "check"
          /\ \A v \in Writers : v # loaded + 1 => pc'[v] = pc[v]
        BY <1>0, <1>4, <2>1, GoEffect DEF InitLogs, Stages
    <2>3. handle' = handle /\ files' = files /\ sent' = sent /\ removed' = removed
        BY <1>4 DEF InitLogs, history
    <2> QED
        BY <2>1, <2>2, <2>3, SameFlight
<1>5. ASSUME NEW w \in Writers, Check(w) \/ NothingToRotate(w)
      PROVE  InFlight' = InFlight /\ UNCHANGED <<files, sent, removed>>
    <2>1. /\ pc[w] \notin {"flush"} /\ pc'[w] \notin {"flush"}
          /\ \A v \in Writers : v # w => pc'[v] = pc[v]
        BY <1>0, <1>5, GoEffect DEF Check, NothingToRotate, Stages
    <2>2. handle' = handle /\ files' = files /\ sent' = sent /\ removed' = removed
        BY <1>5 DEF Check, NothingToRotate, history
    <2> QED
        BY <2>1, <2>2, SameFlight
<1>6. ASSUME NEW w \in Writers, Test(w)
      PROVE  InFlight' = InFlight /\ UNCHANGED <<files, sent, removed>>
    <2>1. /\ pc[w] = "test" /\ pc'[w] \in {"rotate", "take"}
          /\ \A v \in Writers : v # w => pc'[v] = pc[v]
        BY <1>0, <1>6, GoEffect DEF Test, Stages
    <2>2. \A v \in Writers : v # w => handle'[v] = handle[v]
        BY <1>0, <1>6 DEF Test
    <2>3. files' = files /\ sent' = sent /\ removed' = removed
        BY <1>6 DEF Test, history
    <2> QED
        BY <2>1, <2>2, <2>3, SameFlight
<1>7. ASSUME NEW w \in Writers, CreateFails(w)
      PROVE  InFlight' = InFlight /\ UNCHANGED <<files, sent, removed>>
    BY <1>1, <1>7 DEF CreateFails
<1>8. ASSUME NEW w \in Writers, RotateFails(w) \/ FlushFails(w)
      PROVE  FALSE
    BY <1>8 DEF RotateFails, FlushFails
<1> QED
    BY <1>2, <1>3, <1>4, <1>5, <1>6, <1>7, <1>8 DEF Next, Goroutine

\* The parts of NothingLost.
Accounted == 1..sent = Kept \cup removed \cup InFlight
FilesSorted ==
    \A n \in DOMAIN files : \A i, j \in 1..Len(files[n]) :
        i < j => files[n][i] < files[n][j]
NamesSorted ==
    \A m, n \in DOMAIN files :
        m # Current /\ (m < n \/ n = Current) =>
            \A r \in RecordsOf(files[m]), q \in RecordsOf(files[n]) : r < q

LEMMA LostParts ==
    /\ NothingLost <=> (spoiled = {} => Accounted /\ FilesSorted /\ NamesSorted)
    /\ NothingLost' <=> (spoiled' = {} => Accounted' /\ FilesSorted' /\ NamesSorted')
BY DEF NothingLost, Accounted, FilesSorted, NamesSorted

\* No step loses a record or puts it out of order.
LEMMA LostStep ==
    ASSUME TypeOK, Started, OneWriter, NamesInv, OpenLog, NothingInWay, NothingLost,
           [Next]_vars
    PROVE  NothingLost'
<1>0. pc \in [Writers -> Stages] /\ sent \in 0..Records
    BY TypeParts DEF OthersTyped
<1>1. SUFFICES ASSUME spoiled = {}, spoiled' = {}
               PROVE  Accounted' /\ FilesSorted' /\ NamesSorted'
    BY SpoiledStays, LostParts
<1>2. Accounted /\ FilesSorted /\ NamesSorted
    BY <1>1, LostParts
<1>3. CASE ~ \E w \in Writers : Rotate(w) \/ Create(w) \/ Take(w) \/ Flush(w)
    <2>1. InFlight' = InFlight /\ files' = files /\ sent' = sent /\ removed' = removed
        BY <1>1, <1>3, QuietSteps
    <2>2. Kept' = Kept
        BY <2>1 DEF Kept
    <2> QED
        BY <1>2, <2>1, <2>2 DEF Accounted, FilesSorted, NamesSorted
<1>4. ASSUME NEW w \in Writers, Rotate(w)
      PROVE  Accounted' /\ FilesSorted' /\ NamesSorted'
    <2>1. PICK gone \in SUBSET Surplus(Archived \cup {second}) :
            /\ Current \in DOMAIN files
            /\ DOMAIN files' = (Archived \cup {second}) \ gone
            /\ \A n \in DOMAIN files' :
                    files'[n] = files[IF n = second THEN Current ELSE n]
        BY <1>4, RotateFiles
    <2>2. /\ pc[w] = "rotate" /\ pc'[w] = "create" /\ handle' = handle /\ sent' = sent
          /\ \A v \in Writers : v # w => pc'[v] = pc[v]
        BY <1>0, <1>4, GoEffect DEF Rotate, Stages
    <2>3. InFlight' = InFlight
        BY <2>2, SameFlight
    <2>4. Accounted'
        BY <1>1, <1>2, <1>4, <2>2, <2>3, KeptRotate DEF Accounted
    <2>5. FilesSorted'
        BY <1>2, <2>1 DEF FilesSorted, Archived
    <2>6. ASSUME NEW m \in DOMAIN files', NEW n \in DOMAIN files',
                 m # Current, m < n \/ n = Current,
                 NEW r \in RecordsOf(files'[m]), NEW q \in RecordsOf(files'[n])
          PROVE  r < q
        <3>1. n # Current /\ m < n
            BY <2>1, <2>6, SecondFacts DEF Archived
        <3>2. CASE n = second
            <4>1. m # second /\ m \in DOMAIN files /\ files'[m] = files[m]
                  /\ files'[n] = files[Current]
                BY <2>1, <3>1, <3>2, SecondFacts DEF Archived
            <4> QED
                BY <1>2, <2>1, <2>6, <4>1 DEF NamesSorted
        <3>3. CASE m = second
            <4>1. n # second /\ n \in DOMAIN files /\ n \in Nat /\ files'[n] = files[n]
                BY <2>1, <3>1, <3>3, SecondFacts DEF Archived, TypeOK
            <4>2. n \notin FirstSecond..second
                BY <3>1, <3>3, <4>1, SecondFacts, Numbers
            <4>3. files[n] = <<>>
                BY <3>1, <4>1, <4>2 DEF NamesInv
            <4> QED
                BY <2>6, <4>1, <4>3 DEF RecordsOf
        <3>4. CASE n # second /\ m # second
            <4>1. m \in DOMAIN files /\ n \in DOMAIN files
                  /\ files'[m] = files[m] /\ files'[n] = files[n]
                BY <2>1, <3>4 DEF Archived
            <4> QED
                BY <1>2, <2>6, <4>1 DEF NamesSorted
        <3> QED
            BY <3>2, <3>3, <3>4
    <2>7. NamesSorted'
        BY <2>6 DEF NamesSorted
    <2> QED
        BY <2>4, <2>5, <2>7
<1>5. ASSUME NEW w \in Writers, Create(w)
      PROVE  Accounted' /\ FilesSorted' /\ NamesSorted'
    <2>1. Current \notin DOMAIN files
        BY <1>1, <1>5 DEF Create, NothingInWay
    <2>2. /\ pc[w] = "create" /\ pc'[w] = "take" /\ handle' = handle /\ sent' = sent
          /\ removed' = removed
          /\ \A v \in Writers : v # w => pc'[v] = pc[v]
        BY <1>0, <1>5, GoEffect DEF Create, Stages, history
    <2>3. InFlight' = InFlight
        BY <2>2, SameFlight
    <2>4. Accounted'
        BY <1>2, <1>5, <2>1, <2>2, <2>3, KeptCreate DEF Accounted
    <2>5. /\ DOMAIN files' = DOMAIN files \cup {Current}
          /\ files'[Current] = <<>> /\ Len(<<>>) = 0 /\ RecordsOf(<<>>) = {}
          /\ \A n \in DOMAIN files : files'[n] = files[n]
        BY <1>5, <2>1, CreateFiles DEF RecordsOf
    <2>6. FilesSorted'
        <3> SUFFICES ASSUME NEW n \in DOMAIN files',
                            NEW i \in 1..Len(files'[n]), NEW j \in 1..Len(files'[n]), i < j
                     PROVE  files'[n][i] < files'[n][j]
            BY DEF FilesSorted
        <3>1. n # Current
            BY <2>5
        <3> QED
            BY <1>2, <2>5, <3>1 DEF FilesSorted
    <2>7. NamesSorted'
        <3> SUFFICES ASSUME NEW m \in DOMAIN files', NEW n \in DOMAIN files',
                            m # Current, m < n \/ n = Current,
                            NEW r \in RecordsOf(files'[m]), NEW q \in RecordsOf(files'[n])
                     PROVE  r < q
            BY DEF NamesSorted
        <3>1. n # Current
            BY <2>5
        <3> QED
            BY <1>2, <2>5, <3>1 DEF NamesSorted
    <2> QED
        BY <2>4, <2>6, <2>7
<1>6. ASSUME NEW w \in Writers, Take(w)
      PROVE  Accounted' /\ FilesSorted' /\ NamesSorted'
    <2>1. /\ pc[w] = "take" /\ pc'[w] = "flush" /\ files' = files /\ removed' = removed
          /\ \A v \in Writers : v # w => pc'[v] = pc[v]
        BY <1>0, <1>6, GoEffect DEF Take, Stages, history
    <2>2. sent' = sent + 1 /\ handle'[w].record = sent + 1
        BY <1>6, TypeParts, TakeEffect
    <2>3. \A v \in Writers : v # w => pc[v] # "flush" /\ pc'[v] # "flush"
        BY <1>1, <2>1 DEF OneWriter, Active
    <2>4. InFlight = {} /\ InFlight' = {sent + 1}
        BY <2>1, <2>2, <2>3 DEF InFlight
    <2>5. Kept' = Kept
        BY <2>1 DEF Kept
    <2>6. 1..(sent + 1) = 1..sent \cup {sent + 1}
        BY <1>0, Numbers
    <2>7. Accounted'
        BY <1>2, <2>1, <2>2, <2>4, <2>5, <2>6 DEF Accounted
    <2> QED
        BY <1>2, <2>1, <2>7 DEF FilesSorted, NamesSorted
<1>7. ASSUME NEW w \in Writers, Flush(w)
      PROVE  Accounted' /\ FilesSorted' /\ NamesSorted'
    <2>1. /\ Current \in DOMAIN files /\ DOMAIN files' = DOMAIN files
          /\ sent \in 1..Records
          /\ files'[Current] = Append(files[Current], sent)
          /\ \A n \in DOMAIN files : n # Current => files'[n] = files[n]
          /\ pc[w] = "flush"
        BY <1>1, <1>7, FlushFiles
    <2>2. /\ pc'[w] = "test" /\ sent' = sent /\ removed' = removed
          /\ \A v \in Writers : v # w => pc'[v] = pc[v]
        BY <1>0, <1>7, GoEffect DEF Flush, Stages, history
    <2>3. \A v \in Writers : v # w => pc[v] # "flush" /\ pc'[v] # "flush"
        BY <1>1, <2>1, <2>2 DEF OneWriter, Active
    <2>4. handle[w].record = sent
        BY <1>1, <2>1 DEF OpenLog
    <2>5. InFlight = {sent} /\ InFlight' = {}
        BY <2>1, <2>2, <2>3, <2>4 DEF InFlight
    <2>6. Kept' = Kept \cup {sent}
        BY <1>1, <1>7, KeptFlush
    <2>7. Accounted'
        BY <1>2, <2>2, <2>5, <2>6 DEF Accounted
    <2>8. \A r \in Kept : r < sent
        <3>1. sent \notin Kept /\ Kept \subseteq 1..sent
            BY <1>1, <1>2, <2>1 DEF NothingInWay, Accounted
        <3> QED
            BY <2>1, <3>1
    <2>9. /\ files[Current] \in Seq(0..Records) /\ Len(files[Current]) \in Nat
          /\ Len(files'[Current]) = Len(files[Current]) + 1
          /\ files'[Current][Len(files[Current]) + 1] = sent
          /\ \A i \in 1..Len(files[Current]) : files'[Current][i] = files[Current][i]
        BY <2>1 DEF TypeOK
    <2>10. \A i \in 1..Len(files[Current]) : files[Current][i] < sent
        <3> SUFFICES ASSUME NEW i \in 1..Len(files[Current])
                     PROVE  files[Current][i] < sent
            OBVIOUS
        <3>1. CASE files[Current][i] = 0
            BY <2>1, <3>1, Numbers
        <3>2. CASE files[Current][i] # 0
            <4>1. files[Current][i] \in RecordsOf(files[Current])
                BY <3>2 DEF RecordsOf
            <4> QED
                BY <2>1, <2>8, <4>1, KeptMember
        <3> QED
            BY <3>1, <3>2
    <2>11. FilesSorted'
        <3> SUFFICES ASSUME NEW n \in DOMAIN files',
                            NEW i \in 1..Len(files'[n]), NEW j \in 1..Len(files'[n]), i < j
                     PROVE  files'[n][i] < files'[n][j]
            BY DEF FilesSorted
        <3>1. CASE n # Current
            BY <1>2, <2>1, <3>1 DEF FilesSorted
        <3>2. CASE n = Current
            <4>1. i \in 1..Len(files[Current]) /\ files'[n][i] = files[Current][i]
                BY <2>9, <3>2
            <4>2. CASE j = Len(files[Current]) + 1
                BY <2>9, <2>10, <3>2, <4>1, <4>2
            <4>3. CASE j # Len(files[Current]) + 1
                <5>1. j \in 1..Len(files[Current]) /\ files'[n][j] = files[Current][j]
                    BY <2>9, <3>2, <4>3
                <5> QED
                    BY <1>2, <2>1, <4>1, <5>1 DEF FilesSorted
            <4> QED
                BY <4>2, <4>3
        <3> QED
            BY <3>1, <3>2
    <2>12. RecordsOf(files'[Current]) = RecordsOf(files[Current]) \cup {sent}
        BY <2>1, <2>9, RecordsAppend
    <2>13. NamesSorted'
        <3> SUFFICES ASSUME NEW m \in DOMAIN files', NEW n \in DOMAIN files',
                            m # Current, m < n \/ n = Current,
                            NEW r \in RecordsOf(files'[m]), NEW q \in RecordsOf(files'[n])
                     PROVE  r < q
            BY DEF NamesSorted
        <3>1. m \in DOMAIN files /\ r \in RecordsOf(files[m])
            BY <2>1
        <3>2. CASE q \in RecordsOf(files[n])
            BY <1>2, <2>1, <3>1, <3>2 DEF NamesSorted
        <3>3. CASE q \notin RecordsOf(files[n])
            <4>1. n = Current /\ q = sent
                BY <2>1, <2>12, <3>3
            <4> QED
                BY <2>8, <3>1, <4>1, KeptMember
        <3> QED
            BY <3>2, <3>3
    <2> QED
        BY <2>7, <2>11, <2>13
<1> QED
    BY <1>3, <1>4, <1>5, <1>6, <1>7

-----------------------------------------------------------------------------
(* The invariant.                                                          *)

LEMMA InitOK == Init => IInv
<1> SUFFICES ASSUME Init PROVE IInv
    OBVIOUS
<1>1. /\ running = FALSE /\ written_bytes = 0 /\ loaded = -1 /\ sent = 0
      /\ pc = [w \in Writers |-> "none"] /\ handle = [w \in Writers |-> Closed]
      /\ files = [n \in Others |-> <<>>] /\ second = FirstSecond /\ starts = 0
      /\ faults = {} /\ spoiled = {} /\ removed = {}
    BY DEF Init
<1>2. /\ DOMAIN files = Others /\ Others \subseteq Nat \ {0} /\ IsFiniteSet(Others)
      /\ \A n \in Others : files[n] = <<>>
    BY <1>1, FileAssumption
<1>3. <<>> \in Seq(0..Records) /\ Len(<<>>) = 0 /\ RecordsOf(<<>>) = {}
    BY DEF RecordsOf
<1>4. \A w \in Writers : pc[w] = "none" /\ handle[w] = Closed
    BY <1>1
<1>5. TypeOK
    <2>1. FilesTyped
        BY <1>1, <1>2, <1>3 DEF FilesTyped
    <2>2. OthersTyped
        <3>1. /\ pc \in [Writers -> Stages] /\ handle \in [Writers -> Handles]
              /\ running \in BOOLEAN
            BY <1>1, ClosedTyped DEF Stages
        <3>2. /\ written_bytes \in Nat /\ loaded \in -1..YamlFiles /\ sent \in 0..Records
              /\ second \in FirstSecond..LastSecond /\ starts \in 0..MaxStarts
            BY <1>1, Numbers
        <3> QED
            BY <1>1, <3>1, <3>2 DEF OthersTyped
    <2> QED
        BY <2>1, <2>2, TypeParts
<1>6. Started /\ OneWriter /\ OpenLog /\ NothingInWay
    BY <1>1, <1>4 DEF Started, OneWriter, OpenLog, NothingInWay, Open, Active
<1>7. NamesInv
    BY <1>2 DEF NamesInv
<1>8. NothingLost
    <2>1. Kept = {}
        BY <1>2, <1>3 DEF Kept
    <2>2. InFlight = {}
        BY <1>4 DEF InFlight
    <2>3. 1..sent = {}
        BY <1>1
    <2>4. \A n \in DOMAIN files : Len(files[n]) = 0 /\ RecordsOf(files[n]) = {}
        BY <1>2, <1>3
    <2> QED
        BY <1>1, <2>1, <2>2, <2>3, <2>4 DEF NothingLost
<1>9. SizeBounded
    BY <1>2 DEF SizeBounded
<1> QED
    BY <1>5, <1>6, <1>7, <1>8, <1>9 DEF IInv

LEMMA IInvStep ==
    ASSUME IInv, [Next]_vars
    PROVE  IInv'
<1>1. TypeOK /\ Started /\ OneWriter /\ NamesInv /\ OpenLog /\ NothingInWay
      /\ NothingLost /\ SizeBounded
    BY DEF IInv
<1>2. TypeOK' /\ Started' /\ OneWriter'
    BY <1>1, TypeStep, StartedStep, OneWriterStep
<1>3. NamesInv' /\ SizeBounded'
    BY <1>1, NamesStep, SizeStep
<1>4. OpenLog'
    BY <1>1, <1>2, OpenLogStep
<1>5. NothingInWay'
    BY <1>1, WayStep
<1>6. NothingLost'
    BY <1>1, LostStep
<1> QED
    BY <1>2, <1>3, <1>4, <1>5, <1>6 DEF IInv

\* The inductive invariant of the output: where the goroutines are and what
\* the only one with the log open knows of it, besides the properties below.
THEOREM Invariant == Spec => []IInv
<1>1. Init => IInv
    BY InitOK
<1>2. IInv /\ [Next]_vars => IInv'
    BY IInvStep
<1> QED
    BY <1>1, <1>2, PTL DEF Spec

\* Every variable stays in its type, whatever fails and however often the
\* agent is started.
THEOREM TypeCorrect == Spec => []TypeOK
<1>1. IInv => TypeOK
    BY DEF IInv
<1> QED
    BY <1>1, Invariant, PTL

\* FileOutput: every record taken from Logs is in the log, in a rotated file or
\* in one that rotation removed, in the order it was taken, unless one of the
\* named causes arose.
THEOREM RecordsAccounted == Spec => []NothingLost
<1>1. IInv => NothingLost
    BY DEF IInv
<1> QED
    BY <1>1, Invariant, PTL

\* The test of written_bytes against ROTATE_SIZE: no file outgrows the limit by
\* more than its last record.
THEOREM FilesAreBounded == Spec => []SizeBounded
<1>1. IInv => SizeBounded
    BY DEF IInv
<1> QED
    BY <1>1, Invariant, PTL

-----------------------------------------------------------------------------
(* What rotation removes.                                                  *)

\* Of the files to remove, one has none of the others after it.
LEMMA LastToGo ==
    ASSUME NEW A, IsFiniteSet(A), A \subseteq Nat, NEW gone \in SUBSET A, gone # {}
    PROVE  \E g \in gone : {m \in A : m > g} \subseteq A \ gone
<1> DEFINE Above(n) == {m \in A : m > n}
           T == {Above(g) : g \in gone}
<1>1. /\ FiniteSubsetsOf(A) = SUBSET A
      /\ IsWellFoundedOn(StrictSubsetOrdering(A), FiniteSubsetsOf(A))
    BY FS_FiniteSubsetsOfFinite, FS_StrictSubsetOrderingWellFounded
<1>2. T \subseteq SUBSET A /\ T # {}
    OBVIOUS
<1>3. IsWellFoundedOn(StrictSubsetOrdering(A), SUBSET A)
    BY <1>1
<1> HIDE DEF T
<1>4. PICK low \in T : \A y \in T : ~ (<<y, low>> \in StrictSubsetOrdering(A))
    BY <1>2, <1>3, WFMin, Zenon
<1>5. PICK g \in gone : low = Above(g)
    BY DEF T
<1>6. ASSUME NEW m \in A, m > g, m \in gone
      PROVE  FALSE
    <2>1. Above(m) \subseteq Above(g) /\ m \in Above(g) /\ m \notin Above(m)
        <3>1. g \in Nat /\ m \in Nat /\ \A x \in A : x \in Nat
            OBVIOUS
        <3>2. \A x \in A : x > m => x > g
            BY <1>6, <3>1
        <3>3. ~(m > m)
            BY <3>1
        <3> QED
            BY <1>6, <3>2, <3>3
    <2>2. Above(m) \in T /\ Above(m) \in SUBSET A /\ Above(g) \in SUBSET A
        BY <1>6 DEF T
    <2> HIDE DEF Above
    <2>3. <<Above(m), Above(g)>> \in StrictSubsetOrdering(A)
        BY <2>1, <2>2 DEF StrictSubsetOrdering
    <2> QED
        BY <1>4, <1>5, <2>2, <2>3
<1> QED
    BY <1>6

\* A file that stays is newer than all that go, if the whole surplus goes.
LEMMA SurplusOldest ==
    ASSUME NEW A, IsFiniteSet(A), A \subseteq Nat,
           NEW n \in Surplus(A), NEW m \in A \ Surplus(A)
    PROVE  n < m
<1>1. n \in A /\ n \in Nat /\ m \in Nat
    BY DEF Surplus
<1>2. SUFFICES ASSUME m <= n PROVE FALSE
    BY <1>1
<1> DEFINE S == {x \in A : x > m}
           T == {x \in A : x > n}
<1>3. T \in SUBSET S /\ S \in SUBSET A
    <2>1. \A x \in A : x \in Nat
        OBVIOUS
    <2>2. \A x \in A : x > n => x > m
        BY <1>1, <1>2, <2>1
    <2> QED
        BY <2>2
<1>4. IsFiniteSet(S)
    BY <1>3, FS_Subset
<1>5. Cardinality(T) <= Cardinality(S)
    BY <1>3, <1>4, FS_Subset
<1>6. IsFiniteSet(T) /\ Cardinality(T) \in Nat /\ Cardinality(S) \in Nat
    BY <1>3, <1>4, FS_Subset, FS_CardinalityType
<1>7. Cardinality(T) >= ROTATE_COUNT
    BY DEF Surplus
<1>8. ~(Cardinality(S) >= ROTATE_COUNT)
    BY DEF Surplus
<1> HIDE DEF S, T
<1> QED
    BY <1>5, <1>6, <1>7, <1>8, Numbers

LEMMA RemovesOldestStep ==
    ASSUME TypeOK, NamesInv, [Next]_vars
    PROVE  RemovesOldest
<1>1. CASE DOMAIN files \subseteq DOMAIN files'
    BY <1>1 DEF RemovesOldest, Archived
<1>2. CASE ~(DOMAIN files \subseteq DOMAIN files')
    <2>1. PICK w \in Writers : Rotate(w)
        <3>1. ASSUME NEW w \in Writers, Create(w) PROVE FALSE
            BY <1>2, <3>1 DEF Create
        <3>2. ASSUME NEW w \in Writers, Flush(w) PROVE FALSE
            BY <1>2, <3>2 DEF Flush, TypeOK
        <3> QED
            BY <1>2, <3>1, <3>2, FileSteps
    <2> DEFINE A == Archived \cup {second}
               kept == DOMAIN files' \ {Current}
    <2>2. PICK gone \in SUBSET Surplus(A) :
            /\ DOMAIN files' = A \ gone
            /\ gone # Surplus(A) => "remove" \in faults'
        BY <2>1, RotateFiles
    <2>3. Surplus(A) \subseteq A /\ A \subseteq Nat /\ Current \notin A
        BY SecondFacts DEF Surplus, TypeOK, Archived
    <2>4. IsFiniteSet(A)
        BY FS_AddElement, FS_Subset DEF NamesInv, Archived
    <2>5. kept = A \ gone /\ IsFiniteSet(kept)
        BY <2>2, <2>3, <2>4, FS_Subset
    <2>6. SUFFICES ASSUME NEW n \in A, n \notin kept
                   PROVE  /\ Cardinality(kept) >= ROTATE_COUNT
                          /\ "remove" \in faults' \/ \A m \in kept : n < m
        BY DEF RemovesOldest
    <2> HIDE DEF A, kept
    <2>7. n \in gone
        BY <2>5, <2>6
    <2>8. Cardinality(kept) >= ROTATE_COUNT
        <3>1. PICK g \in gone : {m \in A : m > g} \subseteq A \ gone
            <4>1. gone \in SUBSET A /\ gone # {}
                BY <2>2, <2>3, <2>7
            <4> QED
                BY <2>3, <2>4, <4>1, LastToGo
        <3>2. {m \in A : m > g} \in SUBSET kept
            BY <2>5, <3>1
        <3>3. Cardinality({m \in A : m > g}) >= ROTATE_COUNT
            BY <2>2 DEF Surplus
        <3>4. /\ Cardinality({m \in A : m > g}) <= Cardinality(kept)
              /\ IsFiniteSet({m \in A : m > g})
            BY <2>5, <3>2, FS_Subset
        <3>5. Cardinality({m \in A : m > g}) \in Nat /\ Cardinality(kept) \in Nat
            BY <2>5, <3>4, FS_CardinalityType
        <3> QED
            BY <3>3, <3>4, <3>5, Numbers
    <2>9. ASSUME "remove" \notin faults', NEW m \in kept
          PROVE  n < m
        BY <2>2, <2>3, <2>4, <2>5, <2>7, <2>9, SurplusOldest
    <2> QED
        BY <2>8, <2>9
<1> QED
    BY <1>1, <1>2

\* RotateOpen: rotation leaves ROTATE_COUNT files at least and removes none that
\* is newer than one that stays, unless a file could not be removed.
THEOREM RotationCorrect == Spec => RotationRemovesOldest
<1>1. IInv /\ [Next]_vars => RemovesOldest
    BY RemovesOldestStep DEF IInv
<1> QED
    BY <1>1, Invariant, PTL DEF Spec, RotationRemovesOldest

=============================================================================
