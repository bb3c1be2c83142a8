--------------------------- MODULE LogQueueProofs ---------------------------
(***************************************************************************)
(* Proofs of the safety properties of LogQueue for every number of threads *)
(* and entries and every value of the size limits.                         *)
(***************************************************************************)
EXTENDS LogQueue, SequenceTheorems, TLAPS

-----------------------------------------------------------------------------
(* Sums of sizes.  A list adds up to n when it has running totals that end *)
(* in n; each list operation maps the running totals of its argument to    *)
(* those of its result.                                                    *)

\* An element with a positive natural size.
Sized(S) == \A e \in S : e.size \in Nat \ {0}

\* The sizes of an empty list add up to zero and to nothing else.
LEMMA SumsToEmpty ==
    /\ SumsTo(<<>>, 0)
    /\ \A n \in Nat : SumsTo(<<>>, n) => n = 0
<1>1. Len(<<>>) = 0
    OBVIOUS
<1>2. SumsTo(<<>>, 0)
    <2> DEFINE c == [i \in 1..Len(<<>>) |-> 0]
    <2>1. c \in [1..Len(<<>>) -> 0..0]
        OBVIOUS
    <2>2. IsRunningTotal(c, <<>>)
        BY <1>1 DEF IsRunningTotal
    <2>3. 0 = IF Len(<<>>) = 0 THEN 0 ELSE c[Len(<<>>)]
        BY <1>1
    <2> HIDE DEF c
    <2> QED
        BY <2>1, <2>2, <2>3, Zenon DEF SumsTo
<1>3. ASSUME NEW n \in Nat, SumsTo(<<>>, n)
      PROVE  n = 0
    BY <1>1, <1>3 DEF SumsTo
<1> QED
    BY <1>2, <1>3

\* Linking an entry at the tail adds its size to the sum.
LEMMA SumsToAppend ==
    ASSUME NEW S, Sized(S), NEW s \in Seq(S), NEW e \in S, NEW n \in Nat,
           SumsTo(s, n)
    PROVE  SumsTo(Append(s, e), n + e.size)
<1> DEFINE t == Append(s, e)
           m == n + e.size
<1>1. PICK c \in [1..Len(s) -> 0..n] :
        /\ IsRunningTotal(c, s)
        /\ n = IF Len(s) = 0 THEN 0 ELSE c[Len(s)]
    BY DEF SumsTo
<1>2. /\ Len(s) \in Nat
      /\ Len(t) = Len(s) + 1
      /\ \A i \in 1..Len(s) : t[i] = s[i]
      /\ t[Len(s) + 1] = e
    BY AppendProperties, LenProperties
<1>3. e.size \in Nat \ {0}
    BY DEF Sized
<1> DEFINE d == [i \in 1..Len(t) |-> IF i <= Len(s) THEN c[i] ELSE m]
<1>4. d \in [1..Len(t) -> 0..m]
    BY <1>1, <1>2, <1>3
<1>5. ASSUME NEW i \in 1..Len(t)
      PROVE  d[i] = t[i].size + (IF i = 1 THEN 0 ELSE d[i - 1])
    <2>1. CASE i <= Len(s)
        BY <1>1, <1>2, <2>1 DEF IsRunningTotal
    <2>2. CASE i = Len(s) + 1
        BY <1>1, <1>2, <1>3, <2>2
    <2> QED
        BY <1>2, <2>1, <2>2
<1>6. ASSUME NEW i \in 1..Len(t), NEW j \in 1..Len(t), i < j
      PROVE  d[i] < d[j]
    <2>1. i \in 1..Len(s)
        BY <1>2, <1>6
    <2>2. CASE j \in 1..Len(s)
        BY <1>1, <1>2, <2>1, <2>2, <1>6 DEF IsRunningTotal
    <2>3. CASE j = Len(s) + 1
        <3>1. c[i] <= n
            BY <1>1, <2>1
        <3> QED
            BY <3>1, <1>1, <1>2, <1>3, <2>1, <2>3
    <2> QED
        BY <1>2, <2>2, <2>3
<1>7. IsRunningTotal(d, t)
    BY <1>5, <1>6 DEF IsRunningTotal
<1>8. m = IF Len(t) = 0 THEN 0 ELSE d[Len(t)]
    BY <1>2
<1> HIDE DEF d
<1> QED
    BY <1>4, <1>7, <1>8 DEF SumsTo

\* The last element and the rest of a sequence that is not empty.
LEMMA FrontProperties ==
    ASSUME NEW S, NEW s \in Seq(S), s # <<>>
    PROVE  /\ Last(s) \in S
           /\ Front(s) \in Seq(S)
           /\ Len(s) \in Nat \ {0}
           /\ Len(Front(s)) = Len(s) - 1
           /\ \A i \in 1..(Len(s) - 1) : Front(s)[i] = s[i]
<1>1. Len(s) \in Nat \ {0}
    BY EmptySeq
<1>2. \A i \in 1..Len(s) : s[i] \in S
    BY ElementOfSeq
<1> DEFINE n == Len(s) - 1
<1>3. n \in Int /\ 1 \in Int /\ \A i \in 1..n : s[i] \in S
    BY <1>1, <1>2
<1> DEFINE f == SubSeq(s, 1, n)
<1>4. /\ f \in Seq(S)
      /\ Len(f) = IF 1 <= n THEN n - 1 + 1 ELSE 0
      /\ \A i \in 1..(n - 1 + 1) : f[i] = s[1 + i - 1]
    <2> HIDE DEF n
    <2> QED
        BY ONLY <1>3, SubSeqProperties
<1>5. f \in Seq(S) /\ Len(f) = Len(s) - 1
      /\ \A i \in 1..(Len(s) - 1) : f[i] = s[i]
    <2>1. Len(f) = Len(s) - 1
        <3>1. n \in Nat
            BY <1>1
        <3>2. Len(f) = n
            <4> HIDE DEF f, n
            <4>1. CASE 1 <= n
                BY <3>1, <1>4, <4>1
            <4>2. CASE n = 0
                BY <1>4, <4>2
            <4> QED
                BY <3>1, <4>1, <4>2
        <3> QED
            BY <3>2
    <2>2. ASSUME NEW i \in 1..(Len(s) - 1)
          PROVE  f[i] = s[i]
        <3>1. i \in 1..(n - 1 + 1) /\ 1 + i - 1 = i
            BY <1>1
        <3> HIDE DEF f, n
        <3> QED
            BY <3>1, <1>4
    <2> QED
        BY <1>4, <2>1, <2>2
<1>6. Front(s) = f
    BY DEF Front
<1>7. Last(s) \in S
    BY <1>1, <1>2 DEF Last
<1> QED
    <2> HIDE DEF f
    <2> QED
        BY <1>1, <1>5, <1>6, <1>7

\* Unlinking the last entry takes its size from the sum.
LEMMA SumsToFront ==
    ASSUME NEW S, Sized(S), NEW s \in Seq(S), s # <<>>, NEW n \in Nat,
           SumsTo(s, n)
    PROVE  /\ Last(s).size <= n
           /\ SumsTo(Front(s), n - Last(s).size)
<1> DEFINE t == Front(s)
           m == n - Last(s).size
<1>1. PICK c \in [1..Len(s) -> 0..n] :
        /\ IsRunningTotal(c, s)
        /\ n = IF Len(s) = 0 THEN 0 ELSE c[Len(s)]
    BY DEF SumsTo
<1>2. /\ Len(s) \in Nat \ {0}
      /\ Len(t) = Len(s) - 1
      /\ \A i \in 1..Len(t) : t[i] = s[i]
      /\ Last(s).size \in Nat \ {0}
    BY FrontProperties DEF Sized
<1>3. n = Last(s).size + (IF Len(s) = 1 THEN 0 ELSE c[Len(s) - 1])
    BY <1>1, <1>2 DEF IsRunningTotal, Last
<1>4. m \in Nat /\ m = IF Len(t) = 0 THEN 0 ELSE c[Len(t)]
    <2>1. CASE Len(s) = 1
        BY <1>2, <1>3, <2>1
    <2>2. CASE Len(s) # 1
        <3>1. Len(s) - 1 \in 1..Len(s)
            BY <1>2, <2>2
        <3>2. c[Len(s) - 1] \in Nat
            BY <3>1, <1>1
        <3> QED
            BY <3>2, <1>2, <1>3, <2>2
    <2> QED
        BY <2>1, <2>2
<1> DEFINE d == [i \in 1..Len(t) |-> c[i]]
<1>5. ASSUME NEW i \in 1..Len(t)
      PROVE  d[i] \in 0..m
    <2>1. i \in 1..Len(s) /\ Len(t) \in 1..Len(s) /\ Len(t) # 0
        BY <1>2
    <2>2. c[i] \in Nat /\ c[Len(t)] \in Nat
        BY <1>1, <2>1
    <2>3. i < Len(t) => c[i] < c[Len(t)]
        BY <1>1, <2>1 DEF IsRunningTotal
    <2>4. c[i] <= c[Len(t)]
        BY <2>1, <2>2, <2>3
    <2> QED
        BY <2>1, <2>2, <2>4, <1>4
<1>6. IsRunningTotal(d, t)
    <2>1. ASSUME NEW i \in 1..Len(t)
          PROVE  d[i] = t[i].size + (IF i = 1 THEN 0 ELSE d[i - 1])
        BY <1>1, <1>2 DEF IsRunningTotal
    <2>2. ASSUME NEW i \in 1..Len(t), NEW j \in 1..Len(t), i < j
          PROVE  d[i] < d[j]
        BY <1>1, <1>2, <2>2 DEF IsRunningTotal
    <2> QED
        BY <2>1, <2>2 DEF IsRunningTotal
<1>7. d \in [1..Len(t) -> 0..m] /\ m = IF Len(t) = 0 THEN 0 ELSE d[Len(t)]
    <2>1. d \in [1..Len(t) -> 0..m]
        BY <1>5
    <2>2. CASE Len(t) = 0
        BY <2>1, <2>2, <1>4
    <2>3. CASE Len(t) # 0
        <3>1. Len(t) \in 1..Len(t)
            BY <1>2, <2>3
        <3> QED
            BY <2>1, <2>3, <3>1, <1>4
    <2> QED
        BY <2>2, <2>3
<1>8. SumsTo(t, m)
    BY <1>6, <1>7 DEF SumsTo
<1>9. Last(s).size <= n
    BY <1>2, <1>4
<1> QED
    BY <1>8, <1>9

\* Unlinking the first entry takes its size from the sum.
LEMMA SumsToTail ==
    ASSUME NEW S, Sized(S), NEW s \in Seq(S), s # <<>>, NEW n \in Nat,
           SumsTo(s, n)
    PROVE  /\ Head(s).size <= n
           /\ SumsTo(Tail(s), n - Head(s).size)
<1> DEFINE t == Tail(s)
           h == Head(s).size
           m == n - h
<1>1. PICK c \in [1..Len(s) -> 0..n] :
        /\ IsRunningTotal(c, s)
        /\ n = IF Len(s) = 0 THEN 0 ELSE c[Len(s)]
    BY DEF SumsTo
<1>2. /\ Len(s) \in Nat \ {0}
      /\ Len(t) = Len(s) - 1
      /\ \A i \in 1..Len(t) : t[i] = s[i + 1]
      /\ h \in Nat \ {0}
      /\ s[1].size = h
    BY EmptySeq, HeadTailProperties DEF Sized
<1>3. c[1] = h /\ \A i \in 1..Len(s) : c[i] \in h..n
    BY <1>1, <1>2 DEF IsRunningTotal
<1> HIDE DEF t, h
<1> DEFINE d == [i \in 1..Len(t) |-> c[i + 1] - h]
<1>4. d \in [1..Len(t) -> 0..m] /\ m \in Nat
    BY <1>1, <1>2, <1>3
<1>5. IsRunningTotal(d, t)
    <2>1. ASSUME NEW i \in 1..Len(t)
          PROVE  d[i] = t[i].size + (IF i = 1 THEN 0 ELSE d[i - 1])
        <3>0. /\ i \in Nat /\ i \in 1..Len(s) /\ i + 1 \in 1..Len(s)
              /\ i + 1 # 1 /\ (i + 1) - 1 = i
            BY <1>2
        <3>1. c[i + 1] = s[i + 1].size + c[i]
            <4>1. c[i + 1]
                     = s[i + 1].size + (IF i + 1 = 1 THEN 0 ELSE c[(i + 1) - 1])
                BY <1>1, <3>0 DEF IsRunningTotal
            <4> QED
                BY <3>0, <4>1
        <3>2. s[i + 1].size \in Nat
            BY ElementOfSeq, <3>0 DEF Sized
        <3>3. c[i] \in Nat /\ c[i + 1] \in Nat
            <4>1. \A j \in 1..Len(s) : c[j] \in 0..n
                BY <1>1
            <4> QED
                BY <3>0, <4>1
        <3>4. h \in Nat /\ t[i] = s[i + 1]
            BY <1>2
        <3>5. CASE i = 1
            <4>1. d[i] = c[i + 1] - h /\ c[i] = h
                BY <1>3, <3>5
            <4> HIDE DEF d
            <4> QED
                BY <3>1, <3>2, <3>3, <3>4, <3>5, <4>1
        <3>6. CASE i # 1
            <4>1. i - 1 \in 1..Len(t) /\ (i - 1) + 1 = i
                BY <1>2, <3>6
            <4>2. d[i] = c[i + 1] - h /\ d[i - 1] = c[i] - h
                BY <4>1
            <4> HIDE DEF d
            <4> QED
                BY <3>1, <3>2, <3>3, <3>4, <3>6, <4>2
        <3> QED
            BY <3>5, <3>6
    <2>2. ASSUME NEW i \in 1..Len(t), NEW j \in 1..Len(t), i < j
          PROVE  d[i] < d[j]
        <3>1. c[i + 1] < c[j + 1]
            BY <1>1, <1>2, <2>2 DEF IsRunningTotal
        <3>2. c[i + 1] \in Nat /\ c[j + 1] \in Nat
            BY <1>1, <1>2
        <3> QED
            BY <3>1, <3>2, <1>2
    <2> QED
        BY <2>1, <2>2 DEF IsRunningTotal
<1>6. m = IF Len(t) = 0 THEN 0 ELSE d[Len(t)]
    <2>1. n = c[Len(s)] /\ Len(t) \in Nat
        BY <1>1, <1>2
    <2>2. CASE Len(t) = 0
        <3>1. Len(s) = 1
            BY <1>2, <2>2
        <3>2. n = h
            BY <1>3, <2>1, <3>1
        <3> QED
            BY <1>2, <2>2, <3>2
    <2>3. CASE Len(t) # 0
        <3>1. Len(t) \in 1..Len(t) /\ Len(t) + 1 = Len(s)
            BY <1>2, <2>1, <2>3
        <3>2. d[Len(t)] = c[Len(s)] - h
            BY <3>1
        <3> QED
            BY <2>1, <2>3, <3>2
    <2> QED
        BY <2>2, <2>3
<1>7. h <= n
    BY <1>2, <1>4
<1> HIDE DEF d
<1>8. SumsTo(t, m)
    BY <1>4, <1>5, <1>6 DEF SumsTo
<1> QED
    BY <1>7, <1>8 DEF t, h

-----------------------------------------------------------------------------
(* The inductive invariant.                                                *)

USE DEF vars, threadVars, clientVars

\* What the assumptions on the constants say of the fields of an entry.
LEMMA EntryFields ==
    ASSUME NEW e \in Entries
    PROVE  /\ e.thr \in Threads
           /\ e.num \in 1..MaxCalls
           /\ e.size \in 1..MAX_ENTRY
BY LogQueueAssumption DEF Entries

\* Every entry has a positive size: the 29 bytes of its header.
LEMMA EntriesSized == Sized(Entries)
<1>1. ASSUME NEW e \in Entries
      PROVE  e.size \in Nat \ {0}
    BY EntryFields, LogQueueAssumption
<1> QED
    BY <1>1 DEF Sized

\* The state DriverEntry leaves satisfies the inductive invariant.
LEMMA InitIInv == Init => IInv
<1> SUFFICES ASSUME Init
             PROVE  IInv
    OBVIOUS
<1> USE LogQueueAssumption DEF Init
<1>1. TypeOK
    BY EmptySeq DEF TypeOK, Statuses
<1>2. LockInv
    BY DEF LockInv
<1>3. LocalInv
    BY DEF LocalInv
<1>4. Accounting
    BY SumsToEmpty DEF Accounting
<1>5. LoopHasEntry /\ SizeBound /\ PurgeWindow /\ ReadOutcome
    BY DEF LoopHasEntry, SizeBound, PurgeWindow, ReadOutcome
<1> QED
    BY <1>1, <1>2, <1>3, <1>4, <1>5 DEF IInv

\* What linking the thread's Entry at the tail does to list and counter.
LEMMA InsertTailEffect ==
    ASSUME TypeOK, LocalInv, Accounting,
           NEW t \in Threads, pc[t] # "idle", InsertTail(t)
    PROVE  /\ L' \in Seq(Entries)
           /\ L' # <<>>
           /\ L_SIZE_BYTES' \in Nat
           /\ L_SIZE_BYTES' <= L_SIZE_BYTES + MAX_ENTRY
           /\ L_SIZE_BYTES' >= L_SIZE_BYTES
           /\ SumsTo(L', L_SIZE_BYTES')
<1>1. entry[t] \in Entries /\ entry[t].size \in 1..MAX_ENTRY
    BY EntryFields DEF LocalInv
<1>2. L' \in Seq(Entries) /\ L' # <<>>
    BY <1>1, AppendProperties DEF InsertTail, TypeOK
<1>3. L_SIZE_BYTES \in Nat /\ L_SIZE_BYTES' = L_SIZE_BYTES + entry[t].size
    BY DEF InsertTail, TypeOK
<1>4. SumsTo(L', L_SIZE_BYTES')
    BY <1>1, EntriesSized, SumsToAppend DEF InsertTail, TypeOK, Accounting
<1>5. /\ L_SIZE_BYTES' \in Nat /\ L_SIZE_BYTES' >= L_SIZE_BYTES
      /\ L_SIZE_BYTES' <= L_SIZE_BYTES + MAX_ENTRY
    <2>1. MAX_ENTRY \in Nat
        BY LogQueueAssumption
    <2> QED
        BY <1>1, <1>3, <2>1
<1> QED
    BY <1>2, <1>4, <1>5

\* What unlinking and deleting the tail entry does.
LEMMA UnlinkTailEffect ==
    ASSUME TypeOK, Accounting, L # <<>>,
           L' = Front(L), L_SIZE_BYTES' = SizeWithout(Last(L))
    PROVE  /\ Last(L) \in Entries
           /\ L' \in Seq(Entries)
           /\ L_SIZE_BYTES' \in Nat
           /\ L_SIZE_BYTES' <= L_SIZE_BYTES
           /\ L_SIZE_BYTES <= L_SIZE_BYTES' + MAX_ENTRY
           /\ SumsTo(L', L_SIZE_BYTES')
<1>1. /\ Last(L) \in Entries
      /\ Front(L) \in Seq(Entries)
      /\ Last(L).size \in 1..MAX_ENTRY
    BY FrontProperties, EntryFields DEF TypeOK
<1>2. /\ Last(L).size <= L_SIZE_BYTES
      /\ SumsTo(Front(L), L_SIZE_BYTES - Last(L).size)
    BY EntriesSized, SumsToFront DEF TypeOK, Accounting
<1>3. L_SIZE_BYTES \in Nat
    BY DEF TypeOK
<1>4. L_SIZE_BYTES' = L_SIZE_BYTES - Last(L).size
    BY <1>1, <1>2, <1>3 DEF SizeWithout
<1> QED
    BY <1>1, <1>2, <1>3, <1>4, LogQueueAssumption

\* What unlinking and deleting the head entry does.
LEMMA UnlinkHeadEffect ==
    ASSUME TypeOK, Accounting, L # <<>>,
           L' = Tail(L), L_SIZE_BYTES' = SizeWithout(Head(L))
    PROVE  /\ Head(L) \in Entries
           /\ Head(L).size \in 1..MAX_ENTRY
           /\ L' \in Seq(Entries)
           /\ L_SIZE_BYTES' \in Nat
           /\ L_SIZE_BYTES' <= L_SIZE_BYTES
           /\ SumsTo(L', L_SIZE_BYTES')
<1>1. /\ Head(L) \in Entries
      /\ Tail(L) \in Seq(Entries)
      /\ Head(L).size \in 1..MAX_ENTRY
    BY HeadTailProperties, EntryFields DEF TypeOK
<1>2. /\ Head(L).size <= L_SIZE_BYTES
      /\ SumsTo(Tail(L), L_SIZE_BYTES - Head(L).size)
    BY EntriesSized, SumsToTail DEF TypeOK, Accounting
<1>3. L_SIZE_BYTES \in Nat
    BY DEF TypeOK
<1>4. L_SIZE_BYTES' = L_SIZE_BYTES - Head(L).size
    BY <1>1, <1>2, <1>3 DEF SizeWithout
<1> QED
    BY <1>1, <1>2, <1>3, <1>4, LogQueueAssumption

\* Every step of AddLogEntry preserves the inductive invariant.
LEMMA AddPreservesIInv ==
    ASSUME IInv, NEW t \in Threads, AddLogEntry(t)
    PROVE  IInv'
<1> USE LogQueueAssumption DEF IInv
<1>1. ASSUME NEW size \in Sizes, Allocate(t, size)
      PROVE  IInv'
    <2> USE <1>1 DEF Allocate
    <2>1. entry'[t] \in Entries /\ calls'[t] = entry'[t].num
          /\ entry'[t].thr = t
        BY DEF Entries, TypeOK
    <2>2. TypeOK'
        BY <2>1 DEF TypeOK
    <2>3. LockInv'
        BY DEF LockInv, TypeOK
    <2>4. LocalInv'
        BY <2>1 DEF LocalInv, TypeOK
    <2>5. Accounting' /\ SizeBound' /\ ReadOutcome'
        BY DEF Accounting, SizeBound, ReadOutcome
    <2>6. LoopHasEntry' /\ PurgeWindow'
        BY DEF LoopHasEntry, PurgeWindow, TypeOK
    <2> QED
        BY <2>2, <2>3, <2>4, <2>5, <2>6
<1>2. ASSUME NEW size \in Sizes, AllocateFails(t, size)
      PROVE  IInv'
    <2> USE <1>2 DEF AllocateFails
    <2>1. [thr |-> t, num |-> calls[t] + 1, size |-> size] \in Entries
        BY DEF Entries, TypeOK
    <2>2. TypeOK'
        BY <2>1 DEF TypeOK
    <2>3. LockInv' /\ Accounting' /\ SizeBound' /\ ReadOutcome'
          /\ LoopHasEntry' /\ PurgeWindow'
        BY DEF LockInv, Accounting, SizeBound, ReadOutcome, LoopHasEntry,
               PurgeWindow
    <2>4. LocalInv'
        BY DEF LocalInv, TypeOK
    <2> QED
        BY <2>2, <2>3, <2>4
<1>3. CASE InsertBelowLimit(t)
    <2> USE <1>3 DEF InsertBelowLimit, Full
    <2>1. /\ L' \in Seq(Entries)
          /\ L_SIZE_BYTES' \in Nat
          /\ L_SIZE_BYTES' <= L_SIZE_BYTES + MAX_ENTRY
          /\ SumsTo(L', L_SIZE_BYTES')
        BY InsertTailEffect
    <2>2. \A u \in Threads : pc[u] \notin {"purge", "insert"}
        BY DEF LockInv
    <2>3. irp.phase # "copy"
        BY DEF LockInv
    <2>4. TypeOK'
        BY <2>1 DEF TypeOK
    <2>5. LockInv' /\ LocalInv' /\ LoopHasEntry' /\ PurgeWindow'
        BY <2>2, <2>3 DEF LockInv, LocalInv, LoopHasEntry, PurgeWindow, TypeOK
    <2>6. SizeBound'
        BY <2>1 DEF SizeBound, TypeOK
    <2>7. Accounting' /\ ReadOutcome'
        BY <2>1 DEF Accounting, ReadOutcome
    <2> QED
        BY <2>4, <2>5, <2>6, <2>7
<1>4. CASE StartPurge(t)
    <2> USE <1>4 DEF StartPurge, Full
    <2>1. PICK jitter \in 0..(LIST_PURGE_CONGRUENT - 1) :
            keep_max' = [keep_max EXCEPT ![t] = LIST_KEEP_MAX + jitter]
        OBVIOUS
    <2>2. \A u \in Threads : pc[u] \notin {"purge", "insert"}
        BY DEF LockInv
    <2>3. irp.phase # "copy"
        BY DEF LockInv
    <2>4. /\ keep_max' \in [Threads -> Nat]
          /\ keep_max'[t] \in LIST_KEEP_MAX..
                                (LIST_KEEP_MAX + LIST_PURGE_CONGRUENT - 1)
          /\ L_SIZE_BYTES > keep_max'[t]
        BY <2>1 DEF TypeOK
    <2>5. L # <<>>
        BY SumsToEmpty DEF Accounting, TypeOK
    <2>6. TypeOK'
        BY <2>4 DEF TypeOK
    <2>7. LockInv'
        BY <2>2, <2>3 DEF LockInv, TypeOK
    <2>8. LocalInv'
        BY <2>2, <2>4 DEF LocalInv, TypeOK
    <2>9. LoopHasEntry' /\ PurgeWindow'
        BY <2>2, <2>3, <2>5 DEF LoopHasEntry, PurgeWindow, TypeOK
    <2>10. Accounting' /\ SizeBound' /\ ReadOutcome'
        BY DEF Accounting, SizeBound, ReadOutcome
    <2> QED
        BY <2>6, <2>7, <2>8, <2>9, <2>10
<1>5. CASE PurgeOne(t)
    <2> USE <1>5 DEF PurgeOne, PurgeGoesOn
    <2>1. /\ Last(L) \in Entries
          /\ L' \in Seq(Entries)
          /\ L_SIZE_BYTES' \in Nat
          /\ L_SIZE_BYTES' <= L_SIZE_BYTES
          /\ L_SIZE_BYTES <= L_SIZE_BYTES' + MAX_ENTRY
          /\ SumsTo(L', L_SIZE_BYTES')
        BY UnlinkTailEffect
    <2>2. LLOCK = t /\ irp.phase # "copy"
        BY DEF LockInv
    <2>3. \A u \in Threads : pc[u] \in {"purge", "insert"} => u = t
        BY <2>2 DEF LockInv
    <2>4. L_SIZE_BYTES > keep_max[t]
          /\ keep_max[t] \in LIST_KEEP_MAX..
                                (LIST_KEEP_MAX + LIST_PURGE_CONGRUENT - 1)
        BY DEF LocalInv
    <2>5. TypeOK'
        BY <2>1 DEF TypeOK
    <2>6. LockInv'
        BY <2>2, <2>3 DEF LockInv, TypeOK
    <2>7. LocalInv'
        BY <2>3, <2>4 DEF LocalInv, TypeOK
    <2>8. LoopHasEntry'
        <3>1. L' = <<>> => L_SIZE_BYTES' = 0
            BY <2>1, SumsToEmpty
        <3>2. pc'[t] = "purge" => L' # <<>>
            BY <3>1, <2>1, <2>4 DEF TypeOK
        <3> QED
            BY <3>2, <2>2, <2>3 DEF LoopHasEntry, TypeOK
    <2>9. PurgeWindow'
        <3>1. /\ L_SIZE_BYTES' + MAX_ENTRY > LIST_KEEP_MAX
              /\ pc'[t] = "insert" => L_SIZE_BYTES' <= keep_max[t]
            BY <2>1, <2>4 DEF TypeOK
        <3> QED
            BY <3>1, <2>3 DEF PurgeWindow, TypeOK
    <2>10. SizeBound'
        BY <2>1 DEF SizeBound, TypeOK
    <2>11. Accounting' /\ ReadOutcome'
        BY <2>1 DEF Accounting, ReadOutcome
    <2> QED
        BY <2>5, <2>6, <2>7, <2>8, <2>9, <2>10, <2>11
<1>6. CASE InsertAfterPurge(t)
    <2> USE <1>6 DEF InsertAfterPurge
    <2>1. /\ L' \in Seq(Entries)
          /\ L_SIZE_BYTES' \in Nat
          /\ L_SIZE_BYTES' <= L_SIZE_BYTES + MAX_ENTRY
          /\ SumsTo(L', L_SIZE_BYTES')
        BY InsertTailEffect
    <2>2. LLOCK = t /\ irp.phase # "copy"
        BY DEF LockInv
    <2>3. \A u \in Threads : pc'[u] \notin {"purge", "insert"}
        BY <2>2 DEF LockInv, TypeOK
    <2>4. L_SIZE_BYTES < LIST_SIZE_MAX_BYTES
        BY DEF PurgeWindow, LocalInv, TypeOK
    <2>5. TypeOK'
        BY <2>1 DEF TypeOK
    <2>6. LockInv' /\ LocalInv' /\ LoopHasEntry' /\ PurgeWindow'
        BY <2>2, <2>3 DEF LockInv, LocalInv, LoopHasEntry, PurgeWindow, TypeOK
    <2>7. SizeBound'
        BY <2>1, <2>4 DEF SizeBound, TypeOK
    <2>8. Accounting' /\ ReadOutcome'
        BY <2>1 DEF Accounting, ReadOutcome
    <2> QED
        BY <2>5, <2>6, <2>7, <2>8
<1> QED
    BY <1>1, <1>2, <1>3, <1>4, <1>5, <1>6 DEF AddLogEntry

\* Every step of ReadLogEntry preserves the inductive invariant.
LEMMA ReadPreservesIInv ==
    ASSUME IInv, ReadLogEntry
    PROVE  IInv'
<1> USE LogQueueAssumption DEF IInv
<1>1. CASE ReadBeforeInit \/ ReadEmpty \/ ReadBadBuffer
    <2>1. /\ UNCHANGED <<State, L, L_SIZE_BYTES, LLOCK, threadVars, received,
                         discarded>>
          /\ irp'.phase = "idle" /\ irp'.bytes = 0 /\ irp'.status \in Statuses
          /\ irp' \in [phase : {"idle", "copy"}, status : Statuses, bytes : Nat]
          /\ badBuffers' \in Nat
          /\ irp.phase = "idle"
        BY <1>1 DEF ReadBeforeInit, ReadEmpty, ReadBadBuffer, Complete,
                    Statuses, TypeOK
    <2>2. TypeOK'
        BY <2>1 DEF TypeOK
    <2>3. LockInv' /\ LoopHasEntry'
        BY <2>1 DEF LockInv, LoopHasEntry
    <2>4. LocalInv' /\ Accounting' /\ SizeBound' /\ PurgeWindow'
        BY <2>1 DEF LocalInv, Accounting, SizeBound, PurgeWindow
    <2>5. ReadOutcome'
        BY <2>1 DEF ReadOutcome
    <2> QED
        BY <2>2, <2>3, <2>4, <2>5
<1>2. CASE StartRead
    <2> USE <1>2 DEF StartRead
    <2>1. TypeOK' /\ ReadOutcome'
        BY DEF TypeOK, ReadOutcome, Statuses
    <2>2. LockInv' /\ LoopHasEntry'
        BY DEF LockInv, LoopHasEntry
    <2>3. LocalInv' /\ Accounting' /\ SizeBound' /\ PurgeWindow'
        BY DEF LocalInv, Accounting, SizeBound, PurgeWindow
    <2> QED
        BY <2>1, <2>2, <2>3
<1>3. CASE CopyOne
    <2> USE <1>3 DEF CopyOne, Fits, CopyGoesOn
    <2>1. LLOCK = Client /\ L # <<>>
        BY DEF LockInv, LoopHasEntry
    <2>2. \A u \in Threads : pc[u] \notin {"purge", "insert"}
        BY <2>1 DEF LockInv
    <2>3. /\ Head(L) \in Entries
          /\ Head(L).size \in 1..MAX_ENTRY
          /\ L' \in Seq(Entries)
          /\ L_SIZE_BYTES' \in Nat
          /\ L_SIZE_BYTES' <= L_SIZE_BYTES
          /\ SumsTo(L', L_SIZE_BYTES')
        BY <2>1, UnlinkHeadEffect
    <2>4. received' \in Seq(Entries)
        BY <2>3, AppendProperties DEF TypeOK
    <2> DEFINE bytes == irp.bytes + Head(L).size
    <2>5. bytes \in Nat /\ bytes <= BufLen /\ irp.status \in Statuses
        <3>1. irp.bytes \in Nat /\ irp.status \in Statuses
            BY DEF TypeOK
        <3>2. Head(L).size \in Nat /\ BufLen \in Nat
            BY <2>3
        <3>3. bytes <= BufLen
            OBVIOUS
        <3> QED
            BY <3>1, <3>2, <3>3
    <2>6. \/ /\ L' # <<>>
             /\ irp' = [irp EXCEPT !.bytes = bytes]
             /\ UNCHANGED LLOCK
          \/ /\ irp' = [phase |-> "idle", status |-> "SUCCESS", bytes |-> bytes]
             /\ LLOCK' = Free
        <3>1. CASE CopyGoesOn(bytes)
            BY <3>1
        <3>2. CASE ~CopyGoesOn(bytes)
            BY <3>2 DEF Complete
        <3> QED
            BY <3>1, <3>2
    <2> HIDE DEF bytes
    <2>7. irp' \in [phase : {"idle", "copy"}, status : Statuses, bytes : Nat]
        <3>1. irp \in [phase : {"idle", "copy"}, status : Statuses, bytes : Nat]
            BY DEF TypeOK
        <3> HIDE <1>3 DEF CopyOne
        <3> QED
            BY <3>1, <2>5, <2>6 DEF Statuses
    <2>8. TypeOK'
        BY <2>1, <2>3, <2>4, <2>6, <2>7 DEF TypeOK
    <2>9. irp'.phase = "idle" \/ (irp'.phase = "copy" /\ L' # <<>>
                                    /\ irp.phase = "copy" /\ LLOCK' = LLOCK)
        <3>1. irp \in [phase : {"idle", "copy"}, status : Statuses, bytes : Nat]
            BY DEF TypeOK
        <3> QED
            BY <2>6, <3>1
    <2>10. irp'.bytes = bytes /\ (irp'.phase = "idle" => LLOCK' = Free
                                                /\ irp'.status = "SUCCESS")
        <3>1. irp \in [phase : {"idle", "copy"}, status : Statuses, bytes : Nat]
            BY DEF TypeOK
        <3>2. irp.phase = "copy"
            BY <2>1
        <3>3. CASE irp' = [irp EXCEPT !.bytes = bytes]
            BY <3>1, <3>2, <3>3
        <3>4. CASE /\ irp' = [phase |-> "idle", status |-> "SUCCESS",
                              bytes |-> bytes]
                   /\ LLOCK' = Free
            BY <3>4
        <3> QED
            BY <2>6, <3>3, <3>4
    <2>13. LockInv' /\ LoopHasEntry'
        BY <2>1, <2>2, <2>9, <2>10 DEF LockInv, LoopHasEntry
    <2>15. irp'.phase = "copy" => irp'.status = irp.status
        <3>1. irp \in [phase : {"idle", "copy"}, status : Statuses, bytes : Nat]
            BY DEF TypeOK
        <3>2. CASE irp' = [irp EXCEPT !.bytes = bytes]
            BY <3>1, <3>2
        <3>3. CASE irp' = [phase |-> "idle", status |-> "SUCCESS",
                           bytes |-> bytes]
            BY <3>3
        <3> QED
            BY <2>6, <3>2, <3>3
    <2>14. ReadOutcome'
        BY <2>5, <2>9, <2>10, <2>15 DEF ReadOutcome
    <2>11. LocalInv' /\ PurgeWindow'
        BY <2>2 DEF LocalInv, PurgeWindow
    <2>12. Accounting' /\ SizeBound'
        BY <2>3 DEF Accounting, SizeBound, TypeOK
    <2> QED
        BY <2>8, <2>11, <2>12, <2>13, <2>14
<1>4. CASE PutBack
    <2> USE <1>4 DEF PutBack, Complete
    <2>1. LLOCK = Client
        BY DEF LockInv
    <2>2. \A u \in Threads : pc[u] \notin {"purge", "insert"}
        BY <2>1 DEF LockInv
    <2>3. TypeOK' /\ ReadOutcome'
        BY DEF TypeOK, ReadOutcome, Statuses
    <2>4. LockInv' /\ LoopHasEntry'
        BY <2>1, <2>2 DEF LockInv, LoopHasEntry
    <2>5. LocalInv' /\ Accounting' /\ SizeBound' /\ PurgeWindow'
        BY <2>2 DEF LocalInv, Accounting, SizeBound, PurgeWindow
    <2> QED
        BY <2>3, <2>4, <2>5
<1> QED
    BY <1>1, <1>2, <1>3, <1>4 DEF ReadLogEntry

\* One step of the system, or none.
LEMMA NextPreservesIInv ==
    ASSUME IInv, [Next]_vars
    PROVE  IInv'
<1>1. CASE Initialized
    <2> USE <1>1 DEF Initialized
    <2>1. TypeOK'
        BY DEF IInv, TypeOK
    <2>2. LockInv' /\ LocalInv' /\ Accounting' /\ LoopHasEntry' /\ SizeBound'
          /\ PurgeWindow' /\ ReadOutcome'
        BY DEF IInv, LockInv, LocalInv, Accounting, LoopHasEntry, SizeBound,
               PurgeWindow, ReadOutcome
    <2> QED
        BY <2>1, <2>2 DEF IInv
<1>2. ASSUME NEW t \in Threads, AddLogEntry(t)
      PROVE  IInv'
    BY <1>2, AddPreservesIInv
<1>3. CASE ReadLogEntry
    BY <1>3, ReadPreservesIInv
<1>4. CASE UNCHANGED vars
    BY <1>4 DEF IInv, TypeOK, LockInv, LocalInv, Accounting, LoopHasEntry,
                SizeBound, PurgeWindow, ReadOutcome
<1> QED
    BY <1>1, <1>2, <1>3, <1>4 DEF Next

\* The inductive invariant holds in every reachable state.
THEOREM Invariance == Spec => []IInv
<1>1. Init => IInv
    BY InitIInv
<1>2. IInv /\ [Next]_vars => IInv'
    BY NextPreservesIInv
<1> QED
    BY <1>1, <1>2, PTL DEF Spec

\* Every variable of the queue stays in its type.
THEOREM TypeCorrect == Spec => []TypeOK
<1>1. IInv => TypeOK
    BY DEF IInv
<1> QED
    BY <1>1, Invariance, PTL

\* L_SIZE_BYTES is the sum of the sizes of the entries on the list, in every
\* state and for every number of threads.
THEOREM AccountingHolds == Spec => []Accounting
<1>1. IInv => Accounting
    BY DEF IInv
<1> QED
    BY <1>1, Invariance, PTL

\* Neither the purge loop nor the copy loop ever unlinks the list head.
THEOREM LoopsHaveEntries == Spec => []LoopHasEntry
<1>1. IInv => LoopHasEntry
    BY DEF IInv
<1> QED
    BY <1>1, Invariance, PTL

\* The list never outgrows its limit by a whole entry.
THEOREM SizeBounded == Spec => []SizeBound
<1>1. IInv => SizeBound
    BY DEF IInv
<1> QED
    BY <1>1, Invariance, PTL

\* A purge ends within one entry of what it is to keep.
THEOREM PurgeExact == Spec => []PurgeWindow
<1>1. IInv => PurgeWindow
    BY DEF IInv
<1> QED
    BY <1>1, Invariance, PTL

\* A read never copies past the client's buffer.
THEOREM ReadBounded == Spec => []ReadOutcome
<1>1. IInv => ReadOutcome
    BY DEF IInv
<1> QED
    BY <1>1, Invariance, PTL

-----------------------------------------------------------------------------
(* The order of each thread's entries.                                     *)

\* Linking the thread's Entry at the tail keeps the order: it is the newest
\* of its thread.
LEMMA InsertKeepsOrder ==
    ASSUME IInv, OrderInv, NEW t \in Threads, pc[t] # "idle", InsertTail(t),
           pc' = [pc EXCEPT ![t] = "idle"], calls' = calls
    PROVE  OrderInv'
<1>1. /\ entry[t] \in Entries /\ entry[t].thr = t /\ entry[t].num = calls[t]
      /\ L \in Seq(Entries)
    BY DEF IInv, LocalInv, TypeOK
<1>2. /\ Len(L) \in Nat
      /\ Len(L') = Len(L) + 1
      /\ \A i \in 1..Len(L) : L'[i] = L[i]
      /\ L'[Len(L) + 1] = entry[t]
    BY <1>1, AppendProperties, LenProperties DEF InsertTail
<1>3. \A i \in 1..Len(L) : L[i] \in Entries
    BY <1>1, ElementOfSeq
<1>4. \A i \in 1..Len(L) : L[i].num \in Nat /\ L[i].thr \in Threads
    BY <1>3, EntryFields, LogQueueAssumption
<1>5. /\ calls \in [Threads -> Nat]
      /\ pc \in [Threads -> {"idle", "acquire", "purge", "insert"}]
    BY LogQueueAssumption DEF IInv, TypeOK
<1>6. \A i \in 1..Len(L) : L[i].thr = t => L[i].num < entry[t].num
    BY <1>1 DEF OrderInv
<1>7. ASSUME NEW i \in 1..Len(L'), NEW j \in 1..Len(L'), i < j,
             L'[i].thr = L'[j].thr
      PROVE  L'[i].num < L'[j].num
    <2>1. i \in 1..Len(L)
        BY <1>2, <1>7
    <2>2. CASE j \in 1..Len(L)
        BY <1>2, <1>7, <2>1, <2>2 DEF OrderInv
    <2>3. CASE j = Len(L) + 1
        BY <1>1, <1>2, <1>6, <1>7, <2>1, <2>3
    <2> QED
        BY <1>2, <2>2, <2>3
<1>8. ASSUME NEW i \in 1..Len(L')
      PROVE  /\ L'[i].num <= calls'[L'[i].thr]
             /\ pc'[L'[i].thr] # "idle" => L'[i].num < calls'[L'[i].thr]
    <2>1. CASE i \in 1..Len(L)
        BY <1>2, <1>4, <1>5, <2>1 DEF OrderInv
    <2>2. CASE i = Len(L) + 1
        BY <1>1, <1>2, <1>5, <2>2
    <2> QED
        BY <1>2, <2>1, <2>2
<1> QED
    BY <1>7, <1>8 DEF OrderInv

\* Every step keeps the order, and that pending entries are the newest.
LEMMA OrderPreserved ==
    ASSUME IInv, OrderInv, [Next]_vars
    PROVE  OrderInv'
<1>1. /\ L \in Seq(Entries) /\ Len(L) \in Nat
      /\ \A i \in 1..Len(L) : L[i].num \in Nat /\ L[i].thr \in Threads
    <2>1. L \in Seq(Entries) /\ Len(L) \in Nat
        BY LenProperties DEF IInv, TypeOK
    <2>2. \A i \in 1..Len(L) : L[i] \in Entries
        BY <2>1, ElementOfSeq
    <2> QED
        BY <2>1, <2>2, EntryFields, LogQueueAssumption
<1>2. /\ calls \in [Threads -> Nat]
      /\ pc \in [Threads -> {"idle", "acquire", "purge", "insert"}]
    BY LogQueueAssumption DEF IInv, TypeOK
<1>3. ASSUME UNCHANGED <<L, calls, pc>>
      PROVE  OrderInv'
    BY <1>3 DEF OrderInv
<1>4. ASSUME NEW t \in Threads, AddLogEntry(t)
      PROVE  OrderInv'
    <2>1. ASSUME NEW size \in Sizes, Allocate(t, size) \/ AllocateFails(t, size)
          PROVE  OrderInv'
        <3>1. /\ L' = L /\ pc[t] = "idle"
              /\ calls' = [calls EXCEPT ![t] = @ + 1]
              /\ \A u \in Threads : u # t => pc'[u] = pc[u]
            BY <1>2, <2>1 DEF Allocate, AllocateFails
        <3>2. \A u \in Threads : calls[u] \in Nat /\ calls'[u] \in Nat
                    /\ calls'[u] = IF u = t THEN calls[u] + 1 ELSE calls[u]
            BY <1>2, <3>1
        <3> QED
            BY <1>1, <3>1, <3>2 DEF OrderInv
    <2>2. CASE InsertBelowLimit(t) \/ InsertAfterPurge(t)
        BY <2>2, InsertKeepsOrder DEF InsertBelowLimit, InsertAfterPurge
    <2>3. CASE StartPurge(t)
        BY <1>1, <1>2, <2>3 DEF StartPurge, OrderInv
    <2>4. CASE PurgeOne(t)
        <3>1. /\ L # <<>> /\ L' = Front(L) /\ calls' = calls /\ pc[t] # "idle"
              /\ \A u \in Threads : pc'[u] # "idle" => pc[u] # "idle"
            BY <1>2, <2>4 DEF PurgeOne
        <3>2. /\ Len(L) \in Nat \ {0} /\ Len(L') = Len(L) - 1
              /\ \A i \in 1..Len(L') : L'[i] = L[i]
            BY <1>1, <3>1, FrontProperties
        <3>3. \A i \in 1..Len(L') : i \in 1..Len(L)
            BY <3>2
        <3>4. ASSUME NEW i \in 1..Len(L'), NEW j \in 1..Len(L'), i < j,
                     L'[i].thr = L'[j].thr
              PROVE  L'[i].num < L'[j].num
            BY <3>2, <3>3, <3>4 DEF OrderInv
        <3>5. ASSUME NEW i \in 1..Len(L')
              PROVE  /\ L'[i].num <= calls'[L'[i].thr]
                     /\ pc'[L'[i].thr] # "idle" => L'[i].num < calls'[L'[i].thr]
            BY <1>1, <3>1, <3>2, <3>3 DEF OrderInv
        <3> QED
            BY <3>4, <3>5 DEF OrderInv
    <2> QED
        BY <1>4, <2>1, <2>2, <2>3, <2>4 DEF AddLogEntry
<1>5. CASE CopyOne
    <2>1. L # <<>> /\ L' = Tail(L) /\ calls' = calls /\ pc' = pc
        BY <1>5 DEF CopyOne, IInv, LoopHasEntry
    <2>2. /\ Len(L) \in Nat \ {0} /\ Len(L') = Len(L) - 1
          /\ \A i \in 1..Len(L') : L'[i] = L[i + 1]
        BY <1>1, <2>1, EmptySeq, HeadTailProperties
    <2>3. \A i \in 1..Len(L') : i + 1 \in 1..Len(L)
        BY <2>2
    <2>4. ASSUME NEW i \in 1..Len(L'), NEW j \in 1..Len(L'), i < j,
                 L'[i].thr = L'[j].thr
          PROVE  L'[i].num < L'[j].num
        <3>1. i + 1 < j + 1 /\ i + 1 \in 1..Len(L) /\ j + 1 \in 1..Len(L)
            BY <2>2, <2>3, <2>4
        <3> QED
            BY <2>2, <2>4, <3>1 DEF OrderInv
    <2>5. ASSUME NEW i \in 1..Len(L')
          PROVE  /\ L'[i].num <= calls'[L'[i].thr]
                 /\ pc'[L'[i].thr] # "idle" => L'[i].num < calls'[L'[i].thr]
        BY <2>1, <2>2, <2>3 DEF OrderInv
    <2> QED
        BY <2>4, <2>5 DEF OrderInv
<1>6. CASE ReadBeforeInit \/ ReadEmpty \/ ReadBadBuffer \/ StartRead \/ PutBack
    BY <1>3, <1>6 DEF ReadBeforeInit, ReadEmpty, ReadBadBuffer, StartRead,
                    PutBack
<1>7. CASE Initialized \/ UNCHANGED vars
    BY <1>3, <1>7 DEF Initialized
<1> QED
    BY <1>4, <1>5, <1>6, <1>7 DEF Next, ReadLogEntry

\* In every state each thread's entries are on the list in the order of its
\* calls, and behind them the one it is about to link.
THEOREM OrderKept == Spec => []OrderInv
<1>1. Init => OrderInv
    <2>1. Len(<<>>) = 0
        OBVIOUS
    <2> QED
        BY <2>1 DEF Init, OrderInv
<1>2. IInv /\ OrderInv /\ [Next]_vars => OrderInv'
    BY OrderPreserved
<1> QED
    BY <1>1, <1>2, Invariance, PTL DEF Spec

-----------------------------------------------------------------------------
(* The refinement: every step of the queue is a step of the channel of one *)
(* thread, or none.                                                        *)

\* The channel that the queue is mapped to, on the names of LogQueue.
OnTheWays == [t \in Threads |-> OnTheWay(t)]
Delivered == [i \in 1..Len(received) |-> <<received[i].thr, received[i].num>>]
Lost == [t \in Threads |-> {e.num : e \in {d \in discarded : d.thr = t}}]

\* What is on its way changes with the list, the place of a thread in
\* AddLogEntry and its Entry only.
LEMMA ChannelUnchanged ==
    /\ UNCHANGED <<L, pc, entry>> => OnTheWays' = OnTheWays
    /\ UNCHANGED received => Delivered' = Delivered
    /\ UNCHANGED discarded => Lost' = Lost
BY DEF OnTheWays, OnTheWay, NumbersOf, Delivered, Lost

\* The numbers of a list to which one entry is added.
LEMMA NumbersOfAppend ==
    ASSUME NEW s \in Seq(Entries), NEW e \in Entries, NEW t
    PROVE  NumbersOf(t, Append(s, e)) =
              NumbersOf(t, s) \cup (IF e.thr = t THEN {e.num} ELSE {})
<1>1. /\ Len(s) \in Nat /\ Len(Append(s, e)) = Len(s) + 1
      /\ \A i \in 1..Len(s) : Append(s, e)[i] = s[i]
      /\ Append(s, e)[Len(s) + 1] = e
    BY AppendProperties, LenProperties
<1>2. 1..Len(Append(s, e)) = 1..Len(s) \cup {Len(s) + 1}
    BY <1>1
<1> QED
    BY <1>1, <1>2 DEF NumbersOf

\* What the agent got, when it gets one more entry.
LEMMA DeliveredMore ==
    ASSUME received \in Seq(Entries), NEW e \in Entries,
           received' = Append(received, e)
    PROVE  Delivered' = Append(Delivered, <<e.thr, e.num>>)
<1>1. /\ Len(received) \in Nat /\ Len(received') = Len(received) + 1
      /\ \A i \in 1..Len(received) : received'[i] = received[i]
      /\ received'[Len(received) + 1] = e
    BY AppendProperties, LenProperties
<1>2. /\ Delivered \in Seq(Threads \X Nat) /\ Len(Delivered) = Len(received)
      /\ \A i \in 1..Len(received) :
            Delivered[i] = <<received[i].thr, received[i].num>>
    <2>1. \A i \in 1..Len(received) :
            <<received[i].thr, received[i].num>> \in Threads \X Nat
        BY <1>1, ElementOfSeq, EntryFields, LogQueueAssumption
    <2> QED
        BY <1>1, <2>1 DEF Delivered
<1>3. /\ Delivered' \in Seq(Threads \X Nat)
      /\ Len(Delivered') = Len(received) + 1
      /\ \A i \in 1..(Len(received) + 1) :
            Delivered'[i] = <<received'[i].thr, received'[i].num>>
    <2>1. \A i \in 1..Len(received') :
            <<received'[i].thr, received'[i].num>> \in Threads \X Nat
        BY <1>1, ElementOfSeq, EntryFields, LogQueueAssumption
    <2> QED
        BY <1>1, <2>1 DEF Delivered
<1>4. <<e.thr, e.num>> \in Threads \X Nat
    BY EntryFields, LogQueueAssumption
<1> DEFINE more == Append(Delivered, <<e.thr, e.num>>)
<1>5. /\ more \in Seq(Threads \X Nat) /\ Len(more) = Len(received) + 1
      /\ \A i \in 1..Len(received) : more[i] = Delivered[i]
      /\ more[Len(received) + 1] = <<e.thr, e.num>>
    BY <1>2, <1>4, AppendProperties
<1> HIDE DEF more
<1>6. ASSUME NEW i \in 1..Len(Delivered')
      PROVE  Delivered'[i] = more[i]
    <2>1. i \in 1..Len(received) \/ i = Len(received) + 1
        BY <1>1, <1>3
    <2>2. Delivered'[i] = <<received'[i].thr, received'[i].num>>
        BY <1>1, <1>3
    <2>3. CASE i \in 1..Len(received)
        BY <1>1, <1>2, <1>5, <2>2, <2>3
    <2>4. CASE i = Len(received) + 1
        BY <1>1, <1>5, <2>2, <2>4
    <2> QED
        BY <2>1, <2>3, <2>4
<1>7. Delivered' = more
    BY <1>3, <1>5, <1>6, SeqEqual
<1> QED
    BY <1>7 DEF more

\* A history of losses to which one entry is added.
LEMMA LostMore ==
    ASSUME NEW e, discarded' = discarded \cup {e}, e.thr \in Threads
    PROVE  Lost' = [Lost EXCEPT ![e.thr] = @ \cup {e.num}]
<1>1. \A t \in Threads : Lost'[t] =
        IF t = e.thr THEN Lost[t] \cup {e.num} ELSE Lost[t]
    BY DEF Lost
<1> QED
    BY <1>1 DEF Lost

\* A thread that allocates an entry sends it.
LEMMA AllocateSends ==
    ASSUME IInv, NEW t \in Threads, NEW size \in Sizes, Allocate(t, size)
    PROVE  Channel!Send(t)
<1>1. /\ calls[t] < MaxCalls /\ calls' = [calls EXCEPT ![t] = @ + 1]
      /\ L' = L /\ received' = received /\ discarded' = discarded
      /\ pc[t] = "idle" /\ pc'[t] = "acquire" /\ entry'[t].num = calls[t] + 1
      /\ \A u \in Threads : u # t => pc'[u] = pc[u] /\ entry'[u] = entry[u]
    BY DEF Allocate, IInv, TypeOK
<1>2. \A u \in Threads : OnTheWays'[u] =
        IF u = t THEN OnTheWays[u] \cup {calls[t] + 1} ELSE OnTheWays[u]
    BY <1>1 DEF OnTheWays, OnTheWay, NumbersOf
<1>3. OnTheWays' = [OnTheWays EXCEPT ![t] = @ \cup {calls[t] + 1}]
    BY <1>2 DEF OnTheWays
<1>4. Delivered' = Delivered /\ Lost' = Lost
    BY <1>1, ChannelUnchanged
<1> QED
    BY <1>1, <1>3, <1>4 DEF Channel!Send, OnTheWays, Delivered, Lost

\* A thread that cannot allocate an entry loses it.
LEMMA FailedAllocationLoses ==
    ASSUME IInv, NEW t \in Threads, NEW size \in Sizes, AllocateFails(t, size)
    PROVE  Channel!SendLost(t)
<1> DEFINE e == [thr |-> t, num |-> calls[t] + 1, size |-> size]
<1>1. /\ calls[t] < MaxCalls /\ calls' = [calls EXCEPT ![t] = @ + 1]
      /\ L' = L /\ received' = received /\ pc' = pc /\ entry' = entry
      /\ discarded' = discarded \cup {e} /\ e.thr = t /\ e.num = calls[t] + 1
    BY DEF AllocateFails
<1> HIDE DEF e
<1>2. Lost' = [Lost EXCEPT ![t] = @ \cup {calls[t] + 1}]
    BY <1>1, LostMore
<1>3. OnTheWays' = OnTheWays /\ Delivered' = Delivered
    BY <1>1, ChannelUnchanged
<1> QED
    BY <1>1, <1>2, <1>3 DEF Channel!SendLost, OnTheWays, Delivered, Lost

\* Linking an entry changes nothing on the way: it was on its way already.
LEMMA InsertStutters ==
    ASSUME IInv, NEW t \in Threads, pc[t] # "idle", InsertTail(t),
           pc' = [pc EXCEPT ![t] = "idle"],
           entry' = [entry EXCEPT ![t] = NoEntry]
    PROVE  OnTheWays' = OnTheWays
<1>1. entry[t] \in Entries /\ entry[t].thr = t /\ L \in Seq(Entries)
    BY DEF IInv, LocalInv, TypeOK
<1>2. ASSUME NEW u \in Threads
      PROVE  OnTheWay(u)' = OnTheWay(u)
    <2>1. NumbersOf(u, L') =
            NumbersOf(u, L)
              \cup (IF entry[t].thr = u THEN {entry[t].num} ELSE {})
        BY <1>1, NumbersOfAppend DEF InsertTail
    <2>2. pc'[u] = IF u = t THEN "idle" ELSE pc[u]
        BY DEF IInv, TypeOK
    <2>3. u # t => entry'[u] = entry[u]
        OBVIOUS
    <2>4. OnTheWay(u)' = NumbersOf(u, L') \cup
                        (IF pc'[u] = "idle" THEN {} ELSE {entry'[u].num})
        BY DEF OnTheWay, NumbersOf
    <2> QED
        BY <1>1, <2>1, <2>2, <2>3, <2>4 DEF OnTheWay
<1> QED
    BY <1>2 DEF OnTheWays

\* Taking the only entry with its thread and number off the list takes its
\* number off what is on its way, and that of no other.
LEMMA UnlinkTakesOne ==
    ASSUME IInv, OrderInv, NEW k \in 1..Len(L), L' \in Seq(Entries),
           \A i \in 1..Len(L') : \E j \in 1..Len(L) : j # k /\ L'[i] = L[j],
           \A j \in 1..Len(L) : j # k => \E i \in 1..Len(L') : L'[i] = L[j],
           \A u \in Threads : (pc'[u] = "idle") <=> (pc[u] = "idle"),
           entry' = entry
    PROVE  /\ L[k].thr \in Threads
           /\ L[k].num \in OnTheWays[L[k].thr]
           /\ OnTheWays' = [OnTheWays EXCEPT ![L[k].thr] = @ \ {L[k].num}]
<1>1. /\ L \in Seq(Entries) /\ Len(L) \in Nat
      /\ \A i \in 1..Len(L) : L[i].num \in Nat /\ L[i].thr \in Threads
    <2>1. L \in Seq(Entries) /\ Len(L) \in Nat
        BY LenProperties DEF IInv, TypeOK
    <2>2. \A i \in 1..Len(L) : L[i] \in Entries
        BY <2>1, ElementOfSeq
    <2> QED
        BY <2>1, <2>2, EntryFields, LogQueueAssumption
<1>2. \A j \in 1..Len(L) : j # k /\ L[j].thr = L[k].thr => L[j].num # L[k].num
    <2>1. ASSUME NEW j \in 1..Len(L), j # k, L[j].thr = L[k].thr
          PROVE  L[j].num # L[k].num
        <3>1. j < k \/ k < j
            BY <1>1, <2>1
        <3>2. L[j].num < L[k].num \/ L[k].num < L[j].num
            BY <2>1, <3>1 DEF OrderInv
        <3> QED
            BY <1>1, <3>2
    <2> QED
        BY <2>1
<1>3. pc[L[k].thr] # "idle" => entry[L[k].thr].num # L[k].num
    <2>1. pc[L[k].thr] # "idle" =>
            entry[L[k].thr].num = calls[L[k].thr] /\ L[k].num < calls[L[k].thr]
        BY <1>1 DEF OrderInv, IInv, LocalInv
    <2> QED
        BY <1>1, <2>1
<1>4. ASSUME NEW u \in Threads
      PROVE  NumbersOf(u, L') =
                NumbersOf(u, L) \ (IF u = L[k].thr THEN {L[k].num} ELSE {})
    <2>1. ASSUME NEW n \in NumbersOf(u, L')
          PROVE  n \in NumbersOf(u, L) /\ (u = L[k].thr => n # L[k].num)
        <3>1. PICK i \in 1..Len(L') : L'[i].thr = u /\ L'[i].num = n
            BY <2>1 DEF NumbersOf
        <3>2. PICK j \in 1..Len(L) : j # k /\ L'[i] = L[j]
            BY <3>1
        <3> QED
            BY <3>1, <3>2, <1>2 DEF NumbersOf
    <2>2. ASSUME NEW n \in NumbersOf(u, L), u = L[k].thr => n # L[k].num
          PROVE  n \in NumbersOf(u, L')
        <3>1. PICK j \in 1..Len(L) : L[j].thr = u /\ L[j].num = n
            BY <2>2 DEF NumbersOf
        <3>2. j # k
            BY <2>2, <3>1
        <3>3. PICK i \in 1..Len(L') : L'[i] = L[j]
            BY <3>2
        <3> QED
            BY <3>1, <3>3 DEF NumbersOf
    <2> QED
        BY <2>1, <2>2
<1>5. L[k].num \in NumbersOf(L[k].thr, L)
    BY DEF NumbersOf
<1>6. ASSUME NEW u \in Threads
      PROVE  OnTheWay(u)' =
                OnTheWay(u) \ (IF u = L[k].thr THEN {L[k].num} ELSE {})
    <2>1. OnTheWay(u)' = NumbersOf(u, L') \cup
                        (IF pc'[u] = "idle" THEN {} ELSE {entry'[u].num})
        BY DEF OnTheWay, NumbersOf
    <2> QED
        BY <1>3, <1>4, <2>1 DEF OnTheWay
<1>7. \A u \in Threads : OnTheWays'[u] =
            IF u = L[k].thr THEN OnTheWays[u] \ {L[k].num} ELSE OnTheWays[u]
    <2>1. ASSUME NEW u \in Threads
          PROVE  OnTheWays[u] = OnTheWay(u) /\ OnTheWays'[u] = OnTheWay(u)'
        BY DEF OnTheWays
    <2>2. ASSUME NEW u \in Threads
          PROVE  OnTheWays'[u] = IF u = L[k].thr THEN OnTheWays[u] \ {L[k].num}
                                 ELSE OnTheWays[u]
        <3>1. CASE u = L[k].thr
            BY <1>6, <2>1, <3>1
        <3>2. CASE u # L[k].thr
            <4>1. OnTheWay(u)' = OnTheWay(u) \ {}
                BY <1>6, <3>2
            <4>2. OnTheWay(u) \ {} = OnTheWay(u)
                OBVIOUS
            <4> QED
                BY <2>1, <3>2, <4>1, <4>2
        <3> QED
            BY <3>1, <3>2
    <2> QED
        BY <2>2
<1>8. OnTheWays' = [OnTheWays EXCEPT ![L[k].thr] = @ \ {L[k].num}]
    BY <1>7 DEF OnTheWays
<1> QED
    BY <1>1, <1>5, <1>8 DEF OnTheWays, OnTheWay

\* A purge loses entries of some threads, one at a time.
LEMMA PurgeLoses ==
    ASSUME IInv, OrderInv, NEW t \in Threads, PurgeOne(t)
    PROVE  \E u \in Threads : Channel!Lose(u)
<1> DEFINE k == Len(L)
<1>1. /\ L # <<>> /\ L \in Seq(Entries) /\ L' = Front(L) /\ entry' = entry
      /\ calls' = calls /\ received' = received
      /\ discarded' = discarded \cup {L[k]}
      /\ \A u \in Threads : (pc'[u] = "idle") <=> (pc[u] = "idle")
    BY DEF PurgeOne, Last, IInv, TypeOK
<1>2. /\ k \in Nat \ {0} /\ Len(L') = k - 1 /\ L' \in Seq(Entries)
      /\ \A i \in 1..(k - 1) : L'[i] = L[i]
    BY <1>1, FrontProperties
<1>3. k \in 1..Len(L) /\ \A j \in 1..Len(L) : j # k => j \in 1..Len(L')
    BY <1>2
<1>4. \A i \in 1..Len(L') : i \in 1..Len(L) /\ i # k /\ i \in 1..(k - 1)
    BY <1>2
<1> DEFINE u == L[k].thr
           n == L[k].num
<1> HIDE DEF k
<1>5. \A i \in 1..Len(L') : \E j \in 1..Len(L) : j # k /\ L'[i] = L[j]
    BY <1>2, <1>4
<1>6. \A j \in 1..Len(L) : j # k => \E i \in 1..Len(L') : L'[i] = L[j]
    BY <1>2, <1>3, <1>4
<1>7. u \in Threads /\ n \in OnTheWays[u]
      /\ OnTheWays' = [OnTheWays EXCEPT ![u] = @ \ {n}]
    BY <1>1, <1>2, <1>3, <1>5, <1>6, UnlinkTakesOne
<1>8. Lost' = [Lost EXCEPT ![u] = @ \cup {n}]
    BY <1>1, <1>7, LostMore
<1>9. Delivered' = Delivered
    BY <1>1, ChannelUnchanged
<1> HIDE DEF u, n
<1> QED
    BY <1>1, <1>7, <1>8, <1>9 DEF Channel!Lose, OnTheWays, Delivered, Lost

\* The copy loop delivers the oldest entry of some thread.
LEMMA CopyDelivers ==
    ASSUME IInv, OrderInv, CopyOne
    PROVE  \E u \in Threads : Channel!Deliver(u)
<1>1. /\ L # <<>> /\ L \in Seq(Entries) /\ L' = Tail(L) /\ entry' = entry
      /\ calls' = calls /\ pc' = pc /\ discarded' = discarded
      /\ received \in Seq(Entries) /\ received' = Append(received, Head(L))
    BY DEF CopyOne, IInv, LoopHasEntry, TypeOK
<1>2. /\ Len(L) \in Nat \ {0} /\ Len(L') = Len(L) - 1 /\ L' \in Seq(Entries)
      /\ \A i \in 1..Len(L') : L'[i] = L[i + 1]
      /\ Head(L) = L[1] /\ L[1] \in Entries
    BY <1>1, EmptySeq, HeadTailProperties
<1>3. \A i \in 1..Len(L') : i + 1 \in 1..Len(L) /\ i + 1 # 1
    BY <1>2
<1>4. \A j \in 1..Len(L) : j # 1 => j - 1 \in 1..Len(L') /\ (j - 1) + 1 = j
    BY <1>2
<1>5. \A i \in 1..Len(L') : \E j \in 1..Len(L) : j # 1 /\ L'[i] = L[j]
    BY <1>2, <1>3
<1>6. \A j \in 1..Len(L) : j # 1 => \E i \in 1..Len(L') : L'[i] = L[j]
    <2>1. ASSUME NEW j \in 1..Len(L), j # 1
          PROVE  L'[j - 1] = L[j] /\ j - 1 \in 1..Len(L')
        BY <1>2, <1>4, <2>1
    <2> QED
        BY <2>1
<1> DEFINE u == L[1].thr
           n == L[1].num
<1>7. u \in Threads /\ n \in OnTheWays[u]
      /\ OnTheWays' = [OnTheWays EXCEPT ![u] = @ \ {n}]
    <2>1. 1 \in 1..Len(L) /\ L' \in Seq(Entries)
        BY <1>2
    <2>2. \A v \in Threads : (pc'[v] = "idle") <=> (pc[v] = "idle")
        BY <1>1
    <2> HIDE DEF u, n
    <2>3. /\ L[1].thr \in Threads /\ L[1].num \in OnTheWays[L[1].thr]
          /\ OnTheWays' = [OnTheWays EXCEPT ![L[1].thr] = @ \ {L[1].num}]
        BY <1>1, <1>5, <1>6, <2>1, <2>2, UnlinkTakesOne
    <2> QED
        BY <2>3 DEF u, n
<1>8. Delivered' = Append(Delivered, <<u, n>>)
    BY <1>1, <1>2, DeliveredMore
<1>9. \A m \in OnTheWays[u] : n <= m
    <2>1. ASSUME NEW m \in OnTheWays[u]
          PROVE  n <= m
        <3>1. OnTheWays[u] = NumbersOf(u, L) \cup
                (IF pc[u] = "idle" THEN {} ELSE {entry[u].num})
            BY <1>7 DEF OnTheWays, OnTheWay
        <3>2. n \in Nat
            BY <1>2, EntryFields, LogQueueAssumption
        <3>3. CASE m \in NumbersOf(u, L)
            <4>1. PICK j \in 1..Len(L) : L[j].thr = u /\ L[j].num = m
                BY <3>3 DEF NumbersOf
            <4>2. CASE j = 1
                BY <3>2, <4>1, <4>2
            <4>3. CASE j # 1
                <5>1. 1 \in 1..Len(L) /\ 1 < j
                    BY <1>2, <4>3
                <5>2. n < m
                    BY <4>1, <5>1 DEF OrderInv
                <5>3. m \in Nat
                    BY <1>1, <4>1, ElementOfSeq, EntryFields, LogQueueAssumption
                <5> QED
                    BY <3>2, <5>2, <5>3
            <4> QED
                BY <4>2, <4>3
        <3>4. CASE pc[u] # "idle" /\ m = entry[u].num
            <4>1. 1 \in 1..Len(L)
                BY <1>2
            <4>2. m = calls[u] /\ n < calls[u] /\ calls[u] \in Nat
                BY <1>7, <3>4, <4>1, LogQueueAssumption
                    DEF OrderInv, IInv, LocalInv, TypeOK
            <4> QED
                BY <3>2, <4>2
        <3> QED
            BY <2>1, <3>1, <3>3, <3>4
    <2> QED
        BY <2>1
<1>10. Lost' = Lost
    BY <1>1, ChannelUnchanged
<1> HIDE DEF u, n
<1> QED
    BY <1>1, <1>7, <1>8, <1>9, <1>10
        DEF Channel!Deliver, OnTheWays, Delivered, Lost

\* Every step of the queue is a step of the channel or leaves it as it is.
LEMMA StepRefines ==
    ASSUME IInv, OrderInv, [Next]_vars
    PROVE  [Channel!Next]_(Channel!vars)
<1>1. ASSUME UNCHANGED <<calls, L, pc, entry, received, discarded>>
      PROVE  UNCHANGED Channel!vars
    BY <1>1, ChannelUnchanged DEF Channel!vars, OnTheWays, Delivered, Lost
<1>2. ASSUME NEW t \in Threads, AddLogEntry(t)
      PROVE  [Channel!Next]_(Channel!vars)
    <2>1. ASSUME NEW size \in Sizes, Allocate(t, size) \/ AllocateFails(t, size)
          PROVE  Channel!Next
        BY <2>1, AllocateSends, FailedAllocationLoses DEF Channel!Next
    <2>2. CASE InsertBelowLimit(t) \/ InsertAfterPurge(t)
        <3>1. /\ calls' = calls /\ received' = received
              /\ discarded' = discarded
              /\ pc[t] # "idle" /\ InsertTail(t)
              /\ pc' = [pc EXCEPT ![t] = "idle"]
              /\ entry' = [entry EXCEPT ![t] = NoEntry]
            BY <2>2 DEF InsertBelowLimit, InsertAfterPurge
        <3>2. OnTheWays' = OnTheWays /\ Delivered' = Delivered /\ Lost' = Lost
            BY <3>1, InsertStutters, ChannelUnchanged
        <3> QED
            BY <3>1, <3>2 DEF Channel!vars, OnTheWays, Delivered, Lost
    <2>3. CASE StartPurge(t)
        <3>1. /\ UNCHANGED <<calls, L, entry, received, discarded>>
              /\ \A u \in Threads : (pc'[u] = "idle") <=> (pc[u] = "idle")
            BY <2>3 DEF StartPurge, IInv, TypeOK
        <3>2. OnTheWays' = OnTheWays
            BY <3>1 DEF OnTheWays, OnTheWay, NumbersOf
        <3>3. Delivered' = Delivered /\ Lost' = Lost
            BY <3>1, ChannelUnchanged
        <3> QED
            BY <3>1, <3>2, <3>3 DEF Channel!vars, OnTheWays, Delivered, Lost
    <2>4. CASE PurgeOne(t)
        BY <2>4, PurgeLoses DEF Channel!Next
    <2> QED
        BY <1>2, <2>1, <2>2, <2>3, <2>4 DEF AddLogEntry
<1>3. CASE CopyOne
    BY <1>3, CopyDelivers DEF Channel!Next
<1>4. CASE ReadBeforeInit \/ ReadEmpty \/ ReadBadBuffer \/ StartRead \/ PutBack
    BY <1>1, <1>4 DEF ReadBeforeInit, ReadEmpty, ReadBadBuffer, StartRead,
                    PutBack
<1>5. CASE Initialized \/ UNCHANGED vars
    BY <1>1, <1>5 DEF Initialized
<1> QED
    BY <1>2, <1>3, <1>4, <1>5 DEF Next, ReadLogEntry

\* The queue with its lock, counter, purges and put-backs is, for each thread,
\* a first-in first-out channel that may lose entries.
THEOREM Refinement == Spec => ImplementsChannel
<1>1. Init => Channel!Init
    <2>1. Len(<<>>) = 0
        OBVIOUS
    <2> QED
        BY <2>1 DEF Init, Channel!Init, OnTheWay, NumbersOf
<1>2. IInv /\ OrderInv /\ [Next]_vars => [Channel!Next]_(Channel!vars)
    BY StepRefines
<1> QED
    BY <1>1, <1>2, Invariance, OrderKept, PTL
        DEF Spec, ImplementsChannel, Channel!Spec

=============================================================================
