------------------------ MODULE EventPipelineProofs ------------------------
(***************************************************************************)
(* Proofs of the safety properties of EventPipeline for every number of    *)
(* workers and every stream of entries.                                    *)
(***************************************************************************)
EXTENDS EventPipeline, FiniteSetTheorems, SequenceTheorems, TLAPS

-----------------------------------------------------------------------------
(* Parts of sequences.                                                     *)

\* What SubSeq returns for a part of a sequence.
LEMMA PartProperties ==
    ASSUME NEW S, NEW s \in Seq(S),
           NEW m \in 1..(Len(s) + 1), NEW n \in (m - 1)..Len(s)
    PROVE  /\ SubSeq(s, m, n) \in Seq(S)
           /\ Len(SubSeq(s, m, n)) = n - m + 1
           /\ \A i \in 1..(n - m + 1) : SubSeq(s, m, n)[i] = s[m + i - 1]
<1>1. m \in Int /\ n \in Int /\ Len(s) \in Nat
    BY LenProperties
<1>2. \A i \in m..n : s[i] \in S
    BY <1>1, ElementOfSeq
<1> DEFINE t == SubSeq(s, m, n)
<1>3. /\ t \in Seq(S)
      /\ Len(t) = IF m <= n THEN n - m + 1 ELSE 0
      /\ \A i \in 1..(n - m + 1) : t[i] = s[m + i - 1]
    BY ONLY <1>1, <1>2, SubSeqProperties
<1> HIDE DEF t
<1>4. Len(t) = n - m + 1
    BY <1>1, <1>3
<1> QED
    BY <1>3, <1>4 DEF t

\* The elements of a sequence are those at its indexes.
LEMMA RangeMember ==
    ASSUME NEW S, NEW s \in Seq(S), NEW e
    PROVE  e \in Range(s) <=> \E i \in 1..Len(s) : s[i] = e
BY LenProperties DEF Range

\* A part has elements of the whole.
LEMMA PartRange ==
    ASSUME NEW S, NEW s \in Seq(S),
           NEW m \in 1..(Len(s) + 1), NEW n \in (m - 1)..Len(s)
    PROVE  Range(SubSeq(s, m, n)) \subseteq Range(s)
<1> DEFINE t == SubSeq(s, m, n)
<1>1. /\ t \in Seq(S)
      /\ Len(t) = n - m + 1
      /\ \A i \in 1..(n - m + 1) : t[i] = s[m + i - 1]
    BY PartProperties
<1>2. Len(s) \in Nat
    BY LenProperties
<1> HIDE DEF t
<1>3. ASSUME NEW e \in Range(t)
      PROVE  e \in Range(s)
    <2>1. PICK i \in 1..Len(t) : t[i] = e
        BY <1>1, RangeMember
    <2>2. m + i - 1 \in 1..Len(s) /\ s[m + i - 1] = e
        BY <1>1, <1>2, <2>1
    <2> QED
        BY <2>2, RangeMember
<1> QED
    BY <1>3 DEF t

\* A sequence cut in two has the elements of both parts.
LEMMA CutRange ==
    ASSUME NEW S, NEW s \in Seq(S), NEW n \in 1..Len(s)
    PROVE  Range(s) = Range(SubSeq(s, 1, n))
                        \cup Range(SubSeq(s, n + 1, Len(s)))
<1> DEFINE t == SubSeq(s, 1, n)
           u == SubSeq(s, n + 1, Len(s))
<1>1. Len(s) \in Nat /\ n \in Nat
    BY LenProperties
<1>2. Range(t) \subseteq Range(s) /\ Range(u) \subseteq Range(s)
    BY <1>1, PartRange
<1>3. /\ t \in Seq(S) /\ Len(t) = n
      /\ \A i \in 1..n : t[i] = s[i]
    <2>1. 1 \in 1..(Len(s) + 1) /\ n \in (1 - 1)..Len(s)
        BY <1>1
    <2>2. /\ t \in Seq(S)
          /\ Len(t) = n - 1 + 1
          /\ \A i \in 1..(n - 1 + 1) : t[i] = s[1 + i - 1]
        BY <2>1, PartProperties
    <2> HIDE DEF t
    <2> QED
        BY <1>1, <2>2
<1>4. /\ u \in Seq(S) /\ Len(u) = Len(s) - n
      /\ \A i \in 1..(Len(s) - n) : u[i] = s[n + i]
    <2>1. n + 1 \in 1..(Len(s) + 1) /\ Len(s) \in ((n + 1) - 1)..Len(s)
        BY <1>1
    <2>2. /\ u \in Seq(S)
          /\ Len(u) = Len(s) - (n + 1) + 1
          /\ \A i \in 1..(Len(s) - (n + 1) + 1) : u[i] = s[(n + 1) + i - 1]
        BY <2>1, PartProperties
    <2> HIDE DEF u
    <2> QED
        BY <1>1, <2>2
<1> HIDE DEF t, u
<1>5. ASSUME NEW e \in Range(s)
      PROVE  e \in Range(t) \cup Range(u)
    <2>1. PICK i \in 1..Len(s) : s[i] = e
        BY RangeMember
    <2>2. CASE i <= n
        <3>1. i \in 1..Len(t) /\ t[i] = e
            BY <1>1, <1>3, <2>1, <2>2
        <3> QED
            BY <3>1, <1>3, RangeMember
    <2>3. CASE i > n
        <3>1. i - n \in 1..Len(u) /\ u[i - n] = e
            BY <1>1, <1>4, <2>1, <2>3
        <3> QED
            BY <3>1, <1>4, RangeMember
    <2> QED
        BY <1>1, <2>2, <2>3
<1> QED
    BY <1>2, <1>5 DEF t, u

\* In a part of a sequence ends still come last.
LEMMA PartEndsLast ==
    ASSUME NEW s \in Seq(Entries), EndsLast(s),
           NEW m \in 1..(Len(s) + 1), NEW n \in (m - 1)..Len(s)
    PROVE  EndsLast(SubSeq(s, m, n))
<1> DEFINE t == SubSeq(s, m, n)
<1>1. /\ Len(t) = n - m + 1
      /\ \A i \in 1..(n - m + 1) : t[i] = s[m + i - 1]
    BY PartProperties
<1>2. Len(s) \in Nat
    BY LenProperties
<1> HIDE DEF t
<1>3. ASSUME NEW i \in 1..Len(t), NEW j \in 1..Len(t), i < j,
             t[i].id = t[j].id, t[i].field = EVENT_END
      PROVE  t[j].field = EVENT_END
    <2>1. /\ m + i - 1 \in 1..Len(s) /\ m + j - 1 \in 1..Len(s)
          /\ m + i - 1 < m + j - 1
          /\ t[i] = s[m + i - 1] /\ t[j] = s[m + j - 1]
        BY <1>1, <1>2, <1>3
    <2> QED
        BY <2>1, <1>3 DEF EndsLast
<1>4. EndsLast(t)
    BY <1>3 DEF EndsLast
<1> QED
    BY <1>4 DEF t

\* The EVENT_ENDs of a sequence can be counted.
LEMMA EndsFinite ==
    ASSUME NEW s \in Seq(Entries), NEW i
    PROVE  /\ IsFiniteSet(EndsAt(s, i))
           /\ EndsIn(s, i) \in Nat
<1>1. Len(s) \in Nat
    BY LenProperties
<1>2. IsFiniteSet(1..Len(s))
    BY <1>1, FS_Interval
<1>3. EndsAt(s, i) \in SUBSET (1..Len(s))
    BY DEF EndsAt
<1> QED
    BY <1>2, <1>3, FS_Subset, FS_CardinalityType DEF EndsIn

\* A sequence cut in two has the EVENT_ENDs of both parts.
LEMMA CutEnds ==
    ASSUME NEW s \in Seq(Entries), NEW n \in 1..Len(s), NEW i
    PROVE  EndsIn(s, i) = EndsIn(SubSeq(s, 1, n), i)
                            + EndsIn(SubSeq(s, n + 1, Len(s)), i)
<1> DEFINE t == SubSeq(s, 1, n)
           u == SubSeq(s, n + 1, Len(s))
           A == EndsAt(t, i)
           B == EndsAt(u, i)
           C == {k \in EndsAt(s, i) : k > n}
<1>1. Len(s) \in Nat /\ n \in Nat
    BY LenProperties
<1>2. /\ t \in Seq(Entries) /\ Len(t) = n
      /\ \A k \in 1..n : t[k] = s[k]
    <2>1. 1 \in 1..(Len(s) + 1) /\ n \in (1 - 1)..Len(s)
        BY <1>1
    <2>2. /\ t \in Seq(Entries) /\ Len(t) = n - 1 + 1
          /\ \A k \in 1..(n - 1 + 1) : t[k] = s[1 + k - 1]
        BY <2>1, PartProperties
    <2> HIDE DEF t
    <2> QED
        BY <1>1, <2>2
<1>3. /\ u \in Seq(Entries) /\ Len(u) = Len(s) - n
      /\ \A k \in 1..(Len(s) - n) : u[k] = s[n + k]
    <2>1. n + 1 \in 1..(Len(s) + 1) /\ Len(s) \in ((n + 1) - 1)..Len(s)
        BY <1>1
    <2>2. /\ u \in Seq(Entries) /\ Len(u) = Len(s) - (n + 1) + 1
          /\ \A k \in 1..(Len(s) - (n + 1) + 1) : u[k] = s[(n + 1) + k - 1]
        BY <2>1, PartProperties
    <2> HIDE DEF u
    <2> QED
        BY <1>1, <2>2
<1>4. IsFiniteSet(A) /\ IsFiniteSet(B) /\ IsFiniteSet(EndsAt(s, i))
    BY <1>2, <1>3, EndsFinite
<1> HIDE DEF t, u
<1>5. EndsAt(s, i) = A \cup C /\ A \cap C = {}
    BY <1>1, <1>2 DEF EndsAt
<1>6. IsFiniteSet(C)
    BY <1>4, FS_Subset
<1>7. Cardinality(B) = Cardinality(C)
    <2> DEFINE f == [k \in B |-> n + k]
    <2>1. \A k \in B : k \in Nat /\ f[k] \in C
        BY <1>1, <1>3 DEF EndsAt
    <2>2. \A c \in C : c \in Nat /\ c - n \in B /\ f[c - n] = c
        BY <1>1, <1>3 DEF EndsAt
    <2>3. f \in [B -> C] /\ DOMAIN f = B
        BY <2>1
    <2>4. \A k, l \in B : f[k] = f[l] => k = l
        BY <1>1, <2>1
    <2> HIDE DEF f, B, C
    <2>5. f \in Bijection(B, C)
        BY <2>2, <2>3, <2>4
            DEF Bijection, Injection, Surjection, IsInjective
    <2>6. ExistsBijection(B, C)
        BY <2>5 DEF ExistsBijection
    <2> QED
        BY <1>4, <2>6, FS_Bijection
<1>8. Cardinality(EndsAt(s, i)) = Cardinality(A) + Cardinality(C) - 0
    BY <1>4, <1>5, <1>6, FS_Union, FS_EmptySet
<1>9. Cardinality(A) \in Nat /\ Cardinality(C) \in Nat
    BY <1>4, <1>6, FS_CardinalityType
<1> QED
    BY <1>7, <1>8, <1>9 DEF EndsIn, t, u

-----------------------------------------------------------------------------
(* The types.                                                              *)

\* The first buffer and the one after a buffer that is not the last.
LEMMA BufferIndexes ==
    /\ worker_count \in Nat /\ worker_count > 1
    /\ 0 \in Buffers
    /\ \A b \in Buffers : b \in Nat /\ b < worker_count
    /\ \A b \in Buffers : b < worker_count - 1 => b + 1 \in Buffers
BY EventPipelineAssumption DEF Buffers

\* The entry a worker is at.
LEMMA CurrentEntry ==
    ASSUME TypeOK, Sizes, NEW w \in Buffers, HasEntry(w)
    PROVE  /\ ~Idle(w)
           /\ work[w].buf \in Buffers
           /\ work[w].size = Len(data[work[w].buf])
           /\ data[work[w].buf] \in Seq(Entries)
           /\ bytesdone[w] + 1 \in 1..Len(data[work[w].buf])
           /\ Current(w) \in Entries
<1>1. work[w] \in WorkItems /\ bytesdone[w] \in Nat
    BY DEF TypeOK
<1>2. work[w].buf \in Buffers /\ work[w].size \in Nat
    BY <1>1 DEF WorkItems
<1>3. bytesdone[w] < work[w].size
    BY DEF HasEntry
<1>4. ~Idle(w)
    <2>1. NoWork.size = 0
        BY DEF NoWork
    <2> QED
        BY <1>1, <1>2, <1>3, <2>1 DEF Idle
<1>5. work[w].size = Len(data[work[w].buf])
    BY <1>4 DEF Sizes, Fills
<1>6. data[work[w].buf] \in Seq(Entries)
    BY <1>2 DEF TypeOK
<1>7. bytesdone[w] + 1 \in 1..Len(data[work[w].buf])
    BY <1>1, <1>2, <1>3, <1>5
<1>8. Current(w) \in Entries
    BY <1>6, <1>7, ElementOfSeq DEF Current
<1> QED
    BY <1>2, <1>4, <1>5, <1>6, <1>7, <1>8

\* The two halves of a read.
LEMMA ReadHalves ==
    ASSUME stream \in Seq(Entries), NEW n \in 1..Len(stream)
    PROVE  /\ n \in Nat /\ n > 0
           /\ SubSeq(stream, 1, n) \in Seq(Entries)
           /\ Len(SubSeq(stream, 1, n)) = n
           /\ SubSeq(stream, n + 1, Len(stream)) \in Seq(Entries)
<1>1. Len(stream) \in Nat /\ n \in Nat /\ n > 0
    BY LenProperties
<1>2. /\ 1 \in 1..(Len(stream) + 1) /\ n \in (1 - 1)..Len(stream)
      /\ n + 1 \in 1..(Len(stream) + 1)
      /\ Len(stream) \in ((n + 1) - 1)..Len(stream)
    BY <1>1
<1>3. SubSeq(stream, 1, n) \in Seq(Entries)
      /\ Len(SubSeq(stream, 1, n)) = n - 1 + 1
    BY <1>2, PartProperties
<1>4. SubSeq(stream, n + 1, Len(stream)) \in Seq(Entries)
    BY <1>2, PartProperties
<1> QED
    BY <1>1, <1>3, <1>4

\* The workers at work are counted by a natural number.
AtWork == {w \in Buffers : ~Idle(w)}

LEMMA AtWorkFinite ==
    IsFiniteSet(AtWork) /\ Cardinality(AtWork) \in Nat
<1>1. IsFiniteSet(Buffers)
    BY BufferIndexes, FS_Interval DEF Buffers
<1>2. AtWork \in SUBSET Buffers
    BY DEF AtWork
<1> QED
    BY <1>1, <1>2, FS_Subset, FS_CardinalityType

\* The items in the channel.
LEMMA QueuedItems ==
    ASSUME TypeOK, NEW k \in 1..Len(RawDataChannel)
    PROVE  /\ RawDataChannel[k] \in WorkItems
           /\ RawDataChannel[k].buf \in Buffers
           /\ RawDataChannel[k].size \in Nat
<1>1. RawDataChannel[k] \in WorkItems
    BY ElementOfSeq DEF TypeOK
<1> QED
    BY <1>1 DEF WorkItems

\* What is true of every state at the start.
LEMMA InitOK == Init => IInv
<1> SUFFICES ASSUME Init
             PROVE  IInv
    OBVIOUS
<1> USE DEF Init
<1>1. NoWork \in WorkItems
    BY BufferIndexes DEF NoWork, WorkItems
<1>2. input \in Seq(Entries) /\ EndsLast(input)
    BY EventPipelineAssumption
<1>3. TypeOK
    <2>1. <<>> \in Seq(Entries) /\ <<>> \in Seq(WorkItems)
            /\ <<>> \in Seq(Events)
        BY EmptySeq
    <2>2. worker \in Buffers /\ wg \in 0..worker_count
        BY BufferIndexes
    <2> QED
        BY <1>1, <1>2, <2>1, <2>2 DEF TypeOK
<1>4. \A w \in Buffers : Idle(w)
    BY DEF Idle
<1>5. WgBalance
    <2>1. {w \in Buffers : ~Idle(w)} = {}
        BY <1>4
    <2>2. Cardinality({w \in Buffers : ~Idle(w)}) = 0
        BY <2>1, FS_EmptySet
    <2>3. Len(RawDataChannel) = 0 /\ Sent = 0
        BY EmptySeq DEF Sent
    <2> QED
        BY <2>2, <2>3, BufferIndexes DEF WgBalance
<1>6. RefsBelow
    BY <1>4, EmptySeq DEF RefsBelow
<1>7. Sizes
    BY <1>4, EmptySeq DEF Sizes, NoWork
<1>8. AllWhole
    <2>1. Whole(stream)
        BY <1>2 DEF Whole
    <2>2. Range(<<>>) = {}
        BY DEF Range
    <2>3. EndsLast(<<>>)
        BY EmptySeq DEF EndsLast
    <2>4. Whole(<<>>)
        BY <2>2, <2>3 DEF Whole
    <2> QED
        BY <2>1, <2>4 DEF AllWhole
<1>9. Collected
    <2>1. ASSUME NEW w \in Buffers
          PROVE  logbuffer[w] = {e \in Range(SubSeq(data[work[w].buf], 1,
                                        bytesdone[w])) : e.field # EVENT_END}
        <3>1. SubSeq(data[work[w].buf], 1, 0) = <<>>
            BY SubSeqEmpty
        <3>2. Range(<<>>) = {}
            BY DEF Range
        <3> QED
            BY <3>1, <3>2
    <2> QED
        BY <2>1 DEF Collected
<1>10. UnsplitWhole
    BY EmptySeq DEF UnsplitWhole
<1>11. OneHolder
    BY <1>4, EmptySeq DEF OneHolder
<1>12. EndsConserved
    <2> SUFFICES ASSUME NEW i \in Ids
                 PROVE  EndsIn(input, i) = EndsIn(stream, i)
                            + Cardinality(PendingEnds(i)) + WrittenFor(i)
        BY DEF EndsConserved
    <2>1. PendingEnds(i) = {}
        BY <1>4, EmptySeq DEF PendingEnds, EndsAt
    <2>2. WrittenAt(i) = {}
        BY EmptySeq DEF WrittenAt
    <2>3. Cardinality(PendingEnds(i)) = 0 /\ WrittenFor(i) = 0
        BY <2>1, <2>2, FS_EmptySet DEF WrittenFor
    <2>4. EndsIn(input, i) \in Nat
        BY <1>2, EndsFinite
    <2> QED
        BY <2>3, <2>4
<1> QED
    BY <1>3, <1>5, <1>6, <1>7, <1>8, <1>9, <1>10, <1>11, <1>12 DEF IInv

\* A step of the pipeline is one of its actions.
LEMMA Steps ==
    ASSUME [Next]_vars
    PROVE  \/ Read \/ Send \/ StartRound
           \/ \E w \in Buffers : Take(w) \/ Collect(w) \/ Emit(w) \/ Done(w)
           \/ UNCHANGED vars
BY DEF Next, Luna, dataWorker

\* No step leaves the types; the wait group stays in its range by WgBalance.
LEMMA TypeStep ==
    ASSUME IInv, [Next]_vars
    PROVE  TypeOK'
<1> USE DEF IInv
<1>1. CASE Read
    <2> USE <1>1
    <2>1. PICK n \in 1..Len(stream) :
            /\ stream' = SubSeq(stream, n + 1, Len(stream))
            /\ data' = [data EXCEPT ![worker] = SubSeq(stream, 1, n)]
            /\ bytesRead' = n
            /\ split' \subseteq split \cup Ids
        BY DEF Read
    <2>2. /\ n \in Nat
          /\ SubSeq(stream, 1, n) \in Seq(Entries)
          /\ SubSeq(stream, n + 1, Len(stream)) \in Seq(Entries)
        BY ReadHalves DEF TypeOK
    <2>3. data' \in [Buffers -> Seq(Entries)]
        BY <2>1, <2>2 DEF TypeOK
    <2>4. /\ stream' \in Seq(Entries) /\ bytesRead' \in Nat
          /\ split' \subseteq Ids
        BY <2>1, <2>2 DEF TypeOK
    <2> QED
        BY <2>3, <2>4 DEF Read, TypeOK, workerVars
<1>2. CASE Send
    <2> USE <1>2
    <2>1. [buf |-> worker, size |-> bytesRead] \in WorkItems
        BY DEF TypeOK, WorkItems
    <2>2. RawDataChannel' \in Seq(WorkItems)
        BY <2>1, AppendProperties DEF Send, TypeOK
    <2>3. worker' \in Buffers /\ reader' \in {"read", "send", "wait"}
        BY BufferIndexes DEF Send, TypeOK
    <2> QED
        BY <2>2, <2>3 DEF Send, TypeOK, workerVars
<1>3. CASE StartRound
    BY <1>3, BufferIndexes DEF StartRound, AllDone, TypeOK, workerVars
<1>4. ASSUME NEW w \in Buffers, Take(w)
      PROVE  TypeOK'
    <2> USE <1>4
    <2>1. Head(RawDataChannel) \in WorkItems
            /\ Tail(RawDataChannel) \in Seq(WorkItems)
        BY HeadTailProperties DEF Take, TypeOK
    <2>2. work' \in [Buffers -> WorkItems]
            /\ RawDataChannel' \in Seq(WorkItems)
        BY <2>1 DEF Take, TypeOK
    <2>3. bytesdone' \in [Buffers -> Nat]
            /\ logbuffer' \in [Buffers -> SUBSET Entries]
        BY DEF Take, TypeOK
    <2> QED
        BY <2>2, <2>3 DEF Take, TypeOK, readerVars
<1>5. ASSUME NEW w \in Buffers, Collect(w)
      PROVE  TypeOK'
    <2> USE <1>5
    <2>1. Current(w) \in Entries
        BY CurrentEntry DEF Collect
    <2>2. bytesdone' \in [Buffers -> Nat]
        BY DEF Collect, TypeOK
    <2>3. logbuffer' \in [Buffers -> SUBSET Entries]
        BY <2>1 DEF Collect, TypeOK
    <2> QED
        BY <2>2, <2>3 DEF Collect, TypeOK, readerVars
<1>6. ASSUME NEW w \in Buffers, Emit(w)
      PROVE  TypeOK'
    <2> USE <1>6
    <2>1. Current(w).id \in Ids
        BY CurrentEntry DEF Emit, Entries
    <2>2. FieldsCollected(w, Current(w).id) \subseteq FieldNames
        <3>1. \A e \in logbuffer[w] : e \in Entries /\ e.field # EVENT_END
            BY DEF TypeOK, Collected
        <3>2. \A e \in Entries : e.field # EVENT_END => e.field \in FieldNames
            BY DEF Entries
        <3> QED
            BY <3>1, <3>2 DEF FieldsCollected
    <2>3. [id |-> Current(w).id,
           fields |-> FieldsCollected(w, Current(w).id)] \in Events
        BY <2>1, <2>2 DEF Events
    <2>4. written' \in Seq(Events)
        BY <2>3, AppendProperties DEF Emit, TypeOK
    <2>5. bytesdone' \in [Buffers -> Nat]
        BY DEF Emit, TypeOK
    <2> QED
        BY <2>4, <2>5 DEF Emit, TypeOK, readerVars
<1>7. ASSUME NEW w \in Buffers, Done(w)
      PROVE  TypeOK'
    <2> USE <1>7
    <2>1. wg' \in 0..worker_count
        <3>1. w \in AtWork
            BY DEF AtWork, Done
        <3>2. Cardinality(AtWork) \in Nat /\ Cardinality(AtWork) # 0
            BY <3>1, AtWorkFinite, FS_EmptySet
        <3>3. wg >= Cardinality(AtWork)
            <4>1. Len(RawDataChannel) \in Nat
                BY LenProperties DEF TypeOK
            <4>2. worker_count - Sent \in Nat
                BY BufferIndexes DEF TypeOK, Sent
            <4>3. wg = (worker_count - Sent) + Len(RawDataChannel)
                        + Cardinality(AtWork)
                BY DEF WgBalance, AtWork
            <4> QED
                BY <3>2, <4>1, <4>2, <4>3
        <3> QED
            BY <3>2, <3>3, BufferIndexes DEF Done, TypeOK
    <2>2. work' \in [Buffers -> WorkItems]
        <3>1. NoWork \in WorkItems
            BY BufferIndexes DEF NoWork, WorkItems
        <3> QED
            BY <3>1 DEF Done, TypeOK
    <2>3. bytesdone' \in [Buffers -> Nat]
            /\ logbuffer' \in [Buffers -> SUBSET Entries]
        BY DEF Done, TypeOK
    <2> QED
        BY <2>1, <2>2, <2>3 DEF Done, TypeOK, readerVars
<1>8. CASE UNCHANGED vars
    BY <1>8 DEF TypeOK, vars, readerVars, workerVars
<1> QED
    BY <1>1, <1>2, <1>3, <1>4, <1>5, <1>6, <1>7, <1>8, Steps

-----------------------------------------------------------------------------
(* The barrier.                                                            *)

\* The wait group counts what is not finished.
LEMMA BalanceStep ==
    ASSUME IInv, TypeOK', [Next]_vars
    PROVE  WgBalance'
<1> USE DEF IInv
<1>1. /\ Len(RawDataChannel) \in Nat /\ Len(RawDataChannel)' \in Nat
      /\ worker \in Nat /\ worker < worker_count /\ wg \in Nat
      /\ worker_count \in Nat
    BY BufferIndexes, LenProperties DEF TypeOK
<1>2. wg = (worker_count - Sent) + Len(RawDataChannel) + Cardinality(AtWork)
    BY DEF WgBalance, AtWork
<1>3. Cardinality(AtWork) \in Nat
    BY AtWorkFinite
<1> SUFFICES wg' = (worker_count - Sent') + Len(RawDataChannel)'
                    + Cardinality(AtWork')
    BY DEF WgBalance, AtWork
<1>4. UNCHANGED work => AtWork' = AtWork
    BY DEF AtWork, Idle
<1>5. CASE Read
    <2>1. UNCHANGED <<wg, RawDataChannel, work, worker>>
        BY <1>5 DEF Read, workerVars
    <2>2. reader = "read" /\ reader' = "send"
        BY <1>5 DEF Read
    <2> QED
        BY <1>2, <1>4, <2>1, <2>2 DEF Sent
<1>6. CASE Send
    <2>1. UNCHANGED <<wg, work>>
        BY <1>6 DEF Send, workerVars
    <2>2. Len(RawDataChannel)' = Len(RawDataChannel) + 1
        <3>1. [buf |-> worker, size |-> bytesRead] \in WorkItems
            BY DEF TypeOK, WorkItems
        <3> QED
            BY <1>6, <3>1, AppendProperties DEF Send, TypeOK
    <2>3. Sent' = Sent + 1
        <3>1. CASE worker < worker_count - 1
            BY <1>6, <3>1 DEF Send, Sent
        <3>2. CASE ~(worker < worker_count - 1)
            <4>1. Sent = worker /\ Sent' = worker_count
                BY <1>6, <3>2 DEF Send, Sent
            <4> QED
                BY <1>1, <3>2, <4>1
        <3> QED
            BY <3>1, <3>2
    <2>4. Sent \in Nat
        BY <1>1 DEF Sent
    <2> QED
        BY <1>1, <1>2, <1>3, <1>4, <2>1, <2>2, <2>3, <2>4
<1>7. CASE StartRound
    <2>1. /\ UNCHANGED <<work, RawDataChannel>>
          /\ wg = 0 /\ wg' = worker_count
          /\ Sent = worker_count /\ Sent' = 0
        BY <1>1, <1>7 DEF StartRound, AllDone, workerVars, Sent
    <2> QED
        BY <1>1, <1>2, <1>3, <1>4, <2>1
<1>8. ASSUME NEW w \in Buffers, Take(w)
      PROVE  wg' = (worker_count - Sent') + Len(RawDataChannel)'
                    + Cardinality(AtWork')
    <2>1. UNCHANGED <<wg, reader, worker>>
        BY <1>8 DEF Take, readerVars
    <2>2. Len(RawDataChannel)' = Len(RawDataChannel) - 1
            /\ Len(RawDataChannel) > 0
        BY <1>8, HeadTailProperties, EmptySeq DEF Take, TypeOK
    <2>3. Cardinality(AtWork') = Cardinality(AtWork) + 1
        <3>1. AtWork' = AtWork \cup {w}
            <4>1. Head(RawDataChannel).size > 0
                <5>1. 1 \in 1..Len(RawDataChannel)
                    BY <2>2, <1>1
                <5>2. Head(RawDataChannel) = RawDataChannel[1]
                    BY <1>8 DEF Take, TypeOK
                <5> QED
                    BY <5>1, <5>2 DEF Sizes, Fills
            <4>2. Head(RawDataChannel) # NoWork
                BY <4>1 DEF NoWork
            <4>3. \A v \in Buffers :
                    work'[v] = IF v = w THEN Head(RawDataChannel) ELSE work[v]
                BY <1>8 DEF Take, TypeOK
            <4> QED
                BY <4>2, <4>3 DEF AtWork, Idle
        <3>2. w \notin AtWork
            BY <1>8 DEF AtWork, Take
        <3> QED
            BY <3>1, <3>2, AtWorkFinite, FS_AddElement
    <2>4. Sent' = Sent /\ Sent \in Nat
        BY <1>1, <2>1 DEF Sent
    <2> QED
        BY <1>1, <1>2, <1>3, <2>1, <2>2, <2>3, <2>4
<1>9. ASSUME NEW w \in Buffers, Collect(w) \/ Emit(w)
      PROVE  wg' = (worker_count - Sent') + Len(RawDataChannel)'
                    + Cardinality(AtWork')
    <2>1. UNCHANGED <<wg, RawDataChannel, work, worker, reader>>
        BY <1>9 DEF Collect, Emit, readerVars
    <2> QED
        BY <1>2, <1>4, <2>1 DEF Sent
<1>10. ASSUME NEW w \in Buffers, Done(w)
       PROVE  wg' = (worker_count - Sent') + Len(RawDataChannel)'
                    + Cardinality(AtWork')
    <2>1. UNCHANGED <<RawDataChannel, worker, reader>> /\ wg' = wg - 1
        BY <1>10 DEF Done, readerVars
    <2>2. Cardinality(AtWork') = Cardinality(AtWork) - 1
        <3>1. AtWork' = AtWork \ {w}
            <4>1. \A v \in Buffers :
                    work'[v] = IF v = w THEN NoWork ELSE work[v]
                BY <1>10 DEF Done, TypeOK
            <4> QED
                BY <4>1 DEF AtWork, Idle
        <3>2. w \in AtWork
            BY <1>10 DEF AtWork, Done
        <3> QED
            BY <3>1, <3>2, AtWorkFinite, FS_RemoveElement
    <2>3. Sent' = Sent /\ Sent \in Nat
        BY <1>1, <2>1 DEF Sent
    <2> QED
        BY <1>1, <1>2, <1>3, <2>1, <2>2, <2>3
<1>11. CASE UNCHANGED vars
    <2>1. UNCHANGED <<wg, RawDataChannel, work, worker, reader>>
        BY <1>11 DEF vars, readerVars, workerVars
    <2> QED
        BY <1>2, <1>4, <2>1 DEF Sent
<1> QED
    BY <1>5, <1>6, <1>7, <1>8, <1>9, <1>10, <1>11, Steps

\* What is in use stays below the buffer being filled: the reader moves up
\* with each hand-over and starts anew only when nothing is in use.
LEMMA RefsStep ==
    ASSUME IInv, TypeOK', WgBalance', [Next]_vars
    PROVE  RefsBelow'
<1> USE DEF IInv
<1>1. CASE Read
    BY <1>1 DEF Read, RefsBelow, Idle, workerVars
<1>2. CASE Send
    <2> SUFFICES ASSUME reader' # "wait"
                 PROVE  RefsBelow'
        BY DEF RefsBelow
    <2>1. worker' = worker + 1 /\ work' = work /\ reader = "send"
        BY <1>2 DEF Send, workerVars
    <2>2. worker \in Nat
        BY BufferIndexes DEF TypeOK
    <2>3. [buf |-> worker, size |-> bytesRead] \in WorkItems
        BY DEF TypeOK, WorkItems
    <2>4. /\ Len(RawDataChannel) \in Nat
          /\ Len(RawDataChannel)' = Len(RawDataChannel) + 1
          /\ \A k \in 1..Len(RawDataChannel) :
                RawDataChannel'[k] = RawDataChannel[k]
          /\ RawDataChannel'[Len(RawDataChannel) + 1].buf = worker
        BY <1>2, <2>3, AppendProperties, LenProperties DEF Send, TypeOK
    <2>5. \A k \in 1..Len(RawDataChannel) : RawDataChannel[k] \in WorkItems
        BY ElementOfSeq DEF TypeOK
    <2>6. ASSUME NEW k \in 1..Len(RawDataChannel)'
          PROVE  RawDataChannel'[k].buf < worker'
        <3>1. CASE k \in 1..Len(RawDataChannel)
            <4>1. RawDataChannel[k].buf < worker
                    /\ RawDataChannel[k].buf \in Nat
                BY <2>1, <2>5, <3>1, BufferIndexes DEF RefsBelow, WorkItems
            <4> QED
                BY <2>1, <2>2, <2>4, <3>1, <4>1
        <3>2. CASE k = Len(RawDataChannel) + 1
            BY <2>1, <2>2, <2>4, <3>2
        <3> QED
            BY <2>4, <3>1, <3>2
    <2>7. ASSUME NEW w \in Buffers, ~Idle(w)'
          PROVE  work'[w].buf < worker'
        <3>1. work[w].buf < worker
            BY <2>1, <2>7 DEF RefsBelow, Idle
        <3>2. work[w].buf \in Nat
            BY BufferIndexes DEF TypeOK, WorkItems
        <3> QED
            BY <2>1, <2>2, <3>1, <3>2
    <2> QED
        BY <2>6, <2>7 DEF RefsBelow
<1>3. CASE StartRound
    <2>1. UNCHANGED <<work, RawDataChannel>> /\ wg = 0
            /\ Sent = worker_count
        BY <1>3 DEF StartRound, AllDone, workerVars, Sent
    <2>2. /\ Len(RawDataChannel) \in Nat /\ worker_count \in Nat
          /\ wg = (worker_count - Sent) + Len(RawDataChannel)
                    + Cardinality(AtWork)
        BY BufferIndexes, LenProperties DEF TypeOK, WgBalance, AtWork
    <2>3. Len(RawDataChannel) = 0 /\ Cardinality(AtWork) = 0
        BY <2>1, <2>2, AtWorkFinite
    <2>4. \A w \in Buffers : Idle(w)
        BY <2>3, AtWorkFinite, FS_EmptySet DEF AtWork
    <2> QED
        BY <2>1, <2>3, <2>4 DEF RefsBelow, Idle
<1>4. ASSUME NEW w \in Buffers, Take(w)
      PROVE  RefsBelow'
    <2> SUFFICES ASSUME reader' # "wait"
                 PROVE  RefsBelow'
        BY DEF RefsBelow
    <2>1. worker' = worker /\ reader' = reader
        BY <1>4 DEF Take, readerVars
    <2>2. /\ Len(RawDataChannel) \in Nat \ {0}
          /\ Len(RawDataChannel)' = Len(RawDataChannel) - 1
          /\ \A k \in 1..Len(RawDataChannel)' :
                RawDataChannel'[k] = RawDataChannel[k + 1]
        BY <1>4, HeadTailProperties, EmptySeq DEF Take, TypeOK
    <2>3. \A k \in 1..Len(RawDataChannel)' :
                RawDataChannel'[k].buf < worker
        <3>1. \A k \in 1..Len(RawDataChannel)' :
                    k + 1 \in 1..Len(RawDataChannel)
            BY <2>2
        <3> QED
            BY <2>1, <2>2, <3>1 DEF RefsBelow
    <2>4. work' = [work EXCEPT ![w] = RawDataChannel[1]]
        BY <1>4 DEF Take, TypeOK
    <2>5. RawDataChannel[1].buf < worker
        BY <2>1, <2>2 DEF RefsBelow
    <2>6. ASSUME NEW v \in Buffers, ~Idle(v)'
          PROVE  work'[v].buf < worker
        <3>1. CASE v = w
            BY <2>4, <2>5, <3>1 DEF TypeOK
        <3>2. CASE v # w
            BY <2>1, <2>4, <2>6, <3>2 DEF TypeOK, RefsBelow, Idle
        <3> QED
            BY <3>1, <3>2
    <2> QED
        BY <2>1, <2>3, <2>6 DEF RefsBelow
<1>5. ASSUME NEW w \in Buffers, Collect(w) \/ Emit(w)
      PROVE  RefsBelow'
    BY <1>5 DEF Collect, Emit, RefsBelow, Idle, readerVars
<1>6. ASSUME NEW w \in Buffers, Done(w)
      PROVE  RefsBelow'
    <2>1. UNCHANGED <<RawDataChannel, worker, reader>>
            /\ work' = [work EXCEPT ![w] = NoWork]
        BY <1>6 DEF Done, readerVars
    <2>2. \A v \in Buffers : ~Idle(v)' => ~Idle(v) /\ work'[v] = work[v]
        BY <2>1 DEF Idle, TypeOK
    <2> QED
        BY <2>1, <2>2 DEF RefsBelow
<1>7. CASE UNCHANGED vars
    BY <1>7 DEF vars, RefsBelow, Idle, readerVars, workerVars
<1> QED
    BY <1>1, <1>2, <1>3, <1>4, <1>5, <1>6, <1>7, Steps

\* The buffer being filled or just filled is nobody else's.
LEMMA RefsFree ==
    ASSUME TypeOK, RefsBelow
    PROVE  BufferFree
<1>1. worker \in Nat
    BY BufferIndexes DEF TypeOK
<1> QED
    BY <1>1 DEF RefsBelow, BufferFree

\* A buffer enters the channel only when it is free, and leaves it for one
\* worker.
LEMMA HolderStep ==
    ASSUME IInv, TypeOK', [Next]_vars
    PROVE  OneHolder'
<1> USE DEF IInv
<1>0. BufferFree
    BY RefsFree
<1>1. ASSUME UNCHANGED <<RawDataChannel, work>>
      PROVE  OneHolder'
    BY <1>1 DEF OneHolder, Idle
<1>2. CASE Read \/ StartRound
    BY <1>1, <1>2 DEF Read, StartRound, workerVars
<1>3. CASE Send
    <2>1. work' = work /\ reader = "send"
        BY <1>3 DEF Send, workerVars
    <2>2. [buf |-> worker, size |-> bytesRead] \in WorkItems
        BY DEF TypeOK, WorkItems
    <2>3. /\ Len(RawDataChannel) \in Nat
          /\ Len(RawDataChannel') = Len(RawDataChannel) + 1
          /\ \A k \in 1..Len(RawDataChannel) :
                RawDataChannel'[k] = RawDataChannel[k]
          /\ RawDataChannel'[Len(RawDataChannel) + 1].buf = worker
        BY <1>3, <2>2, AppendProperties, LenProperties DEF Send, TypeOK
    <2>4. ASSUME NEW k \in 1..Len(RawDataChannel')
          PROVE  \/ /\ k \in 1..Len(RawDataChannel)
                    /\ RawDataChannel'[k] = RawDataChannel[k]
                    /\ RawDataChannel[k].buf # worker
                 \/ /\ k = Len(RawDataChannel) + 1
                    /\ RawDataChannel'[k].buf = worker
        BY <1>0, <2>1, <2>3 DEF BufferFree
    <2>5. ASSUME NEW k \in 1..Len(RawDataChannel'),
                 NEW l \in 1..Len(RawDataChannel'), k # l
          PROVE  RawDataChannel'[k].buf # RawDataChannel'[l].buf
        BY <2>4, <2>5 DEF OneHolder
    <2>6. ASSUME NEW k \in 1..Len(RawDataChannel'), NEW w \in Buffers,
                 ~Idle(w)'
          PROVE  RawDataChannel'[k].buf # work'[w].buf
        <3>1. ~Idle(w) /\ work[w].buf # worker
            BY <1>0, <2>1, <2>6 DEF BufferFree, Idle
        <3> QED
            BY <2>1, <2>4, <3>1 DEF OneHolder
    <2>7. \A v, w \in Buffers : v # w /\ ~Idle(v)' /\ ~Idle(w)'
                => work'[v].buf # work'[w].buf
        BY <2>1 DEF OneHolder, Idle
    <2> QED
        BY <2>5, <2>6, <2>7 DEF OneHolder
<1>4. ASSUME NEW w \in Buffers, Take(w)
      PROVE  OneHolder'
    <2>1. /\ Len(RawDataChannel) \in Nat \ {0}
          /\ Len(RawDataChannel') = Len(RawDataChannel) - 1
          /\ \A k \in 1..Len(RawDataChannel') :
                RawDataChannel'[k] = RawDataChannel[k + 1]
        BY <1>4, HeadTailProperties, EmptySeq DEF Take, TypeOK
    <2>2. \A k \in 1..Len(RawDataChannel') :
                k + 1 \in 1..Len(RawDataChannel) /\ k + 1 # 1
        BY <2>1
    <2>3. work' = [work EXCEPT ![w] = RawDataChannel[1]] /\ Idle(w)
        BY <1>4 DEF Take, TypeOK
    <2>4. 1 \in 1..Len(RawDataChannel)
        BY <2>1
    <2>5. \A v \in Buffers : /\ v = w => work'[v] = RawDataChannel[1]
                             /\ v # w /\ ~Idle(v)' =>
                                    ~Idle(v) /\ work'[v] = work[v]
        BY <2>3 DEF TypeOK, Idle
    <2>6. ASSUME NEW k \in 1..Len(RawDataChannel'),
                 NEW l \in 1..Len(RawDataChannel'), k # l
          PROVE  RawDataChannel'[k].buf # RawDataChannel'[l].buf
        <3>1. k + 1 # l + 1
            BY <2>1, <2>6
        <3> QED
            BY <2>1, <2>2, <3>1 DEF OneHolder
    <2>7. ASSUME NEW k \in 1..Len(RawDataChannel'), NEW v \in Buffers,
                 ~Idle(v)'
          PROVE  RawDataChannel'[k].buf # work'[v].buf
        <3>1. RawDataChannel'[k] = RawDataChannel[k + 1]
                /\ k + 1 \in 1..Len(RawDataChannel) /\ k + 1 # 1
            BY <2>1, <2>2
        <3>2. CASE v = w
            BY <2>4, <2>5, <3>1, <3>2 DEF OneHolder
        <3>3. CASE v # w
            BY <2>5, <2>7, <3>1, <3>3 DEF OneHolder
        <3> QED
            BY <3>2, <3>3
    <2>8. ASSUME NEW u \in Buffers, NEW v \in Buffers, u # v,
                 ~Idle(u)', ~Idle(v)'
          PROVE  work'[u].buf # work'[v].buf
        <3>1. CASE u = w
            BY <2>4, <2>5, <2>8, <3>1 DEF OneHolder
        <3>2. CASE v = w
            BY <2>4, <2>5, <2>8, <3>2 DEF OneHolder
        <3>3. CASE u # w /\ v # w
            BY <2>5, <2>8, <3>3 DEF OneHolder
        <3> QED
            BY <3>1, <3>2, <3>3
    <2> QED
        BY <2>6, <2>7, <2>8 DEF OneHolder
<1>5. ASSUME NEW w \in Buffers, Collect(w) \/ Emit(w)
      PROVE  OneHolder'
    BY <1>1, <1>5 DEF Collect, Emit
<1>6. ASSUME NEW w \in Buffers, Done(w)
      PROVE  OneHolder'
    <2>1. RawDataChannel' = RawDataChannel
            /\ \A v \in Buffers : ~Idle(v)' => ~Idle(v) /\ work'[v] = work[v]
        BY <1>6 DEF Done, Idle, TypeOK
    <2> QED
        BY <2>1 DEF OneHolder
<1>7. CASE UNCHANGED vars
    BY <1>1, <1>7 DEF vars, workerVars
<1> QED
    BY <1>2, <1>3, <1>4, <1>5, <1>6, <1>7, Steps

\* Buffers in use keep their sizes: only the free one is read into.
LEMMA SizesStep ==
    ASSUME IInv, TypeOK', [Next]_vars
    PROVE  Sizes'
<1> USE DEF IInv
<1>0. BufferFree
    BY RefsFree
<1>1. CASE Read
    <2>1. PICK n \in 1..Len(stream) :
            data' = [data EXCEPT ![worker] = SubSeq(stream, 1, n)]
            /\ bytesRead' = n
        BY <1>1 DEF Read
    <2>2. n > 0 /\ Len(SubSeq(stream, 1, n)) = n
        BY ReadHalves DEF TypeOK
    <2>3. /\ UNCHANGED <<worker, RawDataChannel, work, bytesdone>>
          /\ reader = "read"
        BY <1>1 DEF Read, workerVars
    <2>4. bytesRead' = Len(data'[worker]) /\ bytesRead' > 0
        BY <2>1, <2>2 DEF TypeOK
    <2>5. ASSUME NEW item, item.buf \in Buffers, item.buf # worker, Fills(item)
          PROVE  Fills(item)'
        BY <2>1, <2>5 DEF Fills, TypeOK
    <2>6. \A k \in 1..Len(RawDataChannel) : Fills(RawDataChannel[k])'
        <3>1. \A k \in 1..Len(RawDataChannel) :
                    RawDataChannel[k].buf \in Buffers
            BY QueuedItems
        <3> QED
            BY <1>0, <2>3, <2>5, <3>1 DEF BufferFree, Sizes, Fills
    <2>7. \A w \in Buffers : ~Idle(w) => Fills(work[w])'
        <3>1. \A w \in Buffers : work[w].buf \in Buffers
            BY DEF TypeOK, WorkItems
        <3> QED
            BY <1>0, <2>3, <2>5, <3>1 DEF BufferFree, Sizes, Fills
    <2> QED
        BY <2>3, <2>4, <2>6, <2>7 DEF Sizes, Fills, Idle
<1>2. CASE Send
    <2>1. UNCHANGED <<data, work, bytesdone>> /\ reader = "send"
            /\ reader' # "send"
        BY <1>2 DEF Send, workerVars
    <2>2. [buf |-> worker, size |-> bytesRead] \in WorkItems
        BY DEF TypeOK, WorkItems
    <2>3. /\ Len(RawDataChannel) \in Nat
          /\ Len(RawDataChannel)' = Len(RawDataChannel) + 1
          /\ \A k \in 1..Len(RawDataChannel) :
                RawDataChannel'[k] = RawDataChannel[k]
          /\ RawDataChannel'[Len(RawDataChannel) + 1] =
                [buf |-> worker, size |-> bytesRead]
        BY <1>2, <2>2, AppendProperties, LenProperties DEF Send, TypeOK
    <2>4. ASSUME NEW k \in 1..Len(RawDataChannel)'
          PROVE  Fills(RawDataChannel[k])'
        <3>1. CASE k \in 1..Len(RawDataChannel)
            BY <2>1, <2>3, <3>1 DEF Sizes, Fills
        <3>2. CASE k = Len(RawDataChannel) + 1
            BY <2>1, <2>3, <3>2 DEF Sizes, Fills
        <3> QED
            BY <2>3, <3>1, <3>2
    <2> QED
        BY <2>1, <2>4 DEF Sizes, Fills, Idle
<1>3. CASE StartRound
    BY <1>3 DEF StartRound, Sizes, Fills, Idle, workerVars
<1>4. ASSUME NEW w \in Buffers, Take(w)
      PROVE  Sizes'
    <2>1. /\ UNCHANGED <<data, reader, worker, bytesRead>>
          /\ bytesdone' = [bytesdone EXCEPT ![w] = 0]
        BY <1>4 DEF Take, readerVars
    <2>2. /\ Len(RawDataChannel) \in Nat \ {0}
          /\ Len(RawDataChannel)' = Len(RawDataChannel) - 1
          /\ \A k \in 1..Len(RawDataChannel)' :
                RawDataChannel'[k] = RawDataChannel[k + 1]
        BY <1>4, HeadTailProperties, EmptySeq DEF Take, TypeOK
    <2>3. \A k \in 1..Len(RawDataChannel)' : Fills(RawDataChannel[k])'
        <3>1. \A k \in 1..Len(RawDataChannel)' :
                    k + 1 \in 1..Len(RawDataChannel)
            BY <2>2
        <3> QED
            BY <2>1, <2>2, <3>1 DEF Sizes, Fills
    <2>4. work' = [work EXCEPT ![w] = RawDataChannel[1]]
        BY <1>4 DEF Take, TypeOK
    <2>5. Fills(RawDataChannel[1]) /\ RawDataChannel[1].size \in Nat
        BY <2>2, QueuedItems DEF Sizes
    <2>6. ASSUME NEW v \in Buffers
          PROVE  /\ ~Idle(v)' => Fills(work[v])'
                 /\ bytesdone'[v] <= work'[v].size
        <3>1. CASE v = w
            <4>1. work'[v] = RawDataChannel[1] /\ bytesdone'[v] = 0
                BY <2>1, <2>4, <3>1 DEF TypeOK
            <4> QED
                BY <2>1, <2>5, <4>1 DEF Fills
        <3>2. CASE v # w
            BY <2>1, <2>4, <3>2 DEF TypeOK, Sizes, Idle, Fills
        <3> QED
            BY <3>1, <3>2
    <2> QED
        BY <2>1, <2>3, <2>6 DEF Sizes
<1>5. ASSUME NEW w \in Buffers, Collect(w) \/ Emit(w)
      PROVE  Sizes'
    <2>1. /\ UNCHANGED <<data, reader, worker, bytesRead, RawDataChannel, work>>
          /\ HasEntry(w)
          /\ bytesdone' = [bytesdone EXCEPT ![w] = @ + 1]
        BY <1>5 DEF Collect, Emit, readerVars
    <2>2. \A v \in Buffers : bytesdone'[v] <= work'[v].size
        <3>1. \A v \in Buffers : bytesdone[v] \in Nat /\ work[v].size \in Nat
            BY DEF TypeOK, WorkItems
        <3>2. bytesdone[w] + 1 <= work[w].size
            BY <2>1, <3>1 DEF HasEntry
        <3> QED
            BY <2>1, <3>2 DEF TypeOK, Sizes
    <2> QED
        BY <2>1, <2>2 DEF Sizes, Fills, Idle
<1>6. ASSUME NEW w \in Buffers, Done(w)
      PROVE  Sizes'
    <2>1. /\ UNCHANGED <<data, reader, worker, bytesRead, RawDataChannel>>
          /\ work' = [work EXCEPT ![w] = NoWork]
          /\ bytesdone' = [bytesdone EXCEPT ![w] = 0]
        BY <1>6 DEF Done, readerVars
    <2>2. ASSUME NEW v \in Buffers
          PROVE  /\ ~Idle(v)' => Fills(work[v])'
                 /\ bytesdone'[v] <= work'[v].size
        <3>1. CASE v = w
            BY <2>1, <3>1 DEF TypeOK, Idle, NoWork
        <3>2. CASE v # w
            BY <2>1, <3>2 DEF TypeOK, Sizes, Idle, Fills
        <3> QED
            BY <3>1, <3>2
    <2> QED
        BY <2>1, <2>2 DEF Sizes, Fills
<1>7. CASE UNCHANGED vars
    BY <1>7 DEF vars, Sizes, Fills, Idle, readerVars, workerVars
<1> QED
    BY <1>1, <1>2, <1>3, <1>4, <1>5, <1>6, <1>7, Steps

-----------------------------------------------------------------------------
(* Events that came in one read.                                           *)

\* A read leaves an event that it does not split on one side.
LEMMA WholeStep ==
    ASSUME IInv, TypeOK', [Next]_vars
    PROVE  AllWhole'
<1> USE DEF IInv
<1>1. CASE Read
    <2>1. \E got, rest \in Seq(Entries) :
            /\ Range(stream) = Range(got) \cup Range(rest)
            /\ EndsLast(got) /\ EndsLast(rest)
            /\ stream' = rest
            /\ data' = [data EXCEPT ![worker] = got]
            /\ split' = split \cup {i \in Ids :
                            /\ \E e \in Range(got) : e.id = i
                            /\ \E e \in Range(rest) : e.id = i}
        <3>1. PICK n \in 1..Len(stream) :
                /\ stream' = SubSeq(stream, n + 1, Len(stream))
                /\ data' = [data EXCEPT ![worker] = SubSeq(stream, 1, n)]
                /\ split' = split \cup {i \in Ids :
                    /\ \E e \in Range(SubSeq(stream, 1, n)) : e.id = i
                    /\ \E e \in Range(SubSeq(stream, n + 1, Len(stream))) :
                        e.id = i}
            BY <1>1 DEF Read
        <3> DEFINE t == SubSeq(stream, 1, n)
                   u == SubSeq(stream, n + 1, Len(stream))
        <3>2. stream \in Seq(Entries) /\ Len(stream) \in Nat
            BY LenProperties DEF TypeOK
        <3>3. t \in Seq(Entries) /\ u \in Seq(Entries)
            BY <3>2, ReadHalves
        <3>4. Range(stream) = Range(t) \cup Range(u)
            BY <3>2, CutRange
        <3>5. EndsLast(t) /\ EndsLast(u)
            <4>1. EndsLast(stream)
                BY DEF AllWhole, Whole
            <4>2. /\ 1 \in 1..(Len(stream) + 1) /\ n \in (1 - 1)..Len(stream)
                  /\ n + 1 \in 1..(Len(stream) + 1)
                  /\ Len(stream) \in ((n + 1) - 1)..Len(stream)
                BY <3>2
            <4> QED
                BY <3>2, <4>1, <4>2, PartEndsLast
        <3> QED
            BY <3>1, <3>3, <3>4, <3>5
    <2>2. PICK got \in Seq(Entries), rest \in Seq(Entries) :
            /\ Range(stream) = Range(got) \cup Range(rest)
            /\ EndsLast(got) /\ EndsLast(rest)
            /\ stream' = rest
            /\ data' = [data EXCEPT ![worker] = got]
            /\ split' = split \cup {i \in Ids :
                            /\ \E e \in Range(got) : e.id = i
                            /\ \E e \in Range(rest) : e.id = i}
        BY <2>1
    <2>3. input' = input
        BY <1>1 DEF Read
    <2>4. \A e \in Range(stream) : e.id \in Ids
        <3>1. Range(stream) \subseteq Entries
            BY RangeOfSeq DEF TypeOK
        <3> QED
            BY <3>1 DEF Entries
    <2>5. ASSUME NEW d \in Range(stream), NEW e \in Range(input),
                 d.id \notin split', e.id = d.id
          PROVE  /\ d \in Range(got) => e \in Range(got)
                 /\ d \in Range(rest) => e \in Range(rest)
        <3>1. e \in Range(stream)
            BY <2>2, <2>5 DEF AllWhole, Whole
        <3>2. ~(d \in Range(got) /\ e \in Range(rest))
                /\ ~(d \in Range(rest) /\ e \in Range(got))
            BY <2>2, <2>4, <2>5
        <3> QED
            BY <2>2, <3>1, <3>2
    <2>6. Range(stream) \subseteq Range(input)
        BY DEF AllWhole, Whole
    <2>7. Whole(stream)'
        BY <2>2, <2>3, <2>5, <2>6 DEF Whole
    <2>8. Whole(got)'
        BY <2>2, <2>3, <2>5, <2>6 DEF Whole
    <2>9. ASSUME NEW b \in Buffers
          PROVE  Whole(data[b])'
        <3>1. CASE b = worker
            BY <2>2, <2>8, <3>1 DEF TypeOK
        <3>2. CASE b # worker
            <4>1. data'[b] = data[b]
                BY <2>2, <3>2 DEF TypeOK
            <4>2. Whole(data[b])
                BY DEF AllWhole
            <4> QED
                BY <2>2, <2>3, <4>1, <4>2 DEF Whole
        <3> QED
            BY <3>1, <3>2
    <2> QED
        BY <2>7, <2>9 DEF AllWhole
<1>2. ASSUME UNCHANGED <<input, stream, data, split>>
      PROVE  AllWhole'
    BY <1>2 DEF AllWhole, Whole
<1>3. Send \/ StartRound => AllWhole'
    BY <1>2 DEF Send, StartRound
<1>4. ASSUME NEW w \in Buffers, Take(w) \/ Collect(w) \/ Emit(w) \/ Done(w)
      PROVE  AllWhole'
    BY <1>2, <1>4 DEF Take, Collect, Emit, Done, readerVars
<1>5. CASE UNCHANGED vars
    BY <1>2, <1>5 DEF vars, readerVars
<1> QED
    BY <1>1, <1>3, <1>4, <1>5, Steps

\* What a worker that goes past one more entry has behind it.
LEMMA OneMore ==
    ASSUME TypeOK, Sizes, NEW w \in Buffers, HasEntry(w)
    PROVE  Range(SubSeq(data[work[w].buf], 1, bytesdone[w] + 1)) =
                Range(SubSeq(data[work[w].buf], 1, bytesdone[w]))
                    \cup {Current(w)}
<1> DEFINE s == data[work[w].buf]
           k == bytesdone[w]
           t == SubSeq(s, 1, k)
           u == SubSeq(s, 1, k + 1)
<1>1. s \in Seq(Entries) /\ k + 1 \in 1..Len(s) /\ Current(w) = s[k + 1]
        /\ k \in Nat
    BY CurrentEntry DEF Current, TypeOK
<1> HIDE DEF s, k
<1>2. Len(s) \in Nat
    BY <1>1, LenProperties
<1>3. t \in Seq(Entries) /\ Len(t) = k /\ \A i \in 1..k : t[i] = s[i]
    <2>1. 1 \in 1..(Len(s) + 1) /\ k \in (1 - 1)..Len(s)
        BY <1>1, <1>2
    <2>2. /\ t \in Seq(Entries) /\ Len(t) = k - 1 + 1
          /\ \A i \in 1..(k - 1 + 1) : t[i] = s[1 + i - 1]
        BY <1>1, <2>1, PartProperties
    <2> HIDE DEF t
    <2> QED
        BY <1>1, <2>2
<1>4. u \in Seq(Entries) /\ Len(u) = k + 1 /\ \A i \in 1..(k + 1) : u[i] = s[i]
    <2>1. 1 \in 1..(Len(s) + 1) /\ k + 1 \in (1 - 1)..Len(s)
        BY <1>1, <1>2
    <2>2. /\ u \in Seq(Entries) /\ Len(u) = (k + 1) - 1 + 1
          /\ \A i \in 1..((k + 1) - 1 + 1) : u[i] = s[1 + i - 1]
        BY <1>1, <2>1, PartProperties
    <2> HIDE DEF u
    <2> QED
        BY <1>1, <2>2
<1> HIDE DEF t, u
<1>5. ASSUME NEW e
      PROVE  e \in Range(u) <=> e \in Range(t) \/ e = s[k + 1]
    <2>1. e \in Range(u) <=> \E i \in 1..(k + 1) : s[i] = e
        BY <1>4, RangeMember
    <2>2. e \in Range(t) <=> \E i \in 1..k : s[i] = e
        BY <1>3, RangeMember
    <2>3. 1..(k + 1) = (1..k) \cup {k + 1}
        BY <1>1
    <2> QED
        BY <2>1, <2>2, <2>3
<1>6. Range(u) = Range(t) \cup {s[k + 1]}
    BY <1>5
<1> QED
    BY <1>1, <1>6 DEF s, k, t, u

\* The logbuffer of a worker follows its position in the buffer, which the
\* reader leaves alone while the worker is at it.
LEMMA CollectedStep ==
    ASSUME IInv, TypeOK', [Next]_vars
    PROVE  Collected'
<1> USE DEF IInv
<1> DEFINE Behind(w) == {e \in Range(SubSeq(data[work[w].buf], 1,
                                    bytesdone[w])) : e.field # EVENT_END}
<1>1. \A w \in Buffers : logbuffer[w] = Behind(w)
    BY DEF Collected
<1>2. \A s : SubSeq(s, 1, 0) = <<>>
    BY SubSeqEmpty
<1>3. Range(<<>>) = {}
    BY DEF Range
<1>4. ASSUME NEW w \in Buffers, UNCHANGED <<logbuffer[w], bytesdone[w],
                                    work[w], data[work[w].buf]>>
      PROVE  logbuffer'[w] = Behind(w)'
    BY <1>1, <1>4
<1>5. ASSUME NEW w \in Buffers, logbuffer'[w] = {}, bytesdone'[w] = 0
      PROVE  logbuffer'[w] = Behind(w)'
    BY <1>2, <1>3, <1>5
<1> SUFFICES ASSUME NEW w \in Buffers
             PROVE  logbuffer'[w] = Behind(w)'
    BY DEF Collected
<1>6. CASE Read
    <2>1. /\ UNCHANGED <<work, bytesdone, logbuffer>>
          /\ reader = "read"
          /\ \A b \in Buffers : b # worker => data'[b] = data[b]
        BY <1>6 DEF Read, workerVars, TypeOK
    <2>2. work[w].buf \in Buffers
        BY DEF TypeOK, WorkItems
    <2>3. CASE Idle(w)
        <3>1. bytesdone[w] = 0
            <4>1. work[w].size = 0
                BY <2>3 DEF Idle, NoWork
            <4>2. bytesdone[w] \in Nat /\ bytesdone[w] <= work[w].size
                BY DEF Sizes, TypeOK
            <4> QED
                BY <4>1, <4>2
        <3>2. logbuffer[w] = {}
            BY <1>1, <1>2, <1>3, <3>1
        <3> QED
            BY <1>5, <2>1, <3>1, <3>2
    <2>4. CASE ~Idle(w)
        <3>1. work[w].buf # worker
            BY <2>1, <2>4, RefsFree DEF BufferFree
        <3> QED
            BY <1>4, <2>1, <2>2, <3>1
    <2> QED
        BY <2>3, <2>4
<1>7. CASE Send \/ StartRound
    BY <1>4, <1>7 DEF Send, StartRound, workerVars
<1>8. ASSUME NEW v \in Buffers, Take(v) \/ Done(v)
      PROVE  logbuffer'[w] = Behind(w)'
    <2>1. CASE v = w
        <3>1. logbuffer'[w] = {} /\ bytesdone'[w] = 0
            BY <1>8, <2>1 DEF Take, Done, TypeOK
        <3> QED
            BY <1>5, <3>1
    <2>2. CASE v # w
        <3>1. UNCHANGED <<logbuffer[w], bytesdone[w], work[w], data>>
            BY <1>8, <2>2 DEF Take, Done, TypeOK, readerVars
        <3> QED
            BY <1>4, <3>1
    <2> QED
        BY <2>1, <2>2
<1>9. ASSUME NEW v \in Buffers, Collect(v) \/ Emit(v)
      PROVE  logbuffer'[w] = Behind(w)'
    <2>1. CASE v = w
        <3>1. /\ UNCHANGED <<work, data>> /\ HasEntry(w)
              /\ bytesdone'[w] = bytesdone[w] + 1
              /\ logbuffer'[w] = logbuffer[w]
                    \cup (IF Current(w).field = EVENT_END
                          THEN {} ELSE {Current(w)})
            BY <1>9, <2>1 DEF Collect, Emit, TypeOK, readerVars
        <3>2. Range(SubSeq(data[work[w].buf], 1, bytesdone[w]))
                \cup {Current(w)}
              = Range(SubSeq(data'[work'[w].buf], 1, bytesdone'[w]))
            BY <3>1, OneMore
        <3> QED
            BY <1>1, <3>1, <3>2
    <2>2. CASE v # w
        <3>1. UNCHANGED <<logbuffer[w], bytesdone[w], work[w], data>>
            BY <1>9, <2>2 DEF Collect, Emit, TypeOK, readerVars
        <3> QED
            BY <1>4, <3>1
    <2> QED
        BY <2>1, <2>2
<1>10. CASE UNCHANGED vars
    BY <1>4, <1>10 DEF vars, workerVars, readerVars
<1> QED
    BY <1>6, <1>7, <1>8, <1>9, <1>10, Steps

\* At the EVENT_END of an event that was not split, the worker has gone past
\* all of the event's fields.
LEMMA FieldsComplete ==
    ASSUME IInv, NEW w \in Buffers, HasEntry(w),
           Current(w).field = EVENT_END, Current(w).id \notin split
    PROVE  FieldsCollected(w, Current(w).id) = FieldsOf(Current(w).id)
<1> USE DEF IInv
<1> DEFINE s == data[work[w].buf]
           k == bytesdone[w]
           t == SubSeq(s, 1, k)
           c == Current(w)
<1>1. /\ s \in Seq(Entries) /\ k + 1 \in 1..Len(s) /\ c = s[k + 1]
      /\ k \in Nat /\ Whole(s)
    BY CurrentEntry DEF Current, TypeOK, AllWhole
<1>2. logbuffer[w] = {e \in Range(t) : e.field # EVENT_END}
    BY DEF Collected
<1>3. c.field = EVENT_END /\ c.id \notin split
    OBVIOUS
<1>4. FieldsCollected(w, c.id) =
            {e.field : e \in {x \in logbuffer[w] : x.id = c.id}}
      /\ FieldsOf(c.id) =
            {e.field : e \in {x \in Range(input) : x.id = c.id}} \ {EVENT_END}
    BY DEF FieldsCollected, FieldsOf
<1> HIDE DEF s, k, c
<1>5. Len(s) \in Nat
    BY <1>1, LenProperties
<1>6. /\ t \in Seq(Entries) /\ Len(t) = k /\ \A i \in 1..k : t[i] = s[i]
    <2>1. 1 \in 1..(Len(s) + 1) /\ k \in (1 - 1)..Len(s)
        BY <1>1, <1>5
    <2>2. /\ t \in Seq(Entries) /\ Len(t) = k - 1 + 1
          /\ \A i \in 1..(k - 1 + 1) : t[i] = s[1 + i - 1]
        BY <1>1, <2>1, PartProperties
    <2> HIDE DEF t
    <2> QED
        BY <1>1, <2>2
<1> HIDE DEF t
<1>7. c \in Range(s)
    BY <1>1, RangeMember
<1>8. ASSUME NEW e, e \in Range(t)
      PROVE  e \in Range(input)
    <2>1. PICK i \in 1..k : s[i] = e
        BY <1>6, <1>8, RangeMember
    <2>2. i \in 1..Len(s)
        BY <1>1, <1>5, <2>1
    <2>3. e \in Range(s)
        BY <1>1, <2>1, <2>2, RangeMember
    <2> QED
        BY <1>1, <2>3 DEF Whole
<1>9. ASSUME NEW e, e \in Range(input), e.id = c.id, e.field # EVENT_END
      PROVE  e \in Range(t)
    <2>1. e \in Range(s)
        BY <1>1, <1>3, <1>7, <1>9 DEF Whole
    <2>2. PICK i \in 1..Len(s) : s[i] = e
        BY <1>1, <2>1, RangeMember
    <2>3. ~(k + 1 < i) /\ i # k + 1
        BY <1>1, <1>3, <1>9, <2>2 DEF Whole, EndsLast
    <2>4. i \in 1..k /\ t[i] = e
        BY <1>1, <1>5, <1>6, <2>2, <2>3
    <2> QED
        BY <1>6, <2>4, RangeMember
<1>10. {x \in logbuffer[w] : x.id = c.id} =
            {x \in Range(input) : x.id = c.id /\ x.field # EVENT_END}
    BY <1>2, <1>8, <1>9
<1>11. FieldsOf(c.id) =
        {e.field : e \in
            {x \in Range(input) : x.id = c.id /\ x.field # EVENT_END}}
    BY <1>4
<1> QED
    BY <1>4, <1>10, <1>11 DEF c

\* What is written stays whole, and what is added is.
LEMMA UnsplitStep ==
    ASSUME IInv, TypeOK', [Next]_vars
    PROVE  UnsplitWhole'
<1> USE DEF IInv
<1>1. input' = input => \A i : FieldsOf(i)' = FieldsOf(i)
    BY DEF FieldsOf
<1>2. ASSUME UNCHANGED <<input, written>>, split \subseteq split'
      PROVE  UnsplitWhole'
    BY <1>1, <1>2 DEF UnsplitWhole
<1>3. CASE Read
    BY <1>2, <1>3 DEF Read
<1>4. CASE Send \/ StartRound
    BY <1>2, <1>4 DEF Send, StartRound
<1>5. ASSUME NEW w \in Buffers, Take(w) \/ Collect(w) \/ Done(w)
      PROVE  UnsplitWhole'
    BY <1>2, <1>5 DEF Take, Collect, Done
<1>6. ASSUME NEW w \in Buffers, Emit(w)
      PROVE  UnsplitWhole'
    <2> DEFINE i == Current(w).id
               new == [id |-> i, fields |-> FieldsCollected(w, i)]
    <2>1. /\ HasEntry(w) /\ Current(w).field = EVENT_END
          /\ written' = Append(written, new)
          /\ UNCHANGED <<input, split>>
        BY <1>6 DEF Emit
    <2>2. i \notin split => FieldsCollected(w, i) = FieldsOf(i)
        BY <2>1, FieldsComplete
    <2>3. new.id = i /\ new.fields = FieldsCollected(w, i)
        OBVIOUS
    <2> HIDE DEF new, i
    <2>4. /\ Len(written) \in Nat
          /\ Len(written') = Len(written) + 1
          /\ \A n \in 1..Len(written) : written'[n] = written[n]
          /\ written'[Len(written) + 1] = new
        BY <2>1, LenProperties DEF TypeOK
    <2>5. ASSUME NEW n \in 1..Len(written'), written'[n].id \notin split'
          PROVE  written'[n].fields = FieldsOf(written[n].id)'
        <3>1. CASE n \in 1..Len(written)
            BY <1>1, <2>1, <2>4, <2>5, <3>1 DEF UnsplitWhole
        <3>2. CASE n = Len(written) + 1
            BY <1>1, <2>1, <2>2, <2>3, <2>4, <2>5, <3>2
        <3> QED
            BY <2>4, <3>1, <3>2
    <2> QED
        BY <2>5 DEF UnsplitWhole
<1>7. CASE UNCHANGED vars
    BY <1>2, <1>7 DEF vars
<1> QED
    BY <1>3, <1>4, <1>5, <1>6, <1>7, Steps

-----------------------------------------------------------------------------
(* No EVENT_END is lost or processed twice.                                *)

\* The EVENT_ENDs of event i that are pending in buffer b.
PendingIn(b, i) == ToProcess(b) \cap EndsAt(data[b], i)

LEMMA PendingMember ==
    ASSUME NEW i, NEW p
    PROVE  p \in PendingEnds(i) <=>
                \E b \in Buffers : \E n \in PendingIn(b, i) : p = <<b, n>>
BY DEF PendingEnds, PendingIn

LEMMA PendingFinite ==
    ASSUME TypeOK, NEW i
    PROVE  IsFiniteSet(PendingEnds(i))
<1> DEFINE f == [b \in Buffers |-> {b} \X PendingIn(b, i)]
           T == {{b} \X PendingIn(b, i) : b \in Buffers}
<1>1. IsFiniteSet(Buffers)
    BY BufferIndexes, FS_Interval DEF Buffers
<1>2. f \in Surjection(Buffers, T)
    BY DEF Surjection
<1>3. IsFiniteSet(T)
    <2> HIDE DEF f, T
    <2> QED
        BY <1>1, <1>2, FS_Surjection
<1>4. ASSUME NEW b \in Buffers
      PROVE  IsFiniteSet({b} \X PendingIn(b, i))
    <2>1. data[b] \in Seq(Entries)
        BY DEF TypeOK
    <2>2. IsFiniteSet(PendingIn(b, i))
        BY <2>1, EndsFinite, FS_Subset DEF PendingIn
    <2>3. IsFiniteSet({b})
        BY FS_Singleton
    <2> QED
        BY <2>2, <2>3, FS_Product
<1>5. \A S \in T : IsFiniteSet(S)
    BY <1>4
<1>6. IsFiniteSet(UNION T)
    <2> HIDE DEF T
    <2> QED
        BY <1>3, <1>5, FS_UNION
<1> QED
    BY <1>6 DEF PendingEnds, PendingIn

\* The events written can be counted.
LEMMA WrittenFinite ==
    ASSUME TypeOK, NEW i
    PROVE  /\ IsFiniteSet(WrittenAt(i))
           /\ WrittenFor(i) \in Nat
<1>1. Len(written) \in Nat
    BY LenProperties DEF TypeOK
<1>2. IsFiniteSet(1..Len(written))
    BY <1>1, FS_Interval
<1>3. WrittenAt(i) \in SUBSET (1..Len(written))
    BY DEF WrittenAt
<1> QED
    BY <1>2, <1>3, FS_Subset, FS_CardinalityType DEF WrittenFor

\* When no buffer's pending ends change, nor what is to come and what is
\* written, the balance stays.
LEMMA SamePending ==
    ASSUME UNCHANGED <<input, stream, written>>, EndsConserved,
           \A b \in Buffers : \A i \in Ids : PendingIn(b, i)' = PendingIn(b, i)
    PROVE  EndsConserved'
<1>1. ASSUME NEW i \in Ids
      PROVE  PendingEnds(i)' = PendingEnds(i)
    BY DEF PendingEnds, PendingIn
<1> QED
    BY <1>1 DEF EndsConserved, EndsIn, EndsAt, WrittenFor, WrittenAt

\* Every step keeps the balance of the EVENT_ENDs.
LEMMA ConservedStep ==
    ASSUME IInv, TypeOK', [Next]_vars
    PROVE  EndsConserved'
<1> USE DEF IInv
<1>0. BufferFree
    BY RefsFree
<1>1. CASE Read
    <2> SUFFICES ASSUME NEW i \in Ids
                 PROVE  EndsIn(input', i) = EndsIn(stream', i)
                            + Cardinality(PendingEnds(i)') + WrittenFor(i)'
        BY DEF EndsConserved, EndsIn, EndsAt
    <2>1. PICK n \in 1..Len(stream) :
            /\ stream' = SubSeq(stream, n + 1, Len(stream))
            /\ data' = [data EXCEPT ![worker] = SubSeq(stream, 1, n)]
        BY <1>1 DEF Read
    <2>2. PICK got \in Seq(Entries) : got = SubSeq(stream, 1, n)
        BY ReadHalves DEF TypeOK
    <2>3. EndsIn(stream, i) = EndsIn(got, i) + EndsIn(stream', i)
        BY <2>1, <2>2, CutEnds DEF TypeOK
    <2>4. UNCHANGED <<input, worker, RawDataChannel, work, bytesdone, written>>
            /\ reader = "read" /\ reader' = "send"
        BY <1>1 DEF Read, workerVars
    <2>5. data' = [data EXCEPT ![worker] = got] /\ worker \in Buffers
        BY <2>1, <2>2 DEF TypeOK
    <2>6. PendingIn(worker, i) = {}
        <3>1. ToProcess(worker) = {}
            BY <1>0, <2>4 DEF ToProcess, BufferFree
        <3> QED
            BY <3>1 DEF PendingIn
    <2>7. PendingIn(worker, i)' = EndsAt(got, i)
        <3>1. data'[worker'] = got
            BY <2>4, <2>5 DEF TypeOK
        <3>2. ToProcess(worker)' = 1..Len(got)
            BY <2>4, <3>1 DEF ToProcess
        <3> QED
            BY <2>4, <3>1, <3>2 DEF PendingIn, EndsAt
    <2>8. ASSUME NEW b \in Buffers, b # worker
          PROVE  PendingIn(b, i)' = PendingIn(b, i)
        <3>1. data'[b] = data[b]
            BY <2>5, <2>8 DEF TypeOK
        <3>2. ToProcess(b)' = ToProcess(b)
            BY <2>4, <2>8, <3>1 DEF ToProcess, Idle
        <3> QED
            BY <3>1, <3>2 DEF PendingIn, EndsAt
    <2> DEFINE New == {worker} \X EndsAt(got, i)
    <2>9. PendingEnds(i)' = PendingEnds(i) \cup New
        <3>1. ASSUME NEW p
              PROVE  p \in PendingEnds(i)' <=> p \in PendingEnds(i) \cup New
            <4>1. p \in PendingEnds(i)' <=>
                    \E b \in Buffers : \E k \in PendingIn(b, i)' : p = <<b, k>>
                BY DEF PendingEnds, PendingIn
            <4>2. p \in PendingEnds(i) <=>
                    \E b \in Buffers : \E k \in PendingIn(b, i) : p = <<b, k>>
                BY PendingMember
            <4>3. p \in New <=> \E k \in EndsAt(got, i) : p = <<worker, k>>
                OBVIOUS
            <4> HIDE DEF New
            <4> QED
                BY <2>4, <2>5, <2>6, <2>7, <2>8, <4>1, <4>2, <4>3
        <3> HIDE DEF New
        <3> QED
            BY <3>1
    <2>10. PendingEnds(i) \cap New = {}
        <3>1. ASSUME NEW p \in PendingEnds(i)
              PROVE  p \notin New
            <4>1. PICK b \in Buffers : \E k \in PendingIn(b, i) : p = <<b, k>>
                BY PendingMember
            <4>2. b # worker
                BY <2>6, <4>1
            <4> QED
                BY <4>1, <4>2
        <3> QED
            BY <3>1
    <2>11. IsFiniteSet(New) /\ Cardinality(New) = EndsIn(got, i)
        <3>1. IsFiniteSet({worker}) /\ Cardinality({worker}) = 1
            BY FS_Singleton
        <3>2. IsFiniteSet(EndsAt(got, i)) /\ EndsIn(got, i) \in Nat
            BY EndsFinite
        <3>3. IsFiniteSet(New)
                /\ Cardinality(New) =
                        Cardinality({worker}) * Cardinality(EndsAt(got, i))
            BY <3>1, <3>2, FS_Product
        <3> QED
            BY <3>1, <3>2, <3>3 DEF EndsIn
    <2>12. Cardinality(PendingEnds(i)') =
                Cardinality(PendingEnds(i)) + EndsIn(got, i)
        <3> HIDE DEF New
        <3>1. IsFiniteSet(PendingEnds(i)) /\ Cardinality(PendingEnds(i)) \in Nat
            BY PendingFinite, FS_CardinalityType
        <3>2. Cardinality(PendingEnds(i) \cup New) =
                Cardinality(PendingEnds(i)) + Cardinality(New) - 0
            BY <2>10, <2>11, <3>1, FS_Union, FS_EmptySet
        <3>3. EndsIn(got, i) \in Nat
            BY EndsFinite
        <3> QED
            BY <2>9, <2>11, <3>1, <3>2, <3>3
    <2>13. EndsIn(stream', i) \in Nat /\ EndsIn(got, i) \in Nat
            /\ Cardinality(PendingEnds(i)) \in Nat /\ WrittenFor(i) \in Nat
        <3>1. EndsIn(stream', i) \in Nat /\ EndsIn(got, i) \in Nat
            BY EndsFinite DEF TypeOK
        <3>2. WrittenFor(i) \in Nat
            BY WrittenFinite
        <3> QED
            BY <3>1, <3>2, PendingFinite, FS_CardinalityType
    <2>14. EndsIn(input, i) = EndsIn(stream, i)
                + Cardinality(PendingEnds(i)) + WrittenFor(i)
        BY DEF EndsConserved
    <2>15. WrittenFor(i)' = WrittenFor(i) /\ input' = input
        BY <2>4 DEF WrittenFor, WrittenAt
    <2> QED
        BY <2>3, <2>12, <2>13, <2>14, <2>15
<1>2. CASE Send
    <2>1. UNCHANGED <<input, stream, data, work, bytesdone, written>>
            /\ reader = "send" /\ reader' # "send"
        BY <1>2 DEF Send, workerVars
    <2>2. [buf |-> worker, size |-> bytesRead] \in WorkItems
        BY DEF TypeOK, WorkItems
    <2>3. /\ Len(RawDataChannel) \in Nat
          /\ Len(RawDataChannel') = Len(RawDataChannel) + 1
          /\ \A k \in 1..Len(RawDataChannel) :
                RawDataChannel'[k] = RawDataChannel[k]
          /\ RawDataChannel'[Len(RawDataChannel) + 1].buf = worker
        BY <1>2, <2>2, AppendProperties, LenProperties DEF Send, TypeOK
    <2>4. ASSUME NEW b \in Buffers
          PROVE  (\E k \in 1..Len(RawDataChannel') : RawDataChannel'[k].buf = b)
                    <=> \/ b = worker
                        \/ \E k \in 1..Len(RawDataChannel) :
                                RawDataChannel[k].buf = b
        <3>1. Len(RawDataChannel) + 1 \in 1..Len(RawDataChannel')
                /\ \A k \in 1..Len(RawDataChannel) :
                        k \in 1..Len(RawDataChannel')
            BY <2>3
        <3>2. \A k \in 1..Len(RawDataChannel') :
                    k \in 1..Len(RawDataChannel)
                        \/ k = Len(RawDataChannel) + 1
            BY <2>3
        <3> QED
            BY <2>3, <3>1, <3>2
    <2>5. ASSUME NEW b \in Buffers
          PROVE  ToProcess(b)' = ToProcess(b)
        BY <2>1, <2>4 DEF ToProcess, Idle
    <2> QED
        BY <2>1, <2>5, SamePending DEF PendingIn, EndsAt
<1>3. CASE StartRound
    <2>1. UNCHANGED <<input, stream, data, RawDataChannel, work, bytesdone,
                      written>>
            /\ reader = "wait" /\ reader' = "read"
        BY <1>3 DEF StartRound, workerVars
    <2>2. \A b \in Buffers : ToProcess(b)' = ToProcess(b)
        BY <2>1 DEF ToProcess, Idle
    <2> QED
        BY <2>1, <2>2, SamePending DEF PendingIn, EndsAt
<1>4. ASSUME NEW w \in Buffers, Take(w)
      PROVE  EndsConserved'
    <2>1. UNCHANGED <<input, stream, data, reader, worker, written>> /\ Idle(w)
        BY <1>4 DEF Take, readerVars
    <2>2. /\ Len(RawDataChannel) \in Nat \ {0}
          /\ Len(RawDataChannel') = Len(RawDataChannel) - 1
          /\ \A k \in 1..Len(RawDataChannel') :
                RawDataChannel'[k] = RawDataChannel[k + 1]
        BY <1>4, HeadTailProperties, EmptySeq DEF Take, TypeOK
    <2>3. ASSUME NEW b \in Buffers
          PROVE  (\E k \in 1..Len(RawDataChannel) : RawDataChannel[k].buf = b)
                    <=> \/ RawDataChannel[1].buf = b
                        \/ \E k \in 1..Len(RawDataChannel') :
                                RawDataChannel'[k].buf = b
        <3>1. \A k \in 1..Len(RawDataChannel) :
                    \/ k = 1
                    \/ k - 1 \in 1..Len(RawDataChannel') /\ (k - 1) + 1 = k
            BY <2>2
        <3>2. 1 \in 1..Len(RawDataChannel)
                /\ \A k \in 1..Len(RawDataChannel') :
                        k + 1 \in 1..Len(RawDataChannel)
            BY <2>2
        <3>3. ASSUME NEW k \in 1..Len(RawDataChannel),
                     RawDataChannel[k].buf = b, k # 1
              PROVE  \E l \in 1..Len(RawDataChannel') :
                        RawDataChannel'[l].buf = b
            <4>1. /\ k - 1 \in 1..Len(RawDataChannel')
                  /\ RawDataChannel'[k - 1] = RawDataChannel[(k - 1) + 1]
                  /\ (k - 1) + 1 = k
                BY <2>2, <3>1, <3>3
            <4>2. RawDataChannel'[k - 1].buf = b
                BY <3>3, <4>1
            <4> QED
                BY <4>1, <4>2
        <3>4. ASSUME NEW k \in 1..Len(RawDataChannel'),
                     RawDataChannel'[k].buf = b
              PROVE  \E l \in 1..Len(RawDataChannel) :
                        RawDataChannel[l].buf = b
            BY <2>2, <3>2, <3>4
        <3> QED
            BY <3>2, <3>3, <3>4
    <2>4. \A v \in Buffers : /\ v = w => /\ work'[v] = RawDataChannel[1]
                                         /\ bytesdone'[v] = 0
                             /\ v # w => /\ work'[v] = work[v]
                                         /\ bytesdone'[v] = bytesdone[v]
        BY <1>4 DEF Take, TypeOK
    <2>5. RawDataChannel[1] # NoWork
        <3>1. RawDataChannel[1].size > 0
            BY <2>2 DEF Sizes, Fills
        <3> QED
            BY <3>1 DEF NoWork
    <2>6. ASSUME NEW b \in Buffers, NEW n \in Nat \ {0}
          PROVE  (\E v \in Buffers : ~Idle(v)' /\ work'[v].buf = b
                                        /\ bytesdone'[v] < n)
                    <=> \/ RawDataChannel[1].buf = b
                        \/ \E v \in Buffers : ~Idle(v) /\ work[v].buf = b
                                        /\ bytesdone[v] < n
        BY <2>1, <2>4, <2>5 DEF Idle
    <2>7. ASSUME NEW b \in Buffers
          PROVE  ToProcess(b)' = ToProcess(b)
        BY <2>1, <2>3, <2>6 DEF ToProcess
    <2> QED
        BY <2>1, <2>7, SamePending DEF PendingIn, EndsAt
<1>5. ASSUME NEW w \in Buffers, Collect(w)
      PROVE  EndsConserved'
    <2>1. /\ UNCHANGED <<input, stream, data, reader, worker, written,
                         RawDataChannel, work>>
          /\ HasEntry(w) /\ Current(w).field # EVENT_END
          /\ bytesdone' = [bytesdone EXCEPT ![w] = @ + 1]
        BY <1>5 DEF Collect, readerVars
    <2>2. ASSUME NEW b \in Buffers, NEW i \in Ids
          PROVE  PendingIn(b, i)' = PendingIn(b, i)
        <3> SUFFICES ASSUME NEW n \in EndsAt(data[b], i)
                     PROVE  n \in ToProcess(b)' <=> n \in ToProcess(b)
            BY <2>1 DEF PendingIn, EndsAt
        <3>1. n \in Nat /\ data[b][n].field = EVENT_END
            BY DEF EndsAt
        <3>2. \A v \in Buffers : bytesdone[v] \in Nat
            BY DEF TypeOK
        <3>3. ASSUME NEW v \in Buffers, work[v].buf = b
              PROVE  bytesdone'[v] < n <=> bytesdone[v] < n
            <4>1. CASE v = w
                <5>1. n # bytesdone[w] + 1
                    BY <2>1, <3>1, <3>3, <4>1 DEF Current
                <5>2. bytesdone'[v] = bytesdone[w] + 1
                    BY <2>1, <4>1 DEF TypeOK
                <5> QED
                    BY <3>1, <3>2, <4>1, <5>1, <5>2
            <4>2. CASE v # w
                BY <2>1, <4>2 DEF TypeOK
            <4> QED
                BY <4>1, <4>2
        <3> QED
            BY <2>1, <3>3 DEF ToProcess, Idle
    <2> QED
        BY <2>1, <2>2, SamePending
<1>6. ASSUME NEW w \in Buffers, Emit(w)
      PROVE  EndsConserved'
    <2> DEFINE id == Current(w).id
               buf == work[w].buf
               pos == bytesdone[w] + 1
    <2>1. /\ UNCHANGED <<input, stream, data, reader, worker, RawDataChannel,
                         work>>
          /\ HasEntry(w) /\ Current(w).field = EVENT_END
          /\ bytesdone' = [bytesdone EXCEPT ![w] = @ + 1]
          /\ \E f : written' = Append(written, [id |-> id, fields |-> f])
        BY <1>6 DEF Emit, readerVars
    <2>2. /\ buf \in Buffers /\ pos \in 1..Len(data[buf]) /\ ~Idle(w)
          /\ data[buf] \in Seq(Entries) /\ Current(w) = data[buf][pos]
        BY <2>1, CurrentEntry DEF Current
    <2>3. pos \in ToProcess(buf)
        <3>1. bytesdone[w] < pos
            <4>1. bytesdone[w] \in Nat
                BY DEF TypeOK
            <4> QED
                BY <4>1
        <3> QED
            BY <2>2, <3>1 DEF ToProcess
    <2>4. ASSUME NEW b \in Buffers
          PROVE  ToProcess(b)' =
                    IF b = buf THEN ToProcess(b) \ {pos} ELSE ToProcess(b)
        <3>1. \A v \in Buffers : bytesdone[v] \in Nat /\
                    bytesdone'[v] = IF v = w THEN pos ELSE bytesdone[v]
            BY <2>1 DEF TypeOK
        <3>2. \A n \in 1..Len(data[b]) : n \in Nat
            OBVIOUS
        <3>3. CASE b # buf
            <4>1. \A v \in Buffers : work[v].buf = b => v # w
                BY <3>3
            <4> QED
                BY <2>1, <3>1, <3>3, <4>1 DEF ToProcess, Idle
        <3>4. CASE b = buf
            <4>1. ~(reader = "send" /\ worker = b)
                BY <1>0, <2>2, <3>4 DEF BufferFree
            <4>2. ~\E k \in 1..Len(RawDataChannel) : RawDataChannel[k].buf = b
                BY <2>2, <3>4 DEF OneHolder
            <4>3. \A v \in Buffers : ~Idle(v) /\ work[v].buf = b => v = w
                BY <2>2, <3>4 DEF OneHolder
            <4>4. ToProcess(b) = {n \in 1..Len(data[b]) : bytesdone[w] < n}
                BY <2>2, <3>4, <4>1, <4>2, <4>3 DEF ToProcess
            <4>5. ToProcess(b)' = {n \in 1..Len(data[b]) : bytesdone'[w] < n}
                BY <2>1, <2>2, <3>4, <4>1, <4>2, <4>3 DEF ToProcess, Idle
            <4> QED
                BY <3>1, <3>2, <3>4, <4>4, <4>5
        <3> QED
            BY <3>3, <3>4
    <2>5. /\ Len(written) \in Nat
          /\ Len(written') = Len(written) + 1
          /\ \A n \in 1..Len(written) : written'[n] = written[n]
          /\ written'[Len(written) + 1].id = id
        BY <2>1, LenProperties DEF TypeOK
    <2> SUFFICES ASSUME NEW i \in Ids
                 PROVE  EndsIn(input', i) = EndsIn(stream', i)
                            + Cardinality(PendingEnds(i)') + WrittenFor(i)'
        BY DEF EndsConserved, EndsIn, EndsAt
    <2>6. EndsIn(input, i) = EndsIn(stream, i)
                + Cardinality(PendingEnds(i)) + WrittenFor(i)
        BY DEF EndsConserved
    <2>7. /\ EndsIn(stream, i) \in Nat
          /\ IsFiniteSet(PendingEnds(i)) /\ Cardinality(PendingEnds(i)) \in Nat
          /\ IsFiniteSet(WrittenAt(i)) /\ WrittenFor(i) \in Nat
        <3>1. EndsIn(stream, i) \in Nat
            BY EndsFinite DEF TypeOK
        <3> QED
            BY <3>1, PendingFinite, WrittenFinite, FS_CardinalityType
    <2>8. pos \in EndsAt(data[buf], i) <=> i = id
        BY <2>1, <2>2 DEF EndsAt
    <2>9. ASSUME NEW p
          PROVE  p \in PendingEnds(i)' <=>
                    p \in PendingEnds(i) /\ p # <<buf, pos>>
        <3>1. p \in PendingEnds(i)' <=>
                \E b \in Buffers : \E k \in PendingIn(b, i)' : p = <<b, k>>
            BY DEF PendingEnds, PendingIn
        <3>2. p \in PendingEnds(i) <=>
                \E b \in Buffers : \E k \in PendingIn(b, i) : p = <<b, k>>
            BY PendingMember
        <3>3. \A b \in Buffers : \A k :
                k \in PendingIn(b, i)' <=>
                    k \in PendingIn(b, i) /\ <<b, k>> # <<buf, pos>>
            BY <2>1, <2>4 DEF PendingIn, EndsAt
        <3> HIDE DEF buf, pos
        <3> QED
            BY <3>1, <3>2, <3>3
    <2>10. PendingEnds(i)' = PendingEnds(i) \ {<<buf, pos>>}
        BY <2>9
    <2>11. <<buf, pos>> \in PendingEnds(i) <=> i = id
        <3>1. pos \in PendingIn(buf, i) <=> i = id
            BY <2>3, <2>8 DEF PendingIn
        <3> HIDE DEF buf, pos, id
        <3> QED
            BY <2>2, <3>1, PendingMember
    <2>12. WrittenAt(i)' = IF i = id THEN WrittenAt(i) \cup {Len(written) + 1}
                           ELSE WrittenAt(i)
        <3> HIDE DEF id
        <3>1. \A n : n \in 1..Len(written') <=>
                    n \in 1..Len(written) \/ n = Len(written) + 1
            BY <2>5
        <3> QED
            BY <2>5, <3>1 DEF WrittenAt
    <2>13. Len(written) + 1 \notin WrittenAt(i)
        BY <2>5 DEF WrittenAt
    <2> HIDE DEF id, buf, pos
    <2>14. CASE i = id
        <3>1. Cardinality(PendingEnds(i)') = Cardinality(PendingEnds(i)) - 1
            <4> DEFINE before == PendingEnds(i)
            <4>1. <<buf, pos>> \in before /\ IsFiniteSet(before)
                BY <2>7, <2>11, <2>14
            <4>2. PendingEnds(i)' = before \ {<<buf, pos>>}
                BY <2>10
            <4> HIDE DEF before
            <4>3. Cardinality(before \ {<<buf, pos>>})
                        = IF <<buf, pos>> \in before
                            THEN Cardinality(before) - 1
                            ELSE Cardinality(before)
                BY <4>1, FS_RemoveElement, Zenon
            <4>4. Cardinality(PendingEnds(i)') = Cardinality(before) - 1
                BY <4>1, <4>2, <4>3
            <4> QED
                BY <4>4 DEF before
        <3>2. WrittenFor(i)' = WrittenFor(i) + 1
            BY <2>7, <2>12, <2>13, <2>14, FS_AddElement DEF WrittenFor
        <3> QED
            BY <2>1, <2>6, <2>7, <3>1, <3>2
    <2>15. CASE i # id
        <3>1. Cardinality(PendingEnds(i)') = Cardinality(PendingEnds(i))
            <4>1. PendingEnds(i)' = PendingEnds(i)
                BY <2>10, <2>11, <2>15
            <4> QED
                BY <4>1, Zenon
        <3>2. WrittenFor(i)' = WrittenFor(i)
            BY <2>12, <2>15 DEF WrittenFor
        <3> QED
            BY <2>1, <2>6, <3>1, <3>2
    <2> QED
        BY <2>14, <2>15
<1>7. ASSUME NEW w \in Buffers, Done(w)
      PROVE  EndsConserved'
    <2>1. UNCHANGED <<input, stream, data, reader, worker, written,
                      RawDataChannel>>
            /\ ~Idle(w) /\ ~HasEntry(w)
        BY <1>7 DEF Done, readerVars
    <2>2. \A v \in Buffers : /\ v = w => Idle(v)'
                             /\ v # w => /\ work'[v] = work[v]
                                         /\ bytesdone'[v] = bytesdone[v]
        BY <1>7 DEF Done, TypeOK, Idle
    <2>3. ASSUME NEW n \in 1..Len(data[work[w].buf])
          PROVE  ~(bytesdone[w] < n)
        <3>1. work[w].size = Len(data[work[w].buf])
            BY <2>1 DEF Sizes, Fills
        <3>2. work[w].size \in Nat /\ bytesdone[w] \in Nat
            BY DEF TypeOK, WorkItems
        <3> QED
            BY <2>1, <3>1, <3>2 DEF HasEntry
    <2>4. ASSUME NEW b \in Buffers
          PROVE  ToProcess(b)' = ToProcess(b)
        <3>1. ASSUME NEW n \in 1..Len(data[b])
              PROVE  (\E v \in Buffers : ~Idle(v)' /\ work'[v].buf = b
                                            /\ bytesdone'[v] < n)
                        <=> \E v \in Buffers : ~Idle(v) /\ work[v].buf = b
                                            /\ bytesdone[v] < n
            BY <2>2, <2>3 DEF Idle
        <3> QED
            BY <2>1, <3>1 DEF ToProcess
    <2> QED
        BY <2>1, <2>4, SamePending DEF PendingIn, EndsAt
<1>8. CASE UNCHANGED vars
    <2>1. UNCHANGED <<input, stream, data, reader, worker, written, work,
                      bytesdone, RawDataChannel>>
        BY <1>8 DEF vars, readerVars, workerVars
    <2>2. \A b \in Buffers : ToProcess(b)' = ToProcess(b)
        BY <2>1 DEF ToProcess, Idle
    <2> QED
        BY <2>1, <2>2, SamePending DEF PendingIn, EndsAt
<1> QED
    BY <1>1, <1>2, <1>3, <1>4, <1>5, <1>6, <1>7, <1>8, Steps

-----------------------------------------------------------------------------
(* The theorems.                                                           *)

\* The invariant holds in every state of the pipeline.
THEOREM Invariant == Spec => []IInv
<1>1. IInv /\ [Next]_vars => IInv'
    <2> SUFFICES ASSUME IInv, [Next]_vars
                 PROVE  IInv'
        OBVIOUS
    <2>1. TypeOK'
        BY TypeStep
    <2>2. WgBalance'
        BY <2>1, BalanceStep
    <2>3. RefsBelow'
        BY <2>1, <2>2, RefsStep
    <2>4. Sizes'
        BY <2>1, SizesStep
    <2>5. AllWhole'
        BY <2>1, WholeStep
    <2>6. Collected'
        BY <2>1, CollectedStep
    <2>7. UnsplitWhole'
        BY <2>1, UnsplitStep
    <2>8. OneHolder'
        BY <2>1, HolderStep
    <2>9. EndsConserved'
        BY <2>1, ConservedStep
    <2> QED
        BY <2>1, <2>2, <2>3, <2>4, <2>5, <2>6, <2>7, <2>8, <2>9 DEF IInv
<1> QED
    BY <1>1, InitOK, PTL DEF Spec

\* Every variable keeps its type; the wait group's counter never goes below
\* zero, where sync.WaitGroup panics.
THEOREM TypeCorrect == Spec => []TypeOK
<1>1. IInv => TypeOK
    BY DEF IInv
<1> QED
    BY <1>1, Invariant, PTL

\* wg.Wait() returns only when every buffer of the round is processed, and the
\* buffer that Luna reads into is never in the channel or at a worker.
THEOREM BarrierCorrect == Spec => []BarrierSafe
<1>1. IInv => BarrierSafe
    BY RefsFree DEF IInv, BarrierSafe
<1> QED
    BY <1>1, Invariant, PTL

\* Every EVENT_END the driver delivers becomes exactly one event: what is not
\* yet written is still to come, unsent, in the channel or at one worker.
THEOREM NothingLostOrRepeated == Spec => []EndsConserved
<1>1. IInv => EndsConserved
    BY DEF IInv
<1> QED
    BY <1>1, Invariant, PTL

\* An event whose entries came in one read is written with exactly its fields.
THEOREM UnsplitCorrect == Spec => []UnsplitWhole
<1>1. IInv => UnsplitWhole
    BY DEF IInv
<1> QED
    BY <1>1, Invariant, PTL

=============================================================================
