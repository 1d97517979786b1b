------------------------ MODULE RangeDownloadProofs ------------------------
(* Safety of a segmented transfer for every file length, range size, number *)
(* of workers and number of slots.                                          *)
EXTENDS RangeDownload, FiniteSetTheorems, TLAPS

USE RangesAreFinite
USE DEF At, jobVars, planVars, workVars

-----------------------------------------------------------------------------
(* Ranges and workers.                                                     *)

\* A range is not empty and ends with the file at the latest.
LEMMA SizeFits ==
  \A j \in Job : \A i \in Nat : i < Total[j] =>
    Size(j, i) \in Nat \ {0} /\ i + Size(j, i) <= Total[j]
  BY DEF Size, Least

\* Every transfer has a worker.
LEMMA CrewExists == \A j \in Job : \E s \in Worker : Of(s) = j
  <1> SUFFICES ASSUME NEW j \in Job PROVE \E s \in Worker : Of(s) = j
    OBVIOUS
  <1>1. Total[j] - 1 \in Nat /\ Total[j] \in Nat
    OBVIOUS
  <1>2. (Total[j] - 1) \div Chunk >= 0 /\ (Total[j] - 1) \div Chunk \in Int
    BY <1>1
  <1>3. Segments(j) \in Int /\ Segments(j) >= 1
    BY <1>2 DEF Segments
  <1>4. 1 \in Crew(j)
    BY <1>3 DEF Crew, Least
  <1>5. <<j, 1>> \in Worker
    BY <1>4 DEF Worker
  <1> QED
    BY <1>5 DEF Of

\* A worker belongs to one of the transfers.
LEMMA WorkerOfJob == \A s \in Worker : Of(s) \in Job
  BY DEF Worker, Of

\* The workers that fetch can be counted.
LEMMA BusyIsFinite == IsFiniteSet(Busy) /\ Cardinality(Busy) \in Nat
  <1>1. IsFiniteSet(1 .. Workers)
    BY FS_Interval
  <1>2. IsFiniteSet(Job \X (1 .. Workers))
    BY <1>1, FS_Product
  <1>3. Busy \in SUBSET (Job \X (1 .. Workers))
    BY DEF Busy, Worker
  <1>4. IsFiniteSet(Busy)
    BY <1>2, <1>3, FS_Subset
  <1> QED
    BY <1>4, FS_CardinalityType

\* A step that neither takes nor returns a range slot keeps the count.
LEMMA SlotsKept ==
  ASSUME SlotsReturned, Busy' = Busy, slots' = slots PROVE SlotsReturned'
  BY DEF SlotsReturned

\* A worker that gets a slot is counted.
LEMMA SlotTaken ==
  ASSUME SlotsReturned, NEW s \in Worker, s \notin Busy, Busy' = Busy \cup {s}, slots' = slots + 1
  PROVE  SlotsReturned'
  <1>1. Cardinality(Busy \cup {s}) = Cardinality(Busy) + 1
    BY BusyIsFinite, FS_AddElement
  <1> QED
    BY <1>1 DEF SlotsReturned

\* A worker that returns its slot had one.
LEMMA SlotGiven ==
  ASSUME SlotsReturned, NEW s \in Worker, s \in Busy, Busy' = Busy \ {s}, slots' = slots - 1
  PROVE  SlotsReturned' /\ slots' \in Nat /\ slots' <= slots
  <1>1. Cardinality(Busy \ {s}) = Cardinality(Busy) - 1 /\ Cardinality(Busy \ {s}) \in Nat
    BY BusyIsFinite, FS_RemoveElement, FS_CardinalityType
  <1> QED
    BY <1>1, BusyIsFinite DEF SlotsReturned

-----------------------------------------------------------------------------
(* Every step keeps the invariant.                                         *)

\* Nothing is planned at the start.
LEMMA InitIInv == Init => IInv
  <1> SUFFICES ASSUME Init PROVE IInv
    OBVIOUS
  <1>1. TypeOK
    BY DEF Init, TypeOK, Offset
  <1>2. Busy = {}
    BY DEF Init, Busy
  <1>3. SlotsReturned
    BY <1>2, FS_EmptySet DEF Init, SlotsReturned
  <1>4. HoldersRun /\ RangesPlanned /\ RangesApart
    BY WorkerOfJob DEF Init, HoldersRun, Holds, RangesPlanned, RangesApart
  <1>5. BytesAccounted
    BY DEF Init, BytesAccounted
  <1>6. EndsForAReason /\ NilMeansWhole
    BY DEF Init, EndsForAReason, NilMeansWhole
  <1> QED
    BY <1>1, <1>3, <1>4, <1>5, <1>6 DEF IInv

\* Cancelling, beginning and returning leave the ranges alone; a call that returns
\* nil has written what it planned, and planned everything.
LEMMA CallIInv ==
  ASSUME IInv, NEW j \in Job, Cancel(j) \/ Begin(j) \/ Return(j)
  PROVE  IInv'
  <1> USE DEF IInv, Cancel, Begin, Return
  <1>1. TypeOK'
    BY DEF TypeOK
  <1>2. SlotsReturned'
    BY SlotsKept DEF Busy
  <1>3. HoldersRun'
    BY WorkerOfJob DEF TypeOK, HoldersRun, Holds, Running, Joined
  <1>4. RangesPlanned' /\ RangesApart'
    BY DEF RangesPlanned, RangesApart, Planned, Holds
  <1>5. BytesAccounted'
    BY DEF BytesAccounted, Accounted, Holds
  <1>6. EndsForAReason'
    BY DEF EndsForAReason, Done
  <1>7. CASE Cancel(j) \/ Begin(j)
    <2>1. NilMeansWhole'
      BY <1>7 DEF TypeOK, NilMeansWhole
    <2> QED
      BY <1>1, <1>2, <1>3, <1>4, <1>5, <1>6, <2>1
  <1>8. CASE Return(j) /\ (j \in failure \cup asked)
    <2>1. NilMeansWhole'
      BY <1>8 DEF TypeOK, NilMeansWhole
    <2> QED
      BY <1>1, <1>2, <1>3, <1>4, <1>5, <1>6, <2>1
  <1>9. CASE Return(j) /\ j \notin failure /\ j \notin asked
    <2>1. ~Done(j)
      BY <1>9 DEF Done, EndsForAReason
    <2>2. start[j] = Total[j]
      BY <1>9, <2>1 DEF Joined, EndsForAReason, TypeOK
    <2>3. PICK s \in Worker : Of(s) = j
      BY CrewExists
    <2>4. queue[j] = {}
      BY <1>9, <2>1, <2>3 DEF Joined, EndsForAReason
    <2>5. \A b \in Offset(j) : b \in written[j]
      <3> SUFFICES ASSUME NEW b \in Offset(j) PROVE b \in written[j]
        OBVIOUS
      <3>1. b \in 0 .. start[j] - 1
        BY <2>2 DEF Offset
      <3>2. Accounted(j, b)
        BY <3>1 DEF BytesAccounted
      <3>3. \A t \in Worker : Of(t) = j => ~Holds(t)
        BY <1>9 DEF Joined, Holds
      <3> QED
        BY <1>9, <2>4, <3>2, <3>3 DEF Accounted
    <2>6. written[j] = Offset(j)
      BY <2>5 DEF TypeOK
    <2>7. NilMeansWhole'
      BY <1>9, <2>6 DEF TypeOK, NilMeansWhole, Offset
    <2> QED
      BY <1>1, <1>2, <1>3, <1>4, <1>5, <1>6, <2>7
  <1> QED
    BY <1>7, <1>8, <1>9

\* A new range lies behind all planned ones, and its bytes are accounted for.
LEMMA ProduceIInv ==
  ASSUME IInv, NEW j \in Job, Produce(j)
  PROVE  IInv'
  <1> USE DEF IInv, Produce
  <1>1. start[j] \in Nat /\ start[j] < Total[j] /\ Size(j, start[j]) \in Nat \ {0}
        /\ start[j] + Size(j, start[j]) <= Total[j]
    BY SizeFits DEF TypeOK
  <1>2. TypeOK'
    BY <1>1 DEF TypeOK
  <1>3. SlotsReturned'
    BY SlotsKept DEF Busy
  <1>4. HoldersRun' /\ NilMeansWhole'
    BY DEF HoldersRun, NilMeansWhole, Holds, Running
  <1>5. RangesPlanned'
    <2>1. \A k \in Job : start'[k] >= start[k] /\ start[k] <= Total[k] /\ start'[k] \in Nat
      BY <1>1, <1>2 DEF TypeOK
    <2>2. \A k \in Job : \A i \in Nat : Planned(k, i) => Planned(k, i)'
      BY <2>1, SizeFits DEF TypeOK, Planned
    <2>3. \A i \in Nat : i = start[j] => Planned(j, i)'
      BY <1>1, <1>2 DEF TypeOK, Planned
    <2>4. \A k \in Job : \A i \in queue'[k] : Planned(k, i)'
      <3>1. ASSUME NEW k \in Job, NEW i \in queue'[k] PROVE Planned(k, i)'
        <4>1. i \in queue[k] \/ (k = j /\ i = start[j])
          BY DEF TypeOK
        <4>2. i \in Nat
          BY <1>1, <4>1 DEF TypeOK
        <4> QED
          BY <2>2, <2>3, <4>1, <4>2 DEF RangesPlanned
      <3> QED
        BY <3>1
    <2>5. \A s \in Worker : Holds(s)' => Planned(Of(s), item[s])'
      BY <2>2, WorkerOfJob DEF TypeOK, RangesPlanned, Holds
    <2> QED
      BY <2>4, <2>5 DEF RangesPlanned
  <1>6. RangesApart'
    BY <1>1, WorkerOfJob DEF TypeOK, RangesApart, RangesPlanned, Planned, Apart, Holds
  <1>7. BytesAccounted'
    BY <1>1, WorkerOfJob DEF TypeOK, BytesAccounted, Accounted, Bytes, Holds
  <1>8. EndsForAReason'
    BY <1>1 DEF TypeOK, EndsForAReason, Done
  <1> QED
    BY <1>2, <1>3, <1>4, <1>5, <1>6, <1>7, <1>8

\* The producer closes the channel when all is planned, or after a cancellation.
LEMMA ProducerEndsIInv ==
  ASSUME IInv, NEW j \in Job, ProducerEnds(j)
  PROVE  IInv'
  <1> USE DEF IInv, ProducerEnds
  <1>1. TypeOK'
    BY DEF TypeOK
  <1>2. SlotsReturned'
    BY SlotsKept DEF Busy
  <1>3. HoldersRun' /\ NilMeansWhole' /\ RangesPlanned' /\ RangesApart'
    BY DEF HoldersRun, NilMeansWhole, Holds, Running, RangesPlanned, RangesApart, Planned
  <1>4. BytesAccounted'
    BY DEF BytesAccounted, Accounted, Holds
  <1>5. EndsForAReason'
    BY DEF EndsForAReason, Done
  <1> QED
    BY <1>1, <1>2, <1>3, <1>4, <1>5

\* A range goes from the channel to one worker.
LEMMA TakeItemIInv ==
  ASSUME IInv, NEW s \in Worker, TakeItem(s)
  PROVE  IInv'
  <1> USE DEF IInv, TakeItem
  <1>1. PICK i \in queue[Of(s)] :
          queue' = [queue EXCEPT ![Of(s)] = @ \ {i}] /\ item' = [item EXCEPT ![s] = i]
    OBVIOUS
  <1>2. Of(s) \in Job /\ i \in Nat /\ item'[s] = i
    BY <1>1, WorkerOfJob DEF TypeOK
  <1>3. TypeOK'
    BY <1>1, <1>2 DEF TypeOK
  <1>4. Busy' = Busy
    BY DEF TypeOK, Busy
  <1>5. SlotsReturned'
    BY <1>4, SlotsKept
  <1>6. HoldersRun' /\ NilMeansWhole'
    BY DEF TypeOK, HoldersRun, NilMeansWhole, Holds, Running
  <1>7. RangesPlanned'
    BY <1>1, <1>2, WorkerOfJob DEF TypeOK, RangesPlanned, Planned, Holds
  <1>8. RangesApart'
    BY <1>1, <1>2, WorkerOfJob DEF TypeOK, RangesApart, Apart, Holds
  <1>9. BytesAccounted'
    <2> SUFFICES ASSUME NEW j \in Job, NEW b \in 0 .. start[j] - 1
                 PROVE  Accounted(j, b)'
      BY DEF BytesAccounted
    <2>1. Accounted(j, b)
      BY DEF BytesAccounted
    <2>2. Holds(s)' /\ \A t \in Worker \ {s} : Holds(t) => Holds(t)' /\ item'[t] = item[t]
      BY DEF TypeOK, Holds
    <2>3. \A k \in Job : \A x \in queue[k] : x \in queue'[k] \/ (k = Of(s) /\ x = i)
      BY <1>1, <1>2 DEF TypeOK
    <2>4. ~Holds(s) /\ UNCHANGED <<written, failure>>
      BY DEF TypeOK, Holds
    <2> HIDE DEF IInv, TakeItem, At, Running
    <2>5. CASE b \in written[j] \/ j \in failure
      BY <2>4, <2>5 DEF Accounted
    <2>6. ASSUME NEW x \in queue[j], b \in Bytes(j, x) PROVE Accounted(j, b)'
      <3>1. CASE x \in queue'[j]
        BY <2>6, <3>1 DEF Accounted
      <3>2. CASE j = Of(s) /\ x = i
        BY <1>2, <2>2, <2>6, <3>2 DEF Accounted
      <3> QED
        BY <2>3, <3>1, <3>2
    <2>7. ASSUME NEW t \in Worker, Of(t) = j, Holds(t), b \in Bytes(j, item[t])
          PROVE  Accounted(j, b)'
      BY <2>2, <2>4, <2>7 DEF Accounted
    <2> QED
      BY <2>1, <2>5, <2>6, <2>7 DEF Accounted
  <1>10. EndsForAReason'
    BY <1>1, <1>2, WorkerOfJob DEF TypeOK, EndsForAReason, Done
  <1> QED
    BY <1>3, <1>5, <1>6, <1>7, <1>8, <1>9, <1>10

\* A worker without a range ends.
LEMMA WorkerEndsIInv ==
  ASSUME IInv, NEW s \in Worker, WorkerEnds(s)
  PROVE  IInv'
  <1> USE DEF IInv, WorkerEnds
  <1>1. TypeOK'
    BY DEF TypeOK
  <1>2. Busy' = Busy
    BY DEF TypeOK, Busy
  <1>3. SlotsReturned'
    BY <1>2, SlotsKept
  <1>4. \A t \in Worker : Holds(t)' = Holds(t)
    BY DEF TypeOK, Holds
  <1>5. HoldersRun' /\ NilMeansWhole' /\ RangesPlanned' /\ RangesApart'
    BY <1>4 DEF HoldersRun, NilMeansWhole, Running, RangesPlanned, RangesApart, Planned
  <1>6. BytesAccounted'
    BY <1>4 DEF BytesAccounted, Accounted
  <1>7. EndsForAReason'
    BY DEF TypeOK, EndsForAReason, Done
  <1> QED
    BY <1>1, <1>3, <1>5, <1>6, <1>7

\* Waiting for a slot and failing keep the range in the worker's hand.
LEMMA HoldingIInv ==
  ASSUME IInv, NEW s \in Worker, TakeSlot(s) \/ SlotMissed(s) \/ FetchFails(s)
  PROVE  IInv'
  <1> USE DEF IInv, TakeSlot, SlotMissed, FetchFails
  <1>1. Of(s) \in Job /\ Holds(s) /\ \A t \in Worker : Holds(t)' = Holds(t)
    BY WorkerOfJob DEF TypeOK, Holds
  <1>2. item[s] \in Offset(Of(s))
    BY <1>1, SizeFits DEF RangesPlanned, Planned, TypeOK, Offset
  <1>3. SlotsReturned' /\ slots' \in 0 .. RangeSlots
    <2>1. CASE TakeSlot(s)
      <3>1. s \notin Busy /\ Busy' = Busy \cup {s}
        BY <2>1 DEF TypeOK, Busy
      <3> QED
        BY <2>1, <3>1, SlotTaken DEF TypeOK
    <2>2. CASE SlotMissed(s)
      <3>1. Busy' = Busy
        BY <2>2 DEF TypeOK, Busy
      <3> QED
        BY <2>2, <3>1, SlotsKept DEF TypeOK
    <2>3. CASE FetchFails(s)
      <3>1. s \in Busy /\ Busy' = Busy \ {s}
        BY <2>3 DEF TypeOK, Busy
      <3> QED
        BY <2>3, <3>1, SlotGiven DEF TypeOK
    <2> QED
      BY <2>1, <2>2, <2>3
  <1>4. TypeOK' /\ \A j \in Job : written[j] \subseteq written'[j]
    BY <1>1, <1>2, <1>3 DEF TypeOK, Offset
  <1>5. HoldersRun' /\ RangesPlanned' /\ RangesApart'
    BY <1>1 DEF HoldersRun, Running, RangesPlanned, RangesApart, Planned
  <1>6. NilMeansWhole'
    BY <1>1, <1>2 DEF TypeOK, NilMeansWhole, HoldersRun, Running
  <1>7. BytesAccounted'
    BY <1>1, <1>4 DEF BytesAccounted, Accounted
  <1>8. EndsForAReason'
    BY DEF TypeOK, EndsForAReason, Done
  <1> QED
    BY <1>3, <1>4, <1>5, <1>6, <1>7, <1>8

\* The bytes of a fetched range are on disk before the worker lets go of it.
LEMMA FetchedIInv ==
  ASSUME IInv, NEW s \in Worker, Fetched(s)
  PROVE  IInv'
  <1> USE DEF IInv, Fetched
  <1>1. Of(s) \in Job /\ Holds(s) /\ item[s] \in Nat
    BY WorkerOfJob DEF TypeOK, Holds
  <1>2. item[s] + Size(Of(s), item[s]) <= Total[Of(s)] /\ Size(Of(s), item[s]) \in Nat
    BY <1>1, SizeFits DEF RangesPlanned, Planned, TypeOK
  <1>3. Bytes(Of(s), item[s]) \subseteq Offset(Of(s))
    BY <1>1, <1>2 DEF Bytes, Offset
  <1>4. s \in Busy /\ Busy' = Busy \ {s}
    BY DEF TypeOK, Busy
  <1>5. SlotsReturned' /\ slots' \in Nat /\ slots' <= slots
    BY <1>4, SlotGiven
  <1>6. TypeOK'
    BY <1>1, <1>3, <1>5 DEF TypeOK, Offset
  <1>7. \A t \in Worker : Holds(t)' = (Holds(t) /\ t # s)
    BY DEF TypeOK, Holds
  <1>8. HoldersRun' /\ RangesPlanned' /\ RangesApart'
    BY <1>7 DEF HoldersRun, Running, RangesPlanned, RangesApart, Planned
  <1>9. NilMeansWhole'
    BY <1>1, <1>3 DEF TypeOK, NilMeansWhole, HoldersRun, Running
  <1>10. BytesAccounted'
    <2>1. \A j \in Job : written'[j] = IF j = Of(s) THEN written[j] \cup Bytes(j, item[s]) ELSE written[j]
      BY <1>1 DEF TypeOK
    <2>2. ASSUME NEW j \in Job, NEW b \in 0 .. start[j] - 1 PROVE Accounted(j, b)'
      <3>1. Accounted(j, b)
        BY DEF BytesAccounted
      <3>2. CASE b \in Bytes(j, item[s]) /\ Of(s) = j
        BY <2>1, <3>2 DEF Accounted
      <3>3. CASE ~(b \in Bytes(j, item[s]) /\ Of(s) = j)
        <4>1. CASE b \in written[j] \/ j \in failure \/ \E i \in queue[j] : b \in Bytes(j, i)
          BY <2>1, <4>1 DEF Accounted
        <4>2. CASE \E t \in Worker : Of(t) = j /\ Holds(t) /\ b \in Bytes(j, item[t])
          BY <1>7, <3>3, <4>2 DEF Accounted
        <4> QED
          BY <3>1, <4>1, <4>2 DEF Accounted
      <3> QED
        BY <3>2, <3>3
    <2>3. start' = start
      OBVIOUS
    <2> QED
      BY <2>2, <2>3 DEF BytesAccounted
  <1>11. EndsForAReason'
    BY DEF TypeOK, EndsForAReason, Done
  <1> QED
    BY <1>5, <1>6, <1>8, <1>9, <1>10, <1>11

\* A failed worker leaves its range to the failure it recorded.
LEMMA WorkerFailsIInv ==
  ASSUME IInv, NEW s \in Worker, WorkerFails(s)
  PROVE  IInv'
  <1> USE DEF IInv, WorkerFails
  <1>1. Of(s) \in Job
    BY WorkerOfJob
  <1>2. TypeOK'
    BY <1>1 DEF TypeOK
  <1>3. Busy' = Busy
    BY DEF TypeOK, Busy
  <1>4. SlotsReturned'
    BY <1>3, SlotsKept
  <1>5. \A t \in Worker : Holds(t)' = (Holds(t) /\ t # s)
    BY DEF TypeOK, Holds
  <1>6. HoldersRun' /\ NilMeansWhole' /\ RangesPlanned' /\ RangesApart'
    BY <1>5 DEF HoldersRun, NilMeansWhole, Running, RangesPlanned, RangesApart, Planned
  <1>7. BytesAccounted'
    BY <1>1, <1>5 DEF BytesAccounted, Accounted
  <1>8. EndsForAReason'
    BY <1>1 DEF TypeOK, EndsForAReason, Done
  <1> QED
    BY <1>2, <1>4, <1>6, <1>7, <1>8

\* The invariant is inductive.
LEMMA NextIInv == IInv /\ [Next]_vars => IInv'
  <1> SUFFICES ASSUME IInv, [Next]_vars PROVE IInv'
    OBVIOUS
  <1>1. CASE \E j \in Job : Cancel(j) \/ Begin(j) \/ Produce(j) \/ ProducerEnds(j) \/ Return(j)
    BY <1>1, CallIInv, ProduceIInv, ProducerEndsIInv
  <1>2. CASE \E s \in Worker : Work(s) \/ Fetched(s)
    BY <1>2, TakeItemIInv, WorkerEndsIInv, HoldingIInv, WorkerFailsIInv, FetchedIInv DEF Work
  <1>3. CASE UNCHANGED vars
    <2>1. TypeOK' /\ SlotsReturned' /\ HoldersRun' /\ RangesPlanned'
      BY <1>3 DEF vars, IInv, TypeOK, SlotsReturned, Busy, HoldersRun, Holds, Running, RangesPlanned, Planned
    <2>2. RangesApart' /\ BytesAccounted' /\ EndsForAReason' /\ NilMeansWhole'
      BY <1>3 DEF vars, IInv, RangesApart, Holds, BytesAccounted, Accounted, EndsForAReason, Done, NilMeansWhole
    <2> QED
      BY <2>1, <2>2 DEF IInv
  <1> QED
    BY <1>1, <1>2, <1>3 DEF Next, Returned

-----------------------------------------------------------------------------
(* The theorems.                                                           *)

\* The inductive invariant holds in every reachable state.
THEOREM RangeInvariant == Spec => []IInv
  BY InitIInv, NextIInv, PTL DEF Spec

\* Types, the bounds of the slots and of the written offsets included.
THEOREM RangeTypes == Spec => []TypeOK
  <1>1. IInv => TypeOK
    BY DEF IInv
  <1> QED
    BY <1>1, RangeInvariant, PTL

\* downloadChunked returns nil for a complete file only.
THEOREM NilIsWhole == Spec => []NilMeansWhole
  <1>1. IInv => NilMeansWhole
    BY DEF IInv
  <1> QED
    BY <1>1, RangeInvariant, PTL

\* Nothing writes to the part file once downloadChunked returned.
THEOREM ReturnIsQuiet == Spec => []QuietAfterReturn
  <1>1. IInv => QuietAfterReturn
    BY WorkerOfJob DEF IInv, HoldersRun, Holds, Running, QuietAfterReturn
  <1> QED
    BY <1>1, RangeInvariant, PTL

\* Writes at the same time never overlap and stay within the file.
THEOREM WritesStayApart == Spec => []WritesApart
  <1>1. IInv => WritesApart
    <2> SUFFICES ASSUME IInv PROVE WritesApart
      OBVIOUS
    <2>1. ASSUME NEW s \in Worker, worker[s] = "fetching"
          PROVE  /\ Holds(s) /\ item[s] \in Nat /\ Size(Of(s), item[s]) \in Nat
                 /\ item[s] + Size(Of(s), item[s]) <= Total[Of(s)]
      BY <2>1, WorkerOfJob, SizeFits DEF IInv, TypeOK, Holds, RangesPlanned, Planned
    <2>2. ASSUME NEW s \in Worker, NEW t \in Worker, s # t, Of(s) = Of(t),
                 worker[s] = "fetching", worker[t] = "fetching"
          PROVE  Bytes(Of(s), item[s]) \cap Bytes(Of(t), item[t]) = {}
      <3>1. Apart(Of(s), item[s], item[t])
        BY <2>1, <2>2 DEF IInv, RangesApart
      <3> QED
        BY <2>1, <2>2, <3>1 DEF Apart, Bytes
    <2>3. ASSUME NEW s \in Worker, worker[s] = "fetching"
          PROVE  Bytes(Of(s), item[s]) \subseteq Offset(Of(s))
      BY <2>1, <2>3, WorkerOfJob DEF Bytes, Offset
    <2> QED
      BY <2>2, <2>3 DEF WritesApart
  <1> QED
    BY <1>1, RangeInvariant, PTL

\* Every range slot comes back, on the failing paths too.
THEOREM RangeSlotsReturn == Spec => []SlotsReturned
  <1>1. IInv => SlotsReturned
    BY DEF IInv
  <1> QED
    BY <1>1, RangeInvariant, PTL
-----------------------------------------------------------------------------
(* Each call is a Transfer.                                                *)

\* A step that leaves the result of a call and what it wrote alone is none of its own.
LEMMA OtherCall ==
  ASSUME NEW j \in Job, result'[j] = result[j], written'[j] = written[j]
  PROVE  [Call(j)!Next]_(Call(j)!vars)
  BY DEF Call!vars, Progress, Offset

\* Bytes are only added, by workers of a call that runs and within its file: it is
\* filled once, and nobody unfills it.
LEMMA WritingFills ==
  ASSUME IInv, TypeOK', NEW j \in Job, result'[j] = result[j],
         written[j] \subseteq written'[j],
         written'[j] = written[j] \/ Running(j)
  PROVE  [Call(j)!Next]_(Call(j)!vars)
  <1>1. written[j] \subseteq Offset(j) /\ written'[j] \subseteq Offset(j)
    BY DEF IInv, TypeOK, Offset
  <1>2. CASE written'[j] = written[j]
    BY <1>2, OtherCall
  <1>3. CASE Running(j) /\ (written'[j] = Offset(j)) = (written[j] = Offset(j))
    BY <1>3 DEF Call!vars, Progress, Offset
  <1>4. CASE Running(j) /\ written'[j] = Offset(j)
    BY <1>4 DEF Call!Next, Call!Fill, Progress, Running, Offset
  <1>5. written[j] = Offset(j) => written'[j] = Offset(j)
    BY <1>1
  <1> QED
    BY <1>2, <1>3, <1>4, <1>5

\* The call begins, or ends for the file or for nothing.
LEMMA CallReturnsOnce ==
  ASSUME IInv, IInv', NEW j \in Job, NEW k \in Job, Begin(k) \/ Return(k)
  PROVE  [Call(j)!Next]_(Call(j)!vars)
  <1> USE DEF IInv, TypeOK
  <1>1. written' = written
    BY DEF Begin, Return, workVars
  <1>2. CASE j # k
    BY <1>1, <1>2, OtherCall DEF Begin, Return
  <1>3. CASE j = k /\ Begin(k)
    BY <1>1, <1>3 DEF Begin, Call!Next, Call!Begin, Call!Fail, Progress, Offset
  <1>4. CASE j = k /\ Return(k)
    <2>1. Progress(j) = "running"
      BY <1>4 DEF Return, Running, Progress
    <2>2. CASE result'[j] = "error"
      BY <1>1, <2>1, <2>2 DEF Call!Next, Call!Fail, Progress, Offset
    <2>3. CASE result'[j] = "nil"
      <3>1. written'[j] = Offset(j)'
        BY <2>3 DEF NilMeansWhole
      <3> QED
        BY <2>1, <2>3, <3>1 DEF Call!Next, Call!Succeed, Progress
    <2> QED
      BY <1>4, <2>2, <2>3 DEF Return
  <1> QED
    BY <1>2, <1>3, <1>4

\* Every step is one of the call, or none.
LEMMA NextTransfers ==
  ASSUME IInv, IInv', [Next]_vars, NEW j \in Job
  PROVE  [Call(j)!Next]_(Call(j)!vars)
  <1>1. CASE UNCHANGED vars
    BY <1>1, OtherCall DEF vars, jobVars, workVars
  <1>2. ASSUME NEW k \in Job, Cancel(k) \/ Produce(k) \/ ProducerEnds(k)
        PROVE  [Call(j)!Next]_(Call(j)!vars)
    BY <1>2, OtherCall DEF Cancel, Produce, ProducerEnds, jobVars, workVars
  <1>3. ASSUME NEW k \in Job, Begin(k) \/ Return(k) PROVE [Call(j)!Next]_(Call(j)!vars)
    BY <1>3, CallReturnsOnce
  <1>4. ASSUME NEW s \in Worker, TakeItem(s) \/ WorkerEnds(s) \/ TakeSlot(s) \/ SlotMissed(s) \/ WorkerFails(s)
        PROVE  [Call(j)!Next]_(Call(j)!vars)
    BY <1>4, OtherCall DEF TakeItem, WorkerEnds, TakeSlot, SlotMissed, WorkerFails, jobVars, workVars
  <1>5. ASSUME NEW s \in Worker, Fetched(s) \/ FetchFails(s)
        PROVE  [Call(j)!Next]_(Call(j)!vars)
    <2>1. Running(Of(s)) /\ Of(s) \in Job
      BY <1>5, WorkerOfJob DEF IInv, HoldersRun, Holds, Fetched, FetchFails, At
    <2>2. result' = result
      BY <1>5 DEF Fetched, FetchFails, jobVars
    <2>3. PICK more : written' = [written EXCEPT ![Of(s)] = @ \cup more]
      BY <1>5 DEF Fetched, FetchFails
    <2>4. written[j] \subseteq written'[j] /\ (written'[j] = written[j] \/ j = Of(s))
      BY <2>1, <2>3 DEF IInv, TypeOK
    <2> QED
      BY <2>1, <2>2, <2>4, WritingFills DEF IInv
  <1> QED
    BY <1>1, <1>2, <1>3, <1>4, <1>5 DEF Next, Work, Returned

\* Whatever order the ranges come in, which fails and who is cancelled, a call is one
\* Transfer to its job.
THEOREM RangesAreATransfer == Spec => ImplementsTransfer
  <1>1. Init => \A j \in Job : Call(j)!Init
    <2> SUFFICES ASSUME Init, NEW j \in Job PROVE Call(j)!Init
      OBVIOUS
    <2>1. 0 \in Offset(j)
      BY RangesAreFinite DEF Offset
    <2> QED
      BY <2>1 DEF Init, Call!Init, Progress
  <1>2. IInv /\ IInv' /\ [Next]_vars => \A j \in Job : [Call(j)!Next]_(Call(j)!vars)
    BY NextTransfers
  <1>3. IInv /\ IInv' /\ [Next]_vars => [\A j \in Job : [Call(j)!Next]_(Call(j)!vars)]_vars
    BY <1>2
  <1> QED
    BY <1>1, <1>3, RangeInvariant, PTL DEF Spec, ImplementsTransfer
=============================================================================
