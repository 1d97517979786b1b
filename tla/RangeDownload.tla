--------------------------- MODULE RangeDownload ---------------------------
(***************************************************************************)
(* downloadChunked: the transfer of one job split into ranges.  A producer *)
(* plans the ranges into a bounded channel, workers fetch them and write   *)
(* each at its own offset of the part file, and range slots bound the      *)
(* requests of all jobs together.  The first failure cancels the rest.     *)
(***************************************************************************)
EXTENDS Integers, FiniteSets

CONSTANTS
  Job,         \* the transfers under way
  Total,       \* the length of each file in units of bytes
  Chunk,       \* m.chunkSize in the same unit
  Workers,     \* m.chunkWorkers
  RangeSlots   \* the capacity of m.rangeSlots

ASSUME RangesAreFinite ==
  /\ IsFiniteSet(Job)
  /\ Total \in [Job -> Nat \ {0}]
  /\ Chunk \in Nat \ {0} /\ Workers \in Nat \ {0} /\ RangeSlots \in Nat \ {0}

VARIABLES
  result,     \* what downloadChunked returned, or where it is
  asked,      \* jobs whose context is cancelled from outside
  cancelled,  \* jobs whose workerContext was cancelled by a failure
  failure,    \* jobs with a recorded failure
  start,      \* where the planner goes on
  queue,      \* the starts of the ranges in the channel
  closed,     \* jobs whose producer has returned
  worker,     \* what a worker is doing
  item,       \* the start of the range it is at
  slots,      \* occupied m.rangeSlots
  written     \* the offsets of the part file that hold their bytes

jobVars == <<result, asked, cancelled, failure>>
planVars == <<start, queue, closed>>
workVars == <<worker, item, slots, written>>
vars == <<jobVars, planVars, workVars>>

Least(a, b) == IF a <= b THEN a ELSE b

\* segmentCount, and the workers the job really starts.
Segments(j) == (Total[j] - 1) \div Chunk + 1
Crew(j) == 1 .. Least(Workers, Segments(j))
Worker == {s \in Job \X (1 .. Workers) : s[2] \in Crew(s[1])}
Of(s) == s[1]

\* The length of the range the planner yields at s.
Size(j, s) == Least(Chunk, Total[j] - s)
Bytes(j, s) == s .. s + Size(j, s) - 1
Offset(j) == 0 .. Total[j] - 1

TypeOK ==
  /\ result \in [Job -> {"new", "running", "nil", "error"}]
  /\ asked \subseteq Job /\ cancelled \subseteq Job /\ failure \subseteq Job /\ closed \subseteq Job
  /\ start \in [Job -> Nat]
  /\ queue \in [Job -> SUBSET Nat]
  /\ worker \in [Worker -> {"idle", "queued", "fetching", "failing", "gone"}]
  /\ item \in [Worker -> Nat]
  /\ slots \in 0 .. RangeSlots
  /\ written \in [Job -> SUBSET Nat]
  /\ \A j \in Job : start[j] <= Total[j] /\ written[j] \subseteq Offset(j)

Init ==
  /\ result = [j \in Job |-> "new"]
  /\ asked = {} /\ cancelled = {} /\ failure = {} /\ closed = {}
  /\ start = [j \in Job |-> 0]
  /\ queue = [j \in Job |-> {}]
  /\ worker = [s \in Worker |-> "idle"]
  /\ item = [s \in Worker |-> 0]
  /\ slots = 0
  /\ written = [j \in Job |-> {}]

-----------------------------------------------------------------------------
(* The call and the producer.                                              *)

Done(j) == j \in asked \/ j \in cancelled

\* The job is cancelled by the user or by a shutdown.
Cancel(j) ==
  /\ j \notin asked
  /\ asked' = asked \cup {j}
  /\ UNCHANGED <<result, cancelled, failure, planVars, workVars>>

\* A cancelled context or a failing Truncate ends the call before it starts.
Begin(j) ==
  /\ result[j] = "new"
  /\ \/ result' = [result EXCEPT ![j] = "error"]
     \/ j \notin asked /\ result' = [result EXCEPT ![j] = "running"]
  /\ UNCHANGED <<asked, cancelled, failure, planVars, workVars>>

Running(j) == result[j] = "running"

Produce(j) ==
  /\ Running(j) /\ j \notin closed
  /\ start[j] < Total[j]
  /\ Cardinality(queue[j]) < Cardinality(Crew(j))
  /\ queue' = [queue EXCEPT ![j] = @ \cup {start[j]}]
  /\ start' = [start EXCEPT ![j] = @ + Size(j, @)]
  /\ UNCHANGED <<jobVars, closed, workVars>>

ProducerEnds(j) ==
  /\ Running(j) /\ j \notin closed
  /\ start[j] >= Total[j] \/ Done(j)
  /\ closed' = closed \cup {j}
  /\ UNCHANGED <<jobVars, start, queue, workVars>>

-----------------------------------------------------------------------------
(* The workers.                                                            *)

At(s, here, next) == worker[s] = here /\ worker' = [worker EXCEPT ![s] = next]

\* The channel is first in, first out; the ranges were sent in their order.
TakeItem(s) ==
  /\ Running(Of(s))
  /\ At(s, "idle", "queued")
  /\ \E i \in queue[Of(s)] :
       /\ \A k \in queue[Of(s)] : i <= k
       /\ queue' = [queue EXCEPT ![Of(s)] = @ \ {i}]
       /\ item' = [item EXCEPT ![s] = i]
  /\ UNCHANGED <<jobVars, start, closed, slots, written>>

WorkerEnds(s) ==
  /\ Running(Of(s))
  /\ At(s, "idle", "gone")
  /\ Done(Of(s)) \/ (Of(s) \in closed /\ queue[Of(s)] = {})
  /\ UNCHANGED <<jobVars, planVars, item, slots, written>>

TakeSlot(s) ==
  /\ At(s, "queued", "fetching")
  /\ slots < RangeSlots
  /\ slots' = slots + 1
  /\ UNCHANGED <<jobVars, planVars, item, written>>

\* Faulty: the select waits for a slot only.
SlotMissedNever(s) == FALSE /\ UNCHANGED vars

SlotMissed(s) ==
  /\ At(s, "queued", "failing")
  /\ Done(Of(s))
  /\ UNCHANGED <<jobVars, planVars, item, slots, written>>

\* CopyN returned with the bytes of the range at their offsets.
Fetched(s) ==
  /\ At(s, "fetching", "idle")
  /\ written' = [written EXCEPT ![Of(s)] = @ \cup Bytes(Of(s), item[s])]
  /\ slots' = slots - 1
  /\ UNCHANGED <<jobVars, planVars, item>>

\* Faulty: the deferred release is left out on the error paths.
FetchFailsKeeping(s) ==
  /\ At(s, "fetching", "failing")
  /\ UNCHANGED <<jobVars, planVars, item, slots, written>>

\* A refused request, a wrong Content-Range, a connection that broke after some
\* bytes, or the context.
FetchFails(s) ==
  /\ At(s, "fetching", "failing")
  /\ \E more \in {{}, {item[s]}} : written' = [written EXCEPT ![Of(s)] = @ \cup more]
  /\ slots' = slots - 1
  /\ UNCHANGED <<jobVars, planVars, item>>

\* Faulty: the failed worker leaves without a word.
WorkerFailsSilently(s) ==
  /\ At(s, "failing", "gone")
  /\ UNCHANGED <<jobVars, planVars, item, slots, written>>

\* failureOnce keeps the first error and cancels the others.
WorkerFails(s) ==
  /\ At(s, "failing", "gone")
  /\ failure' = failure \cup {Of(s)}
  /\ cancelled' = IF Of(s) \in failure THEN cancelled ELSE cancelled \cup {Of(s)}
  /\ UNCHANGED <<result, asked, planVars, item, slots, written>>

\* Faulty: the call returns as soon as a failure is known.
JoinedOrFailed(j) ==
  \/ j \in failure
  \/ j \in closed /\ \A s \in Worker : Of(s) = j => worker[s] = "gone"

\* workers.Wait and <-producerDone.
Joined(j) == j \in closed /\ \A s \in Worker : Of(s) = j => worker[s] = "gone"

\* The first failure, else the context's error, else nil.
Return(j) ==
  /\ Running(j)
  /\ Joined(j)
  /\ result' = [result EXCEPT ![j] = IF j \in failure \cup asked THEN "error" ELSE "nil"]
  /\ UNCHANGED <<asked, cancelled, failure, planVars, workVars>>

Work(s) ==
  \/ TakeItem(s) \/ WorkerEnds(s) \/ TakeSlot(s) \/ SlotMissed(s)
  \/ FetchFails(s) \/ WorkerFails(s)

\* Every call has returned: the jobs go on in DownloadManager.
Returned ==
  /\ \A j \in Job : result[j] \in {"nil", "error"}
  /\ UNCHANGED vars

Next ==
  \/ \E j \in Job : Cancel(j) \/ Begin(j) \/ Produce(j) \/ ProducerEnds(j) \/ Return(j)
  \/ \E s \in Worker : Work(s) \/ Fetched(s)
  \/ Returned

Spec == Init /\ [][Next]_vars

\* Goroutines run; a transfer may stall for ever unless its context is done.
FairSpec ==
  /\ Spec
  /\ \A j \in Job : WF_vars(Begin(j)) /\ WF_vars(Produce(j) \/ ProducerEnds(j)) /\ WF_vars(Return(j))
  /\ \A s \in Worker : WF_vars(Work(s) /\ (worker[s] = "fetching" => Done(Of(s))))

-----------------------------------------------------------------------------
(* Properties.                                                             *)

\* nil means the whole file: every byte was written, whichever worker failed, was
\* cancelled or found the channel closed.
NilMeansWhole == \A j \in Job : result[j] = "nil" => written[j] = Offset(j)

\* No worker writes to the part file or holds a range slot once the call returned:
\* the caller may sync, close and rename it.
QuietAfterReturn ==
  \A s \in Worker : result[Of(s)] \in {"nil", "error"} => worker[s] \notin {"queued", "fetching"}

\* Two workers never write the same byte, and none writes past the end: ranges of
\* every length of the file, a short last one included, fit together.
WritesApart ==
  /\ \A s, t \in Worker : s # t /\ Of(s) = Of(t) /\ worker[s] = "fetching" /\ worker[t] = "fetching" =>
       Bytes(Of(s), item[s]) \cap Bytes(Of(t), item[t]) = {}
  /\ \A s \in Worker : worker[s] = "fetching" => Bytes(Of(s), item[s]) \subseteq Offset(Of(s))

\* The range slots all transfers share come back on every path, the failing ones
\* included: the occupied ones are those of the workers that fetch.
Busy == {s \in Worker : worker[s] = "fetching"}
SlotsReturned == slots = Cardinality(Busy)

\* A transfer that was cancelled, or of which a range failed, returns although others
\* hold every range slot and stall, and although its producer sits before a full
\* channel.
CallReturns == \A j \in Job : j \in asked \cup failure ~> result[j] \in {"nil", "error"}

\* Each call as its job sees it.
Progress(j) == IF result[j] = "new" THEN "before" ELSE IF result[j] = "error" THEN "over" ELSE result[j]

Call(j) == INSTANCE Transfer WITH
  call <- Progress(j), whole <- written[j] = Offset(j)

\* To its job, a transfer in ranges is one call that fills the part file while it runs
\* and leaves it alone afterwards, whatever order the ranges come in.
ImplementsTransfer ==
  /\ \A j \in Job : Call(j)!Init
  /\ [][\A j \in Job : [Call(j)!Next]_(Call(j)!vars)]_vars

-----------------------------------------------------------------------------
(* The inductive invariant behind the safety properties.                   *)

\* A worker with a range in hand belongs to a call that runs.
Holds(s) == worker[s] \in {"queued", "fetching", "failing"}
HoldersRun == \A s \in Worker : Holds(s) => Running(Of(s))

\* A range that lies before what the planner has still to yield.
Planned(j, i) == i < start[j] /\ i + Size(j, i) <= start[j]
Apart(j, i, k) == i + Size(j, i) <= k \/ k + Size(j, k) <= i

RangesPlanned ==
  /\ \A j \in Job : \A i \in queue[j] : Planned(j, i)
  /\ \A s \in Worker : Holds(s) => Planned(Of(s), item[s])

RangesApart ==
  /\ \A j \in Job : \A i, k \in queue[j] : i # k => Apart(j, i, k)
  /\ \A s \in Worker : Holds(s) => \A i \in queue[Of(s)] : Apart(Of(s), i, item[s])
  /\ \A s, t \in Worker : s # t /\ Of(s) = Of(t) /\ Holds(s) /\ Holds(t) => Apart(Of(s), item[s], item[t])

\* A planned byte is written, in the channel, with a worker, or given up.
Accounted(j, b) ==
  \/ b \in written[j] \/ j \in failure
  \/ \E i \in queue[j] : b \in Bytes(j, i)
  \/ \E s \in Worker : Of(s) = j /\ Holds(s) /\ b \in Bytes(j, item[s])
BytesAccounted == \A j \in Job : \A b \in 0 .. start[j] - 1 : Accounted(j, b)

EndsForAReason ==
  /\ cancelled = failure
  /\ \A j \in closed : start[j] >= Total[j] \/ Done(j)
  /\ \A s \in Worker : worker[s] = "gone" => Done(Of(s)) \/ (Of(s) \in closed /\ queue[Of(s)] = {})

IInv ==
  /\ TypeOK /\ SlotsReturned /\ HoldersRun /\ RangesPlanned /\ RangesApart
  /\ BytesAccounted /\ EndsForAReason /\ NilMeansWhole

=============================================================================
