--------------------------- MODULE StructuredLog ----------------------------
(***************************************************************************)
(* The bounded log (runtime/structured_log.py): BoundedLogBuffer, the      *)
(* JsonlSink it is drained to, and the job tree read back from what was    *)
(* logged.                                                                 *)
(*                                                                         *)
(* A record is its category, and protected ones are numbered in the order  *)
(* they were accepted in.  Records that are refused for what they contain, *)
(* and the rotation of the files they end in, change nothing here.         *)
(***************************************************************************)
EXTENDS Integers, SequencesExt

CONSTANTS
  Capacity,     (* capacity                                                *)
  Limit,        (* of drain()                                              *)
  MaxEnqueues   (* bound: calls of enqueue()                               *)

VARIABLES
  records,      (* the deque                                               *)
  dropped,      (* by category                                             *)
  enqueues,     (* bound                                                   *)
  (* History.                                                              *)
  accepted,     (* protected records that enqueue() took                   *)
  written,      (* the protected ones that the sink wrote                  *)
  lost,         (* and those it was given and did not write                *)
  refused       (* LogBackpressure was raised                              *)

vars == <<records, dropped, enqueues, accepted, written, lost, refused>>

Protected(r) == r.category \in {"structural", "error"}

Init ==
  /\ records = <<>> /\ dropped = [debug |-> 0, metric |-> 0]
  /\ enqueues = 0
  /\ accepted = 0 /\ written = {} /\ lost = {} /\ refused = FALSE

(* debug records yield at 80 % of the capacity, metrics at 90 %.           *)
Crowded(category) ==
  \/ category = "debug" /\ 10 * Len(records) >= 8 * Capacity
  \/ category = "metric" /\ 10 * Len(records) >= 9 * Capacity

Record(category) ==
  [category |-> category, number |-> IF Protected([category |-> category]) THEN accepted + 1 ELSE 0]

(* enqueue(), with room.                                                   *)
Enqueue(category) ==
  /\ enqueues < MaxEnqueues /\ ~Crowded(category) /\ Len(records) < Capacity
  /\ enqueues' = enqueues + 1
  /\ records' = Append(records, Record(category))
  /\ accepted' = accepted + IF Protected([category |-> category]) THEN 1 ELSE 0
  /\ UNCHANGED <<dropped, written, lost, refused>>

DropNew(category) ==
  /\ enqueues < MaxEnqueues /\ Crowded(category)
  /\ enqueues' = enqueues + 1
  /\ dropped' = [dropped EXCEPT ![category] = @ + 1]
  /\ UNCHANGED <<records, accepted, written, lost, refused>>

(* Mutant: the oldest record goes, whichever it is.                        *)
EvictOldest ==
  IF \A i \in DOMAIN records : Protected(records[i]) THEN 0 ELSE 1

(* The record that a protected one replaces; 0: there is none.             *)
EvictIndex == SelectInSeq(records, LAMBDA r : ~Protected(r))

(* A full buffer: a protected record takes the place of the oldest that is *)
(* not; if all are, LogBackpressure is raised.                             *)
Displace(category) ==
  /\ enqueues < MaxEnqueues /\ Len(records) >= Capacity
  /\ Protected([category |-> category])
  /\ enqueues' = enqueues + 1
  /\ IF EvictIndex = 0
     THEN refused' = TRUE /\ UNCHANGED <<records, dropped, accepted>>
     ELSE /\ records' = Append(RemoveAt(records, EvictIndex), Record(category))
          /\ dropped' = IF Protected(records[EvictIndex]) THEN dropped
                        ELSE [dropped EXCEPT ![records[EvictIndex].category] = @ + 1]
          /\ accepted' = accepted + 1
          /\ UNCHANGED refused
  /\ UNCHANGED <<written, lost>>

(* The numbers of the protected records in these places.                   *)
Numbers(places) == {r.number : r \in {r \in {records[i] : i \in places} : Protected(r)}}

(* sink.write(buffer.drain()): the batch is out of the buffer before it is *)
(* written, and write() may raise before any of it or in the middle.       *)
DrainToSink ==
  LET n == IF Limit < Len(records) THEN Limit ELSE Len(records)
  IN  /\ n > 0
      /\ records' = SubSeq(records, n + 1, Len(records))
      /\ \E k \in 0 .. n : /\ written' = written \cup Numbers(1 .. k)
                           /\ lost' = lost \cup Numbers(k + 1 .. n)
      /\ UNCHANGED <<dropped, enqueues, accepted, refused>>

(* An "error" is treated as a "structural" record is.                      *)
Category == {"debug", "metric", "structural"}

Next ==
  \/ \E c \in Category : Enqueue(c) \/ DropNew(c) \/ Displace(c)
  \/ DrainToSink

Spec == Init /\ [][Next]_vars

-----------------------------------------------------------------------------
(* A protected record that enqueue() took is given to the sink, in order,  *)
(* or still waits: however full the log gets, only debug records and       *)
(* metrics are dropped, and only a failed write() loses a protected one.   *)
Given == written \cup lost
Waits(n) == \E i \in DOMAIN records : Protected(records[i]) /\ records[i].number = n
NoProtectedRecordIsLost ==
  /\ Len(records) <= Capacity
  /\ \A n \in 1 .. accepted : n \in Given \/ Waits(n)
  /\ \A i \in DOMAIN records : Protected(records[i]) =>
       /\ records[i].number \in 1 .. accepted
       /\ \A n \in Given : n < records[i].number
       /\ \A j \in 1 .. i - 1 : Protected(records[j]) => records[j].number < records[i].number

-----------------------------------------------------------------------------
(* reconstruct_job_tree(): the children of each job that a record names.   *)
(* A record that belongs to no job has the job NoJob.                      *)
NoJob == 0

Known(tree, job) == IF job \in DOMAIN tree THEN tree ELSE
  [j \in DOMAIN tree \cup {job} |-> IF j = job THEN <<>> ELSE tree[j]]

AddRecord(tree, record) ==
  IF record.job = NoJob THEN tree
  ELSE IF record.parent = NoJob THEN Known(tree, record.job)
  ELSE LET known == Known(Known(tree, record.job), record.parent) IN
       IF Contains(known[record.parent], record.job) THEN known
       ELSE [known EXCEPT ![record.parent] = Append(@, record.job)]

JobTree(log) == FoldLeft(AddRecord, [j \in {} |-> <<>>], log)

(* The tree has each job once under each parent it was logged with, also   *)
(* when a child is logged before its parent.                               *)
TreeIsRight(log) ==
  LET tree == JobTree(log)
      jobs == {r \in ToSet(log) : r.job # NoJob}
  IN  /\ DOMAIN tree = {r.job : r \in jobs} \cup ({r.parent : r \in jobs} \ {NoJob})
      /\ \A p \in DOMAIN tree :
           /\ IsInjective(tree[p])
           /\ ToSet(tree[p]) = {r.job : r \in {r \in jobs : r.parent = p}}
=============================================================================
