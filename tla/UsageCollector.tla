--------------------------- MODULE UsageCollector ---------------------------
(***************************************************************************)
(* DefaultAIInvocationCollector (pmqa/usage/collector.py): threads share   *)
(* one collector and race to terminalize the handles it gave out.  A       *)
(* handle is inspected under the lock, the evidence is copied without it,  *)
(* the handle is consumed under the lock again, and only then are the      *)
(* clocks read and the record built.                                       *)
(*                                                                         *)
(* Both clocks are injected, so every sample is any value of Times, in any *)
(* order.  Times are microseconds; metadata and evidence are left out.     *)
(***************************************************************************)
EXTENDS Integers, FiniteSets

CONSTANTS
  Threads,
  Times,         \* what a clock may return
  MaxHandles,    \* bound: invocations started
  MaxDuration    \* MAX_USAGE_INTEGER, in milliseconds

ASSUME CollectorAssumption ==
  /\ Times \subseteq Nat
  /\ MaxHandles \in Nat /\ MaxDuration \in Nat

VARIABLES
  started,   \* history: [handle -> [wall, mono]], handles are 1, 2, ...
  active,    \* handles in the collector's table
  altered,   \* handles whose private binding somebody has changed
  pc, handle, wall,   \* one terminalization per thread
  records,   \* history: the records returned
  lost       \* history: handles consumed without a record

vars == <<started, active, altered, pc, handle, wall, records, lost>>

Handles == DOMAIN started
Owning  == {"clocks", "build"}       \* between consumption and the record
Status  == {"succeeded", "failed", "cancelled"}

Init ==
  /\ started = [h \in {} |-> 0]
  /\ active = {} /\ altered = {}
  /\ pc = [t \in Threads |-> "idle"]
  /\ handle = [t \in Threads |-> 0]
  /\ wall = [t \in Threads |-> 0]
  /\ records = {} /\ lost = {}

-----------------------------------------------------------------------------
\* start_invocation: a clock that fails leaves nothing behind.
Start ==
  LET h == Cardinality(Handles) + 1
  IN /\ h <= MaxHandles
     /\ \E w, m \in Times :
          started' = [g \in Handles \cup {h} |->
                        IF g = h THEN [wall |-> w, mono |-> m] ELSE started[g]]
     /\ active' = active \cup {h}
     /\ UNCHANGED <<altered, pc, handle, wall, records, lost>>

\* Somebody changes the private fields of a handle that was given out.
Alter(h) ==
  /\ h \notin altered
  /\ altered' = altered \cup {h}
  /\ UNCHANGED <<started, active, pc, handle, wall, records, lost>>

Go(t, from, to) == pc[t] = from /\ pc' = [pc EXCEPT ![t] = to]

Intact(h) == h \in active /\ h \notin altered

\* complete_, fail_ and cancel_invocation begin by looking the handle up.
Inspect(t, h) ==
  /\ Go(t, "idle", "evidence")
  /\ Intact(h)
  /\ handle' = [handle EXCEPT ![t] = h]
  /\ UNCHANGED <<started, active, altered, wall, records, lost>>

\* An altered handle is consumed at once, without a record.
InspectAltered(t, h) ==
  /\ pc[t] = "idle"
  /\ h \in active \cap altered
  /\ active' = active \ {h} /\ lost' = lost \cup {h}
  /\ UNCHANGED <<started, altered, pc, handle, wall, records>>

\* The evidence is copied; evidence that is refused leaves the handle active.
CopyEvidence(t) ==
  /\ Go(t, "evidence", "consume")
  /\ UNCHANGED <<started, active, altered, handle, wall, records, lost>>

RefuseEvidence(t) ==
  /\ Go(t, "evidence", "idle")
  /\ UNCHANGED <<started, active, altered, handle, wall, records, lost>>

\* Seeded fault: the second look at the table is left out.
ConsumeUnchecked(t) ==
  /\ Go(t, "consume", "clocks")
  /\ active' = active \ {handle[t]}
  /\ UNCHANGED <<started, altered, handle, wall, records, lost>>

\* Seeded fault: the handle is not taken out of the table.
ConsumeKeeps(t) ==
  /\ Go(t, "consume", "clocks")
  /\ handle[t] \in active
  /\ UNCHANGED <<started, active, altered, handle, wall, records, lost>>

\* Under the lock: still in the table, and out of it.
Consume(t) ==
  /\ Go(t, "consume", "clocks")
  /\ handle[t] \in active
  /\ active' = active \ {handle[t]}
  /\ UNCHANGED <<started, altered, handle, wall, records, lost>>

LoseRace(t) ==
  /\ Go(t, "consume", "idle")
  /\ handle[t] \notin active
  /\ UNCHANGED <<started, active, altered, handle, wall, records, lost>>

ReadWallClock(t) ==
  /\ Go(t, "clocks", "build")
  /\ \E w \in Times : wall' = [wall EXCEPT ![t] = w]
  /\ UNCHANGED <<started, active, altered, handle, records, lost>>

\* Seeded fault: milliseconds are cut off, not rounded.
MillisecondsTruncated(elapsed) == elapsed \div 1000

\* _duration_milliseconds: half a millisecond rounds up.
Milliseconds(elapsed) == (elapsed + 500) \div 1000

\* What the samples must satisfy before a record is built.
AcceptedTimes(t, m) ==
  /\ wall[t] >= started[handle[t]].wall
  /\ m >= started[handle[t]].mono
  /\ Milliseconds(m - started[handle[t]].mono) <= MaxDuration

\* The record returned when the monotonic clock says m.
Record(t, status, m) ==
  [handle |-> handle[t], status |-> status,
   started_at |-> started[handle[t]].wall, completed_at |-> wall[t],
   elapsed |-> m - started[handle[t]].mono,
   duration_ms |-> Milliseconds(m - started[handle[t]].mono)]

Build(t, status) ==
  /\ Go(t, "build", "idle")
  /\ \E m \in Times :
       AcceptedTimes(t, m) /\ records' = records \cup {Record(t, status, m)}
  /\ UNCHANGED <<started, active, altered, handle, wall, lost>>

\* A clock that fails or runs backwards, a duration out of range, a record
\* its contract refuses, an interrupt: the handle is gone all the same.
LoseInvocation(t) ==
  /\ \E at \in Owning : Go(t, at, "idle")
  /\ lost' = lost \cup {handle[t]}
  /\ UNCHANGED <<started, active, altered, handle, wall, records>>

ThreadStep(t) ==
  \/ CopyEvidence(t) \/ RefuseEvidence(t)
  \/ Consume(t) \/ LoseRace(t)
  \/ ReadWallClock(t) \/ LoseInvocation(t)
  \/ \E status \in Status : Build(t, status)

Next ==
  \/ Start
  \/ \E h \in Handles : Alter(h)
  \/ \E t \in Threads, h \in Handles : Inspect(t, h) \/ InspectAltered(t, h)
  \/ \E t \in Threads : ThreadStep(t)

Spec == Init /\ [][Next]_vars

\* A terminalization is a plain call: its thread goes on with it.
FairSpec == Spec /\ \A t \in Threads : WF_vars(ThreadStep(t))

-----------------------------------------------------------------------------
(* Properties *)

Owned == {handle[t] : t \in {u \in Threads : pc[u] \in Owning}}

RecordedHandles == {r.handle : r \in records}

TypeOK ==
  /\ \E n \in 0 .. MaxHandles : started \in [1 .. n -> [wall : Times, mono : Times]]
  /\ active \subseteq Handles /\ altered \subseteq Handles /\ lost \subseteq Handles
  /\ pc \in [Threads -> {"idle", "evidence", "consume"} \cup Owning]
  /\ handle \in [Threads -> Handles \cup {0}]
  /\ \A t \in Threads : pc[t] # "idle" => handle[t] \in Handles
  /\ wall \in [Threads -> Times \cup {0}]
  /\ \A t \in Threads : pc[t] = "build" => wall[t] \in Times
  /\ records \subseteq [handle : Handles, status : Status, started_at : Times,
                       completed_at : Times, elapsed : Nat, duration_ms : Nat]

\* However many threads complete, fail and cancel one invocation at once, one
\* handle produces at most one terminal record (docs/architecture/
\* usage-cost-contracts.md:126), and a call that failed after it had consumed
\* the handle is never followed by a record.
OneRecordPerHandle ==
  /\ \A r, q \in records : r.handle = q.handle => r = q
  /\ RecordedHandles \cap lost = {}

\* A handle is in one place: in the table, with one thread, in a record or
\* lost; nothing else makes an invocation disappear, a refused evidence or a
\* lost race least of all.
HandleInOnePlace ==
  /\ Handles = active \cup Owned \cup RecordedHandles \cup lost
  /\ active \cap (Owned \cup RecordedHandles \cup lost) = {}
  /\ Owned \cap (RecordedHandles \cup lost) = {}
  /\ RecordedHandles \cap lost = {}
  /\ \A t, u \in Threads :
       pc[t] \in Owning /\ pc[u] \in Owning /\ handle[t] = handle[u] => t = u

NearestMillisecond(ms, elapsed) == 2 * (1000 * ms - elapsed) \in -999 .. 1000

\* A record never completes before it started, and its duration is the time
\* elapsed to the nearest millisecond, within MAX_USAGE_INTEGER.
RecordTimesRight ==
  \A r \in records :
    /\ r.completed_at >= r.started_at
    /\ NearestMillisecond(r.duration_ms, r.elapsed)
    /\ r.duration_ms <= MaxDuration

\* A handle whose terminalization got past the evidence leaves the table,
\* whichever of the racing calls takes it.
TerminalizationSettles ==
  \A t \in Threads, h \in 1 .. MaxHandles :
    pc[t] = "consume" /\ handle[t] = h ~> h \notin active

-----------------------------------------------------------------------------
IInv ==
  /\ TypeOK
  /\ HandleInOnePlace
  /\ OneRecordPerHandle

-----------------------------------------------------------------------------
\* A record is of the start its own handle got, though other threads read the
\* clocks and start invocations while it is made.
RecordOfItsStart ==
  \A r \in records :
    /\ r.handle \in Handles /\ r.started_at = started[r.handle].wall
    /\ \E m \in Times : r.elapsed = m - started[r.handle].mono

\* The racing calls settle for good: a thread gets past the second look at the
\* table only when its handle is out of it, and no handle ever comes back.
SettlesForGood ==
  [][/\ \A t \in Threads :
          pc[t] = "consume" /\ ~ (pc'[t] = "consume" /\ handle'[t] = handle[t]) =>
            handle[t] \notin active'
     /\ \A h \in Handles \ active : h \notin active']_vars
=============================================================================
