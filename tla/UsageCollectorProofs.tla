------------------------ MODULE UsageCollectorProofs ------------------------
(***************************************************************************)
(* Proofs about UsageCollector for every number of threads and handles and *)
(* every behaviour of the clocks.                                          *)
(***************************************************************************)
EXTENDS UsageCollector, FiniteSetTheorems, TLAPS

\* The next handle is new.
LEMMA FreshHandle ==
  ASSUME TypeOK
  PROVE  \E n \in 0 .. MaxHandles :
           /\ started \in [1 .. n -> [wall : Times, mono : Times]]
           /\ Handles = 1 .. n /\ Cardinality(Handles) = n
<1>1. PICK n \in 0 .. MaxHandles : started \in [1 .. n -> [wall : Times, mono : Times]]
  BY DEF TypeOK
<1>2. Handles = 1 .. n
  BY <1>1 DEF Handles
<1>3. n \in Nat
  BY CollectorAssumption
<1>4. Cardinality(1 .. n) = n
  BY <1>3, FS_Interval
<1> QED BY <1>1, <1>2, <1>4

\* Rounding: the nearest millisecond, half a millisecond up.
LEMMA MillisecondsRound ==
  \A e \in Nat : /\ Milliseconds(e) \in Nat
                 /\ NearestMillisecond(Milliseconds(e), e)
BY DEF Milliseconds, NearestMillisecond

\* A fresh collector satisfies the invariant.
LEMMA InitIInv == Init => IInv
<1> SUFFICES ASSUME Init PROVE IInv
  OBVIOUS
<1>1. Handles = {} /\ started \in [1 .. 0 -> [wall : Times, mono : Times]] /\ 0 \in 0 .. MaxHandles
  BY CollectorAssumption DEF Init, Handles
<1>2. TypeOK
  BY <1>1 DEF Init, TypeOK
<1>3. HandleInOnePlace /\ OneRecordPerHandle
  BY <1>1 DEF Init, HandleInOnePlace, OneRecordPerHandle, Owned, Owning, RecordedHandles
<1> QED BY <1>2, <1>3 DEF IInv

\* start_invocation adds a handle nobody has seen, and only to the table.
LEMMA StartStep == ASSUME IInv, Start PROVE IInv'
<1>1. PICK n \in 0 .. MaxHandles :
        /\ started \in [1 .. n -> [wall : Times, mono : Times]]
        /\ Handles = 1 .. n /\ Cardinality(Handles) = n
  BY FreshHandle DEF IInv
<1>2. n + 1 <= MaxHandles /\ n \in Nat /\ MaxHandles \in Nat
  BY <1>1, CollectorAssumption DEF Start
<1>3. PICK w \in Times, m \in Times :
        started' = [g \in Handles \cup {n + 1} |->
                      IF g = n + 1 THEN [wall |-> w, mono |-> m] ELSE started[g]]
  BY <1>1, SMTT(30) DEF Start
<1>4. started' \in [1 .. n + 1 -> [wall : Times, mono : Times]] /\ Handles' = 1 .. n + 1
  BY <1>1, <1>2, <1>3 DEF Handles
<1>5. /\ Handles' = Handles \cup {n + 1} /\ n + 1 \notin Handles
      /\ active' = active \cup {n + 1}
      /\ UNCHANGED <<altered, pc, handle, wall, records, lost>>
  BY <1>1, <1>2, <1>4 DEF Start
<1>6. TypeOK'
  BY <1>2, <1>4, <1>5 DEF IInv, TypeOK
<1>7. HandleInOnePlace'
  <2>1. Owned' = Owned /\ RecordedHandles' = RecordedHandles
    BY <1>5 DEF Owned, RecordedHandles
  <2> QED BY <1>5, <2>1 DEF IInv, HandleInOnePlace
<1>8. OneRecordPerHandle'
  BY <1>5 DEF IInv, OneRecordPerHandle, RecordedHandles
<1> QED BY <1>6, <1>7, <1>8 DEF IInv

\* Steps that leave every handle where it is.
LEMMA StayStep ==
  ASSUME IInv,
         \/ \E h \in Handles : Alter(h)
         \/ \E t \in Threads, h \in Handles : Inspect(t, h)
         \/ \E t \in Threads : CopyEvidence(t) \/ RefuseEvidence(t) \/ LoseRace(t) \/ ReadWallClock(t)
         \/ UNCHANGED vars
  PROVE  IInv'
<1>1. /\ UNCHANGED <<started, active, records, lost>>
      /\ \A t \in Threads : /\ pc'[t] \in Owning <=> pc[t] \in Owning
                            /\ pc[t] \in Owning => handle'[t] = handle[t]
  BY DEF IInv, TypeOK, Alter, Inspect, CopyEvidence, RefuseEvidence, LoseRace,
         ReadWallClock, Go, Owning, vars
<1>2. TypeOK'
  <2>1. Handles' = Handles
    BY <1>1 DEF Handles
  <2> QED
    BY <1>1, <2>1 DEF IInv, TypeOK, Alter, Inspect, CopyEvidence, RefuseEvidence,
       LoseRace, ReadWallClock, Go, Owning, vars, Intact
<1>3. Owned' = Owned /\ RecordedHandles' = RecordedHandles /\ Handles' = Handles
  BY <1>1 DEF Owned, RecordedHandles, Handles
<1>4. HandleInOnePlace'
  BY <1>1, <1>3 DEF IInv, HandleInOnePlace
<1>5. OneRecordPerHandle'
  BY <1>1, <1>3 DEF IInv, OneRecordPerHandle
<1> QED BY <1>2, <1>4, <1>5 DEF IInv

\* Consuming an altered handle moves it from the table to the lost ones.
LEMMA AlteredStep ==
  ASSUME IInv, NEW t \in Threads, NEW h \in Handles, InspectAltered(t, h)
  PROVE  IInv'
<1>1. /\ h \in active /\ active' = active \ {h} /\ lost' = lost \cup {h}
      /\ UNCHANGED <<started, altered, pc, handle, wall, records>>
  BY DEF InspectAltered
<1>2. Owned' = Owned /\ RecordedHandles' = RecordedHandles /\ Handles' = Handles
  BY <1>1 DEF Owned, RecordedHandles, Handles
<1>3. TypeOK'
  BY <1>1, <1>2 DEF IInv, TypeOK
<1>4. HandleInOnePlace' /\ OneRecordPerHandle'
  BY <1>1, <1>2 DEF IInv, HandleInOnePlace, OneRecordPerHandle
<1> QED BY <1>3, <1>4 DEF IInv

\* Consumption moves a handle from the table to the one thread that took it.
LEMMA ConsumeStep ==
  ASSUME IInv, NEW t \in Threads, Consume(t)
  PROVE  IInv'
<1>1. /\ pc[t] = "consume" /\ pc' = [pc EXCEPT ![t] = "clocks"]
      /\ handle[t] \in active /\ active' = active \ {handle[t]}
      /\ UNCHANGED <<started, altered, handle, wall, records, lost>>
  BY DEF Consume, Go
<1>2. Owned' = Owned \cup {handle[t]}
  BY <1>1 DEF Owned, Owning, IInv, TypeOK
<1>3. RecordedHandles' = RecordedHandles /\ Handles' = Handles
  BY <1>1 DEF RecordedHandles, Handles
<1>4. TypeOK'
  BY <1>1, <1>3 DEF IInv, TypeOK, Owning
<1>5. \A u \in Threads : pc[u] \in Owning => handle[u] # handle[t]
  BY <1>1 DEF IInv, HandleInOnePlace, Owned
<1>6. HandleInOnePlace'
  <2>1. \A u \in Threads : pc'[u] \in Owning <=> u = t \/ pc[u] \in Owning
    BY <1>1 DEF IInv, TypeOK, Owning
  <2> QED BY <1>1, <1>2, <1>3, <1>5, <2>1 DEF IInv, HandleInOnePlace
<1>7. OneRecordPerHandle'
  BY <1>1, <1>3 DEF IInv, OneRecordPerHandle
<1> QED BY <1>4, <1>6, <1>7 DEF IInv

\* The owner of a handle lets go of it: with a record or without.
LEMMA LetGoStep ==
  ASSUME IInv, NEW t \in Threads,
         (\E s \in Status : Build(t, s)) \/ LoseInvocation(t)
  PROVE  IInv'
<1>1. /\ pc[t] \in Owning /\ pc' = [pc EXCEPT ![t] = "idle"]
      /\ UNCHANGED <<started, active, altered, handle, wall>>
  BY DEF Build, LoseInvocation, Go, Owning
<1>2. handle[t] \in Owned /\ handle[t] \in Handles
  BY <1>1 DEF Owned, Owning, IInv, TypeOK
<1>3. Handles' = Handles
  BY <1>1 DEF Handles
<1>4. Owned' = Owned \ {handle[t]}
  <2>1. \A u \in Threads : pc'[u] \in Owning <=> u # t /\ pc[u] \in Owning
    BY <1>1 DEF IInv, TypeOK, Owning
  <2> QED BY <1>1, <2>1 DEF Owned, IInv, HandleInOnePlace
<1>5. \A u, v \in Threads :
        pc'[u] \in Owning /\ pc'[v] \in Owning /\ handle'[u] = handle'[v] => u = v
  BY <1>1 DEF IInv, TypeOK, HandleInOnePlace, Owning
<1>6. CASE \E s \in Status : Build(t, s)
  <2>1. PICK s \in Status, m \in Times :
          /\ AcceptedTimes(t, m) /\ records' = records \cup {Record(t, s, m)}
          /\ lost' = lost
    BY <1>6 DEF Build
  <2>2. Record(t, s, m).handle = handle[t]
    BY DEF Record
  <2>3. RecordedHandles' = RecordedHandles \cup {handle[t]}
    BY <2>1, <2>2 DEF RecordedHandles
  <2>4. TypeOK'
    <3>1. started[handle[t]] \in [wall : Times, mono : Times]
      BY <1>2 DEF IInv, TypeOK, Handles
    <3>2. m >= started[handle[t]].mono /\ m \in Nat /\ started[handle[t]].mono \in Nat
      BY <2>1, <3>1, CollectorAssumption DEF AcceptedTimes
    <3>3. m - started[handle[t]].mono \in Nat
      BY <3>2
    <3>4. wall[t] \in Times /\ started[handle[t]].wall \in Times
      BY <1>6, <3>1 DEF IInv, TypeOK, Build, Go
    <3>5. Record(t, s, m) \in [handle : Handles, status : Status, started_at : Times,
                               completed_at : Times, elapsed : Nat, duration_ms : Nat]
      BY <1>2, <3>3, <3>4, MillisecondsRound DEF Record
    <3>6. records' \subseteq [handle : Handles', status : Status, started_at : Times,
                             completed_at : Times, elapsed : Nat, duration_ms : Nat]
      BY <1>3, <2>1, <3>5 DEF IInv, TypeOK
    <3> QED BY <1>1, <1>3, <2>1, <3>6 DEF IInv, TypeOK, Owning
  <2>5. HandleInOnePlace'
    BY <1>1, <1>2, <1>3, <1>4, <1>5, <2>1, <2>3 DEF IInv, HandleInOnePlace
  <2>6. OneRecordPerHandle'
    BY <1>2, <2>1, <2>2, <2>3 DEF IInv, HandleInOnePlace, OneRecordPerHandle, RecordedHandles
  <2> QED BY <2>4, <2>5, <2>6 DEF IInv
<1>7. CASE LoseInvocation(t)
  <2>1. lost' = lost \cup {handle[t]} /\ UNCHANGED records
    BY <1>7 DEF LoseInvocation
  <2>2. RecordedHandles' = RecordedHandles
    BY <2>1 DEF RecordedHandles
  <2>3. TypeOK'
    BY <1>1, <1>2, <1>3, <2>1 DEF IInv, TypeOK, Owning
  <2>4. HandleInOnePlace' /\ OneRecordPerHandle'
    BY <1>1, <1>2, <1>3, <1>4, <1>5, <2>1, <2>2 DEF IInv, HandleInOnePlace, OneRecordPerHandle
  <2> QED BY <2>3, <2>4 DEF IInv
<1> QED BY <1>6, <1>7

\* Every step keeps the invariant.
LEMMA NextIInv == IInv /\ [Next]_vars => IInv'
<1> SUFFICES ASSUME IInv, [Next]_vars PROVE IInv'
  OBVIOUS
<1>1. ASSUME NEW t \in Threads, ThreadStep(t) PROVE IInv'
  BY <1>1, StayStep, ConsumeStep, LetGoStep DEF ThreadStep
<1> QED BY <1>1, StartStep, StayStep, AlteredStep DEF Next

\* The invariant holds in every reachable state.
LEMMA SpecIInv == Spec => []IInv
BY InitIInv, NextIInv, PTL DEF Spec

\* However many threads race, one handle never leads to two records, and a
\* handle that was lost never leads to one.
THEOREM OneTerminalRecord == Spec => []OneRecordPerHandle
<1>1. IInv => OneRecordPerHandle
  BY DEF IInv
<1> QED BY <1>1, SpecIInv, PTL

\* An invocation is in the table, owned by one thread, recorded or lost, and
\* never in two of these places.
THEOREM HandlesAreAccountedFor == Spec => []HandleInOnePlace
<1>1. IInv => HandleInOnePlace
  BY DEF IInv
<1> QED BY <1>1, SpecIInv, PTL

\* What every record says of its times.
LEMMA BuildTimes ==
  ASSUME IInv, RecordTimesRight, [Next]_vars
  PROVE  RecordTimesRight'
<1>1. CASE UNCHANGED records
  BY <1>1 DEF RecordTimesRight
<1>2. ASSUME NEW t \in Threads, NEW s \in Status, Build(t, s)
      PROVE  RecordTimesRight'
  <2>1. PICK m \in Times :
          AcceptedTimes(t, m) /\ records' = records \cup {Record(t, s, m)}
    BY <1>2 DEF Build
  <2>2. handle[t] \in Handles
    BY <1>2 DEF Build, Go, IInv, TypeOK
  <2>3. started[handle[t]].mono \in Nat /\ m \in Nat
    BY <2>2, CollectorAssumption DEF IInv, TypeOK, Handles
  <2>4. m - started[handle[t]].mono \in Nat
    BY <2>1, <2>3 DEF AcceptedTimes
  <2> DEFINE new == Record(t, s, m)
             e == m - started[handle[t]].mono
  <2>5. /\ new.completed_at = wall[t] /\ new.started_at = started[handle[t]].wall
        /\ new.elapsed = e /\ new.duration_ms = Milliseconds(e)
    BY DEF Record
  <2>6. wall[t] >= started[handle[t]].wall /\ Milliseconds(e) <= MaxDuration
    BY <2>1 DEF AcceptedTimes
  <2>7. e \in Nat
    BY <2>4
  <2>8. \A r \in records' : r \in records \/ r = new
    BY <2>1
  <2> HIDE DEF new, e
  <2>9. NearestMillisecond(Milliseconds(e), e)
    BY <2>7, MillisecondsRound
  <2>10. /\ new.completed_at >= new.started_at
         /\ NearestMillisecond(new.duration_ms, new.elapsed)
         /\ new.duration_ms <= MaxDuration
    BY <2>5, <2>6, <2>9, Zenon
  <2> QED BY <2>8, <2>10, Zenon DEF RecordTimesRight
<1>3. records' = records \/ \E t \in Threads, s \in Status : Build(t, s)
  BY DEF Next, ThreadStep, Start, Alter, Inspect, InspectAltered, CopyEvidence,
         RefuseEvidence, Consume, LoseRace, ReadWallClock, LoseInvocation, vars
<1> QED BY <1>1, <1>2, <1>3

\* No record completes before it starts, and its duration is the elapsed time
\* to the nearest millisecond, whatever the clocks returned.
THEOREM RecordTimesAreRight == Spec => []RecordTimesRight
<1>1. Init => RecordTimesRight
  BY DEF Init, RecordTimesRight
<1>2. IInv /\ RecordTimesRight /\ [Next]_vars => RecordTimesRight'
  BY BuildTimes
<1> QED BY <1>1, <1>2, SpecIInv, PTL DEF Spec

\* Types are kept.
THEOREM TypeCorrect == Spec => []TypeOK
<1>1. IInv => TypeOK
  BY DEF IInv
<1> QED BY <1>1, SpecIInv, PTL

\* Starts are never forgotten or changed.
LEMMA StartsKept ==
  ASSUME IInv, [Next]_vars
  PROVE  Handles \subseteq Handles' /\ \A h \in Handles : started'[h] = started[h]
<1>1. CASE Start
  BY <1>1, FreshHandle DEF Start, IInv, Handles
<1>2. CASE UNCHANGED started
  BY <1>2 DEF Handles
<1> QED
  BY <1>1, <1>2
     DEF Next, ThreadStep, Alter, Inspect, InspectAltered, CopyEvidence, RefuseEvidence,
         Consume, LoseRace, ReadWallClock, LoseInvocation, Build, vars

\* Whatever other threads start, consume and build meanwhile, a record tells of
\* the start of its own handle.
THEOREM RecordsAreOfTheirStart == Spec => []RecordOfItsStart
<1>1. Init => RecordOfItsStart
  BY DEF Init, RecordOfItsStart
<1>2. ASSUME IInv, RecordOfItsStart, [Next]_vars PROVE RecordOfItsStart'
  <2>1. CASE UNCHANGED records
    BY <1>2, <2>1, StartsKept DEF RecordOfItsStart
  <2>2. ASSUME NEW t \in Threads, NEW s \in Status, Build(t, s) PROVE RecordOfItsStart'
    <3>1. PICK m \in Times : records' = records \cup {Record(t, s, m)}
      BY <2>2 DEF Build
    <3>2. handle[t] \in Handles /\ UNCHANGED started
      BY <1>2, <2>2 DEF Build, Go, IInv, TypeOK
    <3>3. /\ Record(t, s, m).handle = handle[t]
          /\ Record(t, s, m).started_at = started[handle[t]].wall
          /\ Record(t, s, m).elapsed = m - started[handle[t]].mono
      BY DEF Record
    <3> QED BY <1>2, <3>1, <3>2, <3>3 DEF RecordOfItsStart, Handles
  <2>3. records' = records \/ \E t \in Threads, s \in Status : Build(t, s)
    BY <1>2
       DEF Next, ThreadStep, Start, Alter, Inspect, InspectAltered, CopyEvidence,
           RefuseEvidence, Consume, LoseRace, ReadWallClock, LoseInvocation, vars
  <2> QED BY <2>1, <2>2, <2>3
<1> QED BY <1>1, <1>2, SpecIInv, PTL DEF Spec

\* The steps behind TerminalizationSettles: whichever thread wins a race, the
\* losers find the handle gone, and it stays gone.
THEOREM RacesSettle == Spec => SettlesForGood
<1>1. ASSUME IInv, [Next]_vars, NEW t \in Threads, pc[t] = "consume",
             ~ (pc'[t] = "consume" /\ handle'[t] = handle[t])
      PROVE  handle[t] \notin active'
  <2>1. pc \in [Threads -> {"idle", "evidence", "consume"} \cup Owning]
    BY <1>1 DEF IInv, TypeOK
  <2>2. PICK u \in Threads :
          \/ ThreadStep(u)
          \/ \E h \in Handles : Inspect(u, h)
    BY <1>1 DEF Next, Start, Alter, InspectAltered, vars
  <2>3. u = t
    BY <1>1, <2>1, <2>2
       DEF Inspect, Go, ThreadStep, CopyEvidence, RefuseEvidence, Consume, LoseRace,
           ReadWallClock, LoseInvocation, Build, IInv, TypeOK
  <2>4. Consume(t) \/ LoseRace(t)
    BY <1>1, <2>2, <2>3
       DEF Inspect, Go, ThreadStep, CopyEvidence, RefuseEvidence, ReadWallClock,
           LoseInvocation, Build, Owning
  <2> QED BY <2>4 DEF Consume, LoseRace
<1>2. ASSUME IInv, [Next]_vars, NEW h \in Handles \ active PROVE h \notin active'
  <2>1. CASE Start
    BY <1>2, <2>1, FreshHandle DEF Start, IInv
  <2>2. CASE active' \subseteq active
    BY <1>2, <2>2
  <2> QED
    BY <1>2, <2>1, <2>2
       DEF Next, ThreadStep, Alter, Inspect, InspectAltered, CopyEvidence, RefuseEvidence,
           Consume, LoseRace, ReadWallClock, LoseInvocation, Build, vars
<1>3. IInv /\ [Next]_vars =>
        /\ \A t \in Threads :
             pc[t] = "consume" /\ ~ (pc'[t] = "consume" /\ handle'[t] = handle[t]) =>
               handle[t] \notin active'
        /\ \A h \in Handles \ active : h \notin active'
  BY <1>1, <1>2
<1> QED BY <1>3, SpecIInv, PTL DEF Spec, SettlesForGood
=============================================================================
