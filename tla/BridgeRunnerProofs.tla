------------------------ MODULE BridgeRunnerProofs -------------------------
(***************************************************************************)
(* Proofs about BridgeRunner for every chunk size, every pair of limits    *)
(* and every set of processes the bridge may leave behind.                 *)
(***************************************************************************)
EXTENDS BridgeRunner, TLAPS

\* Before the launch nothing runs and nothing was recorded.
LEMMA InitIInv == Init => IInv
<1> SUFFICES ASSUME Init PROVE IInv
  OBVIOUS
<1> USE BridgeAssumption DEF Init, None
<1>a. \A s \in Streams : Limit[s] \in Nat /\ 0 <= Limit[s]
  OBVIOUS
<1>1. TypeOK
  BY <1>a DEF TypeOK, Setup
<1>2. MainInv /\ StreamInv
  BY DEF MainInv, StreamInv, Setup, Joining, Threads, Streams
<1>b. ExceptionInv
  BY DEF ExceptionInv, Aborting
<1>3. FailureInv /\ GroupInv /\ ReapedAtEnd /\ SurvivorsExplained
  BY DEF FailureInv, GroupInv, ReapedAtEnd, SurvivorsExplained, Joining,
         Failures, Verdicts, Streams
<1> QED BY <1>1, <1>2, <1>b, <1>3 DEF IInv

\* Processes come and go: a new one needs a living parent, and is late or out of
\* the group once only survivors are left in it; one that exits leaves every set.
LEMMA ProcessStep ==
  ASSUME IInv, NEW p \in Processes, Spawn(p) \/ Exit(p)
  PROVE  IInv'
<1> USE DEF IInv, Running
<1>a. p \in Helpers => p # Child
  BY BridgeAssumption
<1>0. UNCHANGED <<streams, shared, main>>
  BY DEF Spawn, Exit
<1>1. TypeOK'
  BY <1>0 DEF TypeOK, Spawn, Exit, streams, shared, main
<1>2. MainInv'
  BY <1>0, <1>a DEF MainInv, Spawn, Exit, Setup, streams, shared, main, Processes
<1>c. ExceptionInv'
  BY <1>0 DEF ExceptionInv, Aborting, Undisturbed, Setup, Spawn, Exit, main
<1>3. StreamInv'
  BY <1>0 DEF StreamInv, streams, shared
<1>4. FailureInv'
  BY <1>0 DEF FailureInv, MainInv, Spawn, Exit, streams, shared, main, Verdicts, None
<1>b. pc' = pc /\ thread' = thread
  BY <1>0 DEF streams, main
<1>5. GroupInv'
  <2>1. CASE Spawn(p)
    <3>1. /\ p # Child /\ p \notin group
          /\ group' = group \/ (group' = group \cup {p} /\ ~ (group \subseteq doomed))
          /\ doomed' = doomed /\ stubborn \subseteq stubborn' /\ late \subseteq late'
          /\ pc \in Joining \cup {"collect"} => p \in late'
      BY <2>1, <1>a DEF Spawn, TypeOK
    <3>2. \A t \in Threads : Over(t) => Over(t)'
      BY <1>b DEF Over
    <3>3. pc \in Joining \cup {"collect"} =>
            group' \ doomed' \subseteq (stubborn' \cup late') \ {Child}
      BY <3>1 DEF GroupInv
    <3>4. pc = "rejoin" => group' \subseteq doomed'
      BY <3>1 DEF GroupInv
    <3>5. pc = "collect" => group' \subseteq doomed' \/ \A t \in Threads : Over(t)
      BY <3>1 DEF GroupInv
    <3> QED BY <3>2, <3>3, <3>4, <3>5, <1>b DEF GroupInv
  <2>2. CASE Exit(p)
    <3>1. /\ group' = group \ {p} /\ doomed' = doomed \ {p}
          /\ stubborn' = stubborn \ {p} /\ late' = late \ {p}
      BY <2>2 DEF Exit
    <3>2. \A t \in Threads : Over(t) => Over(t)'
      BY <1>b DEF Over
    <3> QED BY <3>1, <3>2, <1>b DEF GroupInv
  <2> QED BY <2>1, <2>2
<1>6. ReapedAtEnd' /\ SurvivorsExplained'
  BY <1>0 DEF ReapedAtEnd, SurvivorsExplained, Spawn, Exit, main
<1> QED BY <1>1, <1>2, <1>c, <1>3, <1>4, <1>5, <1>6

\* A living process prints to a stream somebody still reads.
LEMMA PrintStep ==
  ASSUME IInv, NEW s \in Streams, Emit(s)
  PROVE  IInv'
<1> USE DEF IInv, Running, Emit
<1>0. UNCHANGED <<processes, taken, buffer, thread, shared, main>>
  OBVIOUS
<1>1. TypeOK'
  BY <1>0 DEF TypeOK, processes, shared, main
<1>2. MainInv' /\ ExceptionInv' /\ GroupInv' /\ ReapedAtEnd' /\ SurvivorsExplained'
  BY <1>0 DEF MainInv, ExceptionInv, Aborting, Undisturbed, GroupInv, ReapedAtEnd,
              SurvivorsExplained, Over, processes, shared, main
<1>3. written[s] \in Nat /\ written \in [Streams -> Nat]
      /\ written' = [written EXCEPT ![s] = written[s] + 1]
  BY DEF TypeOK
<1>4. StreamInv'
  BY <1>0, <1>3 DEF StreamInv, TypeOK, shared
<1>5. \A u \in Streams : written[u] > Limit[u] => written'[u] > Limit[u]
  <2> SUFFICES ASSUME NEW u \in Streams, written[u] > Limit[u]
               PROVE  written'[u] > Limit[u]
    OBVIOUS
  <2>1. written[u] \in Nat /\ Limit[u] \in Nat /\ written'[u] \in {written[u], written[u] + 1}
    BY <1>3, BridgeAssumption
  <2> QED BY <2>1
<1>6. FailureInv'
  BY <1>0, <1>5 DEF FailureInv, processes, shared, main
<1> QED BY <1>1, <1>2, <1>4, <1>6

\* A read moves bytes from the pipe, no more than there are.
LEMMA ReadBounds ==
  ASSUME TypeOK, NEW s \in Streams, NEW n \in 1 .. Chunk, ChunkRead(s, n)
  PROVE  n \in Nat \ {0} /\ taken[s] + n <= written[s]
BY BridgeAssumption DEF TypeOK, ChunkRead, Available

\* A read either fits, or fills the buffer and records that the limit was
\* exceeded.
LEMMA ReadStep ==
  ASSUME IInv, NEW s \in Streams, ReadChunk(s) \/ ReadBeyondLimit(s)
  PROVE  IInv'
<1> USE DEF IInv
<1>1. PICK n \in 1 .. Chunk :
        /\ Read(s, n)
        /\ \/ /\ n <= Limit[s] - buffer[s]
              /\ buffer' = [buffer EXCEPT ![s] = buffer[s] + n]
              /\ UNCHANGED <<thread, failure>>
           \/ /\ ~ (n <= Limit[s] - buffer[s])
              /\ buffer' = [buffer EXCEPT ![s] = buffer[s] + (Limit[s] - buffer[s])]
              /\ failure' = IF failure = None THEN s ELSE failure
              /\ thread' = [thread EXCEPT ![s] = "stopping"]
  BY DEF ReadChunk, ReadBeyondLimit, Fits, Remaining, RecordFailure
<1>2. n \in Nat \ {0} /\ taken[s] + n <= written[s]
  BY <1>1, ReadBounds DEF Read
<1>3. /\ thread[s] = "running" /\ Running
      /\ taken' = [taken EXCEPT ![s] = taken[s] + n]
      /\ UNCHANGED <<written, processes, thread_error, stop_event, main>>
  BY <1>1 DEF Read
<1>4. /\ buffer \in [Streams -> Nat] /\ taken \in [Streams -> Nat]
      /\ written \in [Streams -> Nat] /\ Limit[s] \in Nat /\ buffer[s] <= Limit[s]
      /\ thread \in [Threads -> {"new", "running", "stopping", "done", "broken"}]
      /\ s \in Threads /\ s # None /\ buffer[s] = taken[s]
  BY <1>3, BridgeAssumption DEF TypeOK, Threads, Streams, None, StreamInv
<1>5. /\ buffer' \in [Streams -> Nat] /\ taken' \in [Streams -> Nat]
      /\ buffer'[s] <= Limit[s] /\ buffer'[s] <= taken'[s]
      /\ \A u \in Streams \ {s} : buffer'[u] = buffer[u] /\ taken'[u] = taken[u]
  BY <1>1, <1>2, <1>3, <1>4
<1>6. TypeOK'
  BY <1>1, <1>3, <1>4, <1>5, ZenonT(60) DEF TypeOK, Failures, processes, main
<1>e. pc \notin Setup /\ (thread[s] # "new") /\ (s \in {"stdout", "stderr"})
  BY <1>3, <1>4 DEF MainInv, Running, Streams
<1>f. /\ thread["stdout"] = "new" => thread'["stdout"] = "new"
      /\ thread["stderr"] = "new" => thread'["stderr"] = "new"
  <2>1. thread' = thread \/ thread' = [thread EXCEPT ![s] = "stopping"]
    BY <1>1
  <2>2. thread[s] # "new"
    BY <1>3
  <2> QED BY <1>4, <2>1, <2>2 DEF Threads, Streams
<1>7. MainInv' /\ ExceptionInv' /\ ReapedAtEnd' /\ SurvivorsExplained'
  BY <1>3, <1>e, <1>f DEF MainInv, ExceptionInv, Aborting, Undisturbed, ReapedAtEnd,
     SurvivorsExplained, Running, processes, main
<1>8. GroupInv'
  BY <1>1, <1>3, <1>4 DEF GroupInv, Over, processes, main
<1>9. CASE UNCHANGED <<thread, failure>>
  <2>1. buffer'[s] = taken'[s]
    BY <1>1, <1>3, <1>4, <1>9, <1>2 DEF TypeOK
  <2>2. StreamInv'
    BY <1>2, <1>3, <1>4, <1>5, <1>9, <2>1 DEF StreamInv
  <2>3. FailureInv'
    BY <1>3, <1>9 DEF FailureInv, processes, main
  <2> QED BY <1>6, <1>7, <1>8, <2>2, <2>3
<1>10. CASE ~ UNCHANGED <<thread, failure>>
  <2>1. /\ written[s] > Limit[s]
        /\ failure' = IF failure = None THEN s ELSE failure
        /\ thread' = [thread EXCEPT ![s] = "stopping"]
    BY <1>1, <1>2, <1>4, <1>10
  <2>2. failure' # None /\ (failure # None => failure' = failure)
    BY <2>1, <1>4
  <2>3. StreamInv'
    BY <1>2, <1>3, <1>4, <1>5, <2>1, <2>2 DEF StreamInv
  <2>4. result = None
    BY <1>3 DEF MainInv, Running
  <2>5. FailureInv'
    BY <1>3, <2>1, <2>4 DEF FailureInv, Failures, Verdicts, Streams, None, processes, main
  <2> QED BY <1>6, <1>7, <1>8, <2>3, <2>5
<1> QED BY <1>9, <1>10

\* A thread ends, fails or is about to stop: nothing is taken from its stream,
\* and it ends at the end of its stream or after somebody was told.
LEMMA ThreadMoves ==
  ASSUME IInv, NEW t \in Threads, NEW at \in {"stopping", "done", "broken"},
         pc \notin {"launch", "ended"},
         thread[t] \in {"running", "stopping"},
         thread' = [thread EXCEPT ![t] = at],
         UNCHANGED <<processes, written, taken, buffer, failure, main>>,
         thread_error' \in BOOLEAN, stop_event' \in BOOLEAN,
         thread_error => thread_error',
         at = "stopping" => thread_error',
         at = "done" /\ t \in Streams /\ thread[t] = "running" =>
           taken[t] = written[t]
  PROVE  IInv'
<1> USE DEF IInv
<1>1. TypeOK'
  BY DEF TypeOK, processes, main
<1>a. pc \notin Setup
  BY DEF MainInv, Setup, TypeOK, Threads
<1>b. /\ thread["stdout"] = "new" => thread'["stdout"] = "new"
      /\ thread["stderr"] = "new" => thread'["stderr"] = "new"
  BY DEF TypeOK, Threads, Streams
<1>2. MainInv' /\ ExceptionInv' /\ ReapedAtEnd' /\ SurvivorsExplained'
  BY <1>a, <1>b DEF MainInv, ExceptionInv, Aborting, Undisturbed, ReapedAtEnd,
     SurvivorsExplained, processes, main
<1>3. GroupInv'
  <2>1. \A u \in Threads : Over(u) => Over(u)'
    BY DEF Over, TypeOK
  <2> QED BY <2>1 DEF GroupInv, processes, main
<1>4. StreamInv'
  <2>1. thread \in [Threads -> {"new", "running", "stopping", "done", "broken"}]
    BY DEF TypeOK
  <2>2. \A s \in Streams : s \in Threads
    BY DEF Threads
  <2> QED BY <2>1, <2>2 DEF StreamInv
<1>5. FailureInv'
  <2>1. result = None
    BY DEF MainInv
  <2> QED BY <2>1 DEF FailureInv, Failures, Verdicts, Streams, None, processes, main
<1> QED BY <1>1, <1>2, <1>3, <1>4, <1>5

\* Every other step of a thread is such a move.
LEMMA ThreadStepKeeps ==
  ASSUME IInv,
         \/ \E s \in Streams : ReadEnd(s) \/ ReadBreaks(s)
         \/ WriteRequest
         \/ \E t \in Threads : ThreadFails(t) \/ SetStop(t)
  PROVE  IInv'
<1>0. \A s \in Streams : s \in Threads
  BY DEF Threads
<1>1. thread_error \in BOOLEAN /\ stop_event \in BOOLEAN
  BY DEF IInv, TypeOK
<1>2. ASSUME NEW s \in Streams, ReadEnd(s) PROVE IInv'
  <2>1. taken[s] = written[s]
    <3>1. taken[s] \in Nat /\ written[s] \in Nat /\ written[s] - taken[s] = 0
      BY <1>2 DEF ReadEnd, Available, IInv, TypeOK
    <3> QED BY <3>1
  <2> QED BY <1>0, <1>1, <1>2, <2>1, ThreadMoves DEF ReadEnd, ThreadEnds, Running
<1>3. ASSUME NEW s \in Streams, ReadBreaks(s) PROVE IInv'
  BY <1>0, <1>1, <1>3, ThreadMoves DEF ReadBreaks, Running, shared
<1>4. CASE WriteRequest
  <2>1. "stdin" \in Threads /\ "stdin" \notin Streams
    BY DEF Threads, Streams
  <2> QED BY <1>1, <1>4, <2>1, ThreadMoves DEF WriteRequest, ThreadEnds, Running
<1>5. ASSUME NEW t \in Threads, ThreadFails(t) PROVE IInv'
  BY <1>1, <1>5, ThreadMoves DEF ThreadFails, Running
<1>6. ASSUME NEW t \in Threads, SetStop(t) PROVE IInv'
  BY <1>1, <1>6, ThreadMoves DEF SetStop, ThreadEnds, Running
<1> QED BY <1>2, <1>3, <1>4, <1>5, <1>6

\* Before the try: the child is started, or is not, and what the call needs is
\* made, or an exception ends it.
LEMMA SetupStep ==
  ASSUME IInv,
         \/ Launch /\ UNCHANGED interrupted
         \/ LaunchFails /\ UNCHANGED interrupted
         \/ Prepare /\ UNCHANGED interrupted
         \/ pc \in Setup /\ Interrupt
  PROVE  IInv'
<1> USE DEF IInv
<1>0. /\ pc \in Setup /\ pc' \in {"prepare", "start_stdin", "ended"}
      /\ result = None /\ interrupted = {}
      /\ UNCHANGED <<streams, shared, reaped, doomed, late, returncode>>
      /\ pc' = "ended" =>
           /\ result' \in {"launch_failed", "interrupted"}
           /\ UNCHANGED processes
           /\ \/ result' = "launch_failed" /\ alive' = {} /\ interrupted' = {}
              \/ result' = "interrupted" /\ interrupted' = {"setup"}
      /\ pc' # "ended" => result' = None /\ interrupted' = {}
      /\ \/ UNCHANGED processes
         \/ /\ pc = "launch" /\ pc' = "prepare"
            /\ alive' = {Child} /\ group' = {Child} /\ holding' = {Child}
            /\ stubborn' \in SUBSET {Child}
  BY DEF Launch, LaunchFails, Prepare, Interrupt, Escape, Handled, Go, End, Setup, Guarded,
         Starting, Terminating, Joining, Aborting, MainInv, ExceptionInv, TypeOK, processes
<1>1. TypeOK'
  <2>1. /\ group' \subseteq alive' /\ stubborn' \subseteq alive'
        /\ holding' \subseteq alive' /\ alive' \subseteq Processes
        /\ doomed' \subseteq alive' /\ late' \subseteq alive'
    BY <1>0 DEF TypeOK, MainInv, Processes, processes
  <2>2. /\ interrupted' \subseteq {"setup", "watch", "cleanup", "join"}
        /\ result' \in Failures \cup Exceptions \cup Verdicts \cup {None}
        /\ pc' \in {"collect", "slay", "ended"} \cup Setup \cup Guarded \cup Joining
    BY <1>0 DEF Exceptions, Setup, Guarded, Starting
  <2> QED BY <1>0, <2>1, <2>2 DEF TypeOK, streams, shared
<1>2. MainInv'
  <2>1. \A t \in Threads : thread'[t] = "new"
    BY <1>0 DEF MainInv, streams
  <2>2. "stdout" \in Threads /\ "stderr" \in Threads
    BY DEF Threads, Streams
  <2>3. reaped' => Child \notin alive'
    BY <1>0 DEF MainInv, processes
  <2> QED BY <1>0, <2>1, <2>2, <2>3 DEF MainInv, Joining, None
<1>3. ExceptionInv'
  BY <1>0 DEF ExceptionInv, Aborting, Undisturbed, Setup
<1>4. StreamInv'
  BY <1>0 DEF StreamInv, streams, shared
<1>5. FailureInv'
  BY <1>0 DEF FailureInv, streams, shared, Failures, Verdicts, Streams, None
<1>6. GroupInv' /\ ReapedAtEnd' /\ SurvivorsExplained'
  BY <1>0, <1>1 DEF GroupInv, ReapedAtEnd, SurvivorsExplained, Undisturbed, Joining, TypeOK
<1> QED BY <1>1, <1>2, <1>3, <1>4, <1>5, <1>6

\* A thread is started before it has read anything.
LEMMA StartStep == ASSUME IInv, Start, UNCHANGED interrupted PROVE IInv'
<1> USE DEF IInv
<1>1. PICK t \in Threads :
        /\ thread' = [thread EXCEPT ![t] = "running"]
        /\ pc \in Starting /\ pc' \in Starting \cup {"poll"}
        /\ t \in Streams => thread[t] = "new"
        /\ t = "stdout" => pc' = "start_stderr"
        /\ t = "stderr" => pc' = "poll"
        /\ pc' \in Starting \ {"start_stderr"} => pc \in Starting \ {"start_stderr"}
        /\ UNCHANGED <<processes, written, taken, buffer, shared, reaped, result>>
  <2>1. Threads = {"stdin", "stdout", "stderr"} /\ Streams = {"stdout", "stderr"}
    BY DEF Threads, Streams
  <2> QED BY <2>1 DEF Start, StartThread, Go, MainInv, Starting
<1>2. result = None /\ ~ Aborting /\ ~ Aborting'
  BY <1>1 DEF MainInv, ExceptionInv, Aborting, Starting, Terminating
<1>3. TypeOK'
  BY <1>1 DEF TypeOK, processes, shared, Guarded
<1>4. MainInv'
  <2>1. /\ pc' \in Starting \ {"start_stderr"} => thread'["stdout"] = "new"
        /\ pc' \in Starting => thread'["stderr"] = "new"
    BY <1>1 DEF MainInv, TypeOK, Threads, Streams, Starting
  <2> QED BY <1>1, <1>2, <2>1 DEF MainInv, Starting, Setup, Joining, processes
<1>5. ExceptionInv'
  BY <1>1, <1>2 DEF ExceptionInv, Aborting, Starting, Setup
<1>6. StreamInv'
  BY <1>1 DEF StreamInv, TypeOK, Threads, shared
<1>7. FailureInv'
  BY <1>1 DEF FailureInv, processes, shared
<1>8. GroupInv' /\ ReapedAtEnd' /\ SurvivorsExplained'
  BY <1>1 DEF GroupInv, ReapedAtEnd, SurvivorsExplained, Starting, Joining
<1> QED BY <1>3, <1>4, <1>5, <1>6, <1>7, <1>8

\* A step of the main thread inside the try that ends nothing.
LEMMA GuardedStep ==
  ASSUME IInv, NEW at \in {"poll", "check", "descend", "join", "slay"} \cup Terminating,
         pc \in Guarded, pc' = at,
         UNCHANGED <<alive, group, stubborn, holding, late, returncode, streams,
                     thread_error, result>>,
         doomed \subseteq doomed', doomed' \subseteq alive,
         reaped' \in BOOLEAN, reaped => reaped', reaped' => Child \notin alive,
         at \in {"descend", "join", "slay"} => reaped',
         interrupted' \in {{}, {"watch"}},
         interrupted' = {"watch"} <=> Aborting',
         Aborting' => at \in Terminating \cup {"slay"},
         at = "slay" => Aborting',
         at = "join" => group \ doomed' \subseteq stubborn \ {Child},
         failure' \in Failures \cup {None}, stop_event' \in BOOLEAN,
         failure # None => failure' = failure,
         failure' \in Streams => failure' = failure
  PROVE  IInv'
<1> USE DEF IInv
<1>0. /\ result = None /\ pc # "ended" /\ at # "ended"
      /\ at \notin Setup \cup Starting \cup {"collect", "rejoin"}
  BY DEF MainInv, Guarded, Starting, Setup, Terminating
<1>1. TypeOK'
  BY DEF TypeOK, streams, Guarded, Joining
<1>2. MainInv'
  BY <1>0 DEF MainInv, Setup, Terminating, Joining
<1>a. ExceptionInv'
  BY <1>0 DEF ExceptionInv, Setup
<1>3. StreamInv'
  BY DEF StreamInv, streams
<1>4. FailureInv'
  BY <1>0 DEF FailureInv, Failures, Verdicts, Streams, None, streams
<1>5. GroupInv'
  BY <1>0 DEF GroupInv, Terminating, Joining, streams
<1>6. ReapedAtEnd' /\ SurvivorsExplained'
  BY <1>0 DEF ReapedAtEnd, SurvivorsExplained
<1> QED BY <1>1, <1>2, <1>a, <1>3, <1>4, <1>5, <1>6

\* Watching and terminating the child, and the signal to what it left behind.
LEMMA WatchStep ==
  ASSUME IInv,
         \/ /\ \/ PollExited \/ PollRunning \/ CheckStop \/ CheckDeadline \/ Sleep
               \/ Terminate \/ GraceExpires \/ Descend
               \/ TerminateExited \/ GraceExited \/ KilledExited
            /\ UNCHANGED interrupted
         \/ Handled /\ UNCHANGED <<processes, streams, shared, reaped>>
  PROVE  IInv'
<1> USE DEF IInv, Guarded, Terminating
<1>0. /\ stop_event \in BOOLEAN /\ failure \in Failures \cup {None} /\ reaped \in BOOLEAN
      /\ doomed \subseteq alive /\ group \subseteq alive
      /\ Aborting => pc \in Terminating \cup {"slay", "ended"}
      /\ reaped => Child \notin alive
      /\ pc = "descend" => reaped
      /\ pc \in Guarded => interrupted \subseteq {"watch"}
  BY DEF TypeOK, MainInv, ExceptionInv, Starting
<1>a. /\ pc \in Guarded => interrupted \in {{}, {"watch"}}
      /\ interrupted = {"watch"} => Aborting
      /\ pc \in Guarded /\ Aborting => interrupted = {"watch"}
  BY <1>0 DEF Aborting
<1>b. interrupted' = interrupted => (Aborting' <=> Aborting)
  BY DEF Aborting
<1>1. CASE (PollExited \/ PollRunning \/ CheckStop \/ Sleep) /\ UNCHANGED interrupted
  <2>1. /\ pc \in {"poll", "check"} /\ pc' \in {"descend", "check", "terminate", "poll"}
        /\ UNCHANGED <<processes, streams, shared, interrupted, result>>
        /\ reaped' = reaped \/ (reaped' = TRUE /\ Child \notin alive)
        /\ pc' = "descend" => reaped'
    BY <1>1 DEF PollExited, PollRunning, CheckStop, Sleep, Go, Reap
  <2>2. ~ Aborting /\ ~ Aborting' /\ interrupted' = {}
    BY <1>0, <1>a, <1>b, <2>1
  <2>3. /\ reaped' \in BOOLEAN /\ (reaped => reaped')
        /\ (reaped' => Child \notin alive)
    <3>1. CASE reaped' = reaped
      BY <1>0, <3>1, Zenon
    <3>2. CASE reaped' = TRUE /\ Child \notin alive
      BY <3>2
    <3> QED BY <2>1, <3>1, <3>2
  <2> QED BY <1>0, <2>1, <2>2, <2>3, GuardedStep DEF processes, shared
<1>2. CASE CheckDeadline /\ UNCHANGED interrupted
  <2>1. "timeout" \in Failures \ Streams
    BY DEF Failures, Streams
  <2>2. "timeout" # None
    BY DEF None
  <2>3. pc = "check" /\ ~ Aborting /\ ~ Aborting' /\ interrupted' = {}
    BY <1>0, <1>2, <1>a, <1>b DEF CheckDeadline, Go
  <2> QED
    BY <1>0, <1>2, <2>1, <2>2, <2>3, GuardedStep
       DEF CheckDeadline, Go, RecordFailure, processes
<1>3. CASE (Terminate \/ GraceExpires) /\ UNCHANGED interrupted
  BY <1>0, <1>a, <1>b, <1>3, GuardedStep DEF Terminate, GraceExpires, Go, Signal, shared
<1>4. CASE Descend /\ UNCHANGED interrupted
  <2>1. pc = "descend" /\ ~ Aborting /\ ~ Aborting' /\ interrupted' = {}
    BY <1>0, <1>4, <1>a, <1>b DEF Descend, Go
  <2> QED BY <1>0, <1>4, <2>1, GuardedStep DEF Descend, Go, Signal, shared
<1>5. CASE Handled /\ UNCHANGED <<processes, streams, shared, reaped>>
  <2>1. interrupted' = {"watch"} /\ Aborting' /\ pc' = "terminate" /\ pc \in Guarded
    BY <1>5, <1>a DEF Handled, Aborting
  <2> QED BY <1>0, <1>5, <2>1, GuardedStep DEF Handled, processes, shared
<1>6. CASE (TerminateExited \/ GraceExited \/ KilledExited) /\ UNCHANGED interrupted
  <2>1. /\ pc \in Terminating /\ reaped' = TRUE /\ Child \notin alive
        /\ pc' = IF Aborting THEN "slay" ELSE "descend"
        /\ UNCHANGED <<processes, streams, shared, interrupted, result>>
    BY <1>6 DEF TerminateExited, GraceExited, KilledExited, Reaped, Reap
  <2> QED BY <1>0, <1>a, <1>b, <2>1, GuardedStep DEF processes, shared
<1> QED BY <1>1, <1>2, <1>3, <1>4, <1>5, <1>6

\* The joins, and their expiry: the second signal dooms the whole group.
LEMMA JoinStep ==
  ASSUME IInv, Joined \/ JoinExpires \/ RejoinExpires, UNCHANGED interrupted
  PROVE  IInv'
<1> USE DEF IInv
<1>1. /\ pc \in Joining /\ pc' \in {"rejoin", "collect"} /\ result = None /\ ~ Aborting
      /\ UNCHANGED <<alive, group, stubborn, holding, late, returncode, streams, shared,
                     reaped, interrupted, result>>
      /\ doomed \subseteq doomed' /\ doomed' \subseteq alive /\ reaped
      /\ pc' = "rejoin" => group \subseteq doomed'
      /\ pc' = "collect" => group \subseteq doomed' \/ \A t \in Threads : Over(t)
  BY DEF Joined, JoinExpires, RejoinExpires, Go, Signal, MainInv, ExceptionInv, GroupInv,
         TypeOK, Joining, Terminating, processes
<1>2. TypeOK'
  BY <1>1 DEF TypeOK, streams, shared, Joining
<1>3. MainInv' /\ StreamInv'
  BY <1>1 DEF MainInv, StreamInv, streams, shared, Setup, Starting, Joining, None
<1>a. ExceptionInv'
  BY <1>1 DEF ExceptionInv, Aborting, Setup, Joining
<1>4. FailureInv'
  BY <1>1 DEF FailureInv, streams, shared
<1>5. GroupInv'
  <2>1. group \ doomed' \subseteq (stubborn \cup late) \ {Child}
    BY <1>1 DEF GroupInv
  <2> QED BY <1>1, <2>1 DEF GroupInv, Over, streams
<1>6. ReapedAtEnd' /\ SurvivorsExplained'
  BY <1>1 DEF ReapedAtEnd, SurvivorsExplained
<1> QED BY <1>2, <1>3, <1>a, <1>4, <1>5, <1>6

\* The call ends with a result that the invariant explains, or is left by an
\* exception.
LEMMA EndStep ==
  ASSUME IInv,
         \/ (Collect \/ Slay) /\ UNCHANGED interrupted
         \/ /\ \/ Aborting /\ pc # "ended" /\ Escape("cleanup")
               \/ pc \in Joining \cup {"collect"} /\ Escape("join")
            /\ UNCHANGED <<processes, streams, shared, reaped>>
  PROVE  IInv'
<1> USE DEF IInv
<1>1. /\ pc \in {"collect", "slay"} \cup Joining \cup Terminating /\ pc' = "ended"
      /\ result = None
      /\ UNCHANGED <<alive, group, stubborn, holding, late, returncode, streams, shared,
                     reaped>>
      /\ doomed \subseteq doomed' /\ doomed' \subseteq alive
  BY DEF Collect, Slay, Escape, End, Signal, MainInv, ExceptionInv, TypeOK, Joining,
         Terminating, processes
<1>a. \/ /\ pc = "collect" /\ ~ Aborting /\ result' \in Judged /\ interrupted' = {}
         /\ reaped /\ doomed' = doomed
      \/ /\ pc = "slay" /\ result' = "interrupted" /\ interrupted' = {"watch"}
         /\ reaped /\ group \subseteq doomed'
      \/ /\ Aborting /\ result' = "interrupted" /\ interrupted' = {"watch", "cleanup"}
      \/ /\ pc \in Joining \cup {"collect"} /\ ~ Aborting /\ result' = "interrupted"
         /\ interrupted' = {"join"} /\ reaped /\ doomed' = doomed
  <2>1. /\ interrupted \in {{}, {"watch"}}
        /\ Aborting => interrupted = {"watch"}
        /\ pc \in Joining \cup {"collect"} => ~ Aborting /\ interrupted = {} /\ reaped
        /\ pc = "slay" => Aborting /\ interrupted = {"watch"} /\ reaped
        /\ group \subseteq alive
    <3>1. interrupted \subseteq {"watch"}
      BY <1>1 DEF ExceptionInv, Joining, Terminating
    <3> QED BY <1>1, <3>1 DEF MainInv, ExceptionInv, Aborting, Joining, Terminating, TypeOK
  <2> QED BY <2>1 DEF Collect, Slay, Escape, End, Signal, processes
<1>2. /\ result' \in Failures \cup Exceptions \cup Verdicts
      /\ result' \in Failures => result' = failure
      /\ result' \in Verdicts => failure = None /\ ~ thread_error
      /\ result' = "response" => returncode = 0
      /\ result' # None /\ result' # "launch_failed"
  BY <1>a DEF Judged, TypeOK, Failures, Exceptions, Verdicts, Streams, None
<1>3. TypeOK'
  <2>1. interrupted' \subseteq {"setup", "watch", "cleanup", "join"}
    BY <1>a
  <2> QED BY <1>1, <1>2, <2>1 DEF TypeOK, streams, shared
<1>4. MainInv' /\ StreamInv'
  BY <1>1, <1>2 DEF MainInv, StreamInv, streams, shared, Setup, Starting, Joining,
     Terminating
<1>b. ExceptionInv'
  BY <1>1, <1>a DEF ExceptionInv, Aborting, Undisturbed, Setup
<1>5. FailureInv'
  BY <1>1, <1>2 DEF FailureInv, streams, shared
<1>6. GroupInv' /\ ReapedAtEnd'
  BY <1>1, <1>a DEF GroupInv, ReapedAtEnd, Undisturbed, Joining
<1>7. SurvivorsExplained'
  <2>1. CASE pc = "collect" /\ ~ Aborting /\ doomed' = doomed /\ interrupted' = {}
    BY <1>1, <2>1 DEF SurvivorsExplained, GroupInv, Over, streams
  <2>2. CASE group \subseteq doomed'
    BY <1>1, <2>2 DEF SurvivorsExplained
  <2>3. CASE interrupted' = {"watch", "cleanup"}
    BY <2>3 DEF SurvivorsExplained, Undisturbed
  <2>4. CASE pc \in Joining \cup {"collect"} /\ interrupted' = {"join"} /\ doomed' = doomed
    BY <1>1, <2>4 DEF SurvivorsExplained, GroupInv
  <2> QED BY <1>a, <2>1, <2>2, <2>3, <2>4
<1> QED BY <1>3, <1>4, <1>b, <1>5, <1>6, <1>7

\* Every step keeps the invariant.
LEMMA NextIInv == IInv /\ [Next]_vars => IInv'
<1> SUFFICES ASSUME IInv, [Next]_vars PROVE IInv'
  OBVIOUS
<1>1. CASE UNCHANGED vars
  BY <1>1 DEF vars, processes, streams, shared, main, IInv, TypeOK, MainInv, StreamInv,
              ExceptionInv, Aborting, Undisturbed, FailureInv, GroupInv, ReapedAtEnd, SurvivorsExplained, Over
<1>2. CASE MainStep \/ Interrupt
  BY <1>2, SetupStep, StartStep, WatchStep, JoinStep, EndStep
     DEF MainStep, MainAction, Interrupt
<1>3. CASE ThreadStep
  BY <1>3, ReadStep, ThreadStepKeeps DEF ThreadStep
<1>4. CASE \E p \in Processes : Spawn(p) \/ Exit(p)
  BY <1>4, ProcessStep
<1>5. CASE \E s \in Streams : Emit(s)
  BY <1>5, PrintStep
<1> QED BY <1>1, <1>2, <1>3, <1>4, <1>5 DEF Next

\* The invariant holds in every reachable state.
LEMMA SpecIInv == Spec => []IInv
BY InitIInv, NextIInv, PTL DEF Spec

-----------------------------------------------------------------------------
\* No buffer grows beyond its limit, whatever the bridge prints.
THEOREM TypeCorrect == Spec => []TypeOK
<1>1. IInv => TypeOK
  BY DEF IInv
<1> QED BY <1>1, SpecIInv, PTL

\* The child has been waited for when the call ends, unless an exception hit the
\* main thread before the try or in its handler.
THEOREM ChildIsReaped == Spec => []ReapedAtEnd
<1>1. IInv => ReapedAtEnd
  BY DEF IInv
<1> QED BY <1>1, SpecIInv, PTL

\* What then outlives the call in its process group withstands SIGTERM or was
\* started after it, and kept no thread waiting, unless a join was interrupted.
THEOREM SurvivorsAreExplained == Spec => []SurvivorsExplained
<1>1. IInv => SurvivorsExplained
  BY DEF IInv
<1> QED BY <1>1, SpecIInv, PTL

\* Limits are reported only when exceeded, and no verdict rests on a stream
\* that was cut off.
THEOREM VerdictsAreHonest == Spec => []VerdictHonest
<1>1. IInv => VerdictHonest
  <2> SUFFICES ASSUME IInv PROVE VerdictHonest
    OBVIOUS
  <2>1. result \in Streams => result = failure
    BY DEF IInv, FailureInv, Failures
  <2>2. "response" \in Verdicts
    BY DEF Verdicts
  <2> QED BY <2>1, <2>2 DEF IInv, VerdictHonest, FailureInv, StreamInv
<1> QED BY <1>1, SpecIInv, PTL

\* The failure recorded first is the one reported.
THEOREM FirstFailureWins == Spec => FirstFailureStands
<1>1. ASSUME IInv, IInv', [Next]_vars
      PROVE  [failure # None => failure' = failure /\ (result' \in Failures => result' = failure)]_vars
  <2> SUFFICES ASSUME Next, failure # None PROVE failure' = failure
    BY <1>1 DEF IInv, FailureInv, vars, shared, main
  <2>1. CASE \/ ThreadStep \/ MainStep \/ Interrupt
    BY <2>1 DEF ThreadStep, ReadChunk, ReadBeyondLimit, ReadEnd, ReadBreaks, WriteRequest,
       ThreadFails, SetStop, ThreadEnds, RecordFailure, MainStep, MainAction, Launch, LaunchFails,
       Prepare, Start, StartThread, Slay, Handled, Escape, PollExited, PollRunning, CheckStop, CheckDeadline, Sleep, TerminateExited,
       Terminate, GraceExited, GraceExpires, KilledExited, Reaped, Descend, Joined,
       JoinExpires, RejoinExpires, Collect, Interrupt, shared
  <2>2. CASE \/ \E p \in Processes : Spawn(p) \/ Exit(p)
            \/ \E s \in Streams : Emit(s)
    BY <2>2 DEF Spawn, Exit, Emit, shared
  <2> QED BY <2>1, <2>2 DEF Next
<1> QED BY <1>1, SpecIInv, PTL DEF Spec, FirstFailureStands

-----------------------------------------------------------------------------
\* The main thread of a stopped call moves to a later place, or once back to
\* the termination.
LEMMA MainStepLeft ==
  ASSUME TypeOK, stop_event, MainStep \/ Interrupt
  PROVE  stop_event' /\ CallLeft' < CallLeft
<1> USE DEF Go, End
<1>1. CASE MainStep
  <2>1. stop_event' = stop_event /\ Aborting' = Aborting
    BY <1>1 DEF MainStep, MainAction, Launch, LaunchFails, Prepare, Start, StartThread,
       PollExited, PollRunning, CheckStop, CheckDeadline, Sleep, TerminateExited, Terminate,
       GraceExited, GraceExpires, KilledExited, Reaped, Descend, Joined, JoinExpires,
       RejoinExpires, Collect, Slay, Aborting, shared
  <2>2. \/ pc = "launch" /\ pc' \in {"prepare", "ended"}
        \/ pc = "prepare" /\ pc' = "start_stdin"
        \/ pc = "start_stdin" /\ pc' = "start_stdout"
        \/ pc = "start_stdout" /\ pc' = "start_stderr"
        \/ pc = "start_stderr" /\ pc' = "poll"
        \/ pc = "poll" /\ pc' \in {"check", "descend"}
        \/ pc = "check" /\ pc' = "terminate"
        \/ pc = "terminate" /\ pc' \in {"grace", "descend", "slay"}
        \/ pc = "grace" /\ pc' \in {"kill", "descend", "slay"}
        \/ pc = "kill" /\ pc' \in {"descend", "slay"}
        \/ pc = "descend" /\ pc' = "join"
        \/ pc = "join" /\ pc' \in {"rejoin", "collect"}
        \/ pc = "rejoin" /\ pc' = "collect"
        \/ pc \in {"collect", "slay"} /\ pc' = "ended"
    <3>1. CASE Launch \/ LaunchFails \/ Prepare \/ Start
      BY <3>1 DEF Launch, LaunchFails, Prepare, Start, StartThread
    <3>2. CASE PollExited \/ PollRunning \/ CheckStop \/ CheckDeadline \/ Sleep
      BY <3>2 DEF PollExited, PollRunning, CheckStop, CheckDeadline, Sleep
    <3>3. CASE \/ TerminateExited \/ Terminate \/ GraceExited \/ GraceExpires
              \/ KilledExited
      BY <3>3 DEF TerminateExited, Terminate, GraceExited, GraceExpires, KilledExited,
                  Reaped
    <3>4. CASE Descend \/ Joined \/ JoinExpires \/ RejoinExpires \/ Collect \/ Slay
      BY <3>4 DEF Descend, Joined, JoinExpires, RejoinExpires, Collect, Slay, Joining
    <3> QED BY <1>1, <3>1, <3>2, <3>3, <3>4 DEF MainStep, MainAction
  <2> QED BY <2>1, <2>2 DEF CallLeft
<1>2. CASE Interrupt
  <2>1. stop_event' = stop_event
    BY <1>2 DEF Interrupt, shared
  <2>2. \/ pc \in Guarded /\ pc' = "terminate" /\ ~ Aborting /\ Aborting'
        \/ pc # "ended" /\ pc' = "ended"
    BY <1>2 DEF Interrupt, Handled, Escape, Aborting, Setup, Joining
  <2> QED BY <2>1, <2>2 DEF CallLeft, Guarded, Starting, Terminating
<1> QED BY <1>1, <1>2

\* Nobody else moves the main thread or takes the stop event back.
LEMMA OthersLeaveMain ==
  ASSUME stop_event, Next, ~ (MainStep \/ Interrupt)
  PROVE  stop_event' /\ UNCHANGED main
<1>1. CASE ThreadStep
  BY <1>1 DEF ThreadStep, ReadChunk, ReadBeyondLimit, Read, ReadEnd, ReadBreaks,
     WriteRequest, ThreadFails, SetStop, ThreadEnds, shared
<1>2. CASE \/ \E p \in Processes : Spawn(p) \/ Exit(p)
           \/ \E s \in Streams : Emit(s)
  BY <1>2 DEF Spawn, Exit, Emit, shared
<1> QED BY <1>1, <1>2 DEF Next

\* StoppedCallsRunDown: once a limit, the deadline or a failed thread has stopped
\* a call, its main thread has at most CallLeft steps before it returns or
\* raises, whatever the processes and the other threads do.
THEOREM StoppedCallsEnd == Spec => StoppedCallsRunDown
<1>1. ASSUME TypeOK, TypeOK', [Next]_vars
      PROVE  [stop_event =>
                /\ stop_event'
                /\ CallLeft' \in Nat /\ CallLeft' <= CallLeft
                /\ MainStep \/ Interrupt => CallLeft' < CallLeft]_vars
  <2> SUFFICES ASSUME Next, stop_event
               PROVE  /\ stop_event'
                      /\ CallLeft' \in Nat /\ CallLeft' <= CallLeft
                      /\ MainStep \/ Interrupt => CallLeft' < CallLeft
    BY <1>1
  <2>1. CallLeft \in Nat /\ CallLeft' \in Nat
    BY DEF CallLeft
  <2>2. CASE MainStep \/ Interrupt
    <3>1. stop_event' /\ CallLeft' < CallLeft
      BY <1>1, <2>2, MainStepLeft
    <3>2. \A a, b \in Nat : b < a => b <= a
      OBVIOUS
    <3> QED BY <2>1, <3>1, <3>2
  <2>3. CASE ~ (MainStep \/ Interrupt)
    <3>1. stop_event' /\ UNCHANGED main
      BY <2>3, OthersLeaveMain
    <3>2. CallLeft' = CallLeft
      BY <3>1 DEF CallLeft, Aborting, main
    <3>3. \A a \in Nat : a <= a
      OBVIOUS
    <3> QED BY <2>1, <2>3, <3>1, <3>2, <3>3
  <2> QED BY <2>2, <2>3
<1> QED BY <1>1, TypeCorrect, PTL DEF Spec, StoppedCallsRunDown
=============================================================================
