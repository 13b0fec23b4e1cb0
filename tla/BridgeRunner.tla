---------------------------- MODULE BridgeRunner ----------------------------
(***************************************************************************)
(* run_product_pack_bridge (pmqa/product_pack/bridge_runner.py): one call  *)
(* runs one bridge process in a session of its own, with a thread that     *)
(* writes the request, a thread per output stream, and a main thread that  *)
(* polls the process against a deadline and a stop event.  The bridge may  *)
(* leave other processes behind, in its process group or outside it, which *)
(* may ignore SIGTERM and may hold its output streams open.                *)
(*                                                                         *)
(* Bytes are counted.  stream.read(n) on a buffered pipe returns n bytes,  *)
(* or what is left once nobody holds the other end; until then it blocks.  *)
(* No duration is modelled: the deadline, a grace period and a join may be *)
(* over whenever the code looks.  POSIX only.                              *)
(***************************************************************************)
EXTENDS Integers, FiniteSets

CONSTANTS
  Helpers,    \* processes the bridge may start
  Chunk,      \* _READ_CHUNK_SIZE
  Limit,      \* [Streams -> bytes]: max_stdout_bytes, max_stderr_bytes
  MaxBytes,   \* bound: [Streams -> bytes ever written]
  Reply       \* length of the one response the bridge should print

Child     == "child"
Streams   == {"stdout", "stderr"}
Threads   == Streams \cup {"stdin"}
Processes == Helpers \cup {Child}
None      == "none"

ASSUME BridgeAssumption ==
  /\ Chunk \in Nat \ {0}
  /\ Limit \in [Streams -> Nat \ {0}]
  /\ MaxBytes \in [Streams -> Nat]
  /\ Reply \in Nat
  /\ Child \notin Helpers

VARIABLES
  alive, group, stubborn, holding, doomed,  \* living processes
  late,                \* history: those started after the group's SIGTERM
  reaped, returncode,                       \* of the child
  written, taken, buffer,                   \* per stream
  thread,                                   \* per thread
  failure, thread_error, stop_event,
  pc, result,                               \* the main thread
  interrupted          \* history: where exceptions hit the main thread

processes == <<alive, group, stubborn, holding, doomed, late, returncode>>
streams   == <<written, taken, buffer, thread>>
shared    == <<failure, thread_error, stop_event>>
main      == <<reaped, pc, result, interrupted>>
vars      == <<processes, streams, shared, main>>

\* What run_product_pack_bridge ends with.
Failures   == Streams \cup {"timeout"}
Exceptions == {"launch_failed", "thread_error", "interrupted"}
Verdicts   == {"nonzero_exit", "invalid_stdout", "invalid_protocol_response",
               "correlation_mismatch", "response"}

\* The main thread's places: before the try, in it, and after it.
Setup       == {"launch", "prepare"}
Starting    == {"start_stdin", "start_stdout", "start_stderr"}
Terminating == {"terminate", "grace", "kill"}
Guarded     == Starting \cup {"poll", "check", "descend"} \cup Terminating
Joining     == {"join", "rejoin"}

\* The handler of the try is running, or has run.
Aborting == "watch" \in interrupted

Init ==
  /\ alive = {} /\ group = {} /\ stubborn = {} /\ holding = {} /\ doomed = {}
  /\ late = {} /\ reaped = FALSE /\ returncode = 0
  /\ written = [s \in Streams |-> 0] /\ taken = [s \in Streams |-> 0]
  /\ buffer = [s \in Streams |-> 0]
  /\ thread = [t \in Threads |-> "new"]
  /\ failure = None /\ thread_error = FALSE
  /\ stop_event = FALSE
  /\ pc = "launch" /\ result = None /\ interrupted = {}

-----------------------------------------------------------------------------
(* The bridge and the processes it leaves behind *)

Running == pc \notin {"launch", "ended"}

\* A process no fatal signal is pending for may start another, in its own
\* process group or out of it, with the streams it holds itself or without.
Spawn(h) ==
  /\ Running
  /\ h \in Helpers \ alive
  /\ \E q \in alive \ doomed :
       /\ group' = group \/ (q \in group /\ group' = group \cup {h})
       /\ holding' = holding \/ (q \in holding /\ holding' = holding \cup {h})
  /\ alive' = alive \cup {h}
  /\ stubborn' \in {stubborn, stubborn \cup {h}}
  /\ late' = IF pc \in Joining \cup {"collect"} THEN late \cup {h} ELSE late
  /\ UNCHANGED <<doomed, returncode, streams, shared, main>>

Emit(s) ==
  /\ Running
  /\ holding # {}
  /\ thread[s] = "running"
  /\ written[s] < MaxBytes[s]
  /\ written' = [written EXCEPT ![s] = @ + 1]
  /\ UNCHANGED <<processes, taken, buffer, thread, shared, main>>

\* Of its own accord a process may exit with any status; one that ignores
\* SIGTERM, or catches it, is only doomed by SIGKILL.
Exit(p) ==
  /\ Running
  /\ p \in alive
  /\ alive' = alive \ {p} /\ group' = group \ {p} /\ holding' = holding \ {p}
  /\ stubborn' = stubborn \ {p} /\ doomed' = doomed \ {p} /\ late' = late \ {p}
  /\ IF p = Child
     THEN returncode' \in IF p \in doomed \cap stubborn THEN {1} ELSE {0, 1}
     ELSE UNCHANGED returncode
  /\ UNCHANGED <<streams, shared, main>>

Die(p) == p \in doomed /\ Exit(p)

-----------------------------------------------------------------------------
(* The threads *)

\* Seeded fault: the failure recorded last is the one reported.
RecordFailureLast(f) == failure' = f

\* record_failure: the first failure wins.
RecordFailure(f) == failure' = IF failure = None THEN f ELSE failure

EndOfFile == holding = {}

Available(s) == written[s] - taken[s]

\* What stream.read returns, if it returns.
ChunkRead(s, n) ==
  \/ n = Chunk /\ Available(s) >= Chunk
  \/ EndOfFile /\ n = Available(s) /\ n \in 1 .. Chunk - 1

Read(s, n) ==
  /\ Running
  /\ thread[s] = "running"
  /\ ChunkRead(s, n)
  /\ taken' = [taken EXCEPT ![s] = @ + n]
  /\ UNCHANGED <<written, processes, thread_error, stop_event, main>>

Remaining(s) == Limit[s] - buffer[s]

\* Seeded faults: a stream that reaches its limit has exceeded it; the limit
\* is not applied.
FitsBelow(s, n) == n < Remaining(s)
FitsAlways(s, n) == TRUE

Fits(s, n) == n <= Remaining(s)

ReadChunk(s) ==
  \E n \in 1 .. Chunk :
    /\ Read(s, n)
    /\ Fits(s, n)
    /\ buffer' = [buffer EXCEPT ![s] = @ + n]
    /\ UNCHANGED <<thread, failure>>

ReadBeyondLimit(s) ==
  \E n \in 1 .. Chunk :
    /\ Read(s, n)
    /\ ~ Fits(s, n)
    /\ buffer' = [buffer EXCEPT ![s] = @ + Remaining(s)]
    /\ RecordFailure(s)
    /\ thread' = [thread EXCEPT ![s] = "stopping"]

ThreadEnds(t, at) ==
  /\ Running
  /\ thread[t] = at
  /\ thread' = [thread EXCEPT ![t] = "done"]
  /\ UNCHANGED <<processes, written, taken, buffer, failure, thread_error, main>>

ReadEnd(s) ==
  /\ EndOfFile /\ Available(s) = 0
  /\ ThreadEnds(s, "running")
  /\ UNCHANGED stop_event

\* Writing ends when the request is through, or nobody can read it any more;
\* it may block for as long as somebody could.
WriteRequest == ThreadEnds("stdin", "running") /\ UNCHANGED stop_event

\* read_stream swallows an OSError of read.
ReadBreaks(s) ==
  /\ Running
  /\ thread[s] = "running"
  /\ thread' = [thread EXCEPT ![s] = "broken"]
  /\ UNCHANGED <<processes, written, taken, buffer, shared, main>>

\* guarded_thread: any other exception is kept for the main thread.
ThreadFails(t) ==
  /\ Running
  /\ thread[t] = "running"
  /\ thread' = [thread EXCEPT ![t] = "stopping"]
  /\ thread_error' = TRUE
  /\ UNCHANGED <<processes, written, taken, buffer, failure, stop_event, main>>

\* The stop event is set after the failure is recorded.
SetStop(t) == ThreadEnds(t, "stopping") /\ stop_event' = TRUE

ThreadStep ==
  \/ \E s \in Streams :
       ReadChunk(s) \/ ReadBeyondLimit(s) \/ ReadEnd(s) \/ ReadBreaks(s)
  \/ WriteRequest
  \/ \E t \in Threads : ThreadFails(t) \/ SetStop(t)

-----------------------------------------------------------------------------
(* The main thread *)

Go(from, to) == pc = from /\ pc' = to

End(r) == pc' = "ended" /\ result' = r

\* Popen starts the child as the leader of a group of its own.
Launch ==
  /\ Go("launch", "prepare")
  /\ alive' = {Child} /\ group' = {Child} /\ holding' = {Child}
  /\ stubborn' \in SUBSET {Child}
  /\ UNCHANGED <<doomed, late, returncode, streams, shared, reaped, result>>

LaunchFails ==
  /\ pc = "launch"
  /\ End("launch_failed")
  /\ UNCHANGED <<processes, streams, shared, reaped>>

\* Buffers, locks and threads are made before the try begins.
Prepare ==
  /\ Go("prepare", "start_stdin")
  /\ UNCHANGED <<processes, streams, shared, reaped, result>>

StartThread(t, from, to) ==
  /\ Go(from, to)
  /\ thread' = [thread EXCEPT ![t] = "running"]
  /\ UNCHANGED <<processes, written, taken, buffer, shared, reaped, result>>

Start ==
  \/ StartThread("stdin", "start_stdin", "start_stdout")
  \/ StartThread("stdout", "start_stdout", "start_stderr")
  \/ StartThread("stderr", "start_stderr", "poll")

\* killpg: a group nobody is left in is not an error.
Signal(kill) ==
  /\ doomed' = doomed \cup {p \in group : kill \/ p \notin stubborn}
  /\ UNCHANGED <<alive, group, stubborn, holding, late, returncode>>

Reap == Child \notin alive /\ reaped' = TRUE

PollExited ==
  /\ Go("poll", "descend")
  /\ Reap
  /\ UNCHANGED <<processes, streams, shared, result>>

PollRunning ==
  /\ Go("poll", "check")
  /\ Child \in alive
  /\ UNCHANGED <<processes, streams, shared, reaped, result>>

CheckStop ==
  /\ Go("check", "terminate")
  /\ stop_event
  /\ UNCHANGED <<processes, streams, shared, reaped, result>>

CheckDeadline ==
  /\ Go("check", "terminate")
  /\ ~ stop_event
  /\ RecordFailure("timeout")
  /\ stop_event' = TRUE
  /\ UNCHANGED <<processes, streams, thread_error, reaped, result>>

Sleep ==
  /\ Go("check", "poll")
  /\ ~ stop_event
  /\ UNCHANGED <<processes, streams, shared, reaped, result>>

\* The child has exited: go on, or finish what an exception began.
Reaped ==
  /\ Reap
  /\ pc' = IF Aborting THEN "slay" ELSE "descend"
  /\ UNCHANGED <<processes, streams, shared, result>>

TerminateExited == pc = "terminate" /\ Reaped

Terminate ==
  /\ Go("terminate", "grace")
  /\ Child \in alive
  /\ Signal(FALSE)
  /\ UNCHANGED <<streams, shared, reaped, result>>

GraceExited == pc = "grace" /\ Reaped

\* Seeded fault: the process is killed but not waited for.
GraceExpiresUnreaped ==
  /\ Go("grace", "descend")
  /\ Child \in alive
  /\ Signal(TRUE)
  /\ UNCHANGED <<streams, shared, reaped, result>>

GraceExpires ==
  /\ Go("grace", "kill")
  /\ Child \in alive
  /\ Signal(TRUE)
  /\ UNCHANGED <<streams, shared, reaped, result>>

KilledExited == pc = "kill" /\ Reaped

\* Seeded fault: what the bridge left behind is not signalled.
DescendSilently ==
  /\ Go("descend", "join")
  /\ UNCHANGED <<processes, streams, shared, reaped, result>>

Descend ==
  /\ Go("descend", "join")
  /\ Signal(FALSE)
  /\ UNCHANGED <<streams, shared, reaped, result>>

Over(t) == thread[t] \in {"done", "broken"}

Joined ==
  /\ pc \in Joining
  /\ \A t \in Threads : Over(t)
  /\ pc' = "collect"
  /\ UNCHANGED <<processes, streams, shared, reaped, result>>

\* Seeded fault: the first join has no timeout.
JoinForEver == FALSE

JoinExpires ==
  /\ Go("join", "rejoin")
  /\ \E t \in Threads : ~ Over(t)
  /\ Signal(TRUE)
  /\ UNCHANGED <<streams, shared, reaped, result>>

RejoinExpires ==
  /\ Go("rejoin", "collect")
  /\ \E t \in Threads : ~ Over(t)
  /\ UNCHANGED <<processes, streams, shared, reaped, result>>

\* How the outcome is read: an error of a thread before a recorded failure,
\* the failure before the exit status, the status before the output.
Judged ==
  IF thread_error THEN {"thread_error"}
  ELSE IF failure # None THEN {failure}
  ELSE IF returncode # 0 THEN {"nonzero_exit"}
  ELSE IF buffer["stdout"] # Reply THEN {"invalid_stdout"}
  ELSE Verdicts \ {"nonzero_exit", "invalid_stdout"}

Collect ==
  /\ pc = "collect"
  /\ \E r \in Judged : End(r)
  /\ UNCHANGED <<processes, streams, shared, reaped>>

\* The end of the handler: the whole group is killed, the exception goes on.
Slay ==
  /\ pc = "slay"
  /\ Signal(TRUE) /\ End("interrupted")
  /\ UNCHANGED <<streams, shared, reaped>>

\* An exception in the main thread, KeyboardInterrupt for one, or a thread that
\* cannot be started, for as long as the call runs.  In the try it is handled:
\* the child is terminated and waited for first.  From anywhere else, the
\* handler included, it goes straight to the caller.
Escape(place) == End("interrupted") /\ interrupted' = interrupted \cup {place}

Handled ==
  /\ pc \in Guarded /\ ~ Aborting
  /\ pc' = "terminate" /\ interrupted' = interrupted \cup {"watch"}
  /\ UNCHANGED result

Interrupt ==
  /\ \/ pc \in Setup /\ Escape("setup")
     \/ Handled
     \/ Aborting /\ pc # "ended" /\ Escape("cleanup")
     \/ pc \in Joining \cup {"collect"} /\ Escape("join")
  /\ UNCHANGED <<processes, streams, shared, reaped>>

MainAction ==
  \/ Launch \/ LaunchFails \/ Prepare \/ Start
  \/ PollExited \/ PollRunning \/ CheckStop \/ CheckDeadline \/ Sleep
  \/ TerminateExited \/ Terminate \/ GraceExited \/ GraceExpires \/ KilledExited
  \/ Descend \/ Joined \/ JoinExpires \/ RejoinExpires \/ Collect \/ Slay

MainStep == MainAction /\ UNCHANGED interrupted

Next ==
  \/ MainStep \/ Interrupt
  \/ ThreadStep
  \/ \E p \in Processes : Spawn(p) \/ Exit(p)
  \/ \E s \in Streams : Emit(s)

Spec == Init /\ [][Next]_vars

\* The main thread runs, it does not find the deadline ahead for ever, and a
\* signal that cannot be ignored kills.  Nothing is assumed of the threads, or
\* of the bridge itself.
FairSpec ==
  /\ Spec
  /\ WF_vars(MainStep) /\ SF_vars(CheckDeadline /\ UNCHANGED interrupted)
  /\ \A p \in Processes : WF_vars(Die(p))

-----------------------------------------------------------------------------
(* Properties *)

TypeOK ==
  /\ alive \subseteq Processes
  /\ group \subseteq alive /\ stubborn \subseteq alive
  /\ holding \subseteq alive /\ doomed \subseteq alive
  /\ reaped \in BOOLEAN /\ returncode \in {0, 1}
  /\ written \in [Streams -> Nat] /\ taken \in [Streams -> Nat]
  /\ buffer \in [Streams -> Nat]
  /\ \A s \in Streams : buffer[s] <= Limit[s]
  /\ thread \in [Threads -> {"new", "running", "stopping", "done", "broken"}]
  /\ failure \in Failures \cup {None}
  /\ thread_error \in BOOLEAN /\ stop_event \in BOOLEAN
  /\ late \subseteq alive
  /\ pc \in {"collect", "slay", "ended"} \cup Setup \cup Guarded \cup Joining
  /\ interrupted \subseteq {"setup", "watch", "cleanup", "join"}
  /\ result \in Failures \cup Exceptions \cup Verdicts \cup {None}

\* The call's own clean-up was left to run: no exception hit it before the try
\* or in the handler, where the code has nothing to catch it.
Undisturbed == interrupted \cap {"setup", "cleanup"} = {}

\* However the call ends, by a response, a limit, the deadline, a failed thread
\* or an exception in the try or in a join, the child it started has been
\* waited for.
ReapedAtEnd ==
  pc = "ended" /\ result # "launch_failed" /\ Undisturbed => reaped

\* A process of the bridge's group that outlives such a call without a fatal
\* signal pending withstands SIGTERM or was started after it, and either kept
\* no thread of the call waiting or was spared by an exception in a join.
SurvivorsExplained ==
  pc = "ended" /\ Undisturbed =>
    \A p \in group \ doomed :
      /\ p \in (stubborn \cup late) \ {Child}
      /\ (\A t \in Threads : Over(t)) \/ "join" \in interrupted

\* What is reported did happen: a limit was exceeded and not just reached; and
\* a verdict about the output rests on every byte of
\* the streams that were read to their end, none silently cut off.
VerdictHonest ==
  /\ result \in Streams => written[result] > Limit[result]
  /\ result \in Verdicts =>
       \A s \in Streams : thread[s] = "done" => buffer[s] = written[s]
  /\ result = "response" => returncode = 0 /\ failure = None

\* Deadline and stream limits race from three threads: the failure recorded
\* first is never replaced, and is the one reported.
FirstFailureStands ==
  [][failure # None =>
       failure' = failure /\ (result' \in Failures => result' = failure)]_vars

\* The call returns, though the bridge never exits, ignores SIGTERM, prints
\* without end or leaves processes behind that hold its streams for ever.
CallReturns == <>(pc = "ended")

\* A timeout or a stream limit ends with the process group cleaned up
\* (docs/architecture/product-pack-adoption.md:203).
GroupCleanedUp ==
  result \in Failures => group \subseteq doomed

-----------------------------------------------------------------------------
(* The inductive strengthening of the safety properties. *)

\* Nothing has happened before the launch, no thread runs before it is started,
\* and no exit status is read before the child is waited for.
MainInv ==
  /\ pc = "launch" => alive = {} /\ ~ reaped
  /\ pc \in Setup => \A t \in Threads : thread[t] = "new"
  /\ pc \in Starting \ {"start_stderr"} => thread["stdout"] = "new"
  /\ pc \in Starting => thread["stderr"] = "new"
  /\ reaped => Child \notin alive
  /\ pc \in {"descend", "collect", "slay"} \cup Joining => reaped
  /\ pc = "ended" <=> result # None
  /\ result = "launch_failed" => alive = {}

\* Where an exception leaves the call, and what its handler has done.
ExceptionInv ==
  /\ interrupted \subseteq {"watch"} \/ pc = "ended"
  /\ pc \in Setup => interrupted = {}
  /\ pc = "slay" => Aborting
  /\ Aborting => pc \in Terminating \cup {"slay", "ended"} /\ "join" \notin interrupted
  /\ pc = "ended" /\ Aborting /\ Undisturbed => reaped /\ group \subseteq doomed

\* A stream's buffer holds what was read from it, unless its reader stopped at
\* the limit or failed, which somebody has been told.
StreamInv ==
  \A s \in Streams :
    /\ buffer[s] <= taken[s] /\ taken[s] <= written[s]
    /\ thread[s] \in {"new", "running"} => buffer[s] = taken[s]
    /\ thread[s] = "stopping" => failure # None \/ thread_error
    /\ thread[s] = "done" =>
         buffer[s] = written[s] \/ failure # None \/ thread_error

\* The failure recorded, and the result made of it.
FailureInv ==
  /\ failure \in Streams => written[failure] > Limit[failure]
  /\ result \in Failures => result = failure
  /\ result \in Verdicts => failure = None /\ ~ thread_error
  /\ result = "response" => returncode = 0

\* Who is left in the group once the child has gone.
GroupInv ==
  /\ pc \in Joining \cup {"collect"} =>
       group \ doomed \subseteq (stubborn \cup late) \ {Child}
  /\ pc = "rejoin" => group \subseteq doomed
  /\ pc = "collect" => group \subseteq doomed \/ \A t \in Threads : Over(t)

IInv ==
  /\ TypeOK
  /\ MainInv
  /\ ExceptionInv
  /\ StreamInv
  /\ FailureInv
  /\ GroupInv
  /\ ReapedAtEnd
  /\ SurvivorsExplained

-----------------------------------------------------------------------------
(* Why a stopped call ends *)

\* The steps the main thread has left once the stop event is set; an exception,
\* which a call survives at most once, may send it back to the termination.
CallLeft ==
  IF pc = "ended" THEN 0
  ELSE (IF Aborting THEN 0 ELSE 10) +
       (CASE pc = "launch" -> 14       [] pc = "prepare" -> 13
          [] pc = "start_stdin" -> 12  [] pc = "start_stdout" -> 11
          [] pc = "start_stderr" -> 10 [] pc = "poll" -> 9
          [] pc = "check" -> 8         [] pc = "terminate" -> 7
          [] pc = "grace" -> 6         [] pc = "kill" -> 5
          [] pc \in {"descend", "slay"} -> 4
          [] pc = "join" -> 3          [] pc = "rejoin" -> 2
          [] OTHER -> 1)

\* A limit, the deadline or a failed thread sets the stop event for good; from
\* then on the main thread waits for nothing more than once: every step of it
\* brings the end nearer, and no thread, process or interrupt takes it back.
StoppedCallsRunDown ==
  [][stop_event =>
       /\ stop_event'
       /\ CallLeft' \in Nat /\ CallLeft' <= CallLeft
       /\ MainStep \/ Interrupt => CallLeft' < CallLeft]_vars
=============================================================================
