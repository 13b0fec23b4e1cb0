--------------------------- MODULE ScaffoldProofs ---------------------------
(***************************************************************************)
(* Proofs about Scaffold for every set of calls, validations and manifests *)
(* and any number of things that other programs do to the target.          *)
(***************************************************************************)
EXTENDS Scaffold, TLAPS

Points   == Early \cup Holding \cup {"capture", "ended", "killed"}
Reasons  == Failures \cup {"none", "interrupted"}
Contents == [Files -> Content \cup {Absent}]

\* The names of the generated files.
LEMMA FileNames ==
  /\ Len(WriteOrder) = 5 /\ DOMAIN WriteOrder = 1 .. 5 /\ DOMAIN BaseOrder = 1 .. 4
  /\ WriteOrder[1] = "bridge" /\ WriteOrder[2] = "backend" /\ WriteOrder[3] = "manifest"
  /\ WriteOrder[4] = "project" /\ WriteOrder[5] = "package"
  /\ BaseOrder[1] = "bridge" /\ BaseOrder[2] = "backend" /\ BaseOrder[3] = "manifest"
  /\ BaseOrder[4] = "project"
  /\ Files = {"bridge", "backend", "manifest", "project", "package"}
<1>1. /\ Len(WriteOrder) = 5 /\ DOMAIN WriteOrder = 1 .. 5 /\ DOMAIN BaseOrder = 1 .. 4
      /\ WriteOrder[1] = "bridge" /\ WriteOrder[2] = "backend" /\ WriteOrder[3] = "manifest"
      /\ WriteOrder[4] = "project" /\ WriteOrder[5] = "package"
      /\ BaseOrder[1] = "bridge" /\ BaseOrder[2] = "backend" /\ BaseOrder[3] = "manifest"
      /\ BaseOrder[4] = "project"
  BY DEF WriteOrder, BaseOrder
<1>2. 1 .. 5 = {1, 2, 3, 4, 5}
  OBVIOUS
<1>3. Files = {WriteOrder[i] : i \in {1, 2, 3, 4, 5}}
  BY <1>1, <1>2 DEF Files
<1> QED BY <1>1, <1>3

\* A rendered scaffold is a whole directory; an unread one is an empty one.
LEMMA TreesTyped ==
  /\ Unread \in Contents
  /\ \A m \in Manifests : Rendered(m) \in Contents /\ \A f \in Files : Rendered(m)[f] # Absent
BY ScaffoldAssumption DEF Unread, Rendered, Contents, Content

THEOREM InitIInv == Init => IInv
<1> SUFFICES ASSUME Init PROVE IInv
  OBVIOUS
<1>1. TypeOK
  BY TreesTyped, FileNames, ScaffoldAssumption
  DEF Init, TypeOK, Contents, Early, Holding, Failures, NoneClosed
<1>2. OwnTreeInv /\ ReleaseInv
  BY FileNames DEF Init, OwnTreeInv, OwnTree, ReleaseInv, Release, Running, Early, Published, Failures
<1>3. UntouchedInv /\ ResultsTrue /\ DescriptorsClosedOnce /\ NoHalfScaffoldSeen
  BY DEF Init, UntouchedInv, ResultsTrue, DescriptorsClosedOnce, ClosedOnce, ParentLeft, NoHalfScaffoldSeen,
         Failures, Unread, NoneClosed
<1> QED BY <1>1, <1>2, <1>3 DEF IInv

\* Whoever looks at the target sees the same as before.
LEMMA LookersKept ==
  ASSUME IInv, UNCHANGED <<trees, target, foreign, validation>>
  PROVE  UntouchedInv' /\ NoHalfScaffoldSeen'
BY DEF IInv, validation, UntouchedInv, NoHalfScaffoldSeen

\* A call that raises has published nothing and opened nothing.
LEMMA RaiseStep ==
  ASSUME IInv, NEW c \in Calls, NEW from \in {"validate", "make"},
         NEW why \in Failures \cup {"interrupted"}, Raise(c, from, why)
  PROVE  IInv'
<1>1. /\ pc[c] = from /\ mine[c] = 0 /\ written[c] = 0 /\ closed[c] = NoneClosed
      /\ open[c] = {} /\ ~ cut[c] /\ (target # 0 => blocked[c])
  BY DEF Raise, Go, IInv, TypeOK, OwnTreeInv, OwnTree, ReleaseInv, Release, Early, Holding
<1>2. UNCHANGED <<trees, target, temps, mine, written, open, closed, cut, blocked, foreign, validation>>
  BY DEF Raise, Elsewhere, directory
<1>3. TypeOK'
  BY <1>1, <1>2 DEF Raise, Forget, Go, IInv, TypeOK, Early, Holding, validation
<1>4. OwnTreeInv'
  BY <1>1, <1>2 DEF Raise, Forget, Go, IInv, TypeOK, OwnTreeInv, OwnTree, Running, Early
<1>5. ReleaseInv'
  BY <1>1, <1>2 DEF Raise, Forget, Go, IInv, TypeOK, ReleaseInv, Release, Published, Early
<1>6. ResultsTrue'
  BY <1>1, <1>2 DEF Raise, Go, IInv, TypeOK, ResultsTrue, Published, Failures
<1>7. DescriptorsClosedOnce'
  BY <1>1, <1>2 DEF Raise, Go, IInv, TypeOK, DescriptorsClosedOnce, ClosedOnce, ParentLeft
<1> QED
  BY <1>2, <1>3, <1>4, <1>5, <1>6, <1>7, LookersKept DEF IInv

\* A call that fails while it holds its descriptors has published nothing.
LEMMA FailStep ==
  ASSUME IInv, NEW c \in Calls, NEW from \in {"write", "publish"},
         NEW why \in Failures \cup {"interrupted"}, why = "target_exists" => target # 0,
         Fail(c, from, why)
  PROVE  IInv'
<1>1. /\ pc[c] = from /\ mine[c] \in temps /\ closed[c] = NoneClosed
      /\ open[c] = Descriptors /\ (target # 0 => blocked[c])
  BY DEF Fail, Go, IInv, OwnTreeInv, OwnTree, ReleaseInv, Release
<1>2. UNCHANGED <<trees, target, temps, manifest, mine, written, open, closed, cut, result,
                  blocked, foreign, validation>>
  BY DEF Fail, Elsewhere, directory
<1>3. TypeOK'
  BY <1>1, <1>2 DEF Fail, Go, IInv, TypeOK, Early, Holding, validation
<1>4. OwnTreeInv'
  BY <1>1, <1>2 DEF Fail, Go, IInv, TypeOK, OwnTreeInv, OwnTree, Running, Early
<1>5. ReleaseInv'
  BY <1>1, <1>2 DEF Fail, Go, IInv, TypeOK, ReleaseInv, Release, Published, Early, NoneClosed, Failures
<1>6. ResultsTrue'
  BY <1>2 DEF IInv, ResultsTrue, Published
<1>7. DescriptorsClosedOnce'
  BY <1>1, <1>2 DEF Fail, Go, IInv, TypeOK, DescriptorsClosedOnce, ClosedOnce, ParentLeft
<1> QED
  BY <1>2, <1>3, <1>4, <1>5, <1>6, <1>7, LookersKept DEF IInv

\* The failing steps.
LEMMA FailingSteps ==
  ASSUME IInv, NEW c \in Calls,
         RefuseTarget(c) \/ MakeFails(c) \/ WriteFails(c) \/ RecheckFails(c) \/ PublishFails(c)
  PROVE  IInv'
<1>1. CASE RefuseTarget(c)
  BY <1>1, RaiseStep DEF RefuseTarget, Failures
<1>2. CASE MakeFails(c)
  BY <1>2, RaiseStep DEF MakeFails, Failures
<1>3. CASE WriteFails(c)
  BY <1>3, FailStep DEF WriteFails, Failures
<1>4. CASE RecheckFails(c)
  BY <1>4, FailStep DEF RecheckFails, Failures
<1>5. CASE PublishFails(c)
  BY <1>5, FailStep DEF PublishFails, Failures
<1> QED BY <1>1, <1>2, <1>3, <1>4, <1>5

\* The other steps of a call that change neither a directory nor a name.
LEMMA LocalSteps ==
  ASSUME IInv, NEW c \in Calls,
         \/ \E m \in Manifests : Scaffold(c, m)
         \/ ValidateTarget(c)
         \/ Capture(c)
         \/ Recheck(c)
         \/ \E d \in Descriptors : Close(c, d)
         \/ Finish(c)
         \/ Kill(c)
  PROVE  IInv'
<1>0. UNCHANGED <<trees, target, temps, mine, written, foreign, validation>>
  BY DEF Scaffold, ValidateTarget, Capture, Recheck, Close, Finish, Kill, Elsewhere, directory, validation
<1>a. UntouchedInv' /\ NoHalfScaffoldSeen'
  BY <1>0, LookersKept
<1>1. CASE \E m \in Manifests : Scaffold(c, m)
  <2>1. TypeOK'
    BY <1>0, <1>1 DEF IInv, Scaffold, Go, directory, validation, TypeOK, Early, Holding, Failures, NoneClosed
  <2>2. OwnTreeInv'
    BY <1>0, <1>1 DEF IInv, Scaffold, Go, directory, validation, TypeOK, Early, Holding, OwnTreeInv, OwnTree, Running
  <2>3. ReleaseInv'
    <3> SUFFICES ASSUME NEW b \in Calls PROVE Release(b)'
      BY DEF ReleaseInv
    <3>1. CASE b = c
      <4>1. target # 0 => blocked'[c]
        BY <1>1, ZenonT(60) DEF Scaffold, IInv, TypeOK
      <4> QED BY <1>0, <1>1, <3>1, <4>1 DEF IInv, Scaffold, Go, directory, validation, TypeOK, Early, Holding, Running, Failures, ReleaseInv, Release, NoneClosed, Published
    <3>2. CASE b # c
      BY <1>0, <1>1, <3>2 DEF IInv, Scaffold, Go, directory, validation, TypeOK, Early, Holding, Running, Failures, ReleaseInv, Release, NoneClosed, Published
    <3> QED BY <3>1, <3>2
  <2>4. ResultsTrue'
    <3>1. /\ result[c] = "none" /\ UNCHANGED <<result, mine, temps>>
          /\ \A b \in Calls \ {c} : blocked'[b] = blocked[b]
      BY <1>0, <1>1 DEF IInv, Scaffold, Go, TypeOK, ReleaseInv, Release
    <3> QED BY <3>1 DEF IInv, ResultsTrue, Published, Failures
  <2>5. DescriptorsClosedOnce'
    BY <1>0, <1>1 DEF IInv, Scaffold, Go, directory, validation, TypeOK, Early, Holding, DescriptorsClosedOnce, ClosedOnce, ParentLeft, ReleaseInv, Release, NoneClosed
  <2> QED BY <1>a, <2>1, <2>2, <2>3, <2>4, <2>5 DEF IInv
<1>2. CASE ValidateTarget(c)
  <2>1. TypeOK'
    BY <1>0, <1>2 DEF IInv, ValidateTarget, Elsewhere, Go, directory, validation, TypeOK, Early, Holding, Failures, NoneClosed
  <2>2. OwnTreeInv'
    BY <1>0, <1>2 DEF IInv, ValidateTarget, Elsewhere, Go, directory, validation, TypeOK, Early, Holding, OwnTreeInv, OwnTree, Running
  <2>3. ReleaseInv'
    <3> SUFFICES ASSUME NEW b \in Calls PROVE Release(b)'
      BY DEF ReleaseInv
    <3>1. CASE b = c
      BY <1>0, <1>2, <3>1 DEF IInv, ValidateTarget, Elsewhere, Go, directory, validation, TypeOK, Early, Holding, Running, Failures, ReleaseInv, Release, NoneClosed, Published
    <3>2. CASE b # c
      BY <1>0, <1>2, <3>2 DEF IInv, ValidateTarget, Elsewhere, Go, directory, validation, TypeOK, Early, Holding, Running, Failures, ReleaseInv, Release, NoneClosed, Published
    <3> QED BY <3>1, <3>2
  <2>4. ResultsTrue'
    BY <1>0, <1>2 DEF IInv, ValidateTarget, Elsewhere, Go, directory, validation, TypeOK, Early, Holding, Failures, ResultsTrue, ReleaseInv, Release, Published
  <2>5. DescriptorsClosedOnce'
    BY <1>0, <1>2 DEF IInv, ValidateTarget, Elsewhere, Go, directory, validation, TypeOK, Early, Holding, DescriptorsClosedOnce, ClosedOnce, ParentLeft, ReleaseInv, Release, NoneClosed
  <2> QED BY <1>a, <2>1, <2>2, <2>3, <2>4, <2>5 DEF IInv
<1>3. CASE Capture(c)
  <2>1. TypeOK'
    BY <1>0, <1>3 DEF IInv, Capture, Elsewhere, Go, directory, validation, TypeOK, Early, Holding, Failures, NoneClosed
  <2>2. OwnTreeInv'
    BY <1>0, <1>3 DEF IInv, Capture, Elsewhere, Go, directory, validation, TypeOK, Early, Holding, OwnTreeInv, OwnTree, Running
  <2>3. ReleaseInv'
    <3> SUFFICES ASSUME NEW b \in Calls PROVE Release(b)'
      BY DEF ReleaseInv
    <3>1. CASE b = c
      BY <1>0, <1>3, <3>1 DEF IInv, Capture, Elsewhere, Go, directory, validation, TypeOK, Early, Holding, Running, Failures, ReleaseInv, Release, NoneClosed, Published
    <3>2. CASE b # c
      BY <1>0, <1>3, <3>2 DEF IInv, Capture, Elsewhere, Go, directory, validation, TypeOK, Early, Holding, Running, Failures, ReleaseInv, Release, NoneClosed, Published
    <3> QED BY <3>1, <3>2
  <2>4. ResultsTrue'
    BY <1>0, <1>3 DEF IInv, Capture, Elsewhere, Go, directory, validation, TypeOK, Early, Holding, Failures, ResultsTrue, ReleaseInv, Release, Published
  <2>5. DescriptorsClosedOnce'
    BY <1>0, <1>3 DEF IInv, Capture, Elsewhere, Go, directory, validation, TypeOK, Early, Holding, DescriptorsClosedOnce, ClosedOnce, ParentLeft, ReleaseInv, Release, NoneClosed
  <2> QED BY <1>a, <2>1, <2>2, <2>3, <2>4, <2>5 DEF IInv
<1>4. CASE Recheck(c)
  <2>1. TypeOK'
    BY <1>0, <1>4 DEF IInv, Recheck, Elsewhere, Go, directory, validation, TypeOK, Early, Holding, Failures, NoneClosed
  <2>2. OwnTreeInv'
    BY <1>0, <1>4 DEF IInv, Recheck, Elsewhere, Go, directory, validation, TypeOK, Early, Holding, OwnTreeInv, OwnTree, Running
  <2>3. ReleaseInv'
    <3> SUFFICES ASSUME NEW b \in Calls PROVE Release(b)'
      BY DEF ReleaseInv
    <3>1. CASE b = c
      BY <1>0, <1>4, <3>1 DEF IInv, Recheck, Elsewhere, Go, directory, validation, TypeOK, Early, Holding, Running, Failures, ReleaseInv, Release, NoneClosed, Published
    <3>2. CASE b # c
      BY <1>0, <1>4, <3>2 DEF IInv, Recheck, Elsewhere, Go, directory, validation, TypeOK, Early, Holding, Running, Failures, ReleaseInv, Release, NoneClosed, Published
    <3> QED BY <3>1, <3>2
  <2>4. ResultsTrue'
    BY <1>0, <1>4 DEF IInv, Recheck, Elsewhere, Go, directory, validation, TypeOK, Early, Holding, Failures, ResultsTrue, ReleaseInv, Release, Published
  <2>5. DescriptorsClosedOnce'
    BY <1>0, <1>4 DEF IInv, Recheck, Elsewhere, Go, directory, validation, TypeOK, Early, Holding, DescriptorsClosedOnce, ClosedOnce, ParentLeft, ReleaseInv, Release, NoneClosed
  <2> QED BY <1>a, <2>1, <2>2, <2>3, <2>4, <2>5 DEF IInv
<1>5. CASE \E d \in Descriptors : Close(c, d)
  <2>0. PICK d \in Descriptors : Close(c, d)
    BY <1>5
  <2>a. PICK why \in {failure[c], "interrupted"} : failure' = [failure EXCEPT ![c] = why]
    BY <2>0 DEF Close
  <2>b. pc[c] = "release" /\ closed[c][d] = 0 /\ d \in open[c] /\ closed[c] \in [Descriptors -> Nat]
    BY <2>0 DEF Close, NextClosed, IInv, TypeOK, ReleaseInv, Release
  <2>c. /\ open' = [open EXCEPT ![c] = open[c] \ {d}]
        /\ closed' = [closed EXCEPT ![c] = [closed[c] EXCEPT ![d] = 1]]
        /\ UNCHANGED <<trees, target, temps, pc, manifest, mine, written, cut, result, blocked, foreign, validation>>
    BY <2>0, <2>b DEF Close, Elsewhere, directory
  <2>1. TypeOK'
    BY <1>0, <2>a, <2>b, <2>c, ZenonT(60) DEF IInv, Close, Go, directory, validation, TypeOK, Early, Holding, Failures, NoneClosed
  <2>2. OwnTreeInv'
    BY <1>0, <2>a, <2>b, <2>c DEF IInv, Close, Go, directory, validation, TypeOK, Early, Holding, OwnTreeInv, OwnTree, Running
  <2>3. ReleaseInv'
    <3> SUFFICES ASSUME NEW b \in Calls PROVE Release(b)'
      BY DEF ReleaseInv
    <3>1. CASE b = c
      BY <1>0, <2>a, <2>b, <2>c, <3>1 DEF IInv, Close, Go, directory, validation, TypeOK, Early, Holding, Running, Failures, ReleaseInv, Release, NoneClosed, Published
    <3>2. CASE b # c
      BY <1>0, <2>a, <2>b, <2>c, <3>2 DEF IInv, Close, Go, directory, validation, TypeOK, Early, Holding, Running, Failures, ReleaseInv, Release, NoneClosed, Published
    <3> QED BY <3>1, <3>2
  <2>4. ResultsTrue'
    BY <1>0, <2>a, <2>b, <2>c DEF IInv, Close, Go, directory, validation, TypeOK, Early, Holding, Failures, ResultsTrue, ReleaseInv, Release, Published
  <2>5. DescriptorsClosedOnce'
    BY <1>0, <2>a, <2>b, <2>c DEF IInv, Close, Go, directory, validation, TypeOK, Early, Holding, DescriptorsClosedOnce, ClosedOnce, ParentLeft, ReleaseInv, Release, NoneClosed
  <2> QED BY <1>a, <2>1, <2>2, <2>3, <2>4, <2>5 DEF IInv
<1>6. CASE Finish(c)
  <2>1. TypeOK'
    BY <1>0, <1>6 DEF IInv, Finish, Forget, Elsewhere, Go, directory, validation, TypeOK, Early, Holding, Failures, NoneClosed
  <2>2. OwnTreeInv'
    BY <1>0, <1>6 DEF IInv, Finish, Forget, Elsewhere, Go, directory, validation, TypeOK, Early, Holding, OwnTreeInv, OwnTree, Running
  <2>3. ReleaseInv'
    <3> SUFFICES ASSUME NEW b \in Calls PROVE Release(b)'
      BY DEF ReleaseInv
    <3>1. CASE b = c
      BY <1>0, <1>6, <3>1 DEF IInv, Finish, Forget, Elsewhere, Go, directory, validation, TypeOK, Early, Holding, Running, Failures, ReleaseInv, Release, NoneClosed, Published
    <3>2. CASE b # c
      BY <1>0, <1>6, <3>2 DEF IInv, Finish, Forget, Elsewhere, Go, directory, validation, TypeOK, Early, Holding, Running, Failures, ReleaseInv, Release, NoneClosed, Published
    <3> QED BY <3>1, <3>2
  <2>4. ResultsTrue'
    BY <1>0, <1>6 DEF IInv, Finish, Forget, Elsewhere, Go, directory, validation, TypeOK, Early, Holding, Failures, ResultsTrue, ReleaseInv, Release, Published
  <2>5. DescriptorsClosedOnce'
    BY <1>0, <1>6 DEF IInv, Finish, Forget, Elsewhere, Go, directory, validation, TypeOK, Early, Holding, DescriptorsClosedOnce, ClosedOnce, ParentLeft, ReleaseInv, Release, NoneClosed
  <2> QED BY <1>a, <2>1, <2>2, <2>3, <2>4, <2>5 DEF IInv
<1>7. CASE Kill(c)
  <2>1. TypeOK'
    BY <1>0, <1>7 DEF IInv, Kill, Forget, Elsewhere, Go, directory, validation, TypeOK, Early, Holding, Failures, NoneClosed
  <2>2. OwnTreeInv'
    BY <1>0, <1>7 DEF IInv, Kill, Forget, Elsewhere, Go, directory, validation, TypeOK, Early, Holding, OwnTreeInv, OwnTree, Running
  <2>3. ReleaseInv'
    <3> SUFFICES ASSUME NEW b \in Calls PROVE Release(b)'
      BY DEF ReleaseInv
    <3>1. CASE b = c
      BY <1>0, <1>7, <3>1 DEF IInv, Kill, Forget, Elsewhere, Go, directory, validation, TypeOK, Early, Holding, Running, Failures, ReleaseInv, Release, NoneClosed, Published
    <3>2. CASE b # c
      BY <1>0, <1>7, <3>2 DEF IInv, Kill, Forget, Elsewhere, Go, directory, validation, TypeOK, Early, Holding, Running, Failures, ReleaseInv, Release, NoneClosed, Published
    <3> QED BY <3>1, <3>2
  <2>4. ResultsTrue'
    BY <1>0, <1>7 DEF IInv, Kill, Forget, Elsewhere, Go, directory, validation, TypeOK, Early, Holding, Failures, ResultsTrue, ReleaseInv, Release, Published
  <2>5. DescriptorsClosedOnce'
    BY <1>0, <1>7 DEF IInv, Kill, Forget, Elsewhere, Go, directory, validation, TypeOK, Early, Holding, DescriptorsClosedOnce, ClosedOnce, ParentLeft, ReleaseInv, Release, NoneClosed
  <2> QED BY <1>a, <2>1, <2>2, <2>3, <2>4, <2>5 DEF IInv
<1> QED BY <1>1, <1>2, <1>3, <1>4, <1>5, <1>6, <1>7

\* A failed capture: what it opened is closed again, or left.
LEMMA UndoSteps ==
  ASSUME IInv, NEW c \in Calls,
         \/ CaptureFails(c)
         \/ \E d \in Descriptors : UndoClose(c, d) \/ UndoFails(c, d)
         \/ UndoDone(c)
         \/ Abandon(c)
  PROVE  IInv'
<1>0. UNCHANGED <<trees, target, temps, mine, written, blocked, foreign, validation>>
  BY DEF CaptureFails, UndoClose, UndoFails, UndoDone, Abandon, Elsewhere, directory
<1>a. UntouchedInv' /\ NoHalfScaffoldSeen'
  BY <1>0, LookersKept
<1>b. \A b \in Calls : Published(b)' <=> Published(b)
  BY <1>0 DEF Published
<1> DEFINE Others == \A b \in Calls \ {c} :
             /\ pc'[b] = pc[b] /\ manifest'[b] = manifest[b] /\ open'[b] = open[b]
             /\ closed'[b] = closed[b] /\ cut'[b] = cut[b] /\ failure'[b] = failure[b]
             /\ result'[b] = result[b]
<1>c. ASSUME TypeOK', Others, OwnTree(c)', Release(c)', ClosedOnce(c)',
             result'[c] \in {"none", "generation_failed", "interrupted"},
             result'[c] = "generation_failed" => ~ Published(c)
      PROVE  IInv'
  <2>1. OwnTreeInv'
    BY <1>0, <1>c DEF IInv, OwnTreeInv, OwnTree, Running
  <2>2. ReleaseInv'
    BY <1>0, <1>b, <1>c DEF IInv, ReleaseInv, Release
  <2>3. ResultsTrue'
    BY <1>0, <1>b, <1>c DEF IInv, ResultsTrue, Failures
  <2>4. DescriptorsClosedOnce'
    BY <1>0, <1>c DEF IInv, DescriptorsClosedOnce, ClosedOnce, ParentLeft
  <2> QED BY <1>a, <1>c, <2>1, <2>2, <2>3, <2>4 DEF IInv
<1>d. /\ OwnTree(c) /\ Release(c) /\ ClosedOnce(c)
      /\ (pc[c] # "ended" => result[c] = "none" /\ cut[c] = FALSE)
      /\ closed[c] \in [Descriptors -> Nat] /\ open[c] \subseteq Descriptors
  BY DEF IInv, TypeOK, OwnTreeInv, ReleaseInv, Release, DescriptorsClosedOnce
<1>e. ASSUME pc[c] \in {"capture", "undo"}
      PROVE  /\ mine[c] \in temps /\ ~ Published(c) /\ written[c] = 0
             /\ (target # 0 => blocked[c])
  BY <1>d, <1>e DEF OwnTree, Release, Published
<1>1. CASE CaptureFails(c)
  <2>1. PICK why \in {"generation_failed", "interrupted"} : failure' = [failure EXCEPT ![c] = why]
    BY <1>1 DEF CaptureFails
  <2>2. PICK held \in {{}, {"parent"}, Descriptors} : open' = [open EXCEPT ![c] = held]
    BY <1>1 DEF CaptureFails
  <2>3. /\ pc[c] = "capture" /\ pc' = [pc EXCEPT ![c] = "undo"]
        /\ UNCHANGED <<manifest, closed, cut, result>>
    BY <1>1 DEF CaptureFails, Go
  <2>4. TypeOK'
    BY <1>0, <2>1, <2>2, <2>3 DEF IInv, TypeOK, Early, Holding, Failures, Descriptors, validation
  <2>5. Others
    BY <2>1, <2>2, <2>3 DEF IInv, TypeOK
  <2>6. pc'[c] = "undo" /\ failure'[c] = why /\ open'[c] = held
    BY <2>1, <2>2, <2>3 DEF IInv, TypeOK
  <2>7. OwnTree(c)'
    BY <1>0, <1>d, <1>e, <2>3, <2>6 DEF OwnTree, Running, Early
  <2>8. closed[c] = NoneClosed
    BY <1>d, <2>3 DEF Release
  <2>9. Release(c)' /\ ClosedOnce(c)'
    BY <1>0, <1>d, <1>e, <2>3, <2>6, <2>8
    DEF Release, ClosedOnce, Early, NoneClosed, Descriptors
  <2> QED BY <1>c, <1>d, <2>3, <2>4, <2>5, <2>7, <2>9
<1>2. ASSUME NEW d \in Descriptors, UndoClose(c, d)
      PROVE  IInv'
  <2>1. /\ pc[c] = "undo" /\ NextClosed(c, d)
        /\ open' = [open EXCEPT ![c] = open[c] \ {d}]
        /\ closed' = [closed EXCEPT ![c] = [closed[c] EXCEPT ![d] = closed[c][d] + 1]]
        /\ UNCHANGED <<pc, manifest, cut, failure, result>>
    BY <1>2 DEF UndoClose
  <2>2. closed[c][d] = 0 /\ closed[c] \in [Descriptors -> Nat]
    BY <1>d, <2>1 DEF Release, NextClosed
  <2>3. TypeOK'
    BY <1>0, <2>1, <2>2 DEF IInv, TypeOK, Early, Holding, Failures, validation
  <2>4. Others
    BY <2>1 DEF IInv, TypeOK
  <2>5. open'[c] = open[c] \ {d} /\ closed'[c] = [closed[c] EXCEPT ![d] = 1]
    BY <2>1, <2>2 DEF IInv, TypeOK
  <2>6. OwnTree(c)'
    BY <1>0, <1>d, <2>1 DEF OwnTree, Running
  <2>7. Release(c)' /\ ClosedOnce(c)'
    BY <1>0, <1>d, <1>e, <2>1, <2>2, <2>5 DEF Release, ClosedOnce, NextClosed, Early, Descriptors
  <2> QED BY <1>c, <1>d, <2>1, <2>3, <2>4, <2>6, <2>7
<1>3. ASSUME NEW d \in Descriptors, UndoFails(c, d)
      PROVE  IInv'
  <2>0. PICK why \in {"generation_failed", "interrupted"} :
          /\ result' = [result EXCEPT ![c] = why]
          /\ cut' = [cut EXCEPT ![c] = (why = "interrupted" /\ open[c] # {d})]
    BY <1>3 DEF UndoFails
  <2>1. /\ pc[c] = "undo" /\ pc' = [pc EXCEPT ![c] = "ended"] /\ NextClosed(c, d)
        /\ open' = [open EXCEPT ![c] = open[c] \ {d}]
        /\ closed' = [closed EXCEPT ![c] = [closed[c] EXCEPT ![d] = closed[c][d] + 1]]
        /\ manifest' = [manifest EXCEPT ![c] = Absent]
        /\ failure' = [failure EXCEPT ![c] = "none"]
    BY <1>3 DEF UndoFails, Go, Forget
  <2>2. closed[c][d] = 0 /\ closed[c] \in [Descriptors -> Nat]
    BY <1>d, <2>1 DEF Release, NextClosed
  <2>3. TypeOK'
    BY <1>0, <2>0, <2>1, <2>2 DEF IInv, TypeOK, Early, Holding, Failures, validation
  <2>4. Others
    BY <2>0, <2>1 DEF IInv, TypeOK
  <2>5. /\ open'[c] = open[c] \ {d} /\ closed'[c] = [closed[c] EXCEPT ![d] = 1]
        /\ pc'[c] = "ended" /\ result'[c] = why
        /\ cut'[c] = (why = "interrupted" /\ open[c] # {d})
    BY <2>0, <2>1, <2>2 DEF IInv, TypeOK
  <2>6. OwnTree(c)'
    BY <1>0, <1>d, <1>e, <2>1, <2>5 DEF OwnTree, Running, Early
  <2>7. Release(c)'
    BY <1>0, <1>e, <2>1, <2>5 DEF Release, Early
  <2>8. \A e \in Descriptors : closed'[c][e] <= 1 /\ (closed'[c][e] = 1 => e \notin open'[c])
    BY <1>d, <2>1, <2>2, <2>5 DEF Release
  <2>9. ~ cut'[c] => open'[c] = {} \/ ParentLeft(c)'
    <3>1. CASE open[c] = {d}
      BY <2>5, <3>1
    <3>2. CASE open[c] # {d}
      <4>1. d = "directory" /\ open[c] = Descriptors
        BY <1>d, <2>1, <3>2 DEF NextClosed, Release, Descriptors
      <4>2. open'[c] = {"parent"} /\ closed'[c]["directory"] = 1
        BY <2>2, <2>5, <4>1 DEF Descriptors
      <4> QED BY <1>0, <1>e, <2>1, <2>5, <3>2, <4>2 DEF ParentLeft
    <3> QED BY <3>1, <3>2
  <2>10. ClosedOnce(c)'
    <3>1. written'[c] = 0 /\ (cut'[c] => result'[c] = "interrupted")
      BY <1>0, <1>e, <2>1, <2>5
    <3> QED BY <2>8, <2>9, <3>1 DEF ClosedOnce
  <2> QED BY <1>c, <1>e, <2>1, <2>3, <2>4, <2>5, <2>6, <2>7, <2>10
<1>4. CASE UndoDone(c)
  <2>1. /\ pc[c] = "undo" /\ pc' = [pc EXCEPT ![c] = "ended"] /\ open[c] = {}
        /\ result' = [result EXCEPT ![c] = failure[c]]
        /\ manifest' = [manifest EXCEPT ![c] = Absent]
        /\ failure' = [failure EXCEPT ![c] = "none"]
        /\ UNCHANGED <<open, closed, cut>>
    BY <1>4 DEF UndoDone, Go, Forget
  <2>2. failure[c] \in {"generation_failed", "interrupted"}
    BY <1>d, <2>1 DEF Release
  <2>3. TypeOK'
    BY <1>0, <2>1, <2>2 DEF IInv, TypeOK, Early, Holding, Failures, validation
  <2>4. Others
    BY <2>1 DEF IInv, TypeOK
  <2>5. pc'[c] = "ended" /\ result'[c] = failure[c]
    BY <2>1 DEF IInv, TypeOK
  <2>6. OwnTree(c)'
    BY <1>0, <1>d, <1>e, <2>1, <2>5 DEF OwnTree, Running, Early
  <2>7. Release(c)' /\ ClosedOnce(c)'
    BY <1>0, <1>d, <1>e, <2>1, <2>5 DEF Release, ClosedOnce, Early
  <2> QED BY <1>c, <1>e, <2>1, <2>2, <2>3, <2>4, <2>5, <2>6, <2>7
<1>5. CASE Abandon(c)
  <2>1. /\ pc[c] \in {"undo", "release"} /\ pc' = [pc EXCEPT ![c] = "ended"]
        /\ result' = [result EXCEPT ![c] = "interrupted"] /\ cut' = [cut EXCEPT ![c] = TRUE]
        /\ manifest' = [manifest EXCEPT ![c] = Absent]
        /\ failure' = [failure EXCEPT ![c] = "none"]
        /\ UNCHANGED <<open, closed>>
    BY <1>5 DEF Abandon, Go, Forget
  <2>2. TypeOK'
    BY <1>0, <2>1 DEF IInv, TypeOK, Early, Holding, Failures, validation
  <2>3. Others
    BY <2>1 DEF IInv, TypeOK
  <2>4. pc'[c] = "ended" /\ result'[c] = "interrupted" /\ cut'[c] = TRUE
    BY <2>1 DEF IInv, TypeOK
  <2>5. OwnTree(c)'
    BY <1>0, <1>d, <2>1, <2>4 DEF OwnTree, Running, Early
  <2>6. Release(c)' /\ ClosedOnce(c)'
    BY <1>0, <1>d, <2>1, <2>4 DEF Release, ClosedOnce, Early
  <2> QED BY <1>c, <2>2, <2>3, <2>4, <2>5, <2>6
<1> QED BY <1>1, <1>2, <1>3, <1>4, <1>5

\* A new directory belongs to nobody else.
LEMMA MakeDirectoryStep ==
  ASSUME IInv, NEW c \in Calls, MakeDirectory(c)
  PROVE  IInv'
<1> DEFINE new == Len(trees) + 1
<1>1. /\ pc[c] = "make" /\ pc' = [pc EXCEPT ![c] = "capture"]
      /\ trees' = Append(trees, Unread) /\ temps' = temps \cup {new}
      /\ mine' = [mine EXCEPT ![c] = new]
      /\ UNCHANGED <<target, manifest, written, open, closed, cut, failure, result, blocked,
                     foreign, validation>>
  BY DEF MakeDirectory, Go, Elsewhere
<1>2. trees \in Seq(Contents) /\ Len(trees) \in Nat /\ DOMAIN trees = 1 .. Len(trees)
  BY DEF IInv, TypeOK, Contents
<1>3. /\ trees' \in Seq(Contents) /\ Len(trees') = new /\ DOMAIN trees' = 1 .. new
      /\ \A i \in 1 .. Len(trees) : trees'[i] = trees[i]
  BY <1>1, <1>2, TreesTyped
<1>4. /\ target \in 0 .. Len(trees) /\ temps \subseteq 1 .. Len(trees)
      /\ mine \in [Calls -> 0 .. Len(trees)]
  BY <1>2 DEF IInv, TypeOK
<1>5. mine[c] = 0 /\ written[c] = 0 /\ result[c] = "none"
  BY <1>1 DEF IInv, OwnTreeInv, OwnTree, ReleaseInv, Release, Early
<1>6. TypeOK'
  BY <1>1, <1>2, <1>3, <1>4 DEF IInv, TypeOK, Contents, Early, Holding, validation
<1>7. OwnTreeInv'
  <2> SUFFICES ASSUME NEW b \in Calls PROVE OwnTree(b)'
    BY DEF OwnTreeInv
  <2>1. CASE b = c
    <3>1. manifest[c] \in Manifests
      BY <1>1 DEF IInv, OwnTreeInv, OwnTree, Running
    <3>2. pc'[c] = "capture" /\ mine'[c] = new /\ new \in temps' /\ written'[c] = 0
      BY <1>1, <1>4, <1>5 DEF IInv, TypeOK
    <3>3. \A a \in Calls \ {c} : mine'[a] # new
      BY <1>1, <1>2, <1>4
    <3> QED BY <1>1, <2>1, <3>1, <3>2, <3>3 DEF OwnTree, Early
  <2>2. CASE b # c
    BY <1>1, <1>2, <1>3, <1>4, <2>2 DEF IInv, TypeOK, OwnTreeInv, OwnTree, Running
  <2> QED BY <2>1, <2>2
<1>8. \A b \in Calls : Published(b)' <=> Published(b)
  BY <1>1, <1>2, <1>4, <1>5 DEF Published
<1>9. ReleaseInv'
  BY <1>1, <1>8 DEF IInv, TypeOK, ReleaseInv, Release, Early
<1>10. ResultsTrue'
  BY <1>1, <1>5, <1>8 DEF IInv, TypeOK, ResultsTrue
<1>11. DescriptorsClosedOnce'
  BY <1>1 DEF IInv, TypeOK, DescriptorsClosedOnce, ClosedOnce, ParentLeft
<1>12. UntouchedInv' /\ NoHalfScaffoldSeen'
  BY <1>1, <1>2, <1>3, <1>4 DEF IInv, UntouchedInv, NoHalfScaffoldSeen, validation
<1> QED BY <1>6, <1>7, <1>9, <1>10, <1>11, <1>12 DEF IInv

\* A file is written into the call's own directory, which nobody looks at.
LEMMA WriteFileStep ==
  ASSUME IInv, NEW c \in Calls, WriteFile(c)
  PROVE  IInv'
<1> DEFINE n == written[c] + 1
           t == mine[c]
<1>1. /\ pc[c] = "write" /\ written[c] < Len(WriteOrder)
      /\ trees' = [trees EXCEPT ![t] = [trees[t] EXCEPT ![WriteOrder[n]] =
                                          Rendered(manifest[c])[WriteOrder[n]]]]
      /\ written' = [written EXCEPT ![c] = n]
      /\ UNCHANGED <<target, temps, pc, manifest, mine, open, closed, cut, failure, result, blocked,
                     foreign, validation>>
  BY DEF WriteFile, Elsewhere
<1>2. /\ trees \in Seq(Contents) /\ Len(trees) \in Nat /\ DOMAIN trees = 1 .. Len(trees)
      /\ t \in temps /\ temps \subseteq 1 .. Len(trees) /\ t # target /\ t # 0
      /\ written \in [Calls -> 0 .. 5] /\ n \in 1 .. 5 /\ manifest[c] \in Manifests
  <2>1. trees \in Seq(Contents) /\ Len(trees) \in Nat /\ DOMAIN trees = 1 .. Len(trees)
    BY DEF IInv, TypeOK, Contents
  <2>2. t \in temps /\ manifest[c] \in Manifests
    BY <1>1 DEF IInv, OwnTreeInv, OwnTree, Running
  <2>3. temps \subseteq 1 .. Len(trees) /\ t # target /\ t # 0
    BY <2>1, <2>2 DEF IInv, TypeOK
  <2>4. written \in [Calls -> 0 .. 5]
    BY FileNames DEF IInv, TypeOK
  <2>5. n \in 1 .. 5
    BY <1>1, <2>4, FileNames
  <2> QED BY <2>1, <2>2, <2>3, <2>4, <2>5
<1>3. trees[t] \in Contents /\ WriteOrder[n] \in Files
  <2>1. trees[t] \in Contents
    <3>1. t \in 1 .. Len(trees) /\ trees \in Seq(Contents)
      BY <1>2
    <3> QED BY <3>1
  <2>2. n = 1 \/ n = 2 \/ n = 3 \/ n = 4 \/ n = 5
    BY <1>2
  <2> QED BY <2>1, <2>2, FileNames
<1>4. /\ trees'[t][WriteOrder[n]] = Rendered(manifest[c])[WriteOrder[n]]
      /\ \A f \in Files \ {WriteOrder[n]} : trees'[t][f] = trees[t][f]
      /\ \A i \in DOMAIN trees \ {t} : trees'[i] = trees[i]
  BY <1>1, <1>2, <1>3 DEF Contents
<1>5. trees'[t] \in Contents
  BY <1>1, <1>2, <1>3, TreesTyped DEF Contents
<1>6. trees' \in Seq(Contents) /\ Len(trees') = Len(trees) /\ DOMAIN trees' = DOMAIN trees
  BY <1>1, <1>2, <1>5
<1>7. TypeOK'
  BY <1>1, <1>2, <1>6, FileNames DEF IInv, TypeOK, Contents, validation
<1>8. OwnTreeInv'
  <2> SUFFICES ASSUME NEW b \in Calls PROVE OwnTree(b)'
    BY DEF OwnTreeInv
  <2>1. CASE b = c
    <3>1. \A k \in 1 .. n :
            trees'[t][WriteOrder[k]] = Rendered(manifest[c])[WriteOrder[k]]
      <4> SUFFICES ASSUME NEW k \in 1 .. n
                   PROVE  trees'[t][WriteOrder[k]] = Rendered(manifest[c])[WriteOrder[k]]
        OBVIOUS
      <4>1. WriteOrder[k] \in Files /\ (k # n => WriteOrder[k] # WriteOrder[n])
        BY <1>2, FileNames
      <4>2. k # n => trees[t][WriteOrder[k]] = Rendered(manifest[c])[WriteOrder[k]]
        BY <1>1, <1>2 DEF IInv, OwnTreeInv, OwnTree
      <4> QED BY <1>4, <4>1, <4>2
    <3> QED
      BY <1>1, <1>2, <2>1, <3>1 DEF IInv, OwnTreeInv, OwnTree, Running, Early
  <2>2. CASE b # c
    BY <1>1, <1>2, <1>4, <2>2 DEF IInv, TypeOK, OwnTreeInv, OwnTree, Running
  <2> QED BY <2>1, <2>2
<1>9. ReleaseInv' /\ ResultsTrue'
  BY <1>1 DEF IInv, ReleaseInv, Release, ResultsTrue, Published
<1>10. DescriptorsClosedOnce'
  BY <1>1 DEF IInv, TypeOK, DescriptorsClosedOnce, ClosedOnce, ParentLeft
<1>11. UntouchedInv' /\ NoHalfScaffoldSeen'
  BY <1>1, <1>2, <1>4 DEF IInv, TypeOK, UntouchedInv, NoHalfScaffoldSeen, validation
<1> QED BY <1>7, <1>8, <1>9, <1>10, <1>11 DEF IInv

\* What is published is whole.
LEMMA WholeAtPublish ==
  ASSUME IInv, NEW c \in Calls, pc[c] = "publish"
  PROVE  trees[mine[c]] = Rendered(manifest[c])
<1>1. /\ mine[c] \in DOMAIN trees /\ trees \in Seq(Contents) /\ manifest[c] \in Manifests
      /\ written[c] = 5
  BY FileNames DEF IInv, TypeOK, OwnTreeInv, OwnTree, Running, Contents
<1>2. \A n \in 1 .. 5 :
        trees[mine[c]][WriteOrder[n]] = Rendered(manifest[c])[WriteOrder[n]]
  BY <1>1 DEF IInv, OwnTreeInv, OwnTree
<1>3. \A f \in Files : trees[mine[c]][f] = Rendered(manifest[c])[f]
  BY <1>2, FileNames
<1>4. trees[mine[c]] \in Contents /\ Rendered(manifest[c]) \in Contents
  BY <1>1, TreesTyped
<1> QED BY <1>3, <1>4 DEF Contents

LEMMA PublishStep ==
  ASSUME IInv, NEW c \in Calls, Publish(c)
  PROVE  IInv'
<1>1. PICK why \in {"none", "interrupted"} : failure' = [failure EXCEPT ![c] = why]
  BY DEF Publish
<1>2. /\ pc[c] = "publish" /\ pc' = [pc EXCEPT ![c] = "release"]
      /\ target = 0 /\ target' = mine[c] /\ temps' = temps \ {mine[c]}
      /\ UNCHANGED <<trees, manifest, mine, written, open, closed, cut, result, foreign, validation>>
  BY DEF Publish, Go
<1>3. blocked' = [b \in Calls |-> blocked[b] \/ (pc[b] # "idle" /\ mine[c] # 0)]
  BY DEF Publish, Notice
<1>4. /\ mine[c] \in temps /\ mine[c] \in DOMAIN trees /\ mine[c] \in 1 .. Len(trees)
      /\ manifest[c] \in Manifests
  <2>1. mine[c] \in temps /\ manifest[c] \in Manifests
    BY <1>2 DEF IInv, OwnTreeInv, OwnTree, Running
  <2>2. temps \subseteq DOMAIN trees /\ DOMAIN trees = 1 .. Len(trees)
    BY DEF IInv, TypeOK
  <2> QED BY <2>1, <2>2
<1>5. TypeOK'
  BY <1>1, <1>2, <1>3, <1>4 DEF IInv, TypeOK, Early, Holding, validation
<1>6. OwnTreeInv'
  BY <1>2, <1>4 DEF IInv, TypeOK, OwnTreeInv, OwnTree, Running, Early
<1>7. \A b \in Calls : /\ b # c => (Published(b)' <=> Published(b))
                       /\ b = c => Published(b)'
  BY <1>2, <1>4 DEF Published, IInv, OwnTreeInv, OwnTree
<1>8. \A b \in Calls : /\ blocked[b] => blocked'[b]
                       /\ pc[b] # "idle" => blocked'[b]
  <2>1. mine[c] # 0
    BY <1>4
  <2> QED BY <1>3, <2>1, Zenon
<1>9. ReleaseInv'
  BY <1>1, <1>2, <1>7, <1>8 DEF IInv, TypeOK, ReleaseInv, Release, Early, NoneClosed, Failures
<1>10. ResultsTrue'
  BY <1>2, <1>7, <1>8 DEF IInv, ResultsTrue, ReleaseInv, Release, Failures
<1>11. DescriptorsClosedOnce'
  BY <1>2 DEF IInv, TypeOK, DescriptorsClosedOnce, ClosedOnce, ParentLeft
<1>12. trees[mine[c]] = Rendered(manifest[c])
  BY <1>2, WholeAtPublish
<1>13. UntouchedInv' /\ NoHalfScaffoldSeen'
  BY <1>2, <1>4, <1>12 DEF IInv, UntouchedInv, NoHalfScaffoldSeen, validation
<1> QED BY <1>5, <1>6, <1>9, <1>10, <1>11, <1>13 DEF IInv

\* Somebody else does something to the target.
LEMMA ForeignStep ==
  ASSUME IInv, ForeignCreate \/ ForeignRemove \/ ForeignEdit
  PROVE  IInv'
<1>1. /\ UNCHANGED <<temps, pc, manifest, mine, written, open, closed, cut, failure, result,
                     validation>>
      /\ foreign < MaxForeign /\ foreign' = foreign + 1
  BY DEF ForeignCreate, ForeignRemove, ForeignEdit, Foreign, call
<1>2. /\ trees \in Seq(Contents) /\ Len(trees) \in Nat /\ DOMAIN trees = 1 .. Len(trees)
      /\ temps \subseteq 1 .. Len(trees) /\ target \in 0 .. Len(trees) /\ target \notin temps
      /\ foreign \in 0 .. MaxForeign
  BY DEF IInv, TypeOK, Contents
<1>3. /\ trees' \in Seq(Contents) /\ Len(trees') \in Nat /\ Len(trees) <= Len(trees')
      /\ DOMAIN trees' = 1 .. Len(trees') /\ target' \in 0 .. Len(trees')
      /\ target' \notin temps
      /\ \A i \in 1 .. Len(trees) : i # target => trees'[i] = trees[i]
  <2>1. CASE ForeignCreate
    BY <1>2, <2>1, TreesTyped DEF ForeignCreate
  <2>2. CASE ForeignRemove
    BY <1>2, <2>2 DEF ForeignRemove
  <2>3. CASE ForeignEdit
    <3>1. PICK f \in Files, x \in Content \cup {Absent} :
            trees' = [trees EXCEPT ![target] = [trees[target] EXCEPT ![f] = x]]
      <4>1. target \in 1 .. Len(trees)
        BY <1>2, <2>3 DEF ForeignEdit
      <4>2. trees[target] \in Contents
        BY <1>2, <4>1
      <4>3. PICK f \in Files :
              /\ trees[target][f] # Absent
              /\ \E x \in {[trees[target][f] EXCEPT !.form = "bad"], Absent}
                       \cup (IF f = "backend"
                               THEN {[trees[target][f] EXCEPT !.form = "custom"]} ELSE {}) :
                   trees' = [trees EXCEPT ![target] = [trees[target] EXCEPT ![f] = x]]
        BY <2>3 DEF ForeignEdit
      <4>4. trees[target][f] \in Content
        BY <4>2, <4>3 DEF Contents
      <4>5. /\ [trees[target][f] EXCEPT !.form = "bad"] \in Content
            /\ [trees[target][f] EXCEPT !.form = "custom"] \in Content
        BY <4>4 DEF Content
      <4> QED BY <4>3, <4>5
    <3>2. target' = target /\ target \in 1 .. Len(trees)
      BY <1>2, <2>3 DEF ForeignEdit
    <3>3. trees[target] \in Contents
      BY <1>2, <3>2
    <3>4. [trees[target] EXCEPT ![f] = x] \in Contents
      BY <3>1, <3>3 DEF Contents
    <3> QED BY <1>2, <3>1, <3>2, <3>4
  <2> QED BY <2>1, <2>2, <2>3
<1>4. /\ blocked' \in [Calls -> BOOLEAN]
      /\ \A b \in Calls : blocked[b] => blocked'[b]
      /\ \A b \in Calls : pc[b] # "idle" /\ target' # 0 => blocked'[b]
  <2>1. CASE ForeignCreate
    <3>1. blocked' = [b \in Calls |-> blocked[b] \/ (pc[b] # "idle" /\ target' # 0)]
      BY <2>1 DEF ForeignCreate, Notice
    <3>2. blocked \in [Calls -> BOOLEAN]
      BY DEF IInv, TypeOK
    <3> QED BY <3>1, <3>2, Zenon
  <2>2. CASE ForeignRemove \/ ForeignEdit
    BY <2>2 DEF ForeignRemove, ForeignEdit, IInv, TypeOK, ReleaseInv, Release
  <2> QED BY <2>1, <2>2
<1>5. TypeOK'
  <2>1. foreign' \in 0 .. MaxForeign
    BY <1>1, <1>2, ScaffoldAssumption
  <2>2. temps' \subseteq DOMAIN trees' \ {target'} /\ mine' \in [Calls -> 0 .. Len(trees')]
    BY <1>1, <1>2, <1>3 DEF IInv, TypeOK
  <2> QED BY <1>1, <1>3, <1>4, <2>1, <2>2 DEF IInv, TypeOK, Contents, validation
<1>6. OwnTreeInv'
  BY <1>1, <1>2, <1>3 DEF IInv, TypeOK, OwnTreeInv, OwnTree, Running
<1>7. ReleaseInv' /\ ResultsTrue'
  BY <1>1, <1>4 DEF IInv, ReleaseInv, Release, ResultsTrue, Published
<1>8. DescriptorsClosedOnce'
  BY <1>1 DEF IInv, DescriptorsClosedOnce, ClosedOnce, ParentLeft
<1>9. UntouchedInv' /\ NoHalfScaffoldSeen'
  BY <1>1, <1>2 DEF UntouchedInv, NoHalfScaffoldSeen
<1> QED BY <1>5, <1>6, <1>7, <1>8, <1>9 DEF IInv

Verdicts == {"invalid_layout", "invalid_manifest", "manifest_mismatch",
             "invalid_python_distribution", "invalid_bridge_source", "placeholder", "custom"}

\* Whoever validates changes nothing of the calls.
LEMMA CallsKept ==
  ASSUME IInv, Here
  PROVE  OwnTreeInv' /\ ReleaseInv' /\ ResultsTrue' /\ DescriptorsClosedOnce'
BY DEF Here, IInv, directory, call, OwnTreeInv, OwnTree, Running, ReleaseInv, Release,
       ResultsTrue, Published, DescriptorsClosedOnce, ClosedOnce, ParentLeft

\* A validation that answers is right about an untouched target.
LEMMA VerdictStep ==
  ASSUME IInv, NEW v \in Validations, NEW from, NEW what \in Verdicts,
         foreign = 0 => what \in {"placeholder", "manifest_mismatch"},
         Verdict(v, from, what)
  PROVE  IInv'
<1>1. /\ vpc' = [vpc EXCEPT ![v] = "ended"] /\ verdict' = [verdict EXCEPT ![v] = what]
      /\ seen' = [seen EXCEPT ![v] = Unread] /\ expected' = [expected EXCEPT ![v] = Absent]
      /\ missing' = missing /\ UNCHANGED <<directory, call, blocked, foreign>>
  BY DEF Verdict, Validating, Here
<1>2. TypeOK'
  BY <1>1, TreesTyped DEF IInv, TypeOK, directory, call, Verdicts, Contents
<1>3. UntouchedInv'
  BY <1>1 DEF IInv, TypeOK, UntouchedInv, directory, Unread
<1>4. NoHalfScaffoldSeen'
  BY <1>1 DEF IInv, TypeOK, NoHalfScaffoldSeen
<1> QED BY <1>2, <1>3, <1>4, CallsKept DEF IInv, Verdict

\* A file that is read is a file of the target.
LEMMA ReadStep ==
  ASSUME IInv, NEW v \in Validations, NEW f \in Files, ReadFile(v, f)
  PROVE  IInv'
<1>1. /\ seen' = [seen EXCEPT ![v] = [seen[v] EXCEPT ![f] = trees[target][f]]]
      /\ target # 0 /\ trees[target][f] # Absent
      /\ UNCHANGED <<directory, call, blocked, foreign, vpc, expected, verdict, missing>>
  BY DEF ReadFile, IsThere, Here
<1>2. trees[target] \in Contents /\ seen[v] \in Contents
  BY <1>1 DEF IInv, TypeOK, Contents
<1>3. [seen[v] EXCEPT ![f] = trees[target][f]] \in Contents
  BY <1>2 DEF Contents
<1>4. TypeOK'
  BY <1>1, <1>3 DEF IInv, TypeOK, directory, call, Contents
<1>5. \A u \in Validations, g \in Files :
        seen'[u][g] = IF u = v /\ g = f THEN trees[target][f] ELSE seen[u][g]
  BY <1>1, <1>2 DEF IInv, TypeOK, Contents
<1>6. UntouchedInv'
  BY <1>1, <1>5, FileNames DEF IInv, UntouchedInv, directory
<1>7. NoHalfScaffoldSeen'
  BY <1>1 DEF IInv, NoHalfScaffoldSeen
<1> QED BY <1>4, <1>6, <1>7, CallsKept DEF IInv, ReadFile

\* What a validation of an untouched target has in hand.
LEMMA WholeSeen ==
  ASSUME IInv, foreign = 0, NEW v \in Validations, vpc[v] \in {"base", "package"}
  PROVE  /\ target # 0
         /\ \E m \in Manifests :
              /\ trees[target] = Rendered(m)
              /\ \A f \in Files :
                   /\ IsThere(f)
                   /\ seen[v][f] # Absent => seen[v][f] = [of |-> m, form |-> "rendered"]
<1>1. target # 0
  BY DEF IInv, UntouchedInv
<1>2. PICK m \in Manifests : trees[target] = Rendered(m)
  BY <1>1 DEF IInv, UntouchedInv
<1>3. \A f \in Files : trees[target][f] = [of |-> m, form |-> "rendered"]
  BY <1>2 DEF Rendered
<1>4. \A f \in Files : IsThere(f)
  BY <1>1, <1>2, TreesTyped DEF IsThere
<1>5. \A f \in Files : seen[v][f] # Absent => seen[v][f] = trees[target][f]
  BY DEF IInv, UntouchedInv
<1> QED BY <1>1, <1>2, <1>3, <1>4, <1>5

LEMMA ValidationStepKeeps ==
  ASSUME IInv, NEW v \in Validations, ValidationStep(v)
  PROVE  IInv'
<1>1. CASE \E m \in Manifests \cup {Absent} : Validate(v, m)
  <2>1. /\ vpc[v] = "idle" /\ vpc' = [vpc EXCEPT ![v] = "root"]
        /\ UNCHANGED <<directory, call, blocked, foreign, seen, verdict, missing>> /\ Here
    BY <1>1 DEF Validate, Validating, Here
  <2>2. TypeOK'
    BY <1>1, <2>1 DEF Validate, IInv, TypeOK, directory, call
  <2>3. UntouchedInv' /\ NoHalfScaffoldSeen'
    BY <2>1 DEF IInv, TypeOK, UntouchedInv, NoHalfScaffoldSeen, directory
  <2> QED BY <2>1, <2>2, <2>3, CallsKept DEF IInv
<1>2. CASE CheckRoot(v)
  <2>1. Here /\ UNCHANGED <<directory, call, blocked, foreign, seen>>
    BY <1>2 DEF CheckRoot, Here
  <2>2. TypeOK'
    BY <1>2, <2>1, ZenonT(60) DEF CheckRoot, Validating, IInv, TypeOK, directory, call
  <2>3. CASE target # 0 /\ Validating(v, "root", "base")
    <3>1. UNCHANGED <<verdict, missing>>
      BY <1>2, <2>3 DEF CheckRoot, Validating
    <3> QED
      BY <2>1, <2>2, <2>3, <3>1, CallsKept
      DEF Validating, IInv, TypeOK, UntouchedInv, NoHalfScaffoldSeen, directory
  <2>4. CASE target = 0
    <3>1. /\ vpc' = [vpc EXCEPT ![v] = "ended"] /\ missing' = [missing EXCEPT ![v] = TRUE]
          /\ verdict' = [verdict EXCEPT ![v] = "invalid_layout"]
      BY <1>2, <2>4 DEF CheckRoot, Validating
    <3>2. UntouchedInv'
      BY <2>1, <2>4, <3>1 DEF IInv, TypeOK, UntouchedInv, directory
    <3>3. NoHalfScaffoldSeen'
      <4>1. missing'[v] /\ \A u \in Validations \ {v} : missing'[u] <=> missing[u]
        BY <3>1, Zenon DEF IInv, TypeOK
      <4> QED BY <2>1, <3>1, <4>1 DEF IInv, TypeOK, NoHalfScaffoldSeen
    <3> QED BY <2>1, <2>2, <3>2, <3>3, CallsKept DEF IInv
  <2>5. target # 0 => Validating(v, "root", "base")
    BY <1>2 DEF CheckRoot
  <2> QED BY <2>3, <2>4, <2>5
<1>3. CASE ReadBase(v)
  <2>1. PICK f \in Files :
          /\ Base(v, f)
          /\ ReadFile(v, f) \/ (~ IsThere(f) /\ Verdict(v, "base", "invalid_layout"))
    BY <1>3 DEF ReadBase
  <2>2. ASSUME foreign = 0 PROVE IsThere(f)
    <3>1. vpc[v] = "base"
      BY <2>1 DEF Base
    <3> QED BY <2>2, <3>1, WholeSeen
  <2> QED BY <2>1, <2>2, ReadStep, VerdictStep DEF Verdicts
<1>4. CASE CheckManifest(v)
  <2>1. \A i \in DOMAIN BaseOrder : seen[v][BaseOrder[i]] # Absent
    BY <1>4 DEF CheckManifest
  <2>2. CASE ManifestVerdict(v) = "none" /\ Validating(v, "base", "package")
    <3>1. /\ vpc[v] = "base" /\ vpc' = [vpc EXCEPT ![v] = "package"]
          /\ UNCHANGED <<directory, call, blocked, foreign, expected, seen, verdict, missing>>
          /\ Here
      BY <1>4, <2>2 DEF CheckManifest, Validating, Verdict, Here
    <3>2. TypeOK'
      BY <3>1 DEF IInv, TypeOK, directory, call
    <3>3. UntouchedInv' /\ NoHalfScaffoldSeen'
      BY <2>1, <3>1 DEF IInv, TypeOK, UntouchedInv, NoHalfScaffoldSeen, directory
    <3> QED BY <3>1, <3>2, <3>3, CallsKept DEF IInv
  <2>3. CASE ManifestVerdict(v) # "none" /\ Verdict(v, "base", ManifestVerdict(v))
    <3>1. ASSUME foreign = 0 PROVE seen[v]["manifest"].form = "rendered"
      <4>1. vpc[v] = "base" /\ "manifest" \in Files /\ seen[v]["manifest"] # Absent
        BY <2>1, <2>3, FileNames DEF Verdict, Validating
      <4>2. PICK m \in Manifests : seen[v]["manifest"] = [of |-> m, form |-> "rendered"]
        BY <3>1, <4>1, WholeSeen
      <4> QED BY <4>2
    <3>2. ManifestVerdict(v) \in Verdicts
          /\ (foreign = 0 => ManifestVerdict(v) = "manifest_mismatch")
      BY <2>3, <3>1 DEF ManifestVerdict, Verdicts
    <3> QED BY <2>3, <3>2, VerdictStep
  <2> QED BY <1>4, <2>2, <2>3 DEF CheckManifest
<1>5. CASE ReadPackage(v)
  <2>1. foreign = 0 => IsThere("package")
    BY <1>5, WholeSeen, FileNames DEF ReadPackage
  <2> QED BY <1>5, <2>1, ReadStep, VerdictStep, FileNames DEF ReadPackage, Verdicts
<1>6. CASE CheckSource(v)
  <2>1. vpc[v] = "package" /\ seen[v]["package"] # Absent
        /\ Verdict(v, "package", SourceVerdict(v))
    BY <1>6 DEF CheckSource, Verdict, Validating
  <2>2. SourceVerdict(v) \in Verdicts
    BY DEF SourceVerdict, Verdicts
  <2>3. ASSUME foreign = 0 PROVE SourceVerdict(v) = "placeholder"
    <3>1. \A f \in Files : seen[v][f] # Absent
      BY <2>1, <2>3, FileNames DEF IInv, UntouchedInv
    <3>2. PICK m \in Manifests : \A f \in Files : seen[v][f] = [of |-> m, form |-> "rendered"]
      BY <2>1, <2>3, <3>1, WholeSeen
    <3>3. \A f \in Files : Rendered(seen[v]["manifest"].of)[f] = seen[v][f]
      BY <3>2, FileNames DEF Rendered
    <3> QED BY <3>2, <3>3, FileNames DEF SourceVerdict
  <2> QED BY <2>1, <2>2, <2>3, VerdictStep
<1> QED BY <1>1, <1>2, <1>3, <1>4, <1>5, <1>6 DEF ValidationStep

\* Every step keeps the invariant.
THEOREM NextIInv == IInv /\ [Next]_vars => IInv'
<1> SUFFICES ASSUME IInv, Next \/ UNCHANGED vars PROVE IInv'
  BY DEF vars
<1>1. CASE UNCHANGED vars
  BY <1>1 DEF vars, directory, call, validation, IInv, TypeOK, OwnTreeInv, OwnTree, Running,
     ReleaseInv, Release, UntouchedInv, ResultsTrue, Published, DescriptorsClosedOnce,
     ClosedOnce, ParentLeft, NoHalfScaffoldSeen
<1>2. ASSUME NEW c \in Calls, CallStep(c) PROVE IInv'
  BY <1>2, LocalSteps, UndoSteps, FailingSteps, MakeDirectoryStep, WriteFileStep, PublishStep
  DEF CallStep
<1>3. CASE ForeignCreate \/ ForeignRemove \/ ForeignEdit
  BY <1>3, ForeignStep
<1>4. ASSUME NEW v \in Validations, ValidationStep(v) PROVE IInv'
  BY <1>4, ValidationStepKeeps
<1> QED BY <1>1, <1>2, <1>3, <1>4 DEF Next

THEOREM SpecIInv == Spec => []IInv
BY InitIInv, NextIInv, PTL DEF Spec

\* The state keeps its types, and a killed call holds nothing.
THEOREM TypeCorrect == Spec => []TypeOK
<1>1. IInv => TypeOK
  BY DEF IInv
<1> QED BY <1>1, SpecIInv, PTL

\* A call that reports "created" has published a scaffold of its own, and one
\* that reports a failure code has not, wherever it failed.
THEOREM ResultsAreTrue == Spec => []ResultsTrue
<1>1. IInv => ResultsTrue
  BY DEF IInv
<1> QED BY <1>1, SpecIInv, PTL

\* No descriptor is closed twice, and a call that ends leaves one open only
\* when it was interrupted between the closes, or when a capture failed and
\* the close of the directory with it.
THEOREM DescriptorsAreClosedOnce == Spec => []DescriptorsClosedOnce
<1>1. IInv => DescriptorsClosedOnce
  BY DEF IInv
<1> QED BY <1>1, SpecIInv, PTL

\* A validation that races any number of scaffolding calls never sees a
\* scaffold under construction.
THEOREM NoHalfScaffoldIsSeen == Spec => []NoHalfScaffoldSeen
<1>1. IInv => NoHalfScaffoldSeen
  BY DEF IInv
<1> QED BY <1>1, SpecIInv, PTL

-----------------------------------------------------------------------------
(* The target as others see it: an atomic publication. *)

Public == {[identity |-> n, files |-> trees[n]] : n \in {target} \ {0}}

LEMMA PublicationStep ==
  ASSUME IInv, Next \/ UNCHANGED vars
  PROVE  Publication!Next \/ UNCHANGED <<Public, foreign>>
<1>1. CASE UNCHANGED <<trees, target, foreign>>
  BY <1>1 DEF Public
<1>2. ASSUME NEW c \in Calls, MakeDirectory(c) PROVE UNCHANGED <<Public, foreign>>
  <2>1. trees' = Append(trees, Unread) /\ target' = target /\ foreign' = foreign
    BY <1>2 DEF MakeDirectory, Elsewhere
  <2>2. target # 0 => trees'[target] = trees[target]
    BY <2>1 DEF IInv, TypeOK
  <2> QED BY <2>1, <2>2 DEF Public
<1>3. ASSUME NEW c \in Calls, WriteFile(c) PROVE UNCHANGED <<Public, foreign>>
  <2>1. pc[c] = "write" /\ target' = target /\ foreign' = foreign
    BY <1>3 DEF WriteFile, Elsewhere
  <2>2. mine[c] \in temps /\ mine[c] # target
    BY <2>1 DEF IInv, TypeOK, OwnTreeInv, OwnTree
  <2>3. trees'[target] = trees[target]
    BY <1>3, <2>2 DEF WriteFile, IInv, TypeOK
  <2> QED BY <2>1, <2>3 DEF Public
<1>4. ASSUME NEW c \in Calls, Publish(c) PROVE Publication!Publish
  <2>1. /\ pc[c] = "publish" /\ target = 0 /\ target' = mine[c] /\ trees' = trees
        /\ foreign' = foreign
    BY <1>4 DEF Publish, Go
  <2>2. /\ mine[c] # 0 /\ manifest[c] \in Manifests
        /\ trees[mine[c]] = Rendered(manifest[c])
    BY <2>1, WholeAtPublish DEF IInv, TypeOK, OwnTreeInv, OwnTree, Running
  <2>3. Public = {} /\ Public' = {[identity |-> mine[c], files |-> trees[mine[c]]]}
    BY <2>1, <2>2 DEF Public
  <2>4. [identity |-> mine[c], files |-> trees[mine[c]]].files \in {Rendered(m) : m \in Manifests}
    BY <2>2
  <2> QED BY <2>1, <2>3, <2>4 DEF Publication!Publish, Public
<1>5. ASSUME ForeignCreate \/ ForeignRemove \/ ForeignEdit PROVE Publication!Touch
  BY <1>5 DEF ForeignCreate, ForeignRemove, ForeignEdit, Foreign, Publication!Touch
<1>6. ASSUME NEW v \in Validations, ValidationStep(v) PROVE UNCHANGED <<trees, target, foreign>>
  BY <1>6 DEF ValidationStep, Validate, CheckRoot, ReadBase, ReadFile, CheckManifest,
              ReadPackage, CheckSource, Verdict, Here, directory
<1>7. ASSUME NEW c \in Calls, CallStep(c), ~ MakeDirectory(c), ~ WriteFile(c), ~ Publish(c)
      PROVE  UNCHANGED <<trees, target, foreign>>
  BY <1>7 DEF CallStep, Scaffold, ValidateTarget, RefuseTarget, Raise, MakeFails, Capture,
              CaptureFails, UndoClose, UndoFails, UndoDone, Abandon, WriteFails, Fail, Recheck, RecheckFails, PublishFails, Close,
              Finish, Kill, Elsewhere, directory
<1>8. CASE UNCHANGED vars
  BY <1>8, <1>1 DEF vars, directory
<1> QED
  BY <1>1, <1>2, <1>3, <1>4, <1>5, <1>6, <1>7, <1>8 DEF Next, Publication!Next

\* The target turns into a whole scaffold at once, where there was nothing;
\* all else that happens to it is the doing of other programs.
THEOREM ScaffoldIsAtomicPublication == Spec => PublicationSpec
<1>1. Init => Publication!Init
  BY DEF Init, Publication!Init
<1>2. IInv /\ [Next]_vars => [Publication!Next]_<<Public, foreign>>
  <2> SUFFICES ASSUME IInv, Next \/ UNCHANGED vars
               PROVE  Publication!Next \/ UNCHANGED <<Public, foreign>>
    BY DEF vars
  <2> QED BY PublicationStep
<1> QED BY <1>1, <1>2, SpecIInv, PTL DEF Spec, PublicationSpec, Publication!Spec, Public
=============================================================================
