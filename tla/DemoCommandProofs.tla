------------------------- MODULE DemoCommandProofs -------------------------
(***************************************************************************)
(* Proofs about ArtifactFiles, for any number of commands on the two       *)
(* files, and about DemoCommand: for every tool, capture, pack response    *)
(* and foreign agent, for every limit and any number of other commands.    *)
(***************************************************************************)
EXTENDS DemoCommand, WorkflowProofs

-----------------------------------------------------------------------------
(* The two files *)

Writing == {"storing", "generating"}

\* Nothing is stored, nothing is open.
LEMMA InitFilesInv == FilesInit => FilesInv
<1> SUFFICES ASSUME FilesInit PROVE FilesInv
  OBVIOUS
<1> USE FilesAssumption DEF FilesInit
<1>1. FilesTypeOK
  BY DEF FilesTypeOK, Stage, File, FileState
<1>2. WritersInv
  BY DEF WritersInv, File
<1>3. OpenedInv /\ AloneInv
  BY DEF OpenedInv, AloneInv, Inside, File
<1>4. TornExplained /\ TestsAfterKnowledge
  BY DEF TornExplained, TestsAfterKnowledge
<1> QED BY <1>1, <1>2, <1>3, <1>4 DEF FilesInv

\* A command that writes nothing moves on: no file changes.
LEMMA QuietStep ==
  ASSUME FilesInv, NEW c \in Commands, NEW to \in Stage \ {"storing", "generating"},
         stage[c] \notin Writing,
         stage' = [stage EXCEPT ![c] = to], UNCHANGED <<files, opened, latest, overlapped>>,
         \/ stage[c] = "running" /\ to \in {"extracted", "refused", "raised"}
         \/ stage[c] = "stored" /\ to = "ungenerable"
         \/ to \in {"failed", "killed"}
  PROVE  FilesInv'
<1> USE FilesAssumption DEF FilesInv, Writing
<1>1. FilesTypeOK'
  BY DEF FilesTypeOK
<1>2. \A d \in Commands : stage'[d] = IF d = c THEN to ELSE stage[d]
  BY DEF FilesTypeOK
<1>3. WritersInv'
  BY <1>2 DEF WritersInv
<1>4. OpenedInv'
  BY <1>2 DEF OpenedInv, Inside
<1>5. AloneInv'
  BY <1>2 DEF AloneInv, Inside
<1>6. TornExplained' /\ TestsAfterKnowledge'
  BY <1>2 DEF TornExplained, TestsAfterKnowledge
<1> QED BY <1>1, <1>3, <1>4, <1>5, <1>6

\* Knowledge is opened: whoever does it is the latest.
LEMMA OpenKnowledgeStep ==
  ASSUME FilesInv, NEW c \in Commands, OpenKnowledge(c) PROVE FilesInv'
<1> USE FilesAssumption DEF FilesInv, OpenKnowledge, Move, Truncate
<1>1. /\ files' \in [File -> FileState]
      /\ files'["knowledge"] =
           [content |-> Torn, writers |-> files["knowledge"].writers \cup {c},
            mixed |-> files["knowledge"].writers # {},
            cut |-> files["knowledge"].cut /\ files["knowledge"].writers # {}]
      /\ files'["tests"] = files["tests"]
  BY DEF FilesTypeOK, File, FileState
<1>2. \A d \in Commands : stage'[d] = IF d = c THEN "storing" ELSE stage[d]
  BY DEF FilesTypeOK
<1>3. FilesTypeOK'
  BY <1>1 DEF FilesTypeOK, File, Stage, Inside
<1>4. WritersInv'
  BY <1>1, <1>2 DEF WritersInv
<1>5. OpenedInv'
  <2>1. ASSUME NEW d \in Commands
        PROVE /\ stage'[d] \in {"running", "extracted", "refused", "raised"} =>
                   \A f \in File : <<d, f>> \notin opened'
              /\ stage'[d] \in Inside => <<d, "knowledge">> \in opened'
              /\ stage'[d] \in {"storing", "stored", "ungenerable"} => <<d, "tests">> \notin opened'
              /\ stage'[d] = "generating" => <<d, "tests">> \in opened'
    BY <1>2 DEF OpenedInv, Inside, File
  <2>2. ASSUME NEW f \in File, files'[f].content \in Commands
        PROVE <<files'[f].content, f>> \in opened'
    BY <1>1, <2>2 DEF OpenedInv, File
  <2> QED BY <2>1, <2>2 DEF OpenedInv
<1>6. AloneInv'
  <2> SUFFICES ASSUME ~ overlapped'
               PROVE /\ \A d \in Commands : stage'[d] \in Inside => d = latest'
                     /\ \A f \in File : ~ files'[f].mixed
                     /\ stage'[latest'] = "storing"
    BY DEF AloneInv
  <2>1. ~ overlapped /\ \A d \in Commands : stage[d] \notin Inside
    OBVIOUS
  <2>2. files["knowledge"].writers = {}
    BY <2>1 DEF WritersInv, Inside
  <2> QED BY <1>1, <1>2, <2>1, <2>2 DEF AloneInv, File
<1>7. TornExplained'
  BY <1>1 DEF TornExplained, File
<1>8. TestsAfterKnowledge'
  BY <1>2 DEF TestsAfterKnowledge, OpenedInv, File
<1> QED BY <1>3, <1>4, <1>5, <1>6, <1>7, <1>8

\* What closing a file after a whole text does to it.
LEMMA Closed ==
  ASSUME FilesInv, NEW c \in Commands, NEW f \in File, Close(c, f)
  PROVE  /\ files' \in [File -> FileState]
         /\ \E result \in IF files[f].mixed THEN {c, Torn} ELSE {c} :
              files'[f] = [files[f] EXCEPT !.content = result,
                                           !.writers = files[f].writers \ {c}]
         /\ \A g \in File \ {f} : files'[g] = files[g]
<1>1. PICK result \in IF files[f].mixed THEN {c, Torn} ELSE {c} :
        files' = [files EXCEPT ![f].content = result, ![f].writers = @ \ {c}]
  BY DEF Close
<1>2. files \in [File -> FileState] /\ result \in Commands \cup {Missing, Torn}
  BY DEF FilesInv, FilesTypeOK
<1>3. files' = [files EXCEPT ![f] = [[files[f] EXCEPT !.content = result]
                                       EXCEPT !.writers = files[f].writers \ {c}]]
  BY <1>1, <1>2 DEF FileState
<1>4. [[files[f] EXCEPT !.content = result] EXCEPT !.writers = files[f].writers \ {c}] \in FileState
  BY <1>2 DEF FileState
<1>5. files' \in [File -> FileState] /\ \A g \in File \ {f} : files'[g] = files[g]
  BY <1>2, <1>3, <1>4
<1>6. files'[f] = [files[f] EXCEPT !.content = result, !.writers = files[f].writers \ {c}]
  BY <1>2, <1>3 DEF FileState
<1> QED BY <1>5, <1>6

LEMMA StoreKnowledgeStep ==
  ASSUME FilesInv, NEW c \in Commands, StoreKnowledge(c) PROVE FilesInv'
<1> USE FilesAssumption DEF FilesInv, StoreKnowledge, Move
<1>1. PICK result \in IF files["knowledge"].mixed THEN {c, Torn} ELSE {c} :
        /\ files' \in [File -> FileState]
        /\ files'["knowledge"] =
             [files["knowledge"] EXCEPT !.content = result,
                                        !.writers = files["knowledge"].writers \ {c}]
        /\ files'["tests"] = files["tests"]
  BY Closed DEF File
<1>2. /\ \A d \in Commands : stage'[d] = IF d = c THEN "stored" ELSE stage[d]
      /\ stage[c] = "storing" /\ stage' \in [Commands -> Stage]
      /\ UNCHANGED <<opened, latest, overlapped>>
  BY DEF FilesTypeOK, Close, Stage, Inside
<1>3. /\ files["knowledge"] \in FileState
      /\ files'["knowledge"].content = result
      /\ files'["knowledge"].writers = files["knowledge"].writers \ {c}
      /\ files'["knowledge"].mixed = files["knowledge"].mixed
      /\ files'["knowledge"].cut = files["knowledge"].cut
  BY <1>1 DEF FilesTypeOK, File, FileState
<1> HIDE DEF StoreKnowledge, Move
<1>4. FilesTypeOK'
  BY <1>1, <1>2 DEF FilesTypeOK
<1>5. WritersInv'
  BY <1>1, <1>2, <1>3 DEF WritersInv
<1>6. OpenedInv'
  <2>1. ASSUME NEW d \in Commands
        PROVE /\ stage'[d] \in {"running", "extracted", "refused", "raised"} =>
                   \A f \in File : <<d, f>> \notin opened'
              /\ stage'[d] \in Inside => <<d, "knowledge">> \in opened'
              /\ stage'[d] \in {"storing", "stored", "ungenerable"} => <<d, "tests">> \notin opened'
              /\ stage'[d] = "generating" => <<d, "tests">> \in opened'
    BY <1>2 DEF OpenedInv, Inside, File
  <2>2. <<c, "knowledge">> \in opened
    BY <1>2 DEF OpenedInv, Inside
  <2>3. ASSUME NEW f \in File, files'[f].content \in Commands
        PROVE <<files'[f].content, f>> \in opened'
    <3>1. CASE f = "knowledge"
      BY <1>1, <1>2, <1>3, <2>2, <2>3, <3>1
    <3>2. CASE f = "tests"
      BY <1>1, <1>2, <2>3, <3>2 DEF OpenedInv
    <3> QED BY <3>1, <3>2 DEF File
  <2> QED BY <2>1, <2>3 DEF OpenedInv
<1>7. AloneInv'
  BY <1>1, <1>2, <1>3 DEF AloneInv, Inside, File
<1>8. TornExplained'
  BY <1>1, <1>3, ZenonT(60) DEF TornExplained, File
<1>9. TestsAfterKnowledge'
  BY <1>2 DEF TestsAfterKnowledge, OpenedInv
<1> QED BY <1>4, <1>5, <1>6, <1>7, <1>8, <1>9

\* The tests are opened, by a command that has stored its knowledge.
LEMMA OpenTestsStep ==
  ASSUME FilesInv, NEW c \in Commands, OpenTests(c) PROVE FilesInv'
<1> USE FilesAssumption DEF FilesInv, OpenTests, Move, Truncate
<1>1. /\ files' \in [File -> FileState]
      /\ files'["tests"] =
           [content |-> Torn, writers |-> files["tests"].writers \cup {c},
            mixed |-> files["tests"].writers # {},
            cut |-> files["tests"].cut /\ files["tests"].writers # {}]
      /\ files'["knowledge"] = files["knowledge"]
  BY DEF FilesTypeOK, File, FileState
<1>2. \A d \in Commands : stage'[d] = IF d = c THEN "generating" ELSE stage[d]
  BY DEF FilesTypeOK
<1>3. FilesTypeOK'
  BY <1>1 DEF FilesTypeOK, File, Stage, Inside
<1>4. WritersInv'
  BY <1>1, <1>2 DEF WritersInv
<1>5. OpenedInv'
  <2>1. ASSUME NEW d \in Commands
        PROVE /\ stage'[d] \in {"running", "extracted", "refused", "raised"} =>
                   \A f \in File : <<d, f>> \notin opened'
              /\ stage'[d] \in Inside => <<d, "knowledge">> \in opened'
              /\ stage'[d] \in {"storing", "stored", "ungenerable"} => <<d, "tests">> \notin opened'
              /\ stage'[d] = "generating" => <<d, "tests">> \in opened'
    BY <1>2 DEF OpenedInv, Inside, File
  <2>2. ASSUME NEW f \in File, files'[f].content \in Commands
        PROVE <<files'[f].content, f>> \in opened'
    BY <1>1, <2>2 DEF OpenedInv, File
  <2> QED BY <2>1, <2>2 DEF OpenedInv
<1>6. AloneInv'
  <2> SUFFICES ASSUME ~ overlapped'
               PROVE /\ \A d \in Commands : stage'[d] \in Inside => d = latest
                     /\ \A f \in File : ~ files'[f].mixed
                     /\ latest # Missing =>
                          /\ stage'[latest] \in {"stored", "generating", "ok", "ungenerable"} =>
                               files'["knowledge"].content = latest
                          /\ stage'[latest] # "ok"
    BY DEF AloneInv
  <2>1. ~ overlapped /\ c = latest /\ \A d \in Commands : stage[d] \in Inside => d = c
    BY DEF AloneInv, Inside
  <2>2. files["tests"].writers = {}
    BY <2>1 DEF WritersInv, Inside
  <2>3. \A f \in File : ~ files'[f].mixed
    BY <1>1, <2>1, <2>2 DEF AloneInv, File
  <2>4. \A d \in Commands : stage'[d] \in Inside => d = latest
    BY <1>2, <2>1
  <2> QED BY <2>3, <2>4, <1>1, <1>2, <2>1, <2>2 DEF AloneInv, File, Inside
<1>7. TornExplained'
  BY <1>1 DEF TornExplained, File
<1>8. TestsAfterKnowledge'
  BY <1>2 DEF TestsAfterKnowledge, OpenedInv, File, Inside
<1> QED BY <1>3, <1>4, <1>5, <1>6, <1>7, <1>8

LEMMA GenerateTestsStep ==
  ASSUME FilesInv, NEW c \in Commands, GenerateTests(c) PROVE FilesInv'
<1> USE FilesAssumption DEF FilesInv, GenerateTests, Move
<1>1. PICK result \in IF files["tests"].mixed THEN {c, Torn} ELSE {c} :
        /\ files' \in [File -> FileState]
        /\ files'["tests"] =
             [files["tests"] EXCEPT !.content = result, !.writers = files["tests"].writers \ {c}]
        /\ files'["knowledge"] = files["knowledge"]
  BY Closed DEF File
<1>2. /\ \A d \in Commands : stage'[d] = IF d = c THEN "ok" ELSE stage[d]
      /\ stage[c] = "generating" /\ stage' \in [Commands -> Stage]
      /\ UNCHANGED <<opened, latest, overlapped>>
  BY DEF FilesTypeOK, Close, Stage, Ended
<1>3. /\ files["tests"] \in FileState
      /\ files'["tests"].content = result
      /\ files'["tests"].writers = files["tests"].writers \ {c}
      /\ files'["tests"].mixed = files["tests"].mixed
      /\ files'["tests"].cut = files["tests"].cut
  BY <1>1 DEF FilesTypeOK, File, FileState
<1> HIDE DEF GenerateTests, Move
<1>4. FilesTypeOK'
  BY <1>1, <1>2 DEF FilesTypeOK
<1>5. WritersInv'
  BY <1>1, <1>2, <1>3 DEF WritersInv
<1>7. OpenedInv'
  <2>1. ASSUME NEW d \in Commands
        PROVE /\ stage'[d] \in {"running", "extracted", "refused", "raised"} =>
                   \A f \in File : <<d, f>> \notin opened'
              /\ stage'[d] \in Inside => <<d, "knowledge">> \in opened'
              /\ stage'[d] \in {"storing", "stored", "ungenerable"} => <<d, "tests">> \notin opened'
              /\ stage'[d] = "generating" => <<d, "tests">> \in opened'
    BY <1>2 DEF OpenedInv, Inside, File
  <2>2. <<c, "tests">> \in opened
    BY <1>2 DEF OpenedInv, Inside
  <2>3. ASSUME NEW f \in File, files'[f].content \in Commands
        PROVE <<files'[f].content, f>> \in opened'
    <3>1. CASE f = "tests"
      <4>1. result \in {c, Torn} /\ files'["tests"].content = result
        BY <1>3
      <4>2. result = c
        BY <4>1, <2>3, <3>1
      <4> QED BY <4>1, <4>2, <3>1, <2>2, <1>2
    <3>2. CASE f = "knowledge"
      <4>1. files'[f] = files[f]
        BY <1>1, <3>2
      <4> QED BY <4>1, <2>3, <1>2 DEF OpenedInv
    <3> QED BY <3>1, <3>2 DEF File
  <2> QED BY <2>1, <2>3 DEF OpenedInv
<1>8. AloneInv'
  BY <1>1, <1>2, <1>3 DEF AloneInv, Inside, File
<1>9. TornExplained'
  BY <1>1, <1>3, ZenonT(60) DEF TornExplained, File
<1>10. TestsAfterKnowledge'
  BY <1>2 DEF TestsAfterKnowledge, OpenedInv
<1> QED BY <1>4, <1>5, <1>7, <1>8, <1>9, <1>10

\* A writer is cut short: its file may be torn, and says so.
LEMMA CutStep ==
  ASSUME FilesInv, NEW c \in Commands, NEW to \in {"failed", "killed"},
         stage[c] \in Writing, stage' = [stage EXCEPT ![c] = to], CutShort(c),
         UNCHANGED <<opened, latest, overlapped>>
  PROVE  FilesInv'
<1> DEFINE f == FileAt(c)
<1>1. f \in File /\ (stage[c] = "storing" => f = "knowledge")
                 /\ (stage[c] = "generating" => f = "tests")
  BY DEF FileAt, File
<1>2. files \in [File -> FileState] /\ files[f] \in FileState /\ stage \in [Commands -> Stage]
  BY <1>1 DEF FilesInv, FilesTypeOK
<1>2a. PICK result \in {Torn, c, files[f].content} :
         files' = [files EXCEPT ![f].writers = @ \ {c}, ![f].cut = TRUE,
                                ![f].content = result]
  BY DEF CutShort
<1> DEFINE cut == [[[files[f] EXCEPT !.writers = files[f].writers \ {c}]
                     EXCEPT !.cut = TRUE] EXCEPT !.content = result]
<1>3. files' = [files EXCEPT ![f] = cut]
  BY <1>1, <1>2, <1>2a
<1>3a. /\ cut \in FileState /\ cut.content = result
       /\ cut.writers = files[f].writers \ {c} /\ cut.cut
  BY <1>2 DEF FileState
<1>3b. cut.mixed = files[f].mixed
  BY <1>2, Zenon DEF FileState
<1> HIDE DEF f, cut
<1>4. /\ files' \in [File -> FileState]
      /\ files'[f].content = result /\ files'[f].writers = files[f].writers \ {c}
      /\ files'[f].mixed = files[f].mixed /\ files'[f].cut
      /\ \A g \in File \ {f} : files'[g] = files[g]
  BY <1>1, <1>2, <1>3, <1>3a, <1>3b
<1>5. \A d \in Commands : stage'[d] = IF d = c THEN to ELSE stage[d]
  BY <1>2
<1>6. FilesTypeOK'
  BY <1>2, <1>4 DEF FilesInv, FilesTypeOK, Stage, Ended
<1>7. WritersInv'
  BY <1>1, <1>4, <1>5 DEF FilesInv, WritersInv, Writing, File
<1>7a. files[f].content \in Commands => <<files[f].content, f>> \in opened
  BY <1>1 DEF FilesInv, OpenedInv
<1>7b. <<c, f>> \in opened
  BY <1>1 DEF FilesInv, OpenedInv, Inside, Writing
<1>8. OpenedInv'
  <2>1. ASSUME NEW g \in File, files'[g].content \in Commands
        PROVE  <<files'[g].content, g>> \in opened
    BY <1>4, <1>7a, <1>7b, <2>1, FilesAssumption DEF FilesInv, OpenedInv
  <2> QED BY <1>5, <2>1 DEF FilesInv, OpenedInv, Inside
<1>9. AloneInv'
  BY <1>1, <1>4, <1>5, FilesAssumption DEF FilesInv, AloneInv, Inside, Writing
<1>10. TornExplained'
  BY <1>4 DEF FilesInv, TornExplained
<1>11. TestsAfterKnowledge'
  BY <1>5 DEF FilesInv, TestsAfterKnowledge
<1> QED BY <1>6, <1>7, <1>8, <1>9, <1>10, <1>11 DEF FilesInv

\* Every step of every command keeps the invariant.
LEMMA CommandStepKeeps ==
  ASSUME FilesInv, NEW c \in Commands, CommandStep(c) PROVE FilesInv'
<1> USE DEF Move
<1>1. CASE HandOver(c)
  BY <1>1, QuietStep DEF HandOver, Stage, Writing
<1>2. CASE Refuse(c)
  BY <1>2, QuietStep DEF Refuse, Stage, Ended, Writing
<1>3. CASE Escape(c)
  BY <1>3, QuietStep DEF Escape, Stage, Ended, Writing
<1>4. CASE Ungenerable(c)
  BY <1>4, QuietStep DEF Ungenerable, Stage, Ended, Writing
<1>5. CASE OpenTests(c)
  BY <1>5, OpenTestsStep
<1>6. CASE OpenKnowledge(c)
  BY <1>6, OpenKnowledgeStep
<1>7. CASE StoreKnowledge(c)
  BY <1>7, StoreKnowledgeStep
<1>8. CASE GenerateTests(c)
  BY <1>8, GenerateTestsStep
<1>9. CASE OpenFails(c)
  BY <1>9, QuietStep DEF OpenFails, Stage, Ended, Writing
<1>10. CASE WriteFails(c)
  BY <1>10, CutStep DEF WriteFails, Writing
<1>11. CASE Kill(c)
  <2>1. CASE stage[c] \in Writing
    BY <1>11, <2>1, CutStep DEF Kill, Writing
  <2>2. CASE stage[c] \notin Writing
    BY <1>11, <2>2, QuietStep DEF Kill, Stage, Ended, Writing
  <2> QED BY <2>1, <2>2
<1> QED BY <1>1, <1>2, <1>3, <1>4, <1>5, <1>6, <1>7, <1>8, <1>9, <1>10, <1>11
         DEF CommandStep, WriteStep

LEMMA StutterKeeps == FilesInv /\ UNCHANGED file_vars => FilesInv'
BY DEF FilesInv, file_vars, FilesTypeOK, WritersInv, OpenedInv, AloneInv, TornExplained,
       TestsAfterKnowledge, FileState

\* The invariant holds of any number of commands on the same files.
THEOREM FilesInvariant == FilesSpec => []FilesInv
<1>1. FilesInv /\ [FilesNext]_file_vars => FilesInv'
  BY CommandStepKeeps, StutterKeeps DEF FilesNext
<1> QED BY InitFilesInv, <1>1, PTL DEF FilesSpec

LEMMA InvExplains == FilesInv => FilesExplained
<1> SUFFICES ASSUME FilesInv PROVE LatestDecides
  BY DEF FilesInv, FilesExplained
<1>1. latest # Missing => latest \in Commands
  BY DEF FilesInv, FilesTypeOK
<1>2. \A d \in Commands : stage[d] = "ungenerable" => files["tests"].content # d
  BY DEF FilesInv, OpenedInv, File
<1> QED BY <1>1, <1>2 DEF FilesInv, AloneInv, LatestDecides, File

\* TypeOK: the types of the two files and of what is remembered of them.
THEOREM FilesTypeCorrect == FilesSpec => []FilesTypeOK
<1>1. FilesInv => FilesTypeOK
  BY DEF FilesInv
<1> QED BY <1>1, FilesInvariant, PTL

\* FilesExplained: for any number of commands, killed anywhere and overlapping
\* as they like, a torn file has a writer that was cut short or had company,
\* tests come after knowledge, and without overlap the latest decides both.
THEOREM FilesAreExplained == FilesSpec => []FilesExplained
<1> QED BY InvExplains, FilesInvariant, PTL

\* RefusedTouchesNothing: refusals leave every file as it was.
THEOREM RefusalsTouchNothing == FilesSpec => []RefusedTouchesNothing
<1>1. FilesInv => RefusedTouchesNothing
  BY DEF FilesInv, OpenedInv, RefusedTouchesNothing
<1> QED BY <1>1, FilesInvariant, PTL

-----------------------------------------------------------------------------
(* Sequences and shapes *)

LEMMA AppendFacts ==
  ASSUME NEW s, s \in Seq(Range(s)), NEW x
  PROVE  /\ Append(s, x) \in Seq(Range(Append(s, x)))
         /\ Range(Append(s, x)) = Range(s) \cup {x}
         /\ Len(Append(s, x)) = Len(s) + 1
         /\ \A i \in DOMAIN s : Append(s, x)[i] = s[i]
         /\ Append(s, x)[Len(s) + 1] = x
<1> DEFINE S == Range(s) \cup {x}
<1>1. s \in Seq(S) /\ x \in S
  OBVIOUS
<1> HIDE DEF S
<1>2. /\ Append(s, x) \in Seq(S) /\ Len(Append(s, x)) = Len(s) + 1
      /\ \A i \in 1 .. Len(s) : Append(s, x)[i] = s[i]
      /\ Append(s, x)[Len(s) + 1] = x
      /\ DOMAIN s = 1 .. Len(s) /\ Len(s) \in Nat
      /\ DOMAIN Append(s, x) = 1 .. Len(s) + 1
  BY <1>1
<1>3. Range(Append(s, x)) = Range(s) \cup {x}
  BY <1>2 DEF Range
<1> QED BY <1>2, <1>3 DEF S

\* Mapping a batch leaves none of its collections empty that was not.
LEMMA LifecyclesMapped ==
  ASSUME NEW c, IsContent(c), NEW l
  PROVE  Lifecycles(MappedContent(c), l) = Lifecycles(c, l)
<1> DEFINE m == MappedContent(c)
<1>1. \A part \in Collections \ {"elements"} : m[part] = c[part]
  BY DEF MappedContent, IsContent, Collections
<1>2. DOMAIN c["elements"] = DOMAIN m["elements"] /\ c["elements"] \in Seq(Range(c["elements"]))
  BY DEF MappedContent, IsContent, Collections
<1>3. m["elements"] = <<>> <=> c["elements"] = <<>>
  <2>1. m["elements"] = [i \in DOMAIN c["elements"] |-> m["elements"][i]]
    BY DEF MappedContent, IsContent, Collections
  <2>2. c["elements"] = <<>> <=> DOMAIN c["elements"] = {}
    BY <1>2
  <2> QED BY <1>2, <2>1, <2>2
<1>4. \A part \in Collections : m[part] = <<>> <=> c[part] = <<>>
  BY <1>1, <1>3
<1> QED BY <1>4 DEF Lifecycles

\* Whatever evidence a tool answers with has the shape of a batch.
LEMMA AnswersShaped ==
  ASSUME tool \in Tools, NEW answer \in Answers, NEW ev \in answer
  PROVE  IsContent(ev.content) /\ ev.captured_at >= RequestedAt
<1>1. CASE tool.kind = "product"
  BY <1>1, DocumentsAssumption DEF Answers, CaptureEvidence, SampledAt, RequestedAt
<1>2. CASE tool.kind # "product"
  <2>1. PICK response \in tool.responses : answer = PackEvidence({Addressed(r) : r \in response})
    BY <1>2 DEF Answers
  <2>2. PICK r \in response :
          ev \in Addressed(r).evidence /\ ResponseCorrelated(BridgeRequest, Addressed(r))
    BY <2>1 DEF PackEvidence
  <2>3. /\ {"request_id", "evidence"} \subseteq DOMAIN r
        /\ \A e \in r.evidence : "content" \in DOMAIN e /\ IsContent(e.content)
    BY <1>2, DocumentsAssumption
  <2>4. PICK e \in r.evidence :
          ev = [e EXCEPT !.capture_id = RequestId(@)]
    BY <2>2, <2>3 DEF Addressed
  <2>5. ev.content = e.content
    BY <2>3, <2>4
  <2>6. ev.captured_at >= RequestedAt
    BY <2>2 DEF ResponseCorrelated, BridgeRequest
  <2> QED BY <2>3, <2>5, <2>6
<1> QED BY <1>1, <1>2

LEMMA BuiltIsCandidate == \A ev : IsCandidate(BuildCandidate(ev))
BY DEF IsCandidate, BuildCandidate

-----------------------------------------------------------------------------
(* The invariant of the workflow *)

LEMMA InitDemoInv == DemoInit => DemoInv
<1> SUFFICES ASSUME DemoInit PROVE DemoInv
  OBVIOUS
<1>1. \A S : <<>> \in Seq(S) /\ Range(<<>>) = {} /\ Len(<<>>) = 0 /\ DOMAIN <<>> = {}
  BY DEF Range
<1>2. ShapeInv
  BY <1>1 DEF DemoInit, Init, ShapeInv
<1>3. VerdictsInv
  BY <1>1 DEF DemoInit, Init, VerdictsInv
<1>4. SettledInv
  BY DEF DemoInit, Init, SettledInv, Terminal
<1>5. MappedInv
  BY <1>1 DEF DemoInit, MappedInv
<1>6. CapturedInv
  BY <1>1 DEF DemoInit, Init, CapturedInv
<1> QED BY <1>2, <1>3, <1>4, <1>5, <1>6 DEF DemoInv

\* Steps that add no document and no verdict.
LEMMA NothingAdded ==
  ASSUME DemoInv, UNCHANGED <<tool, foreign, documents, validation_results>>,
         SettledInv', CapturedInv'
  PROVE  DemoInv'
<1> USE DEF DemoInv, documents
<1>1. ShapeInv'
  BY DEF ShapeInv
<1>2. VerdictsInv'
  BY DEF VerdictsInv
<1>3. MappedInv'
  BY DEF MappedInv
<1> QED BY <1>1, <1>2, <1>3

\* The supervisor completes a run only on a history with failed verdicts
\* before the last one.
LEMMA CompletedVerdicts ==
  ASSUME DemoInv, SuperviseComplete
  PROVE  \A i \in 1 .. Len(validation_results) - 1 : validation_results[i] = "failed"
<1>1. validation_results # <<>> /\ validation_results \in Seq(Verdict)
  BY DEF SuperviseComplete, ValidationPassed, DemoInv, ShapeInv
<1>2. HistoryAccepted(step_history, validation_results)
  BY <1>1 DEF SuperviseComplete, PolicyRejects
<1> QED BY <1>1, <1>2 DEF HistoryAccepted

\* A step of the graph adds nothing, and forgets no invocation id.
LEMMA GraphCaptured ==
  ASSUME DemoInv, GraphStep, UNCHANGED <<documents, tool, foreign>>
  PROVE  CapturedInv'
<1> USE DEF DemoInv, CapturedInv, documents
<1>1. CASE StartAgent
  <2>1. /\ issued' \in Seq(Range(issued')) /\ Range(issued) \subseteq Range(issued')
        /\ issued' # <<>>
    <3>1. issued' = Append(issued, <<iteration', selected_agent>>)
      BY <1>1 DEF StartAgent
    <3> QED BY <3>1, AppendFacts
  <2> QED BY <2>1
<1>2. CASE UNCHANGED issued /\ node' # "agent"
  BY <1>2
<1>3. CASE SuperviseTerminal \/ SuperviseFail \/ SuperviseReject \/ SuperviseComplete
             \/ SuperviseLimit \/ SuperviseRoute \/ RecursionLimit
  BY <1>2, <1>3 DEF SuperviseTerminal, SuperviseFail, SuperviseReject, SuperviseComplete,
     SuperviseLimit, SuperviseRoute, RecursionLimit, Supervise, StartSuperstep, Finish,
     Return, Raise
<1> QED BY <1>1, <1>3 DEF GraphStep

\* An agent's answer issues no id.
LEMMA AgentCaptured ==
  ASSUME DemoInv, UNCHANGED <<foreign, issued, evidence_docs>>, node' # "agent"
  PROVE  CapturedInv'
BY DEF DemoInv, CapturedInv

LEMMA GraphKeeps ==
  ASSUME DemoInv, GraphStep, UNCHANGED <<documents, tool, foreign>>
  PROVE  DemoInv'
<1>1. UNCHANGED validation_results
  BY DEF GraphStep, SuperviseTerminal, SuperviseFail, SuperviseReject, SuperviseComplete,
         SuperviseLimit, SuperviseRoute, StartAgent, RecursionLimit, Finish, Raise, domain,
         artifacts
<1> USE DEF Supervise, StartSuperstep, Finish, Return, Raise, domain, Terminal
<1>2. CASE SuperviseComplete
  BY <1>1, <1>2, GraphCaptured, CompletedVerdicts, NothingAdded DEF SuperviseComplete, SettledInv
<1>3. CASE SuperviseFail \/ SuperviseLimit
  BY <1>1, <1>3, GraphCaptured, NothingAdded DEF SuperviseFail, SuperviseLimit, SettledInv
<1>4. CASE SuperviseTerminal
  BY <1>1, <1>4, GraphCaptured, NothingAdded DEF SuperviseTerminal, SettledInv, DemoInv
<1>5. CASE SuperviseReject \/ RecursionLimit
  BY <1>1, <1>5, GraphCaptured, NothingAdded DEF SuperviseReject, RecursionLimit, SettledInv, DemoInv
<1>6. CASE SuperviseRoute
  BY <1>1, <1>6, GraphCaptured, NothingAdded DEF SuperviseRoute, SettledInv
<1>7. CASE StartAgent
  BY <1>1, <1>7, GraphCaptured, NothingAdded DEF StartAgent, SettledInv, DemoInv
<1> QED BY <1>2, <1>3, <1>4, <1>5, <1>6, <1>7 DEF GraphStep

\* An agent runs, so the workflow is not over, and is not after its answer.
LEMMA AgentSettled ==
  ASSUME DemoInv, NEW role, Running(role), NEW p, FinishAgent(p)
  PROVE  SettledInv'
BY DEF DemoInv, SettledInv, Running, FinishAgent, Terminal

LEMMA FailureKeeps ==
  ASSUME DemoInv, NEW role, Running(role), Fails(role), UNCHANGED <<tool, foreign>>
  PROVE  DemoInv'
<1>1. FinishAgent(FailurePatch(role)) /\ UNCHANGED documents
  BY DEF Fails
<1>2. validation_results' = validation_results \o <<>>
  BY <1>1 DEF FinishAgent, FailurePatch, EmptyPatch
<1>3. UNCHANGED validation_results
  BY <1>2 DEF DemoInv, ShapeInv
<1>4. CapturedInv'
  BY <1>1, AgentCaptured DEF FinishAgent, documents
<1> QED BY <1>1, <1>3, <1>4, AgentSettled, NothingAdded

LEMMA RaiseKeeps ==
  ASSUME DemoInv, NEW role, Running(role), Raise("agent_error"),
         UNCHANGED <<documents, tool, foreign>>
  PROVE  DemoInv'
<1>1. UNCHANGED validation_results /\ SettledInv'
  BY DEF Raise, domain, DemoInv, SettledInv, Terminal
<1>2. CapturedInv'
  BY AgentCaptured DEF Raise, documents
<1> QED BY <1>1, <1>2, NothingAdded

LEMMA ArtifactPatches ==
  \A p \in SuccessPatches(Explorer) \cup SuccessPatches(Knowledge) : p.validation_results = <<>>
<1> DEFINE done(role) == [EmptyPatch EXCEPT !.step_history = <<Entry(role, "completed")>>]
<1>1. SuccessPatches(Explorer) = {[done(Explorer) EXCEPT !.evidence = 1]}
  BY DEF SuccessPatches, Explorer
<1>2. SuccessPatches(Knowledge) = {[done(Knowledge) EXCEPT !.knowledge_candidates = 1]}
  BY DEF SuccessPatches, Explorer, Knowledge
<1>3. \A role : /\ [done(role) EXCEPT !.evidence = 1].validation_results = <<>>
                /\ [done(role) EXCEPT !.knowledge_candidates = 1].validation_results = <<>>
  BY DEF EmptyPatch
<1> QED BY <1>1, <1>2, <1>3

LEMMA EvidenceAdded ==
  ASSUME DemoInv, Running(Explorer), NEW ev, IsContent(ev.content), ExplorerAdds(ev),
         Explorer \notin foreign =>
           ev.capture_id = InvocationId /\ ev.captured_at >= RequestedAt,
         UNCHANGED <<tool, foreign>>
  PROVE  DemoInv'
<1>1. PICK p \in SuccessPatches(Explorer) : FinishAgent(p)
  BY DEF ExplorerAdds
<1>2. SettledInv'
  BY <1>1, AgentSettled
<1>3. p.validation_results = <<>>
  BY <1>1, ArtifactPatches
<1>4. validation_results' = validation_results
  BY <1>1, <1>3 DEF FinishAgent, DemoInv, ShapeInv
<1>5. /\ evidence_docs' \in Seq(Range(evidence_docs'))
      /\ Range(evidence_docs') = Range(evidence_docs) \cup {ev}
      /\ UNCHANGED <<candidate_docs, result_docs>>
  BY AppendFacts DEF ExplorerAdds, DemoInv, ShapeInv
<1>6. ShapeInv'
  BY <1>4, <1>5 DEF DemoInv, ShapeInv
<1>7. VerdictsInv'
  BY <1>4, <1>5 DEF DemoInv, VerdictsInv
<1>8. MappedInv'
  BY <1>5 DEF DemoInv, MappedInv
<1>9. CapturedInv'
  <2>1. InvocationId \in Range(issued)
    BY DEF InvocationId, Running, DemoInv, CapturedInv, Range
  <2>2. UNCHANGED issued /\ node' # "agent"
    BY <1>1 DEF FinishAgent
  <2> QED BY <1>5, <2>1, <2>2 DEF DemoInv, CapturedInv
<1> QED BY <1>2, <1>6, <1>7, <1>8, <1>9 DEF DemoInv

LEMMA CandidateAdded ==
  ASSUME DemoInv, Running(Knowledge), NEW c, IsCandidate(c), KnowledgeAdds(c),
         UNCHANGED <<tool, foreign>>,
         foreign = {} =>
           \E ev \in Range(evidence_docs) : c = BuildCandidate(ev) /\ Mappable(ev.content)
  PROVE  DemoInv'
<1>1. PICK p \in SuccessPatches(Knowledge) : FinishAgent(p)
  BY DEF KnowledgeAdds
<1>2. SettledInv'
  BY <1>1, AgentSettled
<1>3. p.validation_results = <<>>
  BY <1>1, ArtifactPatches
<1>4. validation_results' = validation_results
  BY <1>1, <1>3 DEF FinishAgent, DemoInv, ShapeInv
<1>5. /\ candidate_docs' \in Seq(Range(candidate_docs'))
      /\ Range(candidate_docs') = Range(candidate_docs) \cup {c}
      /\ UNCHANGED <<evidence_docs, result_docs>>
  BY AppendFacts DEF KnowledgeAdds, DemoInv, ShapeInv
<1>6. ShapeInv'
  BY <1>4, <1>5 DEF DemoInv, ShapeInv
<1>7. VerdictsInv'
  BY <1>4, <1>5 DEF DemoInv, VerdictsInv
<1>8. MappedInv'
  BY <1>5 DEF DemoInv, MappedInv
<1>9. CapturedInv'
  BY <1>1, <1>5, AgentCaptured DEF FinishAgent
<1> QED BY <1>2, <1>6, <1>7, <1>8, <1>9 DEF DemoInv

LEMMA ResultAdded ==
  ASSUME DemoInv, Running(Validator), NEW v, v.status \in Verdict,
         Validator \notin foreign => v.validated_at = SampledAt, ValidatorAdds(v), UNCHANGED <<tool, foreign>>
  PROVE  DemoInv'
<1>1. PICK p \in SuccessPatches(Validator) :
        p.validation_results = <<v.status>> /\ FinishAgent(p)
  BY DEF ValidatorAdds
<1>2. SettledInv'
  BY <1>1, AgentSettled
<1>3. validation_results' = Append(validation_results, v.status)
  BY <1>1 DEF FinishAgent, DemoInv, ShapeInv
<1>4. /\ validation_results' \in Seq(Verdict)
      /\ Len(validation_results') = Len(validation_results) + 1
      /\ \A i \in 1 .. Len(validation_results) : validation_results'[i] = validation_results[i]
      /\ validation_results'[Len(validation_results) + 1] = v.status
  BY <1>3 DEF DemoInv, ShapeInv
<1>5. /\ result_docs' \in Seq(Range(result_docs'))
      /\ Len(result_docs') = Len(result_docs) + 1
      /\ \A i \in DOMAIN result_docs : result_docs'[i] = result_docs[i]
      /\ result_docs'[Len(result_docs) + 1] = v
      /\ UNCHANGED <<evidence_docs, candidate_docs>>
  BY AppendFacts DEF ValidatorAdds, DemoInv, ShapeInv
<1>6. ShapeInv'
  BY <1>4, <1>5 DEF DemoInv, ShapeInv
<1>7. VerdictsInv'
  <2>1. /\ DOMAIN result_docs = 1 .. Len(result_docs) /\ Len(result_docs) \in Nat
        /\ DOMAIN result_docs' = 1 .. Len(result_docs) + 1
        /\ Len(result_docs) = Len(validation_results)
    BY <1>5 DEF DemoInv, ShapeInv, VerdictsInv
  <2>2. ASSUME NEW i \in DOMAIN result_docs'
        PROVE  /\ result_docs'[i].status = validation_results'[i]
               /\ Validator \notin foreign => result_docs'[i].validated_at = SampledAt
    <3>1. CASE i \in DOMAIN result_docs
      BY <1>4, <1>5, <2>1, <3>1 DEF DemoInv, VerdictsInv
    <3>2. CASE i = Len(result_docs) + 1
      BY <1>4, <1>5, <2>1, <3>2
    <3> QED BY <2>1, <3>1, <3>2
  <2> QED BY <1>4, <1>5, <2>1, <2>2 DEF VerdictsInv
<1>8. MappedInv'
  BY <1>5 DEF DemoInv, MappedInv
<1>9. CapturedInv'
  BY <1>1, <1>5, AgentCaptured DEF FinishAgent
<1> QED BY <1>2, <1>6, <1>7, <1>8, <1>9 DEF DemoInv

LEMMA ForeignCandidatesShaped == \A c \in ForeignCandidates : IsCandidate(c)
<1> SUFFICES ASSUME NEW c \in ForeignCandidates PROVE IsCandidate(c)
  OBVIOUS
<1>1. PICK ev : \/ \E d : c = [BuildCandidate(ev) EXCEPT !.knowledge.content = MappedContent(d)]
                \/ c = [BuildCandidate(ev) EXCEPT !.knowledge.lifecycles = {VerifiedAt(SampledAt)}]
  BY DEF ForeignCandidates
<1> QED BY <1>1 DEF BuildCandidate, IsCandidate

LEMMA ForeignResultsShaped == \A v \in ForeignResults : v.status \in Verdict
BY DEF ForeignResults, Result, Verdict

LEMMA AgentKeeps ==
  ASSUME DemoInv, AgentStep, UNCHANGED <<tool, foreign>> PROVE DemoInv'
<1>1. CASE Explore
  <2>1. PICK answer \in Answers :
          \/ \E ev \in {e \in answer : EvidenceCorrelated(e)} : ExplorerAdds(ev)
          \/ Fails(Explorer)
    BY <1>1 DEF Explore
  <2>2. \A ev \in answer : IsContent(ev.content) /\ ev.captured_at >= RequestedAt
    BY <2>1, AnswersShaped DEF DemoInv, ShapeInv
  <2>3. \A ev : EvidenceCorrelated(ev) => ev.capture_id = InvocationId
    BY DEF EvidenceCorrelated
  <2> QED BY <1>1, <2>1, <2>2, <2>3, EvidenceAdded, FailureKeeps DEF Explore
<1>2. CASE Learn
  <2>1. CASE KnowledgeFails
    BY <1>2, <2>1, FailureKeeps DEF Learn, KnowledgeFails
  <2>2. CASE \E ev \in Unprocessed : Mappable(ev.content) /\ KnowledgeAdds(BuildCandidate(ev))
    <3>1. PICK ev \in Range(evidence_docs) :
            Mappable(ev.content) /\ KnowledgeAdds(BuildCandidate(ev))
      BY <2>2 DEF Unprocessed
    <3> QED BY <1>2, <3>1, CandidateAdded, BuiltIsCandidate DEF Learn
  <2> QED BY <1>2, <2>1, <2>2 DEF Learn
<1>3. CASE Validate
  <2>1. \A c, ev : /\ BuildValidation(c, ev, SampledAt).status \in Verdict
                   /\ BuildValidation(c, ev, SampledAt).validated_at = SampledAt
    BY DEF BuildValidation, Result, Verdict
  <2>2. \/ Fails(Validator)
        \/ \E c, ev : ValidatorAdds(BuildValidation(c, ev, SampledAt))
    BY <1>3 DEF Validate
  <2> QED BY <1>3, <2>1, <2>2, ResultAdded, FailureKeeps DEF Validate
<1>4. CASE ValidatorRaises
  BY <1>4, RaiseKeeps DEF ValidatorRaises
<1>5. CASE ForeignExplore
  BY <1>5, EvidenceAdded, DocumentsAssumption DEF ForeignExplore
<1>6. CASE ForeignLearn
  BY <1>6, CandidateAdded, ForeignCandidatesShaped DEF ForeignLearn
<1>7. CASE ForeignValidate
  BY <1>7, ResultAdded, ForeignResultsShaped DEF ForeignValidate
<1> QED BY <1>1, <1>2, <1>3, <1>4, <1>5, <1>6, <1>7 DEF AgentStep

LEMMA StepKeeps == DemoInv /\ [CommandNext]_command_vars => DemoInv'
<1> SUFFICES ASSUME DemoInv, [CommandNext]_command_vars PROVE DemoInv'
  OBVIOUS
<1>1. CASE Work
  BY <1>1, AgentKeeps, GraphKeeps DEF Work, DemoStep
<1>2. CASE UNCHANGED demo_vars
  <2>1. /\ UNCHANGED <<tool, foreign, documents, validation_results>>
        /\ SettledInv' /\ CapturedInv'
    BY <1>2 DEF demo_vars, vars, domain, documents, DemoInv, SettledInv, CapturedInv
  <2> QED BY <2>1, NothingAdded
<1>3. Work \/ UNCHANGED demo_vars
  BY DEF CommandNext, OwnStep, EndOfRun, Generate, OtherStep, command_vars
<1> QED BY <1>1, <1>2, <1>3

\* The documents of a run, its verdicts and its end belong together, whatever
\* the tools and the foreign agents do.
THEOREM DemoInvariant == CommandSpec => []DemoInv
<1>1. CommandInit => DemoInv
  BY InitDemoInv DEF CommandInit
<1> QED BY <1>1, StepKeeps, PTL DEF CommandSpec

-----------------------------------------------------------------------------
(* The command and its files *)

LEMMA OwnFileSteps == CommandNext => FilesNext \/ UNCHANGED file_vars
BY OwnAssumption DEF CommandNext, OwnStep, Work, EndOfRun, Generate, OtherStep, FilesNext,
   CommandStep

\* The whole command, with its workflow, does to the files what ArtifactFiles
\* allows any command.
THEOREM CommandsKeepToFiles == CommandSpec => FilesSpec
<1>1. CommandInit => FilesInit
  BY DEF CommandInit
<1>2. [CommandNext]_command_vars => [FilesNext]_file_vars
  BY OwnFileSteps DEF command_vars
<1> QED BY <1>1, <1>2, PTL DEF CommandSpec, FilesSpec

\* FilesExplained and RefusedTouchesNothing of the command with its workflow.
THEOREM CommandFilesExplained == CommandSpec => []FilesExplained
<1> QED BY CommandsKeepToFiles, FilesAreExplained, PTL

THEOREM CommandRefusalsTouchNothing == CommandSpec => []RefusedTouchesNothing
<1> QED BY CommandsKeepToFiles, RefusalsTouchNothing, PTL

-----------------------------------------------------------------------------
(* The convention *)

\* A candidate mapped from evidence that can be told apart from other evidence
\* can be mapped again.
LEMMA MappedAgain ==
  ASSUME DemoInv, foreign = {}, EvidenceReadable,
         NEW c \in Range(candidate_docs), NEW ev \in Range(evidence_docs)
  PROVE  ~ ValidationRaises(c, ev)
<1> SUFFICES ASSUME c.source_evidence_id = ev.evidence_id PROVE Mappable(ev.content)
  BY DEF ValidationRaises, ValidationRefuses
<1>1. PICK source \in Range(evidence_docs) : c = BuildCandidate(source) /\ Mappable(source.content)
  BY DEF DemoInv, MappedInv
<1>2. source.evidence_id = ev.evidence_id
  BY <1>1 DEF BuildCandidate
<1>3. PICK i \in DOMAIN evidence_docs, j \in DOMAIN evidence_docs :
        source = evidence_docs[i] /\ ev = evidence_docs[j]
  BY DEF Range
<1>4. i = j
  BY <1>2, <1>3 DEF EvidenceReadable, IsInjective
<1> QED BY <1>1, <1>3, <1>4

LEMMA NoErrorEscapes ==
  ASSUME DemoInv, foreign = {} PROVE ~ MappingErrorEscapes
<1> SUFFICES ASSUME MappingErrorEscapes PROVE FALSE
  OBVIOUS
<1>1. EvidenceReadable
  BY DEF MappingErrorEscapes, ReadableToValidator
<1>2. CASE ResultsRaise
  <2>1. PICK i \in DOMAIN result_docs : \E pair \in ResultPairs(result_docs[i]) :
          ValidationRaises(pair[1], pair[2])
    BY <1>2 DEF ResultsRaise
  <2> QED BY <1>1, <2>1, MappedAgain DEF ResultPairs, CandidateWithId, EvidenceWithId
<1>3. CASE \E pair \in Selected : ValidationRaises(pair[1], pair[2])
  BY <1>1, <1>3, MappedAgain DEF Selected, Unvalidated
<1> QED BY <1>2, <1>3 DEF MappingErrorEscapes

LEMMA PatchReturned ==
  ASSUME Patches = HonestPatches, NEW role \in Executable, Running(role),
         NEW p \in SuccessPatches(role) \cup {FailurePatch(role)}, FinishAgent(p)
  PROVE  Next
<1>1. p \in Patches[selected_agent]
  BY DEF HonestPatches, Running
<1> QED BY <1>1 DEF Running, AgentReturns, RunStep, Next

LEMMA ConventionStep ==
  ASSUME Patches = HonestPatches, DemoInv, foreign = {}, DemoStep
  PROVE  Next
<1>1. CASE GraphStep
  BY <1>1 DEF GraphStep, RunStep, Next
<1>2. CASE Explore
  <2>1. \E p \in SuccessPatches(Explorer) \cup {FailurePatch(Explorer)} : FinishAgent(p)
    BY <1>2 DEF Explore, ExplorerAdds, Fails
  <2> QED BY <1>2, <2>1, PatchReturned DEF Explore, Executable
<1>3. CASE Learn
  <2>1. \E p \in SuccessPatches(Knowledge) \cup {FailurePatch(Knowledge)} : FinishAgent(p)
    BY <1>3 DEF Learn, KnowledgeAdds, KnowledgeFails, Fails
  <2> QED BY <1>3, <2>1, PatchReturned DEF Learn, Executable
<1>4. CASE Validate
  <2>1. \E p \in SuccessPatches(Validator) \cup {FailurePatch(Validator)} : FinishAgent(p)
    BY <1>4 DEF Validate, ValidatorAdds, Fails
  <2> QED BY <1>4, <2>1, PatchReturned DEF Validate, Executable
<1>5. ~ ValidatorRaises /\ ~ ForeignExplore /\ ~ ForeignLearn /\ ~ ForeignValidate
  BY NoErrorEscapes DEF ValidatorRaises, ForeignExplore, ForeignLearn, ForeignValidate
<1> QED BY <1>1, <1>2, <1>3, <1>4, <1>5 DEF DemoStep, AgentStep

\* ConventionKept: with the product agents the demo workflow is the core
\* workflow with agents that follow the convention, for any tool, capture and
\* pack response.
THEOREM ConventionIsKept ==
  ASSUME Patches = HonestPatches PROVE CommandSpec => ConventionKept
<1>1. DemoInv /\ [CommandNext]_command_vars => [foreign = {} => Next]_vars
  BY ConventionStep DEF CommandNext, OwnStep, Work, EndOfRun, Generate, OtherStep,
     command_vars, demo_vars
<1> QED BY <1>1, DemoInvariant, PTL DEF CommandSpec, ConventionKept

\* A command all of whose agents are the product's is a run of the core, so
\* what is proved there of agents that follow the convention holds of it: its
\* supervisor refuses nothing, and its iteration limit cuts no cycle short.
THEOREM ProductCommandsAccepted ==
  ASSUME Patches = HonestPatches
  PROVE  CommandSpec /\ foreign = {} =>
           Spec /\ [](ConventionAccepted /\ LimitEndsWholeCycles)
<1>1. CommandInit => Init
  BY DEF CommandInit, DemoInit
<1>2. foreign = {} /\ [CommandNext]_command_vars => (foreign = {})'
  BY DEF CommandNext, OwnStep, Work, EndOfRun, Generate, OtherStep, DemoStep,
     command_vars, demo_vars
<1>3. foreign = {} /\ [foreign = {} => Next]_vars => [Next]_vars
  OBVIOUS
<1> QED
  BY <1>1, <1>2, <1>3, ConventionIsKept, ConventionIsAccepted, PTL
     DEF CommandSpec, ConventionKept, Spec

-----------------------------------------------------------------------------
(* The handoff *)

\* Evidence, candidates and results of an accepted run, place by place.
LEMMA InPlaces ==
  ASSUME DemoInv, HandoffAccepted
  PROVE  /\ Len(evidence_docs) = Len(result_docs) /\ Len(result_docs) \in Nat \ {0}
         /\ \A i \in 1 .. Len(result_docs) :
              /\ evidence_docs[i] \in Range(evidence_docs)
              /\ candidate_docs[i] \in Range(candidate_docs)
              /\ candidate_docs[i].source_evidence_id = evidence_docs[i].evidence_id
              /\ result_docs[i].source_evidence_id = evidence_docs[i].evidence_id
              /\ result_docs[i].candidate_id = candidate_docs[i].candidate_id
<1> DEFINE sources == [i \in DOMAIN evidence_docs |-> evidence_docs[i].evidence_id]
<1>1. /\ [i \in DOMAIN candidate_docs |-> candidate_docs[i].source_evidence_id] = sources
      /\ [i \in DOMAIN result_docs |-> result_docs[i].source_evidence_id] = sources
      /\ [i \in DOMAIN result_docs |-> result_docs[i].candidate_id] =
           [i \in DOMAIN candidate_docs |-> candidate_docs[i].candidate_id]
  BY DEF HandoffAccepted, InOrder
<1>2. /\ DOMAIN evidence_docs = 1 .. Len(evidence_docs) /\ Len(evidence_docs) \in Nat
      /\ DOMAIN result_docs = 1 .. Len(result_docs) /\ Len(result_docs) \in Nat \ {0}
  BY DEF DemoInv, ShapeInv, HandoffAccepted
<1>3. DOMAIN candidate_docs = DOMAIN evidence_docs /\ DOMAIN result_docs = DOMAIN evidence_docs
  BY <1>1
<1>4. Len(evidence_docs) = Len(result_docs)
  <2>1. \A m, n \in Nat : 1 .. m = 1 .. n => m = n
    <3> SUFFICES ASSUME NEW m \in Nat, NEW n \in Nat, 1 .. m = 1 .. n, m < n PROVE FALSE
      OBVIOUS
    <3>1. n \in 1 .. n /\ n \notin 1 .. m
      OBVIOUS
    <3> QED BY <3>1
  <2> QED BY <1>2, <1>3, <2>1
<1>5. ASSUME NEW i \in DOMAIN result_docs
      PROVE  /\ candidate_docs[i].source_evidence_id = evidence_docs[i].evidence_id
             /\ result_docs[i].source_evidence_id = evidence_docs[i].evidence_id
             /\ result_docs[i].candidate_id = candidate_docs[i].candidate_id
  BY <1>1, <1>3
<1> QED BY <1>2, <1>3, <1>4, <1>5 DEF Range

\* Every result of an accepted run is what the product's validation says of
\* the candidate and the evidence in its place.
LEMMA Revalidated ==
  ASSUME DemoInv, HandoffAccepted, NEW i \in 1 .. Len(result_docs)
  PROVE  /\ result_docs[i] = BuildValidation(candidate_docs[i], evidence_docs[i],
                                              result_docs[i].validated_at)
         /\ CandidateAccepted(candidate_docs[i]) /\ IsCandidate(candidate_docs[i])
         /\ OfThisRun(candidate_docs[i]) /\ OfThisRun(evidence_docs[i])
<1>1. <<candidate_docs[i], evidence_docs[i]>> \in ResultPairs(result_docs[i])
  BY InPlaces DEF ResultPairs, CandidateWithId, EvidenceWithId
<1>2. ResultConsistent(result_docs[i])
  BY DEF HandoffAccepted, ResultsReadable, ResultsUpToReadable
<1>3. result_docs[i] = BuildValidation(candidate_docs[i], evidence_docs[i],
                                       result_docs[i].validated_at)
  BY <1>1, <1>2 DEF ResultConsistent
<1>4. /\ CandidateAccepted(candidate_docs[i]) /\ OfThisRun(candidate_docs[i])
      /\ OfThisRun(evidence_docs[i]) /\ IsCandidate(candidate_docs[i])
  BY InPlaces DEF HandoffAccepted, CandidatesReadable, EvidenceReadable, DemoInv, ShapeInv
<1> QED BY <1>3, <1>4

\* A candidate in order that says what the mapping says is the mapped one.
LEMMA MappedOrWrong ==
  ASSUME NEW c, NEW ev, CandidateAccepted(c), IsCandidate(c), OfThisRun(c), OfThisRun(ev),
         c.source_evidence_id = ev.evidence_id,
         c.knowledge.content = MappedContent(ev.content),
         c.knowledge.lifecycles = Lifecycles(ev.content, New)
  PROVE  c = BuildCandidate(ev)
BY DEF CandidateAccepted, KnowledgeAccepted, CandidateCorrelated, OfThisRun, IsCandidate,
       BuildCandidate

LEMMA InvSound == DemoInv => HandoffSound
<1> SUFFICES ASSUME DemoInv, NEW k \in Extracted
             PROVE  /\ status = "completed" /\ Len(evidence_docs) = Len(validation_results)
                    /\ LET last    == evidence_docs[Len(evidence_docs)]
                           verdict == result_docs[Len(evidence_docs)]
                       IN /\ OfThisRun(last)
                          /\ k.content = MappedContent(last.content)
                          /\ k.lifecycles =
                               Lifecycles(last.content, VerifiedAt(verdict.validated_at))
                          /\ Validator \notin foreign => verdict.validated_at = SampledAt
                          /\ k.artifact_id = ArtifactId(WorkflowId, ProductId, last.evidence_id)
                          /\ Explorer \notin foreign =>
                               last.capture_id \in Range(issued)
                                 /\ last.captured_at >= RequestedAt
                    /\ \A i \in 1 .. Len(evidence_docs) - 1 :
                         candidate_docs[i].knowledge.content # MappedContent(evidence_docs[i].content)
                           \/ candidate_docs[i].knowledge.lifecycles
                                # Lifecycles(evidence_docs[i].content, New)
  BY DEF HandoffSound
<1> DEFINE n == Len(result_docs)
           last == evidence_docs[n]
           t    == result_docs[n].validated_at
<1>1. HandoffAccepted /\ k \in result_docs[n].verified_knowledge
  BY DEF Extracted
<1>2. /\ status = "completed" /\ n \in 1 .. n
      /\ Len(evidence_docs) = n /\ Len(validation_results) = n
      /\ last \in Range(evidence_docs)
  BY <1>1, InPlaces DEF HandoffAccepted, Completed, DemoInv, VerdictsInv
<1>3. result_docs[n] = BuildValidation(candidate_docs[n], last, t) /\ OfThisRun(last)
  BY <1>1, <1>2, Revalidated
<1>4. result_docs[n].status = "passed"
  BY <1>1 DEF HandoffAccepted, VerdictsAccepted
<1>5. candidate_docs[n] = BuildCandidate(last)
  BY <1>3, <1>4 DEF BuildValidation, Result
<1>6. k = VerifiedSnapshot(BuildCandidate(last).knowledge, t)
  BY <1>1, <1>3, <1>5 DEF BuildValidation, Result
<1>7. /\ k.content = MappedContent(last.content)
      /\ k.lifecycles = Lifecycles(MappedContent(last.content), VerifiedAt(t))
      /\ k.artifact_id = ArtifactId(last.workflow_id, last.product_id, last.evidence_id)
  BY <1>6 DEF VerifiedSnapshot, BuildCandidate
<1>8. k.lifecycles = Lifecycles(last.content, VerifiedAt(t))
  BY <1>2, <1>7, LifecyclesMapped DEF DemoInv, ShapeInv
<1>9. ASSUME NEW i \in 1 .. n - 1
      PROVE  candidate_docs[i].knowledge.content # MappedContent(evidence_docs[i].content)
               \/ candidate_docs[i].knowledge.lifecycles # Lifecycles(evidence_docs[i].content, New)
  <2>1. i \in 1 .. n /\ i \in DOMAIN result_docs
    BY <1>2 DEF DemoInv, ShapeInv
  <2>2. result_docs[i].status = "failed"
    BY <1>2, <2>1 DEF DemoInv, VerdictsInv, SettledInv
  <2>3. candidate_docs[i] # BuildCandidate(evidence_docs[i])
    <3>1. result_docs[i] = BuildValidation(candidate_docs[i], evidence_docs[i],
                                           result_docs[i].validated_at)
      BY <1>1, <2>1, Revalidated
    <3>2. \A c, ev, u : c = BuildCandidate(ev) => BuildValidation(c, ev, u).status = "passed"
      BY DEF BuildValidation, Result
    <3> QED BY <2>2, <3>1, <3>2
  <2> QED BY <1>1, <2>1, <2>3, Revalidated, InPlaces, MappedOrWrong
<1>10. Validator \notin foreign => t = SampledAt
  BY <1>2 DEF DemoInv, VerdictsInv, ShapeInv
<1>11. Explorer \notin foreign =>
         last.capture_id \in Range(issued) /\ last.captured_at >= RequestedAt
  BY <1>2 DEF DemoInv, CapturedInv
<1> HIDE DEF n
<1> QED BY <1>2, <1>3, <1>7, <1>8, <1>9, <1>10, <1>11 DEF OfThisRun

\* HandoffSound: whoever the agents were and whatever their verdicts carried,
\* what the handoff gives out is the last capture of a completed run, verified
\* at the time of its verdict, and the earlier candidates were wrong.
THEOREM HandoffIsSound == CommandSpec => []HandoffSound
<1> QED BY InvSound, DemoInvariant, PTL

-----------------------------------------------------------------------------
(* What the handoff accepts *)

\* Whoever the agents are, they add one artifact and one entry per call, so a
\* step of the run is a step of the core or ends it with an exception.
LEMMA CoreStep ==
  ASSUME Patches = HonestPatches, DemoStep
  PROVE  Next \/ (node = "agent" /\ Raise("agent_error") /\ UNCHANGED steps)
<1>1. CASE GraphStep
  BY <1>1 DEF GraphStep, RunStep, Next
<1>2. CASE ValidatorRaises
  BY <1>2 DEF ValidatorRaises, Running
<1>3. CASE Explore \/ ForeignExplore
  <2>1. \E p \in SuccessPatches(Explorer) \cup {FailurePatch(Explorer)} : FinishAgent(p)
    BY <1>3 DEF Explore, ForeignExplore, ExplorerAdds, Fails
  <2> QED BY <1>3, <2>1, PatchReturned DEF Explore, ForeignExplore, Executable
<1>4. CASE Learn \/ ForeignLearn
  <2>1. \E p \in SuccessPatches(Knowledge) \cup {FailurePatch(Knowledge)} : FinishAgent(p)
    BY <1>4 DEF Learn, ForeignLearn, KnowledgeAdds, KnowledgeFails, Fails
  <2> QED BY <1>4, <2>1, PatchReturned DEF Learn, ForeignLearn, Executable
<1>5. CASE Validate \/ ForeignValidate
  <2>1. \E p \in SuccessPatches(Validator) \cup {FailurePatch(Validator)} : FinishAgent(p)
    BY <1>5 DEF Validate, ForeignValidate, ValidatorAdds, Fails
  <2> QED BY <1>5, <2>1, PatchReturned DEF Validate, ForeignValidate, Executable
<1> QED BY <1>1, <1>2, <1>3, <1>4, <1>5 DEF DemoStep, AgentStep

CoreInv == IInv /\ ConventionInv

LEMMA CoreKept ==
  ASSUME Patches = HonestPatches
  PROVE  CoreInv /\ [CommandNext]_command_vars => CoreInv'
<1> SUFFICES ASSUME CoreInv, [CommandNext]_command_vars PROVE CoreInv'
  OBVIOUS
<1>1. CASE [Next]_vars
  BY <1>1, NextIInv, ConventionNext DEF CoreInv
<1>2. CASE node = "agent" /\ Raise("agent_error") /\ UNCHANGED steps
  <2>1. IInv'
    BY <1>2, RaiseIInv DEF CoreInv, IInv, TypeOK
  <2>2. outcome = None /\ ~ ("agent_error" \in {None, "returned"})
    BY <1>2 DEF CoreInv, ConventionInv, None
  <2>3. ConventionInv'
    BY <1>2, <2>2, ConventionFrame DEF CoreInv, Raise, domain, artifacts
  <2> QED BY <2>1, <2>3 DEF CoreInv
<1>3. DemoStep \/ UNCHANGED vars
  BY DEF CommandNext, OwnStep, Work, EndOfRun, Generate, OtherStep, command_vars, demo_vars
<1> QED BY <1>1, <1>2, <1>3, CoreStep

LEMMA CoreInvariant ==
  ASSUME Patches = HonestPatches PROVE CommandSpec => []CoreInv
<1>1. CommandInit => CoreInv
  BY InitIInv, ConventionInit DEF CommandInit, DemoInit, CoreInv
<1> QED BY <1>1, CoreKept, PTL DEF CommandSpec

\* What the validation says of an acceptable candidate is an acceptable result.
LEMMA BuiltAccepted ==
  ASSUME NEW c, NEW ev, NEW t, IsCandidate(c), CandidateAccepted(c), OfThisRun(c)
  PROVE  LET v == BuildValidation(c, ev, t)
         IN /\ ResultAccepted(v) /\ OfThisRun(v) /\ v.validated_at = t
            /\ v.candidate_id = c.candidate_id
            /\ v.source_evidence_id = c.source_evidence_id
            /\ v.status \in {"passed", "failed"}
            /\ v.status = "passed" => v.verified_knowledge # {}
<1> DEFINE k == VerifiedSnapshot(c.knowledge, t)
           v == BuildValidation(c, ev, t)
<1>1. \A s, e : LET r == Result(c, s, t, e)
                IN /\ r.validation_id = ValidationId(c.workflow_id, c.product_id, c.candidate_id,
                                                     c.source_evidence_id)
                   /\ r.workflow_id = c.workflow_id /\ r.product_id = c.product_id
                   /\ r.candidate_id = c.candidate_id
                   /\ r.source_evidence_id = c.source_evidence_id
                   /\ r.status = s /\ r.check = s /\ r.validated_at = t
                   /\ r.verified_knowledge = e
  BY DEF Result
<1>2. \/ v = Result(c, "passed", t, {k})
      \/ v = Result(c, "failed", t, {})
  BY DEF BuildValidation
<1>3. ResultIdsAccepted(v) /\ OfThisRun(v)
  BY <1>1, <1>2 DEF ResultIdsAccepted, OfThisRun, CandidateAccepted, CandidateCorrelated
<1>4. ASSUME v = Result(c, "passed", t, {k}) PROVE VerifiedAccepted(k, v)
  <2> DEFINE restored == [k EXCEPT !.lifecycles = Lifecycles(k.content, New)]
  <2>1. /\ k.lifecycles = Lifecycles(c.knowledge.content, VerifiedAt(t))
        /\ k.content = c.knowledge.content
        /\ restored.lifecycles = Lifecycles(c.knowledge.content, New)
        /\ restored.content = c.knowledge.content
        /\ restored.reasoning_provenance = c.knowledge.reasoning_provenance
        /\ restored.product_id = c.knowledge.product_id
        /\ restored.artifact_id = c.knowledge.artifact_id
    <3>1. \E a, p, r, l, m : c.knowledge = [artifact_id |-> a, product_id |-> p,
                                reasoning_provenance |-> r, lifecycles |-> l, content |-> m]
      BY DEF IsCandidate
    <3>2. PICK a, p, r, l, m : c.knowledge = [artifact_id |-> a, product_id |-> p,
                                reasoning_provenance |-> r, lifecycles |-> l, content |-> m]
      BY <3>1
    <3> QED BY <3>2 DEF VerifiedSnapshot
  <2>2. \A l, m : Lifecycles(m, l) \subseteq {l}
    BY DEF Lifecycles
  <2> HIDE DEF restored, k, v
  <2>3. KnowledgeAccepted(restored)
    BY <2>1, <2>2 DEF CandidateAccepted, KnowledgeAccepted
  <2>4. k.lifecycles \subseteq {VerifiedAt(v.validated_at)}
    BY <1>1, <1>4, <2>1, <2>2
  <2>5. CandidateAccepted([candidate_id       |-> v.candidate_id,
                           workflow_id        |-> v.workflow_id,
                           product_id         |-> v.product_id,
                           source_evidence_id |-> v.source_evidence_id,
                           knowledge          |-> restored])
    BY <1>1, <1>4, <2>1, <2>3 DEF CandidateAccepted, CandidateCorrelated
  <2> QED BY <2>4, <2>5 DEF VerifiedAccepted, restored
<1>5. ResultAccepted(v)
  <2> HIDE DEF k, v
  <2>1. CASE v = Result(c, "passed", t, {k})
    <3>1. v.status = "passed" /\ v.check = "passed" /\ v.verified_knowledge = {k}
      BY <1>1, <2>1
    <3> QED BY <1>3, <1>4, <2>1, <3>1 DEF ResultAccepted
  <2>2. CASE v = Result(c, "failed", t, {})
    BY <1>1, <1>3, <2>2 DEF ResultAccepted
  <2> QED BY <1>2, <2>1, <2>2
<1> QED BY <1>1, <1>2, <1>3, <1>5

\* When the Validator runs there is one piece of evidence and one candidate
\* more than there are verdicts.
LEMMA ValidatorCounts ==
  ASSUME DemoInv, CoreInv, HandoffInv, Running(Validator)
  PROVE  /\ Len(evidence_docs) = Len(result_docs) + 1
         /\ Len(candidate_docs) = Len(result_docs) + 1
         /\ DOMAIN evidence_docs = 1 .. Len(result_docs) + 1
         /\ DOMAIN candidate_docs = 1 .. Len(result_docs) + 1
         /\ DOMAIN result_docs = 1 .. Len(result_docs) /\ Len(result_docs) \in Nat
<1> DEFINE n == Len(step_history)
           whole == Len(validation_results)
<1>1. CycleInv /\ Turn(n + 1) = Validator
  BY DEF Running, CoreInv, ConventionInv, CycleInv
<1>2. n \in Nat /\ whole \in Nat /\ n >= 3 * whole /\ n <= 3 * whole + 2
  BY <1>1 DEF CoreInv, IInv, TypeOK, CycleInv
<1>3. n > 3 * whole + 1
  <2>1. Turn(3 * whole + 1) # Validator /\ Turn((3 * whole + 1) + 1) # Validator
    <3>1. (3 * whole + 1) + 1 = 3 * whole + 2
      BY <1>2
    <3> QED BY <1>2, <3>1, Turns DEF Explorer, Knowledge, Validator
  <2>2. n # 3 * whole /\ n # 3 * whole + 1
    BY <1>1, <2>1
  <2> HIDE DEF n, whole
  <2> QED BY <1>2, <2>2
<1>4. evidence = whole + 1 /\ knowledge_candidates = whole + 1
  <2>1. /\ evidence = IF n > 3 * whole THEN whole + 1 ELSE whole
        /\ knowledge_candidates = IF n > 3 * whole + 1 THEN whole + 1 ELSE whole
    BY <1>1 DEF CycleInv
  <2> HIDE DEF n, whole
  <2> QED BY <1>2, <1>3, <2>1
<1>5. /\ Len(result_docs) = whole
      /\ Len(evidence_docs) = whole + 1 /\ Len(candidate_docs) = whole + 1
  BY <1>4 DEF DemoInv, VerdictsInv, HandoffInv, CountsInv
<1>6. /\ DOMAIN evidence_docs = 1 .. Len(evidence_docs)
      /\ DOMAIN candidate_docs = 1 .. Len(candidate_docs)
      /\ DOMAIN result_docs = 1 .. Len(result_docs) /\ Len(result_docs) \in Nat
  BY DEF DemoInv, ShapeInv
<1> QED BY <1>5, <1>6

\* The one candidate without a verdict is the last, and so is its evidence.
LEMMA SelectedIsLast ==
  ASSUME DemoInv, CoreInv, HandoffInv, Running(Validator), Validator \notin foreign,
         ReadableToValidator, NEW pair \in Selected
  PROVE  /\ pair[1] = candidate_docs[Len(result_docs) + 1]
         /\ pair[2] = evidence_docs[Len(result_docs) + 1]
         /\ pair[1].source_evidence_id = pair[2].evidence_id
         /\ pair[1] \in Range(candidate_docs) /\ pair[2] \in Range(evidence_docs)
         /\ \A i \in DOMAIN result_docs : result_docs[i].candidate_id # pair[1].candidate_id
<1> DEFINE k == Len(result_docs)
<1>1. /\ pair[1] \in Range(candidate_docs) /\ pair[2] \in Range(evidence_docs)
      /\ pair[1].source_evidence_id = pair[2].evidence_id
      /\ \A v \in Range(result_docs) : v.candidate_id # pair[1].candidate_id
  BY DEF Selected, Unvalidated
<1>2. \A i \in DOMAIN result_docs : result_docs[i].candidate_id # pair[1].candidate_id
  BY <1>1 DEF Range
<1>3. PICK j \in 1 .. k + 1, m \in 1 .. k + 1 :
        pair[1] = candidate_docs[j] /\ pair[2] = evidence_docs[m]
  BY <1>1, ValidatorCounts DEF Range
<1>4. /\ k \in Nat /\ DOMAIN result_docs = 1 .. k
      /\ DOMAIN candidate_docs = 1 .. k + 1 /\ DOMAIN evidence_docs = 1 .. k + 1
  BY ValidatorCounts
<1>5. \A i \in 1 .. k :
        /\ candidate_docs[i].source_evidence_id = evidence_docs[i].evidence_id
        /\ result_docs[i].candidate_id = candidate_docs[i].candidate_id
  BY <1>4 DEF HandoffInv, OrderInv
<1>6. j = k + 1
  <2>1. j \notin 1 .. k
    BY <1>2, <1>3, <1>4, <1>5
  <2> HIDE DEF k
  <2> QED BY <1>4, <2>1
<1>7. \A a, b \in 1 .. k + 1 :
        candidate_docs[a].source_evidence_id = candidate_docs[b].source_evidence_id => a = b
  BY <1>4 DEF ReadableToValidator, CandidatesReadable, IsInjective
<1>8. m = k + 1
  <2>1. ASSUME m \in 1 .. k PROVE FALSE
    <3>1. candidate_docs[m].source_evidence_id = candidate_docs[j].source_evidence_id
      BY <2>1, <1>1, <1>3, <1>5
    <3>2. m = j
      BY <3>1, <1>7
    <3> HIDE DEF k
    <3> QED BY <3>2, <2>1, <1>4, <1>6
  <2> HIDE DEF k
  <2> QED BY <1>4, <2>1
<1> QED BY <1>1, <1>2, <1>3, <1>6, <1>8

\* With readable candidates an id names one candidate, and one evidence.
LEMMA IdsNameOne ==
  ASSUME EvidenceReadable, CandidatesReadable,
         NEW c \in Range(candidate_docs), NEW d \in Range(candidate_docs),
         NEW e \in Range(evidence_docs), NEW f \in Range(evidence_docs)
  PROVE  /\ c.candidate_id = d.candidate_id => c = d
         /\ e.evidence_id = f.evidence_id => e = f
<1>1. ASSUME c.candidate_id = d.candidate_id PROVE c = d
  <2>1. c.source_evidence_id = d.source_evidence_id
    BY <1>1 DEF CandidatesReadable, CandidateAccepted, CandidateCorrelated, CandidateId
  <2>2. PICK i \in DOMAIN candidate_docs, j \in DOMAIN candidate_docs :
          c = candidate_docs[i] /\ d = candidate_docs[j]
    BY DEF Range
  <2>3. i = j
    BY <2>1, <2>2 DEF CandidatesReadable, IsInjective
  <2> QED BY <2>2, <2>3
<1>2. ASSUME e.evidence_id = f.evidence_id PROVE e = f
  <2>1. PICK i \in DOMAIN evidence_docs, j \in DOMAIN evidence_docs :
          e = evidence_docs[i] /\ f = evidence_docs[j]
    BY DEF Range
  <2>2. i = j
    BY <1>2, <2>1 DEF EvidenceReadable, IsInjective
  <2> QED BY <2>1, <2>2
<1> QED BY <1>1, <1>2

\* The product Validator's verdict stands in its place and can be read again.
LEMMA VerdictReadable ==
  ASSUME DemoInv, CoreInv, HandoffInv, Running(Validator), Validator \notin foreign,
         ~ MappingErrorEscapes, ValidatorSelects, NEW pair \in Selected,
         ~ ValidationRefuses(pair[1], pair[2]),
         ValidatorAdds(BuildValidation(pair[1], pair[2], SampledAt)), UNCHANGED foreign
  PROVE  OrderInv' /\ PassedInv'
<1> DEFINE k == Len(result_docs)
           c == pair[1]
           ev == pair[2]
           v == BuildValidation(c, ev, SampledAt)
<1>1. /\ ReadableToValidator /\ EvidenceReadable /\ CandidatesReadable /\ ResultsReadable
      /\ UNCHANGED <<evidence_docs, candidate_docs>> /\ result_docs' = Append(result_docs, v)
  BY DEF ValidatorSelects, ReadableToValidator, ValidatorAdds
<1>2. /\ c = candidate_docs[k + 1] /\ ev = evidence_docs[k + 1]
      /\ c.source_evidence_id = ev.evidence_id
      /\ c \in Range(candidate_docs) /\ ev \in Range(evidence_docs)
      /\ \A i \in DOMAIN result_docs : result_docs[i].candidate_id # c.candidate_id
  BY <1>1, SelectedIsLast
<1>3. IsCandidate(c) /\ CandidateAccepted(c) /\ OfThisRun(c)
  BY <1>1, <1>2 DEF CandidatesReadable, DemoInv, ShapeInv
<1>4. /\ ResultAccepted(v) /\ OfThisRun(v) /\ v.validated_at = SampledAt
      /\ v.candidate_id = c.candidate_id /\ v.source_evidence_id = c.source_evidence_id
      /\ v.status = "passed" => v.verified_knowledge # {}
  BY <1>3, BuiltAccepted
<1>5. Mappable(ev.content)
  <2>1. ~ ValidationRaises(c, ev)
    BY <1>1 DEF MappingErrorEscapes
  <2> QED BY <2>1 DEF ValidationRaises
<1> HIDE DEF v
<1>6. /\ k \in Nat /\ DOMAIN result_docs = 1 .. k /\ Len(result_docs') = k + 1
      /\ DOMAIN result_docs' = 1 .. k + 1 /\ result_docs'[k + 1] = v
      /\ \A i \in 1 .. k : result_docs'[i] = result_docs[i]
      /\ k + 1 \in DOMAIN candidate_docs /\ k + 1 \in DOMAIN evidence_docs
      /\ \A i \in 1 .. k + 1 : i \in 1 .. k \/ i = k + 1
  <2>1. result_docs \in Seq(Range(result_docs)) /\ k \in Nat
    BY ValidatorCounts DEF DemoInv, ShapeInv
  <2>2. /\ Len(result_docs') = k + 1 /\ result_docs'[k + 1] = v
        /\ \A i \in DOMAIN result_docs : result_docs'[i] = result_docs[i]
        /\ result_docs' \in Seq(Range(result_docs'))
    BY <1>1, <2>1, AppendFacts
  <2>3. DOMAIN result_docs = 1 .. k /\ DOMAIN result_docs' = 1 .. k + 1
    BY <2>1, <2>2
  <2>4. k + 1 \in DOMAIN candidate_docs /\ k + 1 \in DOMAIN evidence_docs
    BY <2>1, ValidatorCounts
  <2>5. \A i \in 1 .. k + 1 : i \in 1 .. k \/ i = k + 1
    BY <2>1
  <2> QED BY <2>1, <2>2, <2>3, <2>4, <2>5
<1> HIDE DEF k
<1>7. OrderInv'
  <2>1. \A i \in 1 .. k :
          /\ i \in DOMAIN candidate_docs /\ i \in DOMAIN evidence_docs
          /\ candidate_docs[i].source_evidence_id = evidence_docs[i].evidence_id
          /\ result_docs[i].source_evidence_id = evidence_docs[i].evidence_id
          /\ result_docs[i].candidate_id = candidate_docs[i].candidate_id
    BY <1>6 DEF HandoffInv, OrderInv
  <2>2. /\ candidate_docs[k + 1].source_evidence_id = evidence_docs[k + 1].evidence_id
        /\ v.source_evidence_id = evidence_docs[k + 1].evidence_id
        /\ v.candidate_id = candidate_docs[k + 1].candidate_id
    BY <1>2, <1>4
  <2> QED BY <1>1, <1>6, <2>1, <2>2 DEF OrderInv
<1>8. EvidenceReadable' /\ CandidatesReadable'
  BY <1>1 DEF EvidenceReadable, CandidatesReadable, EvidenceWithId
<1>9. \A r : /\ ResultReferable(r) => ResultReferable(r)'
             /\ ResultConsistent(r) => ResultConsistent(r)'
             /\ ResultPairs(r)' = ResultPairs(r)
  BY <1>1 DEF ResultReferable, ResultConsistent, ResultReferences, ResultPairs,
     CandidateWithId, EvidenceWithId
<1>10. ResultReferable(v)'
  <2>1. ResultReferences(v)
    BY <1>2, <1>4 DEF ResultReferences, CandidateWithId
  <2> QED BY <1>4, <1>9, <2>1 DEF ResultReferable
<1>11. ResultConsistent(v)'
  <2> SUFFICES ResultConsistent(v)
    BY <1>9
  <2> SUFFICES ASSUME NEW other \in ResultPairs(v) PROVE other = <<c, ev>>
    BY <1>4, <1>5 DEF ResultConsistent, v
  <2>1. /\ other = <<other[1], other[2]>>
        /\ other[1] \in Range(candidate_docs) /\ other[1].candidate_id = c.candidate_id
        /\ other[2] \in Range(evidence_docs) /\ other[2].evidence_id = ev.evidence_id
    BY <1>2, <1>4 DEF ResultPairs, CandidateWithId, EvidenceWithId
  <2> QED BY <2>1, <1>1, <1>2, IdsNameOne
<1>12. ResultsReadable'
  <2>1. \A i \in 1 .. k :
          /\ ResultReferable(result_docs[i]) /\ ResultConsistent(result_docs[i])
          /\ \A j \in 1 .. k :
               result_docs[i].candidate_id = result_docs[j].candidate_id => i = j
    BY <1>1 DEF ResultsReadable, ResultsUpToReadable, IsInjective, k
  <2>2. PICK w : w = result_docs'
    OBVIOUS
  <2>3. \A i \in 1 .. k + 1 :
          \/ i \in 1 .. k /\ w[i] = result_docs[i]
          \/ i = k + 1 /\ w[i] = v
    BY <1>6, <2>2
  <2>4. ASSUME NEW i \in 1 .. k + 1
        PROVE  ResultReferable(w[i])' /\ ResultConsistent(w[i])'
    <3>1. \A r : ResultReferable(r) /\ ResultConsistent(r) =>
                   ResultReferable(r)' /\ ResultConsistent(r)'
      BY <1>9
    <3>2. CASE i \in 1 .. k /\ w[i] = result_docs[i]
      <4>1. PICK r : r = w[i]
        OBVIOUS
      <4>2. ResultReferable(r) /\ ResultConsistent(r)
        BY <2>1, <3>2, <4>1
      <4>3. ResultReferable(r)' /\ ResultConsistent(r)'
        BY <3>1, <4>2
      <4> QED BY <4>1, <4>3
    <3>3. CASE w[i] = v
      BY <1>10, <1>11, <3>3
    <3> QED BY <2>3, <3>2, <3>3
  <2>5. \A i, j \in 1 .. k + 1 : w[i].candidate_id = w[j].candidate_id => i = j
    <3>1. \A a \in 1 .. k : result_docs[a].candidate_id # v.candidate_id
      BY <1>2, <1>4, <1>6
    <3> HIDE DEF c
    <3> QED BY <2>1, <2>3, <3>1
  <2>6. IsInjective([i \in 1 .. k + 1 |-> w[i].candidate_id])
    BY <2>5 DEF IsInjective
  <2> QED BY <1>6, <2>2, <2>4, <2>6 DEF ResultsReadable, ResultsUpToReadable
<1>13. PassedInv'
  <2>1. ASSUME ValidationPassed(validation_results)' PROVE v.status = "passed"
    <3>1. PICK p \in SuccessPatches(Validator) :
            p.validation_results = <<v.status>> /\ FinishAgent(p)
      BY DEF ValidatorAdds, v
    <3>2. validation_results' = Append(validation_results, v.status)
      BY <3>1 DEF FinishAgent, DemoInv, ShapeInv
    <3>3. validation_results'[Len(validation_results')] = v.status
      BY <3>2 DEF DemoInv, ShapeInv
    <3> QED BY <2>1, <3>3 DEF ValidationPassed, LatestResult
  <2> QED BY <1>4, <1>6, <1>8, <1>12, <2>1 DEF PassedInv
<1> QED BY <1>7, <1>13


\* What the agents' patches add to the counts of the core.
LEMMA PatchCounts ==
  /\ \A p \in SuccessPatches(Explorer) : p.evidence = 1 /\ p.knowledge_candidates = 0
  /\ \A p \in SuccessPatches(Knowledge) : p.evidence = 0 /\ p.knowledge_candidates = 1
  /\ \A p \in SuccessPatches(Validator) : p.evidence = 0 /\ p.knowledge_candidates = 0
  /\ \A role : /\ FailurePatch(role).evidence = 0
               /\ FailurePatch(role).knowledge_candidates = 0
               /\ FailurePatch(role).validation_results = <<>>
<1> DEFINE done(role) == [EmptyPatch EXCEPT !.step_history = <<Entry(role, "completed")>>]
<1>1. /\ SuccessPatches(Explorer) = {[done(Explorer) EXCEPT !.evidence = 1]}
      /\ SuccessPatches(Knowledge) = {[done(Knowledge) EXCEPT !.knowledge_candidates = 1]}
      /\ SuccessPatches(Validator) =
           {[done(Validator) EXCEPT !.validation_results = <<v>>] : v \in {"passed", "failed"}}
  BY DEF SuccessPatches, Explorer, Knowledge, Validator
<1>2. \A role, v :
        /\ [done(role) EXCEPT !.evidence = 1].evidence = 1
        /\ [done(role) EXCEPT !.evidence = 1].knowledge_candidates = 0
        /\ [done(role) EXCEPT !.knowledge_candidates = 1].evidence = 0
        /\ [done(role) EXCEPT !.knowledge_candidates = 1].knowledge_candidates = 1
        /\ [done(role) EXCEPT !.validation_results = <<v>>].evidence = 0
        /\ [done(role) EXCEPT !.validation_results = <<v>>].knowledge_candidates = 0
  BY DEF EmptyPatch
<1>3. \A role : /\ FailurePatch(role).evidence = 0
                /\ FailurePatch(role).knowledge_candidates = 0
                /\ FailurePatch(role).validation_results = <<>>
  BY DEF FailurePatch, EmptyPatch
<1>4. \A p \in SuccessPatches(Explorer) : p.evidence = 1 /\ p.knowledge_candidates = 0
  BY <1>1, <1>2
<1>5. \A p \in SuccessPatches(Knowledge) : p.evidence = 0 /\ p.knowledge_candidates = 1
  BY <1>1, <1>2
<1>6. ASSUME NEW p \in SuccessPatches(Validator)
      PROVE  p.evidence = 0 /\ p.knowledge_candidates = 0
  <2>1. PICK v : p = [done(Validator) EXCEPT !.validation_results = <<v>>]
    BY <1>1
  <2> QED BY <1>2, <2>1
<1> QED BY <1>3, <1>4, <1>5, <1>6

\* Steps that add no document and no artifact.
LEMMA HandoffFrame ==
  ASSUME HandoffInv, CompletedInv',
         UNCHANGED <<documents, validation_results, evidence, knowledge_candidates, foreign>>
  PROVE  HandoffInv'
<1> USE DEF HandoffInv, documents
<1>1. CountsInv' /\ OrderInv'
  BY DEF CountsInv, OrderInv
<1>2. \A r : /\ ResultReferable(r)' <=> ResultReferable(r)
             /\ ResultConsistent(r)' <=> ResultConsistent(r)
  BY DEF ResultReferable, ResultConsistent, ResultReferences, ResultPairs, CandidateWithId,
     EvidenceWithId
<1>3. EvidenceReadable' = EvidenceReadable /\ CandidatesReadable' = CandidatesReadable
  BY DEF EvidenceReadable, CandidatesReadable, EvidenceWithId
<1>4. ResultsReadable => ResultsReadable'
  BY <1>2 DEF ResultsReadable, ResultsUpToReadable
<1>5. PassedInv'
  BY <1>3, <1>4 DEF PassedInv, ValidationPassed, LatestResult
<1> QED BY <1>1, <1>5

\* An agent runs while nothing has passed and nothing has ended.
LEMMA AgentUnpassed ==
  ASSUME DemoInv, CoreInv, node = "agent"
  PROVE  ~ ValidationPassed(validation_results) /\ status # "completed"
BY DEF CoreInv, ConventionInv, CycleInv, DemoInv, SettledInv, Terminal

\* An artifact that is not a verdict adds one document, and nothing has passed.
LEMMA ArtifactCounted ==
  ASSUME DemoInv, CoreInv, HandoffInv, node = "agent", UNCHANGED <<foreign, result_docs>>,
         NEW p, FinishAgent(p), p.validation_results = <<>>,
         NEW ev, NEW c,
         \/ /\ p.evidence = 1 /\ p.knowledge_candidates = 0
            /\ evidence_docs' = Append(evidence_docs, ev) /\ UNCHANGED candidate_docs
         \/ /\ p.evidence = 0 /\ p.knowledge_candidates = 1
            /\ candidate_docs' = Append(candidate_docs, c) /\ UNCHANGED evidence_docs
  PROVE  HandoffInv'
<1>1. /\ validation_results' = validation_results /\ UNCHANGED status
      /\ evidence' = evidence + p.evidence
      /\ knowledge_candidates' = knowledge_candidates + p.knowledge_candidates
      /\ evidence \in Nat /\ knowledge_candidates \in Nat
  BY DEF FinishAgent, DemoInv, ShapeInv, CoreInv, IInv, TypeOK
<1>2. /\ evidence_docs \in Seq(Range(evidence_docs))
      /\ candidate_docs \in Seq(Range(candidate_docs))
  BY DEF DemoInv, ShapeInv
<1>3. CountsInv'
  BY <1>1, <1>2, AppendFacts DEF HandoffInv, CountsInv
<1>4. /\ \A i \in DOMAIN evidence_docs :
           i \in DOMAIN evidence_docs' /\ evidence_docs'[i] = evidence_docs[i]
      /\ \A i \in DOMAIN candidate_docs :
           i \in DOMAIN candidate_docs' /\ candidate_docs'[i] = candidate_docs[i]
  <2>1. \A s, x : s \in Seq(Range(s)) =>
          \A i \in DOMAIN s : i \in DOMAIN Append(s, x) /\ Append(s, x)[i] = s[i]
    BY AppendFacts
  <2>2. CASE /\ evidence_docs' = Append(evidence_docs, ev)
             /\ UNCHANGED candidate_docs
    BY <1>2, <2>1, <2>2
  <2>3. CASE /\ candidate_docs' = Append(candidate_docs, c)
             /\ UNCHANGED evidence_docs
    BY <1>2, <2>1, <2>3
  <2> QED BY <2>2, <2>3
<1>5. OrderInv'
  BY <1>4 DEF HandoffInv, OrderInv
<1>6. PassedInv' /\ CompletedInv'
  BY <1>1, AgentUnpassed DEF PassedInv, CompletedInv, ValidationPassed, LatestResult
<1> QED BY <1>3, <1>5, <1>6 DEF HandoffInv

LEMMA FailureCounted ==
  ASSUME DemoInv, CoreInv, HandoffInv, NEW role, Running(role), Fails(role), UNCHANGED foreign
  PROVE  HandoffInv'
<1>1. /\ UNCHANGED <<documents, status>>
      /\ evidence' = evidence + 0 /\ knowledge_candidates' = knowledge_candidates + 0
      /\ validation_results' = validation_results \o <<>>
  BY PatchCounts DEF Fails, FinishAgent
<1>2. UNCHANGED <<evidence, knowledge_candidates, validation_results>>
  BY <1>1 DEF DemoInv, ShapeInv, CoreInv, IInv, TypeOK
<1>3. CompletedInv'
  BY <1>1, AgentUnpassed DEF Running, CompletedInv
<1> QED BY <1>1, <1>2, <1>3, HandoffFrame

\* A verdict changes neither count.
LEMMA VerdictCounted ==
  ASSUME DemoInv, CoreInv, HandoffInv, Running(Validator), NEW v, ValidatorAdds(v)
  PROVE  CountsInv' /\ CompletedInv'
<1>1. PICK p \in SuccessPatches(Validator) : FinishAgent(p)
  BY DEF ValidatorAdds
<1>2. /\ UNCHANGED <<status, evidence_docs, candidate_docs>>
      /\ evidence' = evidence + 0 /\ knowledge_candidates' = knowledge_candidates + 0
  BY <1>1, PatchCounts DEF FinishAgent, ValidatorAdds
<1>3. UNCHANGED <<evidence, knowledge_candidates>>
  BY <1>2 DEF CoreInv, IInv, TypeOK
<1> QED BY <1>2, <1>3, AgentUnpassed DEF Running, HandoffInv, CountsInv, CompletedInv


LEMMA GraphHandoff ==
  ASSUME HandoffInv, GraphStep, UNCHANGED <<documents, foreign>>
  PROVE  HandoffInv'
<1>1. UNCHANGED <<validation_results, evidence, knowledge_candidates, errors>>
  BY DEF GraphStep, SuperviseTerminal, SuperviseFail, SuperviseReject, SuperviseComplete,
         SuperviseLimit, SuperviseRoute, StartAgent, RecursionLimit, Finish, Raise, domain,
         artifacts
<1>2. CompletedInv'
  <2> USE <1>1 DEF CompletedInv, ValidationPassed, LatestResult
  <2>1. CASE SuperviseComplete
    BY <2>1 DEF SuperviseComplete, Finish
  <2>2. CASE SuperviseFail \/ SuperviseLimit \/ SuperviseRoute
    BY <2>2 DEF SuperviseFail, SuperviseLimit, SuperviseRoute, Finish
  <2>3. CASE SuperviseTerminal \/ SuperviseReject \/ RecursionLimit \/ StartAgent
    BY <2>3 DEF SuperviseTerminal, SuperviseReject, RecursionLimit, StartAgent, Raise, domain,
       HandoffInv
  <2> QED BY <2>1, <2>2, <2>3 DEF GraphStep
<1> QED BY <1>1, <1>2, HandoffFrame

LEMMA AgentHandoff ==
  ASSUME DemoInv, CoreInv, HandoffInv, AgentStep, UNCHANGED foreign PROVE HandoffInv'
<1>1. ASSUME Running(Explorer), NEW ev, ExplorerAdds(ev) PROVE HandoffInv'
  <2>1. PICK p \in SuccessPatches(Explorer) : FinishAgent(p)
    BY <1>1 DEF ExplorerAdds
  <2>2. p.validation_results = <<>> /\ p.evidence = 1 /\ p.knowledge_candidates = 0
    BY <2>1, ArtifactPatches, PatchCounts
  <2> QED BY <1>1, <2>1, <2>2, ArtifactCounted DEF ExplorerAdds, Running
<1>2. ASSUME Running(Knowledge), NEW c, KnowledgeAdds(c) PROVE HandoffInv'
  <2>1. PICK p \in SuccessPatches(Knowledge) : FinishAgent(p)
    BY <1>2 DEF KnowledgeAdds
  <2>2. p.validation_results = <<>> /\ p.evidence = 0 /\ p.knowledge_candidates = 1
    BY <2>1, ArtifactPatches, PatchCounts
  <2> QED BY <1>2, <2>1, <2>2, ArtifactCounted DEF KnowledgeAdds, Running
<1>3. CASE Explore \/ ForeignExplore
  BY <1>1, <1>3, FailureCounted DEF Explore, ForeignExplore
<1>4. CASE Learn \/ ForeignLearn
  BY <1>2, <1>4, FailureCounted DEF Learn, ForeignLearn, KnowledgeFails
<1>5. CASE Validate
  <2>1. CASE Fails(Validator)
    BY <1>5, <2>1, FailureCounted DEF Validate
  <2>2. CASE ValidatorSelects /\ (\A pair \in Selected : ~ ValidationRefuses(pair[1], pair[2]))
               /\ (\E pair \in Selected :
                     ValidatorAdds(BuildValidation(pair[1], pair[2], SampledAt)))
    <3>1. OrderInv' /\ PassedInv'
      BY <1>5, <2>2, VerdictReadable DEF Validate
    <3>2. CountsInv' /\ CompletedInv'
      BY <1>5, <2>2, VerdictCounted DEF Validate
    <3> QED BY <3>1, <3>2 DEF HandoffInv
  <2> QED BY <1>5, <2>1, <2>2 DEF Validate
<1>6. CASE ForeignValidate
  BY <1>6, VerdictCounted DEF ForeignValidate, HandoffInv, OrderInv, PassedInv
<1>7. CASE ValidatorRaises
  <2>1. UNCHANGED <<documents, domain>>
    BY <1>7 DEF ValidatorRaises, Raise
  <2>2. CompletedInv'
    BY <2>1 DEF domain, HandoffInv, CompletedInv, ValidationPassed, LatestResult
  <2> QED BY <2>1, <2>2, HandoffFrame DEF domain
<1> QED BY <1>3, <1>4, <1>5, <1>6, <1>7 DEF AgentStep

LEMMA HandoffKept ==
  DemoInv /\ CoreInv /\ HandoffInv /\ [CommandNext]_command_vars => HandoffInv'
<1> SUFFICES ASSUME DemoInv, CoreInv, HandoffInv, [CommandNext]_command_vars PROVE HandoffInv'
  OBVIOUS
<1>1. CASE DemoStep
  BY <1>1, AgentHandoff, GraphHandoff DEF DemoStep
<1>2. CASE UNCHANGED demo_vars
  <2>1. UNCHANGED <<documents, domain, foreign>>
    BY <1>2 DEF demo_vars, vars
  <2>2. CompletedInv'
    BY <2>1 DEF domain, HandoffInv, CompletedInv, ValidationPassed, LatestResult
  <2> QED BY <2>1, <2>2, HandoffFrame DEF domain
<1> QED BY <1>1, <1>2 DEF CommandNext, OwnStep, Work, EndOfRun, Generate, OtherStep, command_vars

LEMMA InitHandoffInv == DemoInit => HandoffInv
<1> SUFFICES ASSUME DemoInit PROVE HandoffInv
  OBVIOUS
<1>1. Len(<<>>) = 0 /\ DOMAIN <<>> = {}
  OBVIOUS
<1> QED BY <1>1 DEF DemoInit, Init, HandoffInv, CountsInv, OrderInv, PassedInv, CompletedInv,
        ValidationPassed

\* In a completed run there are as many documents of each kind, in order.
LEMMA CompletedInOrder ==
  ASSUME DemoInv, CoreInv, HandoffInv, status = "completed", Validator \notin foreign
  PROVE  InOrder /\ result_docs # <<>>
<1>1. ValidationPassed(validation_results) /\ CycleInv
  BY DEF HandoffInv, CompletedInv, CoreInv, ConventionInv
<1> DEFINE n == Len(step_history)
           whole == Len(validation_results)
<1>2. whole \in Nat /\ n = 3 * whole
  BY <1>1 DEF CycleInv, DemoInv, ShapeInv
<1>3. evidence = whole /\ knowledge_candidates = whole
  <2>1. /\ evidence = IF n > 3 * whole THEN whole + 1 ELSE whole
        /\ knowledge_candidates = IF n > 3 * whole + 1 THEN whole + 1 ELSE whole
    BY <1>1 DEF CycleInv
  <2> HIDE DEF n, whole
  <2> QED BY <1>2, <2>1
<1>4. /\ Len(evidence_docs) = whole /\ Len(candidate_docs) = whole /\ Len(result_docs) = whole
      /\ validation_results # <<>>
  BY <1>1, <1>3 DEF HandoffInv, CountsInv, DemoInv, VerdictsInv, ValidationPassed
<1>5. /\ DOMAIN evidence_docs = 1 .. whole /\ DOMAIN candidate_docs = 1 .. whole
      /\ DOMAIN result_docs = 1 .. whole
  BY <1>4 DEF DemoInv, ShapeInv
<1>6. \A i \in 1 .. whole :
        /\ candidate_docs[i].source_evidence_id = evidence_docs[i].evidence_id
        /\ result_docs[i].source_evidence_id = evidence_docs[i].evidence_id
        /\ result_docs[i].candidate_id = candidate_docs[i].candidate_id
  BY <1>5 DEF HandoffInv, OrderInv
<1>7. InOrder
  BY <1>5, <1>6 DEF InOrder
<1>8. result_docs # <<>>
  BY <1>4 DEF DemoInv, ShapeInv
<1> QED BY <1>7, <1>8

LEMMA InvAccepts == DemoInv /\ CoreInv /\ HandoffInv => HandoffAccepts
<1> SUFFICES ASSUME DemoInv, CoreInv, HandoffInv, Completed, Validator \notin foreign
             PROVE  Extracted # {}
  BY DEF HandoffAccepts
<1>1. /\ status = "completed" /\ termination_reason = "goal_completed" /\ errors = 0
      /\ ValidationPassed(validation_results)
  BY DEF Completed, HandoffInv, CompletedInv
<1>2. /\ EvidenceReadable /\ CandidatesReadable /\ ResultsReadable
      /\ result_docs[Len(result_docs)].verified_knowledge # {}
  BY <1>1 DEF HandoffInv, PassedInv
<1>3. InOrder /\ result_docs # <<>>
  BY <1>1, CompletedInOrder
<1>4. VerdictsAccepted
  <2>1. Len(result_docs) \in DOMAIN result_docs /\ Len(result_docs) = Len(validation_results)
    BY <1>3 DEF DemoInv, ShapeInv, VerdictsInv
  <2>2. validation_results[Len(validation_results)] = "passed"
    BY <1>1 DEF ValidationPassed, LatestResult
  <2> QED BY <2>1, <2>2 DEF VerdictsAccepted, DemoInv, VerdictsInv
<1> QED BY <1>1, <1>2, <1>3, <1>4 DEF HandoffAccepted, Extracted, Completed

\* HandoffAccepts: a completed run whose verdicts are the product Validator's
\* is never refused by the handoff, whatever the other agents appended: their
\* artifacts keep the convention, so the counts match, and what the handoff
\* checks again the Validator has checked before it passed the last candidate.
THEOREM CompletedIsHandedOver ==
  ASSUME Patches = HonestPatches PROVE CommandSpec => []HandoffAccepts
<1>1. CommandInit => HandoffInv
  BY InitHandoffInv DEF CommandInit
<1> QED BY <1>1, HandoffKept, InvAccepts, DemoInvariant, CoreInvariant, PTL DEF CommandSpec


-----------------------------------------------------------------------------
(* The run and the files of one command *)

\* What the handoff gives out depends on the run alone.
LEMMA ExtractedStays == UNCHANGED demo_vars => UNCHANGED <<Extracted, Completed>>
<1> SUFFICES ASSUME UNCHANGED demo_vars PROVE UNCHANGED <<Extracted, Completed>>
  OBVIOUS
<1> USE DEF demo_vars, vars, documents, domain, artifacts
<1>1. \A r : /\ ResultReferable(r)' <=> ResultReferable(r)
             /\ ResultConsistent(r)' <=> ResultConsistent(r)
  BY DEF ResultReferable, ResultConsistent, ResultReferences, ResultPairs, CandidateWithId,
     EvidenceWithId
<1>2. EvidenceReadable' = EvidenceReadable /\ CandidatesReadable' = CandidatesReadable
  BY DEF EvidenceReadable, CandidatesReadable, EvidenceWithId
<1>3. ResultsReadable' = ResultsReadable
  BY <1>1 DEF ResultsReadable, ResultsUpToReadable
<1>4. InOrder' = InOrder /\ VerdictsAccepted' = VerdictsAccepted /\ Completed' = Completed
  BY DEF InOrder, VerdictsAccepted, Completed
<1>5. HandoffAccepted' = HandoffAccepted
  BY <1>2, <1>3, <1>4 DEF HandoffAccepted
<1> QED BY <1>4, <1>5 DEF Extracted

\* The files see nothing of another command but its own steps.
LEMMA OthersStageStep ==
  ASSUME FilesInv, StageInv, OtherStep PROVE StageInv'
<1>1. PICK c \in Commands \ {Own} : CommandStep(c) /\ UNCHANGED demo_vars
  BY DEF OtherStep
<1>2. stage'[Own] = stage[Own]
  BY <1>1, OwnAssumption
     DEF CommandStep, WriteStep, HandOver, Refuse, Escape, Ungenerable, OpenTests,
         OpenKnowledge, StoreKnowledge, GenerateTests, OpenFails, WriteFails, Kill, Move,
         FilesInv, FilesTypeOK
<1>3. \A f \in File : <<Own, f>> \in opened' => <<Own, f>> \in opened
  BY <1>1
     DEF CommandStep, WriteStep, HandOver, Refuse, Escape, Ungenerable, OpenTests,
         OpenKnowledge, StoreKnowledge, GenerateTests, OpenFails, WriteFails, Kill, Close,
         Truncate
<1>4. node' = node /\ outcome' = outcome /\ Extracted' = Extracted
  BY <1>1, ExtractedStays DEF demo_vars, vars
<1> QED BY <1>2, <1>3, <1>4 DEF StageInv

LEMMA StageStep == FilesInv /\ StageInv /\ [CommandNext]_command_vars => StageInv'
<1> SUFFICES ASSUME FilesInv, StageInv, [CommandNext]_command_vars PROVE StageInv'
  OBVIOUS
<1>1. /\ stage \in [Commands -> Stage] /\ Own \in Commands
      /\ stage[Own] \in {"running", "extracted"} => \A f \in File : <<Own, f>> \notin opened
  BY OwnAssumption DEF FilesInv, FilesTypeOK, OpenedInv
<1> USE DEF Inside
<1>2. CASE Work
  BY <1>1, <1>2 DEF Work, StageInv, file_vars
<1> SUFFICES ASSUME UNCHANGED demo_vars PROVE StageInv'
  BY <1>2, OthersStageStep
     DEF CommandNext, OwnStep, EndOfRun, Generate, OtherStep, command_vars
<1>3. node' = node /\ outcome' = outcome /\ Extracted' = Extracted
  BY ExtractedStays DEF demo_vars, vars
<1>4. CASE EndOfRun
  BY <1>1, <1>3, <1>4 DEF EndOfRun, HandOver, Refuse, Escape, Move, StageInv
<1>5. CASE Generate
  <2>1. CASE (\A k \in Extracted : Generable(k.content)) /\ OpenTests(Own)
    BY <1>1, <1>3, <2>1 DEF OpenTests, Truncate, Move, StageInv
  <2>2. CASE Ungenerable(Own)
    BY <1>1, <1>3, <2>2 DEF Ungenerable, Move, StageInv
  <2> QED BY <1>5, <2>1, <2>2 DEF Generate
<1>6. CASE OpenKnowledge(Own)
  BY <1>1, <1>3, <1>6 DEF OpenKnowledge, Truncate, Move, StageInv
<1>7. CASE StoreKnowledge(Own) \/ GenerateTests(Own)
  BY <1>1, <1>3, <1>7 DEF StoreKnowledge, GenerateTests, Close, Move, StageInv
<1>8. CASE OpenFails(Own) \/ WriteFails(Own)
  BY <1>1, <1>3, <1>8 DEF OpenFails, WriteFails, Move, StageInv
<1>9. CASE Kill(Own)
  BY <1>1, <1>3, <1>9 DEF Kill, StageInv
<1>10. CASE OtherStep
  BY <1>10, OthersStageStep
<1>11. CASE UNCHANGED command_vars
  BY <1>3, <1>11 DEF command_vars, file_vars, StageInv
<1> QED
  BY <1>2, <1>4, <1>5, <1>6, <1>7, <1>8, <1>9, <1>10, <1>11
     DEF CommandNext, OwnStep, WriteStep

LEMMA CommandStageInv == CommandSpec => [](FilesInv /\ StageInv)
<1>1. CommandInit => StageInv
  BY OwnAssumption DEF CommandInit, FilesInit, StageInv, Inside
<1>2. CommandSpec => []FilesInv
  BY CommandsKeepToFiles, FilesInvariant, PTL
<1> QED BY <1>1, <1>2, StageStep, PTL DEF CommandSpec

\* FilesOfAcceptedRun: whoever the agents are, and whatever other commands,
\* write errors and kills do, the command's own text is in a file only after
\* its run completed and the handoff accepted it; with HandoffIsSound that text
\* is what the last capture of the run showed.
THEOREM FilesAreOfAcceptedRun == CommandSpec => []FilesOfAcceptedRun
<1>1. FilesInv /\ StageInv => FilesOfAcceptedRun
  <2> SUFFICES ASSUME FilesInv, StageInv, NEW f \in File, files[f].content = Own
               PROVE  /\ Completed /\ Extracted # {}
                      /\ f = "tests" => \A k \in Extracted : Generable(k.content)
    BY DEF FilesOfAcceptedRun
  <2>1. <<Own, f>> \in opened
    BY OwnAssumption DEF FilesInv, OpenedInv
  <2>2. Extracted # {} /\ (f = "tests" => \A k \in Extracted : Generable(k.content))
    BY <2>1 DEF StageInv
  <2> QED BY <2>2 DEF Extracted, HandoffAccepted
<1> QED BY <1>1, CommandStageInv, PTL

\* CompletedIsNeverRefused: the command refuses nothing that its own Validator
\* let the run complete with.
THEOREM RefusedDidNotComplete ==
  ASSUME Patches = HonestPatches PROVE CommandSpec => []CompletedIsNeverRefused
<1>1. StageInv /\ HandoffAccepts => CompletedIsNeverRefused
  BY DEF StageInv, HandoffAccepts, CompletedIsNeverRefused, Completed
<1> QED BY <1>1, CommandStageInv, CompletedIsHandedOver, PTL

-----------------------------------------------------------------------------
(* A command with the product agents ends by a decision of its supervisor. *)

\* Only the graph ends a run of the product agents.
LEMMA OnlyGraphEnds ==
  ASSUME DemoInv, foreign = {}, DemoStep, node' = "end"
  PROVE  GraphStep
<1>1. \A p : FinishAgent(p) => node' = "supervisor"
  BY DEF FinishAgent
<1>2. ~ Explore /\ ~ Learn /\ ~ Validate
  BY <1>1 DEF Explore, ExplorerAdds, Learn, KnowledgeAdds, KnowledgeFails, Validate,
     ValidatorAdds, Fails
<1>3. ~ ValidatorRaises /\ ~ ForeignExplore /\ ~ ForeignLearn /\ ~ ForeignValidate
  BY NoErrorEscapes DEF ValidatorRaises, ForeignExplore, ForeignLearn, ForeignValidate
<1> QED BY <1>2, <1>3 DEF DemoStep, AgentStep

\* With the product agents and enough supersteps for the cycles the limit
\* allows, no exception leaves the workflow: whatever the browser shows or a
\* pack answers, the command ends with a decision of the supervisor.
THEOREM ProductCommandsDecide ==
  ASSUME Patches = HonestPatches, EnoughSupersteps
  PROVE  CommandSpec /\ foreign = {} => [](RunEndsDecided /\ stage[Own] # "raised")
<1> DEFINE Returned == node = "end" => outcome = "returned"
<1>1. CommandInit => Returned
  BY DEF CommandInit, DemoInit, Init
<1>2. /\ DemoInv /\ foreign = {} /\ Returned /\ (IInv /\ ConventionInv /\ SuperstepInv)
      /\ (IInv /\ ConventionInv /\ SuperstepInv)'
      /\ [CommandNext]_command_vars
      => Returned'
  <2> SUFFICES ASSUME DemoInv, foreign = {}, Returned, IInv, ConventionInv, SuperstepInv',
                      [CommandNext]_command_vars, node' = "end"
               PROVE  outcome' = "returned"
    OBVIOUS
  <2>1. CASE DemoStep
    <3>1. GraphStep
      BY <2>1, OnlyGraphEnds
    <3>2. CASE SuperviseTerminal \/ SuperviseFail \/ SuperviseComplete \/ SuperviseLimit
      BY <3>2 DEF SuperviseTerminal, SuperviseFail, SuperviseComplete, SuperviseLimit,
         Finish, Return
    <3>3. CASE SuperviseReject
      BY <3>3, ConventionPolicy DEF SuperviseReject, Supervise, IInv, ConventionInv
    <3>4. CASE RecursionLimit
      BY <3>4 DEF RecursionLimit, Raise, SuperstepInv, FinalCycleMayFinish
    <3>5. CASE SuperviseRoute \/ StartAgent
      BY <3>5 DEF SuperviseRoute, StartAgent
    <3> QED BY <3>1, <3>2, <3>3, <3>4, <3>5 DEF GraphStep
  <2>2. CASE UNCHANGED demo_vars
    BY <2>2 DEF demo_vars, vars
  <2> QED
    BY <2>1, <2>2 DEF CommandNext, OwnStep, Work, EndOfRun, Generate, OtherStep, command_vars
<1>3. SuperstepInv /\ Returned /\ StageInv => RunEndsDecided /\ stage[Own] # "raised"
  BY DEF SuperstepInv, RunEndsDecided, StageInv
<1>4. foreign = {} /\ [CommandNext]_command_vars => (foreign = {})'
  BY DEF CommandNext, OwnStep, Work, EndOfRun, Generate, OtherStep, DemoStep,
     command_vars, demo_vars
<1> QED
  BY <1>1, <1>2, <1>3, <1>4, ProductCommandsAccepted, SpecSuperstepInv, DemoInvariant,
     CommandStageInv, PTL DEF CommandSpec

-----------------------------------------------------------------------------
(* A command comes to its end. *)

\* Every step of the workflow uses up a superstep, ends an agent's call or ends
\* the run, whoever the agents are.
LEMMA WorkflowRunsDown ==
  ASSUME IInv, steps <= Supersteps, node # "end", DemoStep, StageLeft' = StageLeft
  PROVE  /\ steps' <= Supersteps
         /\ CommandLeft' < CommandLeft /\ CommandLeft' <= CommandLeft
<1>1. steps \in Nat /\ Supersteps \in Nat
  BY WorkflowAssumption DEF IInv, TypeOK
<1>2. WorkLeft \in Nat \ {0}
  BY <1>1 DEF WorkLeft
<1>3. \/ node = "supervisor" /\ node' = "execute" /\ steps' = steps + 1 /\ steps < Supersteps
      \/ node = "execute" /\ node' = "agent" /\ steps' = steps + 1 /\ steps < Supersteps
      \/ node = "agent" /\ node' = "supervisor" /\ steps' = steps
      \/ node' = "end" /\ (steps' = steps \/ (steps < Supersteps /\ steps' = steps + 1))
  <2>1. CASE GraphStep
    BY <2>1 DEF GraphStep, SuperviseTerminal, SuperviseFail, SuperviseReject,
       SuperviseComplete, SuperviseLimit, SuperviseRoute, Supervise, StartSuperstep,
       StartAgent, RecursionLimit, Return, Finish, Raise
  <2>2. CASE AgentStep
    <3>1. \A p : FinishAgent(p) => node' = "supervisor" /\ steps' = steps
      BY DEF FinishAgent
    <3>2. node = "agent"
      BY <2>2 DEF AgentStep, Explore, Learn, Validate, ValidatorRaises, ForeignExplore,
         ForeignLearn, ForeignValidate, Running
    <3>3. CASE ValidatorRaises
      BY <3>3 DEF ValidatorRaises, Raise
    <3>4. CASE ~ ValidatorRaises
      BY <2>2, <3>1, <3>2, <3>4 DEF AgentStep, Explore, ExplorerAdds, Learn, KnowledgeAdds,
         KnowledgeFails, Validate, ValidatorAdds, Fails, ForeignExplore, ForeignLearn,
         ForeignValidate
    <3> QED BY <3>3, <3>4
  <2> QED BY <2>1, <2>2 DEF DemoStep
<1>4. WorkLeft' \in Nat /\ WorkLeft' < WorkLeft /\ steps' <= Supersteps
  BY <1>1, <1>2, <1>3 DEF WorkLeft
<1>5. StageLeft \in Nat
  BY DEF StageLeft
<1>6. CommandLeft' = WorkLeft' + StageLeft /\ CommandLeft = WorkLeft + StageLeft
  BY DEF CommandLeft
<1>7. \A a, b, c \in Nat : a < b => a + c < b + c /\ a + c <= b + c
  OBVIOUS
<1> QED BY <1>2, <1>4, <1>5, <1>6, <1>7

\* Outside its workflow a command only goes on to a later stage.
LEMMA StageRunsDown ==
  ASSUME FilesInv, UNCHANGED demo_vars
  PROVE  /\ OwnStep /\ ~ Work => StageLeft' < StageLeft
         /\ [CommandNext]_command_vars => StageLeft' <= StageLeft
         /\ StageLeft \in Nat /\ StageLeft' \in Nat
<1>1. stage \in [Commands -> Stage] /\ Own \in Commands
  BY OwnAssumption DEF FilesInv, FilesTypeOK
<1>2. StageLeft \in Nat /\ StageLeft' \in Nat
  BY DEF StageLeft
<1>3. OwnStep /\ ~ Work => StageLeft' < StageLeft
  BY <1>1
     DEF OwnStep, EndOfRun, HandOver, Refuse, Escape, Generate, OpenTests, Ungenerable,
         WriteStep, OpenKnowledge, StoreKnowledge, GenerateTests, OpenFails, WriteFails, Move,
         StageLeft
<1>4. Kill(Own) => StageLeft' <= StageLeft
  BY <1>1 DEF Kill, StageLeft
<1>5. OtherStep => StageLeft' = StageLeft
  <2> SUFFICES ASSUME NEW c \in Commands \ {Own}, CommandStep(c) PROVE stage'[Own] = stage[Own]
    BY DEF OtherStep, StageLeft
  <2> QED
    BY <1>1
       DEF CommandStep, WriteStep, HandOver, Refuse, Escape, Ungenerable, OpenTests,
           OpenKnowledge, StoreKnowledge, GenerateTests, OpenFails, WriteFails, Kill, Move
<1>6. Work \/ UNCHANGED command_vars => StageLeft' = StageLeft
  BY DEF Work, command_vars, file_vars, StageLeft
<1> QED BY <1>2, <1>3, <1>4, <1>5, <1>6 DEF CommandNext

\* CommandLeft is a natural number, every step of the command takes from it and
\* nothing else adds to it: whatever the agents, the browser, a pack, the other
\* commands, the writes and the limits are, a command takes finitely many steps.
THEOREM CommandsEnd ==
  ASSUME Patches = HonestPatches
  PROVE  CommandSpec => [](CommandLeft \in Nat) /\ CommandRunsDown
<1> DEFINE Bounded == steps <= Supersteps
           Inv == IInv /\ Bounded /\ FilesInv
<1>1. CommandInit => Bounded
  BY WorkflowAssumption DEF CommandInit, DemoInit, Init
<1>2. Inv => WorkLeft \in Nat /\ StageLeft \in Nat
  BY WorkflowAssumption, SMTT(30) DEF IInv, TypeOK, WorkLeft, StageLeft
<1>3. ASSUME Inv, IInv', [CommandNext]_command_vars
      PROVE  /\ Bounded' /\ CommandLeft' <= CommandLeft
             /\ OwnStep => CommandLeft' < CommandLeft
  <2>1. CASE Work
    <3>1. node # "end"
      BY <2>1 DEF Work, DemoStep, GraphStep, AgentStep, SuperviseTerminal, SuperviseFail,
         SuperviseReject, SuperviseComplete, SuperviseLimit, SuperviseRoute, Supervise,
         StartSuperstep, StartAgent, RecursionLimit, Explore, Learn, Validate,
         ValidatorRaises, ForeignExplore, ForeignLearn, ForeignValidate, Running
    <3>2. StageLeft' = StageLeft
      BY <2>1 DEF Work, file_vars, StageLeft
    <3> QED BY <1>3, <2>1, <3>1, <3>2, WorkflowRunsDown DEF Work
  <2>2. CASE ~ Work
    <3>1. UNCHANGED demo_vars
      BY <1>3, <2>2 DEF CommandNext, OwnStep, EndOfRun, Generate, OtherStep, command_vars
    <3>2. WorkLeft' = WorkLeft /\ steps' = steps /\ WorkLeft \in Nat
      BY <1>2, <1>3, <3>1 DEF WorkLeft, demo_vars, vars
    <3> QED BY <1>3, <2>2, <3>1, <3>2, StageRunsDown DEF CommandLeft
  <2> QED BY <2>1, <2>2
<1>4. Inv => CommandLeft \in Nat
  BY <1>2 DEF CommandLeft
<1> QED
  BY <1>1, <1>3, <1>4, CoreInvariant, CommandStageInv, PTL
     DEF CommandSpec, CommandRunsDown, CoreInv
=============================================================================
