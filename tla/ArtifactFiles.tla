---------------------------- MODULE ArtifactFiles ----------------------------
(***************************************************************************)
(* The two files a demo command leaves behind: knowledge.json of           *)
(* JsonFileStorage (pmqa/storage/json_file.py) and the generated tests     *)
(* (products/demo/generator.py), written in this order by                  *)
(* run_saucedemo_demo (products/demo/application.py).  Both are written in *)
(* place: opening truncates, the text follows.  Commands are processes;    *)
(* nothing keeps them from running side by side on the same files, and     *)
(* each may be killed anywhere.                                            *)
(*                                                                         *)
(* A file is known by the command whose whole text it holds.  What a       *)
(* command has to store, and whether its generator finds what it needs, is *)
(* decided elsewhere (DemoCommand) and free here.                          *)
(***************************************************************************)
EXTENDS FiniteSets

CONSTANTS
  Commands,
  Missing,     \* there is no file
  Torn         \* a file that is no whole text of anybody

ASSUME FilesAssumption == Missing \notin Commands /\ Torn \notin Commands /\ Missing # Torn

File == {"knowledge", "tests"}

Inside == {"storing", "stored", "generating"}
Ended  == {"refused", "raised", "ungenerable", "failed", "ok", "killed"}
Stage  == {"running", "extracted"} \cup Inside \cup Ended

VARIABLES
  stage,    \* how far each command has come
  files,    \* per file: content, who has it open, how its last writing went
  opened,   \* history: <<command, file>> truncated by that command
  latest,   \* history: the last command that opened knowledge.json, or Missing
  overlapped  \* history: some command began to store before another had left

file_vars == <<stage, files, opened, latest, overlapped>>

FileState == [content : Commands \cup {Missing, Torn}, writers : SUBSET Commands,
              mixed : BOOLEAN, cut : BOOLEAN]

FilesInit ==
  /\ stage = [c \in Commands |-> "running"]
  /\ files = [f \in File |-> [content |-> Missing, writers |-> {},
                              mixed |-> FALSE, cut |-> FALSE]]
  /\ opened = {} /\ latest = Missing /\ overlapped = FALSE

Move(c, from, to) == stage[c] = from /\ stage' = [stage EXCEPT ![c] = to]

\* The workflow ends: with knowledge to store, with a state the handoff
\* refuses, or with an exception.
HandOver(c) == Move(c, "running", "extracted") /\ UNCHANGED <<files, opened, latest, overlapped>>
Refuse(c)   == Move(c, "running", "refused")   /\ UNCHANGED <<files, opened, latest, overlapped>>
Escape(c)   == Move(c, "running", "raised")    /\ UNCHANGED <<files, opened, latest, overlapped>>

\* A file that nobody else is writing is begun afresh.
Truncate(c, f) ==
  /\ files' = [files EXCEPT ![f] =
                 [content |-> Torn, writers |-> @.writers \cup {c},
                  mixed |-> @.writers # {}, cut |-> @.cut /\ @.writers # {}]]
  /\ opened' = opened \cup {<<c, f>>}

OpenKnowledge(c) ==
  /\ Move(c, "extracted", "storing")
  /\ Truncate(c, "knowledge")
  /\ latest' = c
  /\ overlapped' = (overlapped \/ \E d \in Commands : stage[d] \in Inside)

\* The text is written and the file closed: what it holds is that text, or,
\* when another writer had the file open meanwhile, perhaps a mixture.
Close(c, f) ==
  /\ \E result \in IF files[f].mixed THEN {c, Torn} ELSE {c} :
       files' = [files EXCEPT ![f].content = result, ![f].writers = @ \ {c}]
  /\ UNCHANGED <<opened, latest, overlapped>>

StoreKnowledge(c) == Move(c, "storing", "stored") /\ Close(c, "knowledge")

\* Seeded fault: the file is opened before the evidence is looked at.
UngenerableOpens(c) ==
  /\ Move(c, "stored", "ungenerable")
  /\ opened' = opened \cup {<<c, "tests">>}
  /\ UNCHANGED <<files, latest, overlapped>>

\* The generator misses evidence for its tests and says so before it writes.
Ungenerable(c) ==
  Move(c, "stored", "ungenerable") /\ UNCHANGED <<files, opened, latest, overlapped>>

OpenTests(c) ==
  /\ Move(c, "stored", "generating")
  /\ Truncate(c, "tests")
  /\ UNCHANGED <<latest, overlapped>>

GenerateTests(c) == Move(c, "generating", "ok") /\ Close(c, "tests")

\* The directory cannot be made, or the file not opened.
OpenFails(c) ==
  /\ stage[c] \in {"extracted", "stored"} /\ Move(c, stage[c], "failed")
  /\ UNCHANGED <<files, opened, latest, overlapped>>

FileAt(c) == IF stage[c] = "storing" THEN "knowledge" ELSE "tests"

\* A file whose writer stops in the middle, or after its last byte; the text
\* of another writer may remain.
CutShort(c) ==
  \E result \in {Torn, c, files[FileAt(c)].content} :
    files' = [files EXCEPT ![FileAt(c)].writers = @ \ {c}, ![FileAt(c)].cut = TRUE,
                           ![FileAt(c)].content = result]

\* Seeded faults: a write error is swallowed; it is tried again for ever.
WriteFailsSilently(c) ==
  /\ stage[c] \in {"storing", "generating"}
  /\ Move(c, stage[c], IF stage[c] = "storing" THEN "stored" ELSE "ok")
  /\ CutShort(c)
  /\ UNCHANGED <<opened, latest, overlapped>>
WriteFailsRetried(c) ==
  /\ stage[c] \in {"storing", "generating"}
  /\ Move(c, stage[c], IF stage[c] = "storing" THEN "extracted" ELSE "stored")
  /\ CutShort(c)
  /\ UNCHANGED <<opened, latest, overlapped>>

WriteFails(c) ==
  /\ stage[c] \in {"storing", "generating"} /\ Move(c, stage[c], "failed")
  /\ CutShort(c)
  /\ UNCHANGED <<opened, latest, overlapped>>

Kill(c) ==
  /\ stage[c] \notin Ended
  /\ stage' = [stage EXCEPT ![c] = "killed"]
  /\ IF stage[c] \in {"storing", "generating"} THEN CutShort(c) ELSE UNCHANGED files
  /\ UNCHANGED <<opened, latest, overlapped>>

\* The steps that do not depend on what the command stores.
WriteStep(c) ==
  \/ OpenKnowledge(c)
  \/ StoreKnowledge(c)
  \/ GenerateTests(c)
  \/ OpenFails(c)
  \/ WriteFails(c)

CommandStep(c) ==
  \/ HandOver(c)
  \/ Refuse(c)
  \/ Escape(c)
  \/ Ungenerable(c)
  \/ OpenTests(c)
  \/ WriteStep(c)
  \/ Kill(c)

FilesNext == \E c \in Commands : CommandStep(c)

FilesSpec == FilesInit /\ [][FilesNext]_file_vars

-----------------------------------------------------------------------------
(* Properties *)

FilesTypeOK ==
  /\ stage \in [Commands -> Stage]
  /\ files \in [File -> FileState]
  /\ opened \subseteq Commands \X File
  /\ latest \in Commands \cup {Missing}
  /\ overlapped \in BOOLEAN

\* A torn file is being written, or was when its last writer was cut short or
\* had company.
TornExplained ==
  \A f \in File : files[f].content = Torn =>
    files[f].writers # {} \/ files[f].mixed \/ files[f].cut

\* Tests on disk come from a command that stored its knowledge before.
TestsAfterKnowledge ==
  \A c \in Commands : <<c, "tests">> \in opened =>
    /\ <<c, "knowledge">> \in opened
    /\ stage[c] \notin {"running", "extracted", "storing", "stored"}

\* Of commands that ran one after another the last that stored anything
\* decides both files: they are its own if it succeeded; if its generator
\* missed evidence the knowledge is its own and the tests are older.
LatestDecides ==
  ~ overlapped /\ latest # Missing =>
    /\ stage[latest] = "ok" => \A f \in File : files[f].content = latest
    /\ stage[latest] = "ungenerable" =>
         files["knowledge"].content = latest /\ files["tests"].content # latest

\* What the two files may hold although nothing makes their replacement, one
\* by one or both together, atomic (json_file.py, save; application.py,
\* run_saucedemo_demo).
FilesExplained == TornExplained /\ TestsAfterKnowledge /\ LatestDecides

\* A command that is refused touches no file, and one whose generator refuses
\* leaves the tests of its predecessors alone (artifact_handoff.py validates
\* before it stores, generator.py before it writes).
RefusedTouchesNothing ==
  \A c \in Commands :
    /\ stage[c] \in {"refused", "raised"} => \A f \in File : <<c, f>> \notin opened
    /\ stage[c] = "ungenerable" => <<c, "tests">> \notin opened

-----------------------------------------------------------------------------
(* The inductive strengthening of the properties above. *)

\* A file is open in the commands that are in the stage that writes it.
WritersInv ==
  /\ files["knowledge"].writers = {c \in Commands : stage[c] = "storing"}
  /\ files["tests"].writers = {c \in Commands : stage[c] = "generating"}

\* What a command has opened follows from its stage; a text on disk was
\* written by a command that opened the file.
OpenedInv ==
  /\ \A c \in Commands :
       /\ stage[c] \in {"running", "extracted", "refused", "raised"} =>
            \A f \in File : <<c, f>> \notin opened
       /\ stage[c] \in Inside => <<c, "knowledge">> \in opened
       /\ stage[c] \in {"storing", "stored", "ungenerable"} => <<c, "tests">> \notin opened
       /\ stage[c] = "generating" => <<c, "tests">> \in opened
  /\ \A f \in File : files[f].content \in Commands => <<files[f].content, f>> \in opened

\* Commands that never overlapped: the latest alone is inside, no file is
\* mixed, and what the latest has written is there.
AloneInv ==
  ~ overlapped =>
    /\ \A c \in Commands : stage[c] \in Inside => c = latest
    /\ \A f \in File : ~ files[f].mixed
    /\ latest # Missing =>
         /\ stage[latest] \in {"stored", "generating", "ok", "ungenerable"} =>
              files["knowledge"].content = latest
         /\ stage[latest] = "ok" => files["tests"].content = latest

FilesInv ==
  /\ FilesTypeOK
  /\ WritersInv
  /\ OpenedInv
  /\ AloneInv
  /\ TornExplained
  /\ TestsAfterKnowledge
=============================================================================
