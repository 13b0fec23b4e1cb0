---------------------------- MODULE DemoCommand ----------------------------
(***************************************************************************)
(* One task5-demo command in full (pmqa/cli.py, products/demo/application):*)
(* its workflow as in DemoWorkflow, the handoff, and its files as in       *)
(* ArtifactFiles, while other commands work on the same files.             *)
(***************************************************************************)
EXTENDS DemoWorkflow, ArtifactFiles

CONSTANT Own   \* the command whose workflow is modelled

ASSUME OwnAssumption == Own \in Commands

command_vars == <<demo_vars, file_vars>>

CommandInit == DemoInit /\ FilesInit

\* The workflow of the command goes on until the graph ends.
Work ==
  /\ stage[Own] = "running"
  /\ DemoStep
  /\ UNCHANGED file_vars

\* Composition and handoff errors become the one failure code of the command;
\* any other exception passes through it.
EndOfRun ==
  /\ node = "end"
  /\ \/ Extracted # {} /\ HandOver(Own)
     \/ Extracted = {} /\ outcome = "returned" /\ Refuse(Own)
     \/ outcome # "returned" /\ Escape(Own)
  /\ UNCHANGED demo_vars

\* The same knowledge is extracted once more for the generator.
Generate ==
  /\ \/ (\A k \in Extracted : Generable(k.content)) /\ OpenTests(Own)
     \/ (\E k \in Extracted : ~ Generable(k.content)) /\ Ungenerable(Own)
  /\ UNCHANGED demo_vars

OwnStep ==
  \/ Work
  \/ EndOfRun
  \/ Generate
  \/ WriteStep(Own) /\ UNCHANGED demo_vars

OtherStep ==
  \E c \in Commands \ {Own} : CommandStep(c) /\ UNCHANGED demo_vars

CommandNext ==
  \/ OwnStep
  \/ Kill(Own) /\ UNCHANGED demo_vars
  \/ OtherStep

CommandSpec == CommandInit /\ [][CommandNext]_command_vars

\* One thread runs the command: a step it can take is taken.
CommandFairSpec == CommandSpec /\ WF_command_vars(OwnStep)

\* A command ends, however its workflow, its agents and its writes go.
CommandReturns == <>(stage[Own] \in Ended)

\* What the command leaves in its files is of its own completed run, which
\* the handoff accepted: knowledge.json holds its text only after that, and the
\* tests only if the generator found its evidence (application.py,
\* run_saucedemo_demo).
FilesOfAcceptedRun ==
  \A f \in File : files[f].content = Own =>
    /\ Completed /\ Extracted # {}
    /\ f = "tests" => \A k \in Extracted : Generable(k.content)

\* The command is refused only by a run that did not complete, as long as its
\* verdicts are the product Validator's.
CompletedIsNeverRefused ==
  stage[Own] = "refused" /\ Validator \notin foreign => status # "completed"

\* How the command came to its stage, by what its run had decided before.
StageInv ==
  /\ stage[Own] \in Inside \cup {"extracted", "ungenerable", "ok", "failed"} =>
       node = "end" /\ Extracted # {}
  /\ stage[Own] \in {"generating", "ok"} => \A k \in Extracted : Generable(k.content)
  /\ stage[Own] = "refused" => node = "end" /\ outcome = "returned" /\ Extracted = {}
  /\ stage[Own] = "raised" => node = "end" /\ outcome # "returned"
  /\ \A f \in File : <<Own, f>> \in opened =>
       /\ node = "end" /\ Extracted # {}
       /\ f = "tests" => \A k \in Extracted : Generable(k.content)

\* What is left of the command: its workflow and the stages after it.
StageLeft ==
  CASE stage[Own] = "running"    -> 5
    [] stage[Own] = "extracted"  -> 4
    [] stage[Own] = "storing"    -> 3
    [] stage[Own] = "stored"     -> 2
    [] stage[Own] = "generating" -> 1
    [] OTHER                     -> 0

CommandLeft == WorkLeft + StageLeft

\* Every step of the command leaves less of it, and nothing another command
\* or a kill does leaves more: with CommandLeft in Nat, no agent, file or
\* neighbour makes a command go on for ever.
CommandRunsDown ==
  [][/\ OwnStep => CommandLeft' < CommandLeft
     /\ CommandLeft' <= CommandLeft]_command_vars
=============================================================================
