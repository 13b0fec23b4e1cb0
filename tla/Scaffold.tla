------------------------------ MODULE Scaffold ------------------------------
(***************************************************************************)
(* scaffold_product_pack and validate_product_pack_source                  *)
(* (pmqa/product_pack/scaffold.py).                                        *)
(*                                                                         *)
(* Calls of both run side by side on one target directory, in processes    *)
(* that may be killed, while other programs create, change and remove the  *)
(* target.  A generated file is known by the manifest it was rendered from *)
(* and by what was done to it since; README.md and .gitignore, which are   *)
(* only required to be there, are left out.                                *)
(***************************************************************************)
EXTENDS Integers, Sequences, FiniteSets

CONSTANTS
  Calls,        \* calls of scaffold_product_pack
  Validations,  \* calls of validate_product_pack_source
  Manifests,    \* the manifests asked for
  MaxForeign,   \* bound: what other programs do to the target
  Absent        \* no file, no directory

\* The generated files, sorted as they are written.  "bridge" stands for what
\* PMQA owns below bridge/, "package" for src/<package>/*.py, "project" for
\* pyproject.toml with the generated test.
WriteOrder == <<"bridge", "backend", "manifest", "project", "package">>
Files == {WriteOrder[i] : i \in DOMAIN WriteOrder}

\* What is read before the manifest is looked at, in this order.
BaseOrder == <<"bridge", "backend", "manifest", "project">>

Content == [of : Manifests, form : {"rendered", "custom", "bad"}]

Rendered(m) == [f \in Files |-> [of |-> m, form |-> "rendered"]]

Descriptors == {"parent", "directory"}
Failures == {"target_exists", "unsafe_output_path", "generation_failed"}

ASSUME ScaffoldAssumption ==
  /\ MaxForeign \in Nat
  /\ Absent \notin Content /\ Absent \notin Manifests

VARIABLES
  trees,      \* the directories made so far: their files
  target,     \* which of them the target is, 0 for none
  temps,      \* those that have a temporary name
  pc, manifest, mine, written,   \* per call
  open,       \* descriptors a call holds
  closed,     \* history: how often it closed each of them
  cut,        \* history: was it interrupted while it let go of them?
  failure,    \* why it will fail
  result,     \* how it ended
  blocked,    \* history: did a target stand in its way while it ran?
  foreign,    \* what other programs have done
  vpc, expected, seen, verdict,  \* per validation
  missing     \* history: was there no target when it looked at the root?

directory  == <<trees, target, temps>>
call       == <<pc, manifest, mine, written, open, closed, cut, failure, result>>
validation == <<vpc, expected, seen, verdict, missing>>
vars       == <<directory, call, blocked, foreign, validation>>

Unread == [f \in Files |-> Absent]
NoneClosed == [d \in Descriptors |-> 0]

Init ==
  /\ trees = <<>> /\ target = 0 /\ temps = {}
  /\ pc = [c \in Calls |-> "idle"] /\ manifest = [c \in Calls |-> Absent]
  /\ mine = [c \in Calls |-> 0] /\ written = [c \in Calls |-> 0]
  /\ open = [c \in Calls |-> {}]
  /\ closed = [c \in Calls |-> NoneClosed] /\ cut = [c \in Calls |-> FALSE]
  /\ failure = [c \in Calls |-> "none"] /\ result = [c \in Calls |-> "none"]
  /\ blocked = [c \in Calls |-> FALSE]
  /\ foreign = 0
  /\ vpc = [v \in Validations |-> "idle"]
  /\ expected = [v \in Validations |-> Absent]
  /\ seen = [v \in Validations |-> Unread]
  /\ verdict = [v \in Validations |-> "none"]
  /\ missing = [v \in Validations |-> FALSE]

-----------------------------------------------------------------------------
(* scaffold_product_pack *)

Go(c, from, to) == pc[c] = from /\ pc' = [pc EXCEPT ![c] = to]

Running(c) == pc[c] \notin {"idle", "ended", "killed"}

\* The calls that meet the target as it is now.
Notice(t) == blocked' = [c \in Calls |-> blocked[c] \/ (pc[c] # "idle" /\ t # 0)]

Elsewhere == UNCHANGED <<blocked, foreign, validation>>

\* What the call worked on is gone with it.
Forget(c) == /\ manifest' = [manifest EXCEPT ![c] = Absent]
             /\ failure' = [failure EXCEPT ![c] = "none"]

\* The call raises before it holds anything.  "interrupted" stands for the
\* MemoryError, KeyboardInterrupt, SystemExit or GeneratorExit that passes through.
Raise(c, from, why) ==
  /\ Go(c, from, "ended")
  /\ result' = [result EXCEPT ![c] = why]
  /\ Forget(c)
  /\ UNCHANGED <<directory, mine, written, open, closed, cut>>
  /\ Elsewhere

\* The call fails while it holds its descriptors: on to their release.
Fail(c, from, why) ==
  /\ Go(c, from, "release")
  /\ failure' = [failure EXCEPT ![c] = why]
  /\ UNCHANGED <<directory, manifest, mine, written, open, closed, cut, result>>
  /\ Elsewhere

Scaffold(c, m) ==
  /\ Go(c, "idle", "validate")
  /\ manifest' = [manifest EXCEPT ![c] = m]
  /\ blocked' = [blocked EXCEPT ![c] = target # 0]
  /\ UNCHANGED <<directory, mine, written, open, closed, cut, failure, result, foreign,
                 validation>>

ValidateTarget(c) ==
  /\ target = 0
  /\ Go(c, "validate", "make")
  /\ UNCHANGED <<directory, manifest, mine, written, open, closed, cut, failure, result>>
  /\ Elsewhere

RefuseTarget(c) ==
  \/ target # 0 /\ Raise(c, "validate", "target_exists")
  \/ Raise(c, "validate", "unsafe_output_path")

\* Seeded fault: the scaffold is built where it is wanted.
MakeDirectoryInPlace(c) ==
  /\ Go(c, "make", "capture")
  /\ target = 0 /\ target' = Len(trees) + 1
  /\ trees' = Append(trees, Unread)
  /\ mine' = [mine EXCEPT ![c] = Len(trees) + 1]
  /\ UNCHANGED <<temps, manifest, written, open, closed, cut, failure, result>>
  /\ Elsewhere

\* tempfile.mkdtemp
MakeDirectory(c) ==
  /\ Go(c, "make", "capture")
  /\ trees' = Append(trees, Unread)
  /\ mine' = [mine EXCEPT ![c] = Len(trees) + 1]
  /\ temps' = temps \cup {Len(trees) + 1}
  /\ UNCHANGED <<target, manifest, written, open, closed, cut, failure, result>>
  /\ Elsewhere

\* When no free name is found, mkdtemp raises FileExistsError, and the call
\* reports that its target exists.
MakeFails(c) ==
  \E why \in {"target_exists", "generation_failed", "interrupted"} : Raise(c, "make", why)

\* Both descriptors are held.
Capture(c) ==
  /\ Go(c, "capture", "write")
  /\ open' = [open EXCEPT ![c] = Descriptors]
  /\ UNCHANGED <<directory, manifest, mine, written, closed, cut, failure, result>>
  /\ Elsewhere

\* Seeded fault: nothing is closed again when only the parent was opened.
CaptureFailsLeaking(c) ==
  /\ \E held \in {{}, {"parent"}, Descriptors} :
       /\ open' = [open EXCEPT ![c] = held]
       /\ Go(c, "capture", IF held = {"parent"} THEN "release" ELSE "undo")
       /\ IF held = {"parent"} THEN closed' = [closed EXCEPT ![c]["parent"] = 1]
                              ELSE UNCHANGED closed
  /\ \E why \in {"generation_failed", "interrupted"} :
       failure' = [failure EXCEPT ![c] = why]
  /\ UNCHANGED <<directory, manifest, mine, written, cut, result>>
  /\ Elsewhere

\* Opening the parent, opening the directory or fstat fails: what was opened
\* is closed again.
CaptureFails(c) ==
  /\ Go(c, "capture", "undo")
  /\ \E held \in {{}, {"parent"}, Descriptors} : open' = [open EXCEPT ![c] = held]
  /\ \E why \in {"generation_failed", "interrupted"} :
       failure' = [failure EXCEPT ![c] = why]
  /\ UNCHANGED <<directory, manifest, mine, written, closed, cut, result>>
  /\ Elsewhere

\* The next to close: the directory before the parent.
NextClosed(c, d) == d \in open[c] /\ (d = "parent" => "directory" \notin open[c])

UndoClose(c, d) ==
  /\ pc[c] = "undo" /\ NextClosed(c, d)
  /\ open' = [open EXCEPT ![c] = @ \ {d}]
  /\ closed' = [closed EXCEPT ![c][d] = @ + 1]
  /\ UNCHANGED <<directory, pc, manifest, mine, written, cut, failure, result>>
  /\ Elsewhere

\* This close raises: the descriptor is gone, and the other one, when there is
\* one, is left as it is.
UndoFails(c, d) ==
  /\ NextClosed(c, d)
  /\ Go(c, "undo", "ended")
  /\ open' = [open EXCEPT ![c] = @ \ {d}]
  /\ closed' = [closed EXCEPT ![c][d] = @ + 1]
  /\ \E why \in {"generation_failed", "interrupted"} :
       /\ result' = [result EXCEPT ![c] = why]
       /\ cut' = [cut EXCEPT ![c] = why = "interrupted" /\ open[c] # {d}]
  /\ Forget(c)
  /\ UNCHANGED <<directory, mine, written>>
  /\ Elsewhere

UndoDone(c) ==
  /\ open[c] = {}
  /\ Go(c, "undo", "ended")
  /\ result' = [result EXCEPT ![c] = failure[c]]
  /\ Forget(c)
  /\ UNCHANGED <<directory, mine, written, open, closed, cut>>
  /\ Elsewhere

\* An interrupt between the statements that let go of the descriptors, or
\* between a call and the assignment of what it returned.
Abandon(c) ==
  /\ open[c] # {}
  /\ \E from \in {"undo", "release"} : Go(c, from, "ended")
  /\ result' = [result EXCEPT ![c] = "interrupted"]
  /\ cut' = [cut EXCEPT ![c] = TRUE]
  /\ Forget(c)
  /\ UNCHANGED <<directory, mine, written, open, closed>>
  /\ Elsewhere

WriteFile(c) ==
  /\ pc[c] = "write" /\ written[c] < Len(WriteOrder)
  /\ LET n == written[c] + 1
     IN /\ trees' = [trees EXCEPT ![mine[c]][WriteOrder[n]] =
                       Rendered(manifest[c])[WriteOrder[n]]]
        /\ written' = [written EXCEPT ![c] = n]
  /\ UNCHANGED <<target, temps, pc, manifest, mine, open, closed, cut, failure, result>>
  /\ Elsewhere

WriteFails(c) ==
  \E why \in {"generation_failed", "interrupted"} : Fail(c, "write", why)

\* The target is looked at once more before the rename.
Recheck(c) ==
  /\ target = 0 /\ written[c] = Len(WriteOrder)
  /\ Go(c, "write", "publish")
  /\ UNCHANGED <<directory, manifest, mine, written, open, closed, cut, failure, result>>
  /\ Elsewhere

RecheckFails(c) ==
  /\ written[c] = Len(WriteOrder)
  /\ \/ target # 0 /\ Fail(c, "write", "target_exists")
     \/ Fail(c, "write", "unsafe_output_path")

\* Seeded fault: an ordinary rename takes the place of whatever is there.
PublishReplaces(c) ==
  /\ Go(c, "publish", "release")
  /\ target' = mine[c] /\ temps' = temps \ {mine[c]}
  /\ \E why \in {"none", "interrupted"} : failure' = [failure EXCEPT ![c] = why]
  /\ Notice(mine[c])
  /\ UNCHANGED <<trees, manifest, mine, written, open, closed, cut, result, foreign,
                 validation>>

\* The rename that replaces nothing; an interrupt may follow on its heels.
Publish(c) ==
  /\ target = 0
  /\ Go(c, "publish", "release")
  /\ target' = mine[c] /\ temps' = temps \ {mine[c]}
  /\ \E why \in {"none", "interrupted"} : failure' = [failure EXCEPT ![c] = why]
  /\ Notice(mine[c])
  /\ UNCHANGED <<trees, manifest, mine, written, open, closed, cut, result, foreign,
                 validation>>

\* Something is there, no such rename is available, it fails, or the call is
\* interrupted before it.
PublishFails(c) ==
  \/ target # 0 /\ Fail(c, "publish", "target_exists")
  \/ \E why \in {"generation_failed", "interrupted"} : Fail(c, "publish", why)

\* Seeded fault: a descriptor that does not close fails the call.
CloseStrict(c, d) ==
  /\ pc[c] = "release" /\ NextClosed(c, d)
  /\ open' = [open EXCEPT ![c] = @ \ {d}]
  /\ closed' = [closed EXCEPT ![c][d] = @ + 1]
  /\ \E why \in {failure[c], "generation_failed"} : failure' = [failure EXCEPT ![c] = why]
  /\ UNCHANGED <<directory, pc, manifest, mine, written, cut, result>>
  /\ Elsewhere

\* The directory first, then the parent.  An error of close is ignored, an
\* interrupt is kept until both are closed.
Close(c, d) ==
  /\ pc[c] = "release" /\ NextClosed(c, d)
  /\ open' = [open EXCEPT ![c] = @ \ {d}]
  /\ closed' = [closed EXCEPT ![c][d] = @ + 1]
  /\ \E why \in {failure[c], "interrupted"} : failure' = [failure EXCEPT ![c] = why]
  /\ UNCHANGED <<directory, pc, manifest, mine, written, cut, result>>
  /\ Elsewhere

Finish(c) ==
  /\ open[c] = {}
  /\ Go(c, "release", "ended")
  /\ result' = [result EXCEPT ![c] =
                  IF failure[c] = "none" THEN "created" ELSE failure[c]]
  /\ Forget(c)
  /\ UNCHANGED <<directory, mine, written, open, closed, cut>>
  /\ Elsewhere

\* The process is killed: its descriptors go with it, its directory stays.
Kill(c) ==
  /\ Running(c)
  /\ pc' = [pc EXCEPT ![c] = "killed"]
  /\ open' = [open EXCEPT ![c] = {}]
  /\ Forget(c)
  /\ UNCHANGED <<directory, mine, written, closed, cut, result>>
  /\ Elsewhere

CallStep(c) ==
  \/ \E m \in Manifests : Scaffold(c, m)
  \/ ValidateTarget(c) \/ RefuseTarget(c)
  \/ MakeDirectory(c) \/ MakeFails(c)
  \/ Capture(c) \/ CaptureFails(c) \/ UndoDone(c) \/ Abandon(c)
  \/ WriteFile(c) \/ WriteFails(c)
  \/ Recheck(c) \/ RecheckFails(c) \/ Publish(c) \/ PublishFails(c)
  \/ \E d \in Descriptors : UndoClose(c, d) \/ UndoFails(c, d) \/ Close(c, d)
  \/ Finish(c) \/ Kill(c)

-----------------------------------------------------------------------------
(* Other programs, and people who work on the scaffold. *)

Foreign ==
  /\ foreign < MaxForeign
  /\ foreign' = foreign + 1
  /\ UNCHANGED <<temps, call, validation>>

ForeignCreate ==
  /\ Foreign
  /\ target = 0
  /\ trees' = Append(trees, Unread)
  /\ target' = Len(trees) + 1
  /\ Notice(target')

ForeignRemove ==
  /\ Foreign
  /\ target # 0 /\ target' = 0
  /\ UNCHANGED <<trees, blocked>>

\* A consumer puts an implementation into the backend, or spoils or removes
\* a file.
ForeignEdit ==
  /\ Foreign
  /\ target # 0
  /\ \E f \in Files :
       /\ trees[target][f] # Absent
       /\ \E x \in {[trees[target][f] EXCEPT !.form = "bad"], Absent}
                     \cup (IF f = "backend"
                             THEN {[trees[target][f] EXCEPT !.form = "custom"]} ELSE {}) :
            trees' = [trees EXCEPT ![target][f] = x]
  /\ UNCHANGED <<target, blocked>>

-----------------------------------------------------------------------------
(* validate_product_pack_source: every file is found by its path, anew. *)

Validating(v, from, to) == vpc[v] = from /\ vpc' = [vpc EXCEPT ![v] = to]

Here == UNCHANGED <<directory, call, blocked, foreign>>

\* The answer; what was read is gone.
Verdict(v, from, what) ==
  /\ Validating(v, from, "ended")
  /\ verdict' = [verdict EXCEPT ![v] = what]
  /\ seen' = [seen EXCEPT ![v] = Unread]
  /\ expected' = [expected EXCEPT ![v] = Absent]
  /\ UNCHANGED missing /\ Here

Validate(v, m) ==
  /\ Validating(v, "idle", "root")
  /\ expected' = [expected EXCEPT ![v] = m]
  /\ UNCHANGED <<seen, verdict, missing>> /\ Here

CheckRoot(v) ==
  \/ /\ target # 0 /\ Validating(v, "root", "base")
     /\ UNCHANGED <<expected, seen, verdict, missing>> /\ Here
  \/ /\ target = 0 /\ Validating(v, "root", "ended")
     /\ verdict' = [verdict EXCEPT ![v] = "invalid_layout"]
     /\ expected' = [expected EXCEPT ![v] = Absent]
     /\ missing' = [missing EXCEPT ![v] = TRUE]
     /\ UNCHANGED seen /\ Here

\* _read_required_files finds nothing, or no regular readable file.
IsThere(f) == target # 0 /\ trees[target][f] # Absent

ReadFile(v, f) ==
  /\ IsThere(f)
  /\ seen' = [seen EXCEPT ![v][f] = trees[target][f]]
  /\ UNCHANGED <<vpc, expected, verdict, missing>> /\ Here

\* The next of the base files.
Base(v, f) ==
  /\ vpc[v] = "base"
  /\ \E i \in DOMAIN BaseOrder :
       /\ f = BaseOrder[i] /\ seen[v][f] = Absent
       /\ \A j \in 1 .. i - 1 : seen[v][BaseOrder[j]] # Absent

ReadBase(v) ==
  \E f \in Files :
    /\ Base(v, f)
    /\ \/ ReadFile(v, f)
       \/ ~ IsThere(f) /\ Verdict(v, "base", "invalid_layout")

ManifestVerdict(v) ==
  IF seen[v]["manifest"].form # "rendered" THEN "invalid_manifest"
  ELSE IF expected[v] # Absent /\ seen[v]["manifest"].of # expected[v]
         THEN "manifest_mismatch"
  ELSE "none"

CheckManifest(v) ==
  /\ \A i \in DOMAIN BaseOrder : seen[v][BaseOrder[i]] # Absent
  /\ \/ /\ ManifestVerdict(v) = "none" /\ Validating(v, "base", "package")
        /\ UNCHANGED <<expected, seen, verdict, missing>> /\ Here
     \/ ManifestVerdict(v) # "none" /\ Verdict(v, "base", ManifestVerdict(v))

ReadPackage(v) ==
  /\ vpc[v] = "package" /\ seen[v]["package"] = Absent
  /\ \/ ReadFile(v, "package")
     \/ /\ ~ IsThere("package")
        /\ Verdict(v, "package", "invalid_python_distribution")

SourceVerdict(v) ==
  LET expected_files == Rendered(seen[v]["manifest"].of)
  IN IF \E f \in {"project", "package"} : seen[v][f] # expected_files[f]
       THEN "invalid_python_distribution"
     ELSE IF \/ seen[v]["bridge"] # expected_files["bridge"]
             \/ seen[v]["backend"].form = "bad"
       THEN "invalid_bridge_source"
     ELSE IF seen[v]["backend"].form = "custom" THEN "custom"
     ELSE "placeholder"

CheckSource(v) ==
  /\ seen[v]["package"] # Absent
  /\ Verdict(v, "package", SourceVerdict(v))

ValidationStep(v) ==
  \/ \E m \in Manifests \cup {Absent} : Validate(v, m)
  \/ CheckRoot(v) \/ ReadBase(v) \/ CheckManifest(v)
  \/ ReadPackage(v) \/ CheckSource(v)

Next ==
  \/ \E c \in Calls : CallStep(c)
  \/ ForeignCreate \/ ForeignRemove \/ ForeignEdit
  \/ \E v \in Validations : ValidationStep(v)

Spec == Init /\ [][Next]_vars

-----------------------------------------------------------------------------
(* Properties *)

Early   == {"idle", "validate", "make"}
Holding == {"undo", "write", "publish", "release"}

TypeOK ==
  /\ trees \in Seq([Files -> Content \cup {Absent}])
  /\ target \in 0 .. Len(trees) /\ temps \subseteq DOMAIN trees \ {target}
  /\ pc \in [Calls -> Early \cup Holding \cup {"capture", "ended", "killed"}]
  /\ manifest \in [Calls -> Manifests \cup {Absent}]
  /\ mine \in [Calls -> 0 .. Len(trees)]
  /\ written \in [Calls -> 0 .. Len(WriteOrder)]
  /\ open \in [Calls -> SUBSET Descriptors]
  /\ \A c \in Calls : open[c] # {} => pc[c] \in Holding \cup {"ended"}
  /\ closed \in [Calls -> [Descriptors -> Nat]] /\ cut \in [Calls -> BOOLEAN]
  /\ failure \in [Calls -> Failures \cup {"none", "interrupted"}]
  /\ result \in [Calls -> Failures \cup {"none", "interrupted", "created"}]
  /\ blocked \in [Calls -> BOOLEAN] /\ foreign \in 0 .. MaxForeign
  /\ vpc \in [Validations -> {"idle", "root", "base", "package", "ended"}]
  /\ expected \in [Validations -> Manifests \cup {Absent}]
  /\ seen \in [Validations -> [Files -> Content \cup {Absent}]]
  /\ verdict \in [Validations -> {"none", "invalid_layout", "invalid_manifest",
       "manifest_mismatch", "invalid_python_distribution", "invalid_bridge_source",
       "placeholder", "custom"}]
  /\ missing \in [Validations -> BOOLEAN]

\* The call's directory went from its temporary name to the target.
Published(c) == mine[c] # 0 /\ mine[c] \notin temps

\* What a call reports is so: "created" only for a published scaffold, every
\* failure code only when nothing of this call was published, also when a
\* close fails afterwards; and "target_exists", once the call has a directory
\* of its own, only when the target did exist at some time during the call.
ResultsTrue ==
  \A c \in Calls :
    /\ result[c] = "created" => Published(c)
    /\ result[c] \in Failures => ~ Published(c)
    /\ result[c] = "target_exists" /\ mine[c] # 0 => blocked[c]

\* A failed capture whose close of the directory failed too.
ParentLeft(c) ==
  /\ open[c] = {"parent"} /\ closed[c]["directory"] = 1
  /\ written[c] = 0 /\ result[c] = "generation_failed"

ClosedOnce(c) ==
  /\ \A d \in Descriptors : /\ closed[c][d] <= 1
                           /\ closed[c][d] = 1 => d \notin open[c]
  /\ cut[c] => result[c] = "interrupted"
  /\ pc[c] = "ended" /\ ~ cut[c] =>
       /\ open[c] = {} \/ ParentLeft(c)
       /\ written[c] > 0 => \A d \in Descriptors : closed[c][d] = 1

\* No descriptor is closed twice, and whatever step failed or was interrupted,
\* and whatever the closing of the other one did, each is closed
\* (docs/architecture/product-pack-adoption.md:265) - but for two cases the
\* code leaves open: an interrupt between the closes themselves, and a failed
\* capture whose close of the directory fails as well, which leaves the parent.
DescriptorsClosedOnce ==
  \A c \in Calls : ClosedOnce(c)

\* As long as nobody but PMQA touches the target, a validation that races any
\* number of scaffolding calls finds either no target or a sound source: it
\* never looks into a scaffold under construction.
NoHalfScaffoldSeen ==
  \A v \in Validations :
    vpc[v] = "ended" /\ foreign = 0 =>
      \/ missing[v] /\ verdict[v] = "invalid_layout"
      \/ verdict[v] \in {"placeholder", "manifest_mismatch"}

Publication == INSTANCE AtomicPublication
  WITH Trees <- {Rendered(m) : m \in Manifests},
       public <- {[identity |-> n, files |-> trees[n]] : n \in {target} \ {0}}

\* The target turns into a whole scaffold in one step, where there was none,
\* and PMQA never touches it again, by whomever it was made
\* (docs/architecture/product-pack-adoption.md:253-259).
PublicationSpec == Publication!Spec

-----------------------------------------------------------------------------
(* The inductive strengthening of the safety properties. *)

\* Every call fills a directory of its own, in order.
OwnTree(c) ==
  /\ Running(c) => manifest[c] \in Manifests
  /\ pc[c] \in Early => mine[c] = 0
  /\ mine[c] # 0 => \A b \in Calls \ {c} : mine[b] # mine[c]
  /\ pc[c] \in {"capture", "undo", "write", "publish"} => mine[c] \in temps
  /\ pc[c] \in Early \cup {"capture", "undo"} => written[c] = 0
  /\ pc[c] \in {"write", "publish"} =>
       \A n \in 1 .. written[c] :
         trees[mine[c]][WriteOrder[n]] = Rendered(manifest[c])[WriteOrder[n]]
  /\ pc[c] = "publish" => written[c] = Len(WriteOrder)

OwnTreeInv == \A c \in Calls : OwnTree(c)

\* What is held, and what a call that is about to end has to tell.
Release(c) ==
  /\ pc[c] \in Early \cup {"capture"} => closed[c] = NoneClosed
  /\ pc[c] \in {"write", "publish"} => open[c] = Descriptors /\ closed[c] = NoneClosed
  /\ pc[c] = "release" =>
       /\ \A d \in Descriptors : closed[c][d] = IF d \in open[c] THEN 0 ELSE 1
       /\ failure[c] = "none" => Published(c)
       /\ failure[c] \in Failures => ~ Published(c)
       /\ failure[c] = "target_exists" => blocked[c]
  /\ pc[c] = "undo" =>
       /\ \A d \in Descriptors : closed[c][d] <= 1 /\ (closed[c][d] = 1 => d \notin open[c])
       /\ "directory" \in open[c] => open[c] = Descriptors
       /\ failure[c] \in {"generation_failed", "interrupted"}
  /\ pc[c] # "ended" => result[c] = "none" /\ ~ cut[c]
  /\ pc[c] # "idle" /\ target # 0 => blocked[c]

ReleaseInv == \A c \in Calls : Release(c)

\* An untouched target is a whole scaffold, and what a validation has read.
UntouchedInv ==
  foreign = 0 =>
    /\ target # 0 => \E m \in Manifests : trees[target] = Rendered(m)
    /\ \A v \in Validations :
         /\ vpc[v] \in {"base", "package"} => target # 0
         /\ vpc[v] = "package" => \A i \in DOMAIN BaseOrder : seen[v][BaseOrder[i]] # Absent
         /\ \A f \in Files :
              seen[v][f] # Absent => target # 0 /\ seen[v][f] = trees[target][f]

IInv ==
  /\ TypeOK
  /\ OwnTreeInv
  /\ ReleaseInv
  /\ UntouchedInv
  /\ ResultsTrue
  /\ DescriptorsClosedOnce
  /\ NoHalfScaffoldSeen
=============================================================================
