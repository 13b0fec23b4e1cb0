-------------------------- MODULE UsageRepository --------------------------
(***************************************************************************)
(* LocalJSONUsageRepository (pmqa/usage/repository.py): savers and readers *)
(* that share one directory, each in a process of its own.  A saver writes *)
(* a private temporary file, synchronizes it, publishes it with a hard     *)
(* link that never replaces, synchronizes the directory and unlinks the    *)
(* temporary name.  Every system call may fail, a saver may be interrupted *)
(* or killed at any step, and the machine may lose power.                  *)
(*                                                                         *)
(* A record name is the digest of the invocation id, so a name is modelled *)
(* by the id.  The directory itself is taken to exist durably.             *)
(***************************************************************************)
EXTENDS Integers, Sequences, FiniteSets, SequencesExt

CONSTANTS
  Writers, Readers,
  Records,          \* the invocation records callers may save
  Ids,              \* their invocation ids
  Limits,           \* query limits callers ask for
  MaxFiles,         \* bound: temporary files ever created
  MaxPowerLosses,   \* bound: losses of power
  MayDamage,        \* does somebody outside PMQA spoil published files?
  MayFail           \* may a saver's system calls fail, or it be interrupted?

ASSUME RepositoryAssumption ==
  /\ Ids \subseteq Nat
  /\ Records \subseteq [id : Ids, session : STRING, completed_at : Nat]
  /\ Limits \subseteq Nat \ {0}
  /\ MaxFiles \in Nat /\ MaxPowerLosses \in Nat
  /\ MayDamage \in BOOLEAN /\ MayFail \in BOOLEAN

VARIABLES
  inodes,        \* the files created: [record, bytes, synced]
  target,        \* <id>.json: the inode it names, 0 when it does not exist
  flushed,       \* ids whose directory entry is on the disk
  temps,         \* inodes that still have their temporary name
  pc, saving, file, identity, failure,    \* one save per writer
  acknowledged,  \* history: inodes of the saves that returned normally
  losses,
  rpc, scope, limit, todo, found, answer, \* one get or query per reader
  owed           \* history: records acknowledged when the read began

directory == <<inodes, target, flushed, temps>>
savers    == <<pc, saving, file, identity, failure, acknowledged>>
readers   == <<rpc, scope, limit, todo, found, answer, owed>>
vars      == <<directory, savers, losses, readers>>

Unset     == "unset"
Before    == {"prepare", "create"}                    \* no temporary file yet
Exclusive == {"secure", "write", "sync", "link"}      \* not yet published
Active    == Before \cup Exclusive \cup {"flush", "release"}
Failure   == {"duplicate_record", "unsupported_publication",
              "persistence_failure", "interrupted"}

NoRecord == [id |-> 0]
NoAnswer == [status |-> Unset, records |-> <<>>]

Visible == {id \in Ids : target[id] # 0}

Init ==
  /\ inodes = <<>> /\ target = [id \in Ids |-> 0]
  /\ flushed = {} /\ temps = {}
  /\ pc = [w \in Writers |-> "idle"]
  /\ saving = [w \in Writers |-> NoRecord]
  /\ file = [w \in Writers |-> 0]
  /\ identity = [w \in Writers |-> FALSE]
  /\ failure = [w \in Writers |-> Unset]
  /\ acknowledged = {} /\ losses = 0
  /\ rpc = [r \in Readers |-> "idle"]
  /\ scope = [r \in Readers |-> {}] /\ limit = [r \in Readers |-> 1]
  /\ todo = [r \in Readers |-> {}] /\ found = [r \in Readers |-> {}]
  /\ answer = [r \in Readers |-> NoAnswer] /\ owed = [r \in Readers |-> {}]

-----------------------------------------------------------------------------
(* save() *)

Go(w, from, to) == pc[w] = from /\ pc' = [pc EXCEPT ![w] = to]

\* A failure while a temporary file is held: on to its release.
Fail(w, from, codes) ==
  /\ MayFail
  /\ Go(w, from, "release")
  /\ \E code \in codes : failure' = [failure EXCEPT ![w] = code]
  /\ UNCHANGED <<directory, saving, file, identity, acknowledged, losses, readers>>

\* A failure before there is one: save() raises at once.
FailEarly(w, from) ==
  /\ MayFail
  /\ Go(w, from, "idle")
  /\ saving' = [saving EXCEPT ![w] = NoRecord]
  /\ UNCHANGED <<directory, file, identity, failure, acknowledged, losses, readers>>

CannotPublish == {"persistence_failure", "unsupported_publication"}

Save(w, r) ==
  /\ Go(w, "idle", "prepare")
  /\ Len(inodes) + Cardinality({v \in Writers : pc[v] \in Before}) < MaxFiles
  /\ saving' = [saving EXCEPT ![w] = r]
  /\ UNCHANGED <<directory, file, identity, failure, acknowledged, losses, readers>>

\* The directory is checked and synchronized before anything is created.
Prepare(w) ==
  /\ Go(w, "prepare", "create")
  /\ flushed' = Visible
  /\ UNCHANGED <<inodes, target, temps, saving, file, identity, failure,
                 acknowledged, losses, readers>>

PrepareFails(w) == FailEarly(w, "prepare")

Create(w) ==
  /\ Go(w, "create", "secure")
  /\ inodes' = Append(inodes, [record |-> saving[w], bytes |-> "none",
                               synced |-> FALSE])
  /\ file' = [file EXCEPT ![w] = Len(inodes) + 1]
  /\ temps' = temps \cup {Len(inodes) + 1}
  /\ UNCHANGED <<target, flushed, saving, identity, failure, acknowledged,
                 losses, readers>>

CreateFails(w) == FailEarly(w, "create")

\* fstat takes the identity of the file, fchmod and a second fstat secure it.
Secure(w) ==
  /\ Go(w, "secure", "write")
  /\ identity' = [identity EXCEPT ![w] = TRUE]
  /\ UNCHANGED <<directory, saving, file, failure, acknowledged, losses, readers>>

SecureFails(w) ==
  /\ MayFail
  /\ Go(w, "secure", "release")
  /\ \E known \in BOOLEAN : identity' = [identity EXCEPT ![w] = known]
  /\ \E code \in CannotPublish : failure' = [failure EXCEPT ![w] = code]
  /\ UNCHANGED <<directory, saving, file, acknowledged, losses, readers>>

\* Seeded fault: a write that makes no progress is tried again for ever.
WriteStalls(w) ==
  /\ pc[w] = "write" /\ inodes[file[w]].bytes # "all"
  /\ inodes' = [inodes EXCEPT ![file[w]].bytes = "part"]
  /\ UNCHANGED <<target, flushed, temps, savers, losses, readers>>

\* One write call: some of the payload, or the rest of it.
Write(w) ==
  /\ pc[w] = "write" /\ inodes[file[w]].bytes # "all"
  /\ \E b \in IF inodes[file[w]].bytes = "none" THEN {"part", "all"} ELSE {"all"} :
       inodes' = [inodes EXCEPT ![file[w]].bytes = b]
  /\ UNCHANGED <<target, flushed, temps, savers, losses, readers>>

\* The loop of _write_all is over.
Written(w) ==
  /\ Go(w, "write", "sync")
  /\ inodes[file[w]].bytes = "all"
  /\ UNCHANGED <<directory, saving, file, identity, failure, acknowledged,
                 losses, readers>>

WriteFails(w) == Fail(w, "write", {"persistence_failure"})

Sync(w) ==
  /\ Go(w, "sync", "link")
  /\ inodes' = [inodes EXCEPT ![file[w]].synced = TRUE]
  /\ UNCHANGED <<target, flushed, temps, saving, file, identity, failure,
                 acknowledged, losses, readers>>

SyncFails(w) == Fail(w, "sync", CannotPublish)

\* Seeded fault: publication replaces, as os.replace would.
PublishReplaces(w) ==
  /\ Go(w, "link", "flush")
  /\ target' = [target EXCEPT ![saving[w].id] = file[w]]
  /\ UNCHANGED <<inodes, flushed, temps, saving, file, identity, failure,
                 acknowledged, losses, readers>>

Publish(w) ==
  /\ Go(w, "link", "flush")
  /\ target[saving[w].id] = 0
  /\ target' = [target EXCEPT ![saving[w].id] = file[w]]
  /\ UNCHANGED <<inodes, flushed, temps, saving, file, identity, failure,
                 acknowledged, losses, readers>>

Duplicate(w) ==
  /\ Go(w, "link", "release")
  /\ target[saving[w].id] # 0
  /\ failure' = [failure EXCEPT ![w] = "duplicate_record"]
  /\ UNCHANGED <<directory, saving, file, identity, acknowledged, losses, readers>>

LinkFails(w) == Fail(w, "link", CannotPublish)

\* Seeded fault: the directory entry is not synchronized after the link.
FlushSkipped(w) ==
  /\ Go(w, "flush", "release")
  /\ UNCHANGED <<directory, saving, file, identity, failure, acknowledged,
                 losses, readers>>

Flush(w) ==
  /\ Go(w, "flush", "release")
  /\ flushed' = Visible
  /\ UNCHANGED <<inodes, target, temps, saving, file, identity, failure,
                 acknowledged, losses, readers>>

\* Seeded fault: a failure after publication is reported as an unsupported
\* one.
FlushFailsUnsupported(w) == Fail(w, "flush", CannotPublish)

\* The target stays, but the caller is told of a failure.
FlushFails(w) == Fail(w, "flush", {"persistence_failure"})

\* An exception that save() does not translate still releases the file.
Interrupt(w) ==
  \/ pc[w] \in Before /\ FailEarly(w, pc[w])
  \/ pc[w] \in Active \ Before /\ Fail(w, pc[w], {"interrupted"})

\* The local variables of a save that is over.
Forget(w) ==
  /\ saving' = [saving EXCEPT ![w] = NoRecord]
  /\ file' = [file EXCEPT ![w] = 0]
  /\ identity' = [identity EXCEPT ![w] = FALSE]
  /\ failure' = [failure EXCEPT ![w] = Unset]

Release(w) ==
  /\ Go(w, "release", "idle")
  /\ \/ identity[w] /\ temps' = temps \ {file[w]}
     \/ (~ identity[w] \/ MayFail) /\ UNCHANGED temps
  /\ Forget(w)
  /\ acknowledged' = acknowledged \cup (IF failure[w] = Unset THEN {file[w]} ELSE {})
  /\ UNCHANGED <<inodes, target, flushed, losses, readers>>

\* What save() does when nothing gets in its way.
SaverRuns(w) ==
  \/ Prepare(w) \/ Create(w) \/ Secure(w) \/ Write(w) \/ Written(w) \/ Sync(w)
  \/ Publish(w) \/ Duplicate(w) \/ Flush(w) \/ Release(w)

SaverStep(w) ==
  \/ SaverRuns(w)
  \/ PrepareFails(w) \/ CreateFails(w) \/ SecureFails(w) \/ WriteFails(w)
  \/ SyncFails(w) \/ LinkFails(w) \/ FlushFails(w)
  \/ Interrupt(w)

-----------------------------------------------------------------------------
(* Failures from outside *)

\* The saver's process is killed: the temporary name stays behind.
Kill(w) ==
  /\ MayFail
  /\ pc[w] \in Active
  /\ pc' = [pc EXCEPT ![w] = "idle"]
  /\ Forget(w)
  /\ UNCHANGED <<directory, acknowledged, losses, readers>>

\* The machine loses power: what was not synchronized may be gone.
PowerLoss ==
  /\ losses < MaxPowerLosses
  /\ losses' = losses + 1
  /\ \E kept \in SUBSET Visible :
       /\ flushed \subseteq kept
       /\ target' = [id \in Ids |-> IF id \in kept THEN target[id] ELSE 0]
  /\ \E lost \in SUBSET {n \in DOMAIN inodes : ~ inodes[n].synced} :
       inodes' = [n \in DOMAIN inodes |->
                    IF n \in lost THEN [inodes[n] EXCEPT !.bytes = "part"]
                    ELSE inodes[n]]
  /\ pc' = [w \in Writers |-> "idle"]
  /\ saving' = [w \in Writers |-> NoRecord]
  /\ file' = [w \in Writers |-> 0]
  /\ identity' = [w \in Writers |-> FALSE]
  /\ failure' = [w \in Writers |-> Unset]
  /\ rpc' = [r \in Readers |-> "idle"]
  /\ answer' = [r \in Readers |-> NoAnswer]
  /\ owed' = [r \in Readers |-> {}]
  /\ UNCHANGED <<flushed, temps, acknowledged, scope, limit,
                 todo, found>>

\* Somebody else spoils a published file.
Damage(id) ==
  /\ MayDamage
  /\ target[id] # 0
  /\ inodes' = [inodes EXCEPT ![target[id]].bytes = "torn"]
  /\ UNCHANGED <<target, flushed, temps, savers, losses, readers>>

-----------------------------------------------------------------------------
(* get() and the queries *)

\* Directory entries: record names by id, temporary names by inode.
RecordEntry(id) == <<"record", id>>
TempEntry(n)    == <<"temp", n>>
Entries == {RecordEntry(id) : id \in Visible} \cup {TempEntry(n) : n \in temps}

InodeOf(e) == IF e[1] = "record" THEN target[e[2]] ELSE e[2]

\* Seeded fault: the query reads whatever the directory holds.
MatchingAll(entries) == entries

\* Only exact record names are read.
Matching(entries) == {e \in entries : e[1] = "record"}

\* Newest first, equal times by ascending id.
NewestFirst(a, b) ==
  \/ a.completed_at > b.completed_at
  \/ a.completed_at = b.completed_at /\ a.id < b.id

\* Two stable sorts and a slice: a record's place is the number of those
\* that come before it.
Place(records, x) == Cardinality({y \in records : NewestFirst(y, x)})

Selected(records, n) ==
  [i \in 1 .. (IF Cardinality(records) < n THEN Cardinality(records) ELSE n) |->
     CHOOSE x \in records : Place(records, x) = i - 1]

Acknowledged == {inodes[n].record : n \in acknowledged}

Ask(r, at, records, n) ==
  /\ rpc[r] = "idle"
  /\ rpc' = [rpc EXCEPT ![r] = at]
  /\ scope' = [scope EXCEPT ![r] = records]
  /\ limit' = [limit EXCEPT ![r] = n]
  /\ answer' = [answer EXCEPT ![r] = NoAnswer]
  /\ found' = [found EXCEPT ![r] = {}]
  /\ owed' = [owed EXCEPT ![r] = Acknowledged \cap records]
  /\ UNCHANGED <<directory, savers, losses>>

\* lstat of the record name decides between "not found" and reading it.
Get(r, id) ==
  /\ Ask(r, IF target[id] = 0 THEN "missing" ELSE "read",
         {x \in Records : x.id = id}, 1)
  /\ todo' = [todo EXCEPT ![r] = {RecordEntry(id)} \cap Entries]

\* find_by_session, find_by_run and list_recent scan the directory.
Query(r, records, n) ==
  /\ Ask(r, "scan", records, n)
  /\ todo' = [todo EXCEPT ![r] = Entries]

\* The scan is not atomic: what is linked or unlinked meanwhile may be seen.
Scan(r) ==
  /\ rpc[r] = "scan"
  /\ \E seen \in SUBSET (todo[r] \cup Entries) :
       /\ todo[r] \cap Entries \subseteq seen
       /\ todo' = [todo EXCEPT ![r] = Matching(seen)]
  /\ rpc' = [rpc EXCEPT ![r] = "read"]
  /\ UNCHANGED <<directory, savers, losses, scope, limit, found, answer, owed>>

Reply(r, status, records) ==
  /\ rpc' = [rpc EXCEPT ![r] = "idle"]
  /\ answer' = [answer EXCEPT ![r] = [status |-> status, records |-> records]]
  /\ UNCHANGED <<directory, savers, losses, scope, limit, todo, found, owed>>

NotFound(r) == rpc[r] = "missing" /\ Reply(r, "record_not_found", <<>>)

Whole(e) == inodes[InodeOf(e)].bytes = "all"

ReadRecord(r) ==
  /\ rpc[r] = "read"
  /\ \E e \in todo[r] :
       /\ Whole(e)
       /\ todo' = [todo EXCEPT ![r] = @ \ {e}]
       /\ found' = [found EXCEPT ![r] =
                      @ \cup ({inodes[InodeOf(e)].record} \cap scope[r])]
  /\ UNCHANGED <<directory, savers, losses, rpc, scope, limit, answer, owed>>

\* Seeded fault: a record that cannot be parsed is skipped.
ReadCorruptSkips(r) ==
  /\ rpc[r] = "read"
  /\ \E e \in todo[r] :
       ~ Whole(e) /\ todo' = [todo EXCEPT ![r] = @ \ {e}]
  /\ UNCHANGED <<directory, savers, losses, rpc, scope, limit, found, answer, owed>>

\* One bad record fails the whole query.
ReadCorrupt(r) ==
  /\ rpc[r] = "read"
  /\ \E e \in todo[r] : ~ Whole(e)
  /\ Reply(r, "corrupt_data", <<>>)

ReadFails(r) ==
  /\ rpc[r] \in {"scan", "read", "missing"}
  /\ Reply(r, "read_failure", <<>>)

Answer(r) ==
  /\ rpc[r] = "read" /\ todo[r] = {}
  /\ Reply(r, "records", Selected(found[r], limit[r]))

-----------------------------------------------------------------------------
Sessions == {x.session : x \in Records}

Next ==
  \/ \E w \in Writers : SaverStep(w) \/ Kill(w)
  \/ \E w \in Writers, x \in Records : Save(w, x)
  \/ PowerLoss
  \/ \E id \in Ids : Damage(id)
  \/ \E r \in Readers, id \in Ids : Get(r, id)
  \/ \E r \in Readers, s \in Sessions, n \in Limits :
       Query(r, {x \in Records : x.session = s}, n)
  \/ \E r \in Readers, n \in Limits : Query(r, Records, n)
  \/ \E r \in Readers :
       Scan(r) \/ NotFound(r) \/ ReadRecord(r) \/ ReadCorrupt(r) \/ ReadFails(r)
         \/ Answer(r)

Spec == Init /\ [][Next]_vars

\* A save is a plain call: its process goes on with it.  No failure has to
\* happen.
FairSpec == Spec /\ \A w \in Writers : WF_vars(SaverRuns(w))

-----------------------------------------------------------------------------
(* Properties *)

Inode == [record : Records, bytes : {"none", "part", "all", "torn"},
          synced : BOOLEAN]

TypeOK ==
  /\ inodes \in Seq(Inode)
  /\ target \in [Ids -> 0 .. Len(inodes)]
  /\ flushed \subseteq Visible /\ temps \subseteq DOMAIN inodes
  /\ pc \in [Writers -> Active \cup {"idle"}]
  /\ saving \in [Writers -> Records \cup {NoRecord}]
  /\ file \in [Writers -> 0 .. Len(inodes)]
  /\ \A w \in Writers : file[w] = 0 <=> pc[w] \in Before \cup {"idle"}
  /\ identity \in [Writers -> BOOLEAN]
  /\ failure \in [Writers -> Failure \cup {Unset}]
  /\ acknowledged \subseteq DOMAIN inodes
  /\ losses \in 0 .. MaxPowerLosses

\* A save that returned normally is there for good: its file is published
\* under its id, written and on the disk, directory entry included, whatever
\* other savers, crashes and losses of power do (repository.py, save).  So no
\* two saves of one id ever both return normally.
AcknowledgedDurable ==
  \A n \in acknowledged :
    /\ target[inodes[n].record.id] = n
    /\ inodes[n].record.id \in flushed
    /\ inodes[n].synced

\* A save that says publication is unsupported, or that the record was there
\* already, has not published its own file: only "persistence_failure" leaves
\* open whether the record is stored.
RefusedPublishesNothing ==
  \A w \in Writers :
    failure[w] \in {"unsupported_publication", "duplicate_record"} =>
      \A id \in Ids : target[id] # file[w]

\* Nobody ever reads a half-written record: a get or a query reports corrupt
\* data only when somebody outside PMQA has spoilt a published file, whatever
\* is written, linked, unlinked or lost around it.
NoFalseCorruption ==
  \A r \in Readers :
    answer[r].status = "corrupt_data" =>
      \E id \in Visible : inodes[target[id]].bytes = "torn"

\* An answer leaves out a record that was acknowledged before the question
\* only when its limit is filled with records that come before that one; a
\* damaged record is never just left out, and a get never misses one.
NothingAcknowledgedMissed ==
  \A r \in Readers :
    answer[r].status \in {"records", "record_not_found"} =>
      \A x \in owed[r] :
        LET got == Range(answer[r].records)
        IN \/ x \in got
           \/ Len(answer[r].records) = limit[r] /\ \A y \in got : NewestFirst(y, x)

\* Every save comes to an end.
SaveReturns == \A w \in Writers : pc[w] # "idle" ~> pc[w] = "idle"

\* The published files are an append-only store: what a name leads to is a
\* record nobody replaces, changes or removes; a file linked before it was
\* whole would map to no record at all.
StoredRecord(id) ==
  IF target[id] = 0 THEN NoRecord
  ELSE IF inodes[target[id]].bytes \in {"all", "torn"} THEN inodes[target[id]].record
  ELSE [id |-> -1]

Store == INSTANCE AppendOnlyStore
           WITH stored <- [id \in Ids |-> StoredRecord(id)],
                kept <- flushed, NoRecord <- NoRecord

StoreSpec == Store!Spec

-----------------------------------------------------------------------------
(* The inductive strengthening of AcknowledgedDurable. *)

\* A published file is whole, synchronized and named by its record's id.
PublishedInv ==
  \A id \in Visible :
    /\ inodes[target[id]].record.id = id
    /\ inodes[target[id]].bytes \in {"all", "torn"}
    /\ inodes[target[id]].synced

\* Every saver works on a file of its own, which stays unpublished until its
\* link, and links it only when it is whole and synchronized.
OwnFileInv ==
  \A w \in Writers :
    /\ pc[w] # "idle" => saving[w] \in Records
    /\ file[w] # 0 => inodes[file[w]].record = saving[w]
    /\ \A v \in Writers : v # w /\ file[w] # 0 => file[v] # file[w]
    /\ pc[w] \in Exclusive => \A id \in Ids : target[id] # file[w]
    /\ pc[w] \in {"sync", "link"} => inodes[file[w]].bytes = "all"
    /\ pc[w] = "link" => inodes[file[w]].synced

\* A save about to return normally has published and flushed its file.
ReleaseInv ==
  \A w \in Writers :
    /\ pc[w] # "release" => failure[w] = Unset
    /\ pc[w] = "flush" => target[saving[w].id] = file[w]
    /\ pc[w] = "release" /\ failure[w] = Unset =>
         target[saving[w].id] = file[w] /\ saving[w].id \in flushed

IInv ==
  /\ TypeOK
  /\ PublishedInv
  /\ OwnFileInv
  /\ ReleaseInv
  /\ AcknowledgedDurable
  /\ RefusedPublishesNothing

-----------------------------------------------------------------------------
(* The inductive strengthening of NoFalseCorruption and of                 *)
(* NothingAcknowledgedMissed, on top of IInv.                              *)

\* What a reader remembers between its steps.
ReadersTypeOK ==
  /\ rpc \in [Readers -> {"idle", "scan", "read", "missing"}]
  /\ scope \in [Readers -> SUBSET Records] /\ found \in [Readers -> SUBSET Records]
  /\ limit \in [Readers -> Nat \ {0}]
  /\ DOMAIN todo = Readers /\ DOMAIN answer = Readers /\ DOMAIN owed = Readers

\* A record is in the store when the name of its id leads to it.
Stored(x) == x.id \in Visible /\ inodes[target[x.id]].record = x

\* The record names a reader still has to read are published.
TodoInv ==
  \A r \in Readers :
    /\ rpc[r] \in {"scan", "read"} =>
         Matching(todo[r]) \subseteq {RecordEntry(id) : id \in Visible}
    /\ rpc[r] = "read" => Matching(todo[r]) = todo[r]

\* What a reader has read so far is in the store.
FoundInv ==
  \A r \in Readers :
    rpc[r] # "idle" => IsFiniteSet(found[r]) /\ \A x \in found[r] : Stored(x)

\* What a reader owes is in the store, and it has read it or will.
OwedInv ==
  \A r \in Readers :
    /\ rpc[r] # "idle" => \A x \in owed[r] : x \in scope[r] /\ Stored(x)
    /\ rpc[r] = "scan" => \A x \in owed[r] : RecordEntry(x.id) \in todo[r]
    /\ rpc[r] = "read" => \A x \in owed[r] : RecordEntry(x.id) \in todo[r] \/ x \in found[r]
    /\ rpc[r] = "missing" => owed[r] = {}

ReadersInv ==
  /\ ReadersTypeOK
  /\ TodoInv
  /\ FoundInv
  /\ OwedInv
  /\ NoFalseCorruption
  /\ NothingAcknowledgedMissed

-----------------------------------------------------------------------------
(* Saves come to an end. *)

Unwritten(n) == IF inodes[n].bytes = "none" THEN 2 ELSE IF inodes[n].bytes = "all" THEN 0 ELSE 1

\* The steps a save still has before it; its release may be interrupted once.
SaveLeft(w) ==
  CASE pc[w] = "prepare" -> 11
    [] pc[w] = "create"  -> 10
    [] pc[w] = "secure"  -> 9
    [] pc[w] = "write"   -> 6 + Unwritten(file[w])
    [] pc[w] = "sync"    -> 5
    [] pc[w] = "link"    -> 4
    [] pc[w] = "flush"   -> 3
    [] pc[w] = "release" -> IF failure[w] = "interrupted" THEN 1 ELSE 2
    [] OTHER             -> 0

\* A save goes on without a step back, its write loop included, and nothing
\* that other savers, readers, spoilt files or a loss of power do puts it
\* back: no save goes on for ever.
SavesGoOn ==
  \A w \in Writers :
    /\ SaveLeft(w) \in Nat
    /\ SaverStep(w) => SaveLeft(w)' < SaveLeft(w)
    /\ pc[w] # "idle" => SaveLeft(w)' <= SaveLeft(w)

SavesRunDown == [][SavesGoOn]_vars
=============================================================================
