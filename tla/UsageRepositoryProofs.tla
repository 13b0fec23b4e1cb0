----------------------- MODULE UsageRepositoryProofs -----------------------
(***************************************************************************)
(* Proofs about UsageRepository for every set of writers, readers and      *)
(* records, with failures, kills, losses of power and damage from outside. *)
(***************************************************************************)
EXTENDS UsageRepository, FiniteSetTheorems, FunctionTheorems, TLAPS

Bytes == {"none", "part", "all", "torn"}

\* Nothing that touches only savers' local variables or readers can disturb
\* what is published or acknowledged.
LEMMA DirectoryKept ==
  ASSUME PublishedInv, AcknowledgedDurable,
         UNCHANGED <<inodes, target, acknowledged>>, flushed' \in {flushed, Visible},
         flushed \subseteq Visible
  PROVE  PublishedInv' /\ AcknowledgedDurable' /\ flushed' \subseteq Visible'
BY DEF PublishedInv, AcknowledgedDurable, Visible

\* Readers, and reads, leave the invariant alone.
LEMMA ReadersKeepIInv ==
  ASSUME IInv, UNCHANGED <<directory, savers, losses>>
  PROVE  IInv'
BY DEF IInv, directory, savers, TypeOK, PublishedInv, OwnFileInv, ReleaseInv,
       AcknowledgedDurable, RefusedPublishesNothing, Visible

\* A step of one saver that publishes nothing and edits no file.
LEMMA LocalStep ==
  ASSUME IInv, NEW w \in Writers, NEW at \in Active \cup {"idle"},
         NEW code \in Failure \cup {Unset},
         UNCHANGED <<inodes, target, temps, file, acknowledged, losses>>,
         flushed' \in {flushed, Visible},
         pc' = [pc EXCEPT ![w] = at],
         saving' = saving \/ (pc[w] \in Before \cup {"idle"} /\ \E x \in Records \cup {NoRecord} : saving' = [saving EXCEPT ![w] = x]),
         identity' \in [Writers -> BOOLEAN],
         failure' = [failure EXCEPT ![w] = code],
         pc[w] \in Before \cup {"idle"} <=> at \in Before \cup {"idle"},
         at \in Exclusive => pc[w] \in Exclusive,
         at \in {"sync", "link"} => inodes[file[w]].bytes = "all",
         at = "link" => inodes[file[w]].synced,
         at # "release" => code = Unset,
         at # "idle" =>
           (saving' = saving /\ pc[w] # "idle") \/ saving'[w] \in Records,
         at = "flush" => pc[w] = "flush",
         at = "release" /\ code = Unset =>
           target[saving[w].id] = file[w] /\ saving[w].id \in flushed',
         code \in {"unsupported_publication", "duplicate_record"} =>
           pc[w] \in Exclusive \/ code = failure[w]
  PROVE  IInv'
<1>1. PublishedInv' /\ AcknowledgedDurable' /\ flushed' \subseteq Visible'
  BY DirectoryKept DEF IInv, TypeOK
<1>2. TypeOK'
  BY <1>1 DEF IInv, TypeOK, Visible, Before, Active, Exclusive
<1>3. OwnFileInv'
  BY DEF IInv, TypeOK, OwnFileInv, Before, Exclusive
<1>4. flushed \subseteq flushed'
  BY DEF IInv, TypeOK
<1>5. ReleaseInv'
  BY <1>4 DEF IInv, TypeOK, ReleaseInv, Before, Exclusive, Active
<1>6. RefusedPublishesNothing'
  BY DEF IInv, TypeOK, RefusedPublishesNothing, OwnFileInv, Unset
<1> QED
  BY <1>1, <1>2, <1>3, <1>5, <1>6 DEF IInv

\* A failure that goes on to the release of the temporary file.
LEMMA FailStep ==
  ASSUME IInv, NEW w \in Writers, NEW at \in Exclusive \cup {"flush", "release"},
         NEW codes, codes \subseteq Failure,
         at \notin Exclusive => codes \subseteq {"persistence_failure", "interrupted"},
         Fail(w, at, codes)
  PROVE  IInv'
BY LocalStep DEF Fail, Go, directory, IInv, TypeOK, Unset, Before, Exclusive, Active, Failure

\* A failure before there is a temporary file.
LEMMA FailEarlyStep ==
  ASSUME IInv, NEW w \in Writers, NEW at \in Before, FailEarly(w, at)
  PROVE  IInv'
<1>1. failure[w] = Unset /\ pc[w] = at /\ failure' = [failure EXCEPT ![w] = Unset]
  BY DEF FailEarly, Go, IInv, TypeOK, ReleaseInv, Active, Before
<1> QED
  BY <1>1, LocalStep DEF FailEarly, Go, directory, IInv, TypeOK, Unset, Before, Exclusive, Active, Failure

\* A call of save() begins.
LEMMA SaveStep ==
  ASSUME IInv, NEW w \in Writers, NEW x \in Records, Save(w, x)
  PROVE  IInv'
<1>1. failure[w] = Unset /\ failure = [failure EXCEPT ![w] = Unset]
  BY DEF Save, Go, IInv, TypeOK, ReleaseInv
<1> QED
  BY <1>1, LocalStep, ZenonT(60) DEF Save, Go, directory, IInv, TypeOK, Unset, Before, Exclusive, Active, Failure

\* The steps of a save that leave files and names alone.
LEMMA LocalSteps ==
  ASSUME IInv, NEW w \in Writers,
         \/ Prepare(w) \/ Secure(w) \/ SecureFails(w) \/ Written(w)
         \/ Duplicate(w) \/ Flush(w)
  PROVE  IInv'
<1>0. failure[w] \in Failure \cup {Unset} /\ failure = [failure EXCEPT ![w] = failure[w]]
  BY DEF IInv, TypeOK
<1>a. pc[w] # "release" => failure[w] = Unset
  BY DEF IInv, ReleaseInv
<1>1. CASE Prepare(w)
  BY <1>0, <1>a, <1>1, LocalStep
  DEF Prepare, Go, directory, IInv, TypeOK, Unset, Before, Exclusive, Active, Failure
<1>2. CASE Secure(w)
  BY <1>0, <1>a, <1>2, LocalStep
  DEF Secure, Go, directory, IInv, TypeOK, Unset, Before, Exclusive, Active, Failure
<1>3. CASE SecureFails(w)
  <2>1. PICK known \in BOOLEAN : identity' = [identity EXCEPT ![w] = known]
    BY <1>3 DEF SecureFails
  <2>2. identity' \in [Writers -> BOOLEAN]
    BY <2>1 DEF IInv, TypeOK
  <2>3. PICK code \in CannotPublish : failure' = [failure EXCEPT ![w] = code]
    BY <1>3 DEF SecureFails
  <2> QED
    BY <1>3, <2>2, <2>3, LocalStep
    DEF SecureFails, CannotPublish, Go, directory, IInv, TypeOK, Unset, Before, Exclusive, Active, Failure
<1>4. CASE Written(w)
  BY <1>0, <1>a, <1>4, LocalStep
  DEF Written, Go, directory, IInv, TypeOK, Unset, Before, Exclusive, Active, Failure
<1>5. CASE Duplicate(w)
  BY <1>5, LocalStep
  DEF Duplicate, Go, directory, IInv, TypeOK, Unset, Before, Exclusive, Active, Failure
<1>6. CASE Flush(w)
  <2>1. target[saving[w].id] = file[w] /\ saving[w] \in Records /\ file[w] # 0
    <3>1. pc[w] = "flush" /\ file[w] # 0 /\ inodes[file[w]] \in Inode
      BY <1>6, SMTT(30) DEF Flush, Go, IInv, TypeOK, Before
    <3> QED
      BY <3>1 DEF IInv, ReleaseInv, OwnFileInv, Inode
  <2>2. saving[w].id \in flushed'
    BY <1>6, <2>1, RepositoryAssumption DEF Flush, Visible
  <2> QED
    BY <1>0, <1>a, <1>6, <2>1, <2>2, LocalStep
    DEF Flush, Go, directory, IInv, TypeOK, Unset, Before, Exclusive, Active, Failure
<1> QED BY <1>1, <1>2, <1>3, <1>4, <1>5, <1>6

\* A new temporary file belongs to its saver only, and is not published.
LEMMA CreateStep ==
  ASSUME IInv, NEW w \in Writers, Create(w)
  PROVE  IInv'
<1> DEFINE new == Len(inodes) + 1
           node == [record |-> saving[w], bytes |-> "none", synced |-> FALSE]
<1>1. inodes \in Seq(Inode) /\ Len(inodes) \in Nat /\ DOMAIN inodes = 1 .. Len(inodes)
  BY DEF IInv, TypeOK
<1>2. saving[w] \in Records
  BY DEF IInv, OwnFileInv, Create, Go
<1>3. inodes' = Append(inodes, node) /\ node \in Inode
  BY <1>2 DEF Create, Inode
<1>4. inodes' \in Seq(Inode) /\ Len(inodes') = new /\ DOMAIN inodes' = 1 .. new
  BY <1>1, <1>3
<1>5. \A n \in DOMAIN inodes : n \in DOMAIN inodes' /\ inodes'[n] = inodes[n]
  BY <1>1, <1>3, <1>4
<1>6. inodes'[new] = node /\ new \notin DOMAIN inodes /\ new # 0
  BY <1>1, <1>3
<1>7. /\ pc[w] = "create" /\ pc' = [pc EXCEPT ![w] = "secure"]
      /\ file' = [file EXCEPT ![w] = new] /\ temps' = temps \cup {new}
      /\ UNCHANGED <<target, flushed, saving, identity, failure, acknowledged, losses>>
  BY DEF Create, Go
<1>8. TypeOK'
  BY <1>1, <1>4, <1>7 DEF IInv, TypeOK, Visible, Before, Exclusive, Active
<1>9. \A id \in Ids : target[id] # 0 => target[id] \in DOMAIN inodes
  BY <1>1 DEF IInv, TypeOK
<1>10. PublishedInv'
  BY <1>5, <1>7, <1>9 DEF IInv, PublishedInv, Visible
<1>11. OwnFileInv'
  <2>1. \A v \in Writers : file[v] # 0 => file[v] \in DOMAIN inodes
    BY <1>1 DEF IInv, TypeOK
  <2>2. \A id \in Ids : target[id] # new
    BY <1>6, <1>9
  <2> QED
    BY <1>5, <1>6, <1>7, <2>1, <2>2 DEF IInv, TypeOK, OwnFileInv, Exclusive, Before
<1>12. ReleaseInv'
  BY <1>7 DEF IInv, TypeOK, ReleaseInv
<1>13. AcknowledgedDurable'
  BY <1>5, <1>7 DEF IInv, TypeOK, AcknowledgedDurable
<1>14. RefusedPublishesNothing'
  BY <1>7 DEF IInv, TypeOK, RefusedPublishesNothing, ReleaseInv, Unset
<1> QED
  BY <1>8, <1>10, <1>11, <1>12, <1>13, <1>14 DEF IInv

\* A saver edits only its own file, which nobody else can name yet.
LEMMA EditStep ==
  ASSUME IInv, NEW w \in Writers, Write(w) \/ Sync(w)
  PROVE  IInv'
<1>1. inodes \in Seq(Inode) /\ DOMAIN inodes = 1 .. Len(inodes) /\ Len(inodes) \in Nat
  BY DEF IInv, TypeOK
<1>2. /\ file[w] \in DOMAIN inodes /\ pc[w] \in {"write", "sync"}
      /\ \/ pc' = pc /\ pc[w] = "write"
         \/ pc' = [pc EXCEPT ![w] = "link"] /\ pc[w] = "sync"
      /\ UNCHANGED <<target, flushed, temps, saving, file, identity, failure,
                     acknowledged, losses>>
  <2>1. pc[w] \in {"write", "sync"} /\ file[w] \in 0 .. Len(inodes)
    BY DEF IInv, TypeOK, Write, Sync, Go
  <2>2. file[w] # 0
    BY <2>1 DEF IInv, TypeOK, Before
  <2>3. file[w] \in DOMAIN inodes
    BY <1>1, <2>1, <2>2
  <2> QED BY <2>1, <2>3 DEF Write, Sync, Go, savers
<1>0. inodes \in Seq(Inode) /\ file[w] \in DOMAIN inodes
  BY <1>1, <1>2
<1>3. /\ inodes' \in Seq(Inode) /\ Len(inodes') = Len(inodes)
      /\ DOMAIN inodes' = DOMAIN inodes
      /\ \A n \in DOMAIN inodes :
           /\ inodes'[n].record = inodes[n].record
           /\ inodes[n].synced => inodes'[n].synced
           /\ n # file[w] => inodes'[n].bytes = inodes[n].bytes
           /\ pc[w] = "sync" /\ n = file[w] =>
                inodes'[n].bytes = inodes[n].bytes /\ inodes'[n].synced
  <2>a. \A m \in DOMAIN inodes : inodes[m] \in Inode
    BY <1>0
  <2>1. CASE Write(w)
    <3>1. PICK b \in Bytes : inodes' = [inodes EXCEPT ![file[w]].bytes = b]
      BY <2>1 DEF Write, Bytes
    <3> DEFINE node == [inodes[file[w]] EXCEPT !.bytes = b]
    <3>2. pc[w] = "write" /\ node \in Inode
      BY <1>0, <2>1, <2>a, <3>1 DEF Write, Inode, Bytes
    <3>3. inodes' \in Seq(Inode) /\ Len(inodes') = Len(inodes) /\ DOMAIN inodes' = DOMAIN inodes
      BY <1>0, <3>1, <3>2
    <3>4. \A m \in DOMAIN inodes : inodes'[m] = IF m = file[w] THEN node ELSE inodes[m]
      BY <1>0, <3>1
    <3> QED BY <2>a, <3>2, <3>3, <3>4 DEF Inode
  <2>2. CASE Sync(w)
    <3>1. inodes' = [inodes EXCEPT ![file[w]].synced = TRUE]
      BY <2>2 DEF Sync
    <3> DEFINE node == [inodes[file[w]] EXCEPT !.synced = TRUE]
    <3>2. node \in Inode
      BY <1>0, <2>a DEF Inode
    <3>3. inodes' \in Seq(Inode) /\ Len(inodes') = Len(inodes) /\ DOMAIN inodes' = DOMAIN inodes
      BY <1>0, <3>1, <3>2
    <3>4. \A m \in DOMAIN inodes : inodes'[m] = IF m = file[w] THEN node ELSE inodes[m]
      BY <1>0, <3>1
    <3> QED BY <2>a, <3>3, <3>4 DEF Inode
  <2> QED BY <2>1, <2>2
<1>4. TypeOK'
  BY <1>2, <1>3 DEF IInv, TypeOK, Visible, Before, Exclusive, Active
<1>5. \A id \in Ids : target[id] # file[w] /\ (target[id] # 0 => target[id] \in DOMAIN inodes)
  BY <1>1, <1>2 DEF IInv, TypeOK, OwnFileInv, Exclusive
<1>6. PublishedInv'
  BY <1>2, <1>3, <1>5 DEF IInv, PublishedInv, Visible
<1>7. OwnFileInv'
  <2>1. \A v \in Writers : file[v] # 0 => file[v] \in DOMAIN inodes
    BY <1>1 DEF IInv, TypeOK
  <2>2. \A v \in Writers : v # w => file[v] # file[w] \/ file[v] = 0
    BY DEF IInv, OwnFileInv
  <2>3. \A v \in Writers : file[v] = 0 => pc[v] \notin Exclusive
    BY DEF IInv, TypeOK, Before, Exclusive
  <2> SUFFICES ASSUME NEW v \in Writers
               PROVE  /\ pc'[v] # "idle" => saving[v] \in Records
                      /\ file[v] # 0 => inodes'[file[v]].record = saving[v]
                      /\ pc'[v] \in Exclusive => pc[v] \in Exclusive
                      /\ pc'[v] \in {"sync", "link"} => inodes'[file[v]].bytes = "all"
                      /\ pc'[v] = "link" => inodes'[file[v]].synced
    BY <1>2 DEF IInv, OwnFileInv
  <2>4. CASE v = w
    BY <1>2, <1>3, <2>1, <2>4, SMTT(30) DEF IInv, TypeOK, OwnFileInv, Exclusive
  <2>5. CASE v # w
    <3>1. pc'[v] = pc[v] /\ (pc[v] \in Exclusive => file[v] \in DOMAIN inodes /\ file[v] # file[w])
      BY <1>2, <2>1, <2>2, <2>3, <2>5 DEF IInv, TypeOK
    <3>2. file[v] \in DOMAIN inodes /\ file[v] # file[w] =>
            /\ inodes'[file[v]].bytes = inodes[file[v]].bytes
            /\ inodes[file[v]].synced => inodes'[file[v]].synced
      BY <1>3
    <3> QED
      BY <1>3, <2>1, <3>1, <3>2 DEF IInv, OwnFileInv, Exclusive
  <2> QED BY <2>4, <2>5
<1>8. ReleaseInv'
  BY <1>2 DEF IInv, TypeOK, ReleaseInv
<1>9. AcknowledgedDurable'
  BY <1>2, <1>3 DEF IInv, TypeOK, AcknowledgedDurable
<1>10. RefusedPublishesNothing'
  BY <1>2 DEF IInv, RefusedPublishesNothing
<1> QED
  BY <1>4, <1>6, <1>7, <1>8, <1>9, <1>10 DEF IInv

\* Publication links a whole, synchronized file under a free name.
LEMMA PublishStep ==
  ASSUME IInv, NEW w \in Writers, Publish(w)
  PROVE  IInv'
<1>1. /\ pc[w] = "link" /\ pc' = [pc EXCEPT ![w] = "flush"]
      /\ saving[w] \in Records /\ saving[w].id \in Ids
      /\ target[saving[w].id] = 0
      /\ target' = [target EXCEPT ![saving[w].id] = file[w]]
      /\ UNCHANGED <<inodes, flushed, temps, saving, file, identity, failure,
                     acknowledged, losses>>
  BY RepositoryAssumption DEF Publish, Go, IInv, OwnFileInv
<1>2. file[w] # 0 /\ file[w] \in 0 .. Len(inodes)
  BY <1>1 DEF IInv, TypeOK, Before
<1>3. TypeOK'
  BY <1>1, <1>2 DEF IInv, TypeOK, Visible, Before, Exclusive, Active
<1>4. PublishedInv'
  BY <1>1, <1>2 DEF IInv, TypeOK, PublishedInv, OwnFileInv, Visible
<1>5. OwnFileInv'
  <2>1. \A v \in Writers : pc'[v] \in Exclusive => v # w /\ pc[v] \in Exclusive
    BY <1>1 DEF IInv, TypeOK, Exclusive
  <2>2. \A v \in Writers : v # w => file[v] # file[w]
    BY <1>2 DEF IInv, OwnFileInv
  <2> QED
    BY <1>1, <2>1, <2>2 DEF IInv, TypeOK, OwnFileInv, Exclusive
<1>6. ReleaseInv'
  <2>1. \A v \in Writers : pc[v] = "flush" \/ (pc[v] = "release" /\ failure[v] = Unset) =>
          file[v] # 0 /\ target[saving[v].id] = file[v]
    BY DEF IInv, TypeOK, ReleaseInv, Before
  <2>2. \A v \in Writers : pc[v] # "idle" => saving[v].id \in Ids
    BY RepositoryAssumption DEF IInv, OwnFileInv
  <2> QED
    BY <1>1, <2>1, <2>2 DEF IInv, TypeOK, ReleaseInv
<1>7. AcknowledgedDurable'
  <2>1. \A n \in acknowledged : n # 0 /\ inodes[n].record.id # saving[w].id
    BY <1>1 DEF IInv, TypeOK, AcknowledgedDurable
  <2> QED
    BY <1>1, <2>1 DEF IInv, TypeOK, AcknowledgedDurable, Visible
<1>8. RefusedPublishesNothing'
  <2>1. failure[w] = Unset
    BY <1>1 DEF IInv, ReleaseInv
  <2>2. \A v \in Writers : v # w => file[v] # file[w]
    BY <1>2 DEF IInv, OwnFileInv
  <2> QED
    BY <1>1, <2>1, <2>2 DEF IInv, TypeOK, RefusedPublishesNothing, Unset
<1> QED
  BY <1>3, <1>4, <1>5, <1>6, <1>7, <1>8 DEF IInv

\* The end of a save, normal or not.
LEMMA EndStep ==
  ASSUME IInv, NEW w \in Writers, Release(w) \/ Kill(w)
  PROVE  IInv'
<1>1. /\ pc' = [pc EXCEPT ![w] = "idle"] /\ temps' \subseteq temps
      /\ saving' = [saving EXCEPT ![w] = NoRecord]
      /\ file' = [file EXCEPT ![w] = 0]
      /\ identity' = [identity EXCEPT ![w] = FALSE]
      /\ failure' = [failure EXCEPT ![w] = Unset]
      /\ UNCHANGED <<inodes, target, flushed, losses>>
  BY DEF Release, Kill, Go, Forget, directory
<1>2. \A n \in acknowledged' : \/ n \in acknowledged
                               \/ /\ n = file[w] /\ n # 0
                                  /\ target[saving[w].id] = n
                                  /\ saving[w].id \in flushed
  BY DEF Release, Kill, Go, IInv, TypeOK, ReleaseInv, Before
<1>3. PublishedInv'
  BY <1>1 DEF IInv, PublishedInv, Visible
<1>4. AcknowledgedDurable'
  <2>1. file[w] # 0 => inodes[file[w]].record = saving[w]
    BY DEF IInv, OwnFileInv
  <2>2. \A id \in flushed : id \in Visible
    BY DEF IInv, TypeOK
  <2> QED
    BY <1>1, <1>2, <2>1, <2>2 DEF IInv, AcknowledgedDurable, PublishedInv
<1>5. TypeOK'
  <2>1. acknowledged' \subseteq DOMAIN inodes
    BY <1>2 DEF IInv, TypeOK
  <2> QED
    BY <1>1, <2>1 DEF IInv, TypeOK, Visible, Before
<1>6. OwnFileInv'
  BY <1>1 DEF IInv, TypeOK, OwnFileInv, Exclusive
<1>7. ReleaseInv'
  BY <1>1 DEF IInv, TypeOK, ReleaseInv
<1>8. RefusedPublishesNothing'
  BY <1>1 DEF IInv, TypeOK, RefusedPublishesNothing, Unset
<1> QED
  BY <1>3, <1>4, <1>5, <1>6, <1>7, <1>8 DEF IInv

\* A loss of power takes neither flushed names nor synchronized bytes.
LEMMA PowerLossStep ==
  ASSUME IInv, PowerLoss
  PROVE  IInv'
<1>1. PICK kept \in SUBSET Visible :
        /\ flushed \subseteq kept
        /\ target' = [id \in Ids |-> IF id \in kept THEN target[id] ELSE 0]
  BY DEF PowerLoss
<1>2. PICK lost \in SUBSET {n \in DOMAIN inodes : ~ inodes[n].synced} :
        inodes' = [n \in DOMAIN inodes |->
                     IF n \in lost THEN [inodes[n] EXCEPT !.bytes = "part"]
                     ELSE inodes[n]]
  BY DEF PowerLoss
<1>3. inodes \in Seq(Inode) /\ DOMAIN inodes = 1 .. Len(inodes) /\ Len(inodes) \in Nat
  BY DEF IInv, TypeOK
<1>4. \A n \in DOMAIN inodes : inodes[n] \in Inode
  BY <1>3
<1>5. /\ inodes' \in Seq(Inode) /\ Len(inodes') = Len(inodes)
      /\ DOMAIN inodes' = DOMAIN inodes
  <2>1. \A n \in 1 .. Len(inodes) : inodes'[n] \in Inode
    BY <1>2, <1>3, <1>4 DEF Inode
  <2> QED
    BY <1>2, <1>3, <2>1
<1>6. \A n \in DOMAIN inodes :
        /\ inodes'[n].record = inodes[n].record
        /\ inodes'[n].synced = inodes[n].synced
        /\ inodes[n].synced => inodes'[n] = inodes[n]
  BY <1>2, <1>4 DEF Inode
<1>7. /\ pc' = [w \in Writers |-> "idle"] /\ saving' = [w \in Writers |-> NoRecord]
      /\ file' = [w \in Writers |-> 0] /\ identity' = [w \in Writers |-> FALSE]
      /\ failure' = [w \in Writers |-> Unset]
      /\ losses < MaxPowerLosses /\ losses' = losses + 1
      /\ UNCHANGED <<flushed, temps, acknowledged>>
  BY DEF PowerLoss
<1>8. \A id \in Ids : target[id] # 0 => target[id] \in DOMAIN inodes
  BY <1>3 DEF IInv, TypeOK
<1>9. TypeOK'
  BY <1>1, <1>5, <1>7, RepositoryAssumption DEF IInv, TypeOK, Visible, Before, Unset
<1>10. PublishedInv'
  BY <1>1, <1>6, <1>8 DEF IInv, PublishedInv, Visible
<1>11. OwnFileInv' /\ ReleaseInv' /\ RefusedPublishesNothing'
  BY <1>7 DEF OwnFileInv, ReleaseInv, RefusedPublishesNothing, Exclusive, Unset
<1>12. AcknowledgedDurable'
  <2>1. \A n \in acknowledged : n \in DOMAIN inodes /\ inodes[n].record.id \in kept
    BY <1>1 DEF IInv, TypeOK, AcknowledgedDurable
  <2>2. kept \subseteq Ids
    BY <1>1 DEF Visible
  <2> QED
    BY <1>1, <1>6, <1>7, <2>1, <2>2 DEF IInv, AcknowledgedDurable
<1> QED
  BY <1>9, <1>10, <1>11, <1>12 DEF IInv

\* Damage from outside changes the bytes of a file and nothing else.
LEMMA DamageStep ==
  ASSUME IInv, NEW d \in Ids, Damage(d)
  PROVE  IInv'
<1>1. inodes \in Seq(Inode) /\ target[d] \in DOMAIN inodes
  BY DEF IInv, TypeOK, Damage
<1>2. \A n \in DOMAIN inodes : inodes[n] \in Inode
  BY <1>1
<1> DEFINE node == [inodes[target[d]] EXCEPT !.bytes = "torn"]
<1>3. inodes' = [inodes EXCEPT ![target[d]].bytes = "torn"]
  BY DEF Damage
<1>4. node \in Inode
  BY <1>1, <1>2 DEF Inode
<1>5. inodes' \in Seq(Inode) /\ Len(inodes') = Len(inodes) /\ DOMAIN inodes' = DOMAIN inodes
  BY <1>1, <1>3, <1>4
<1>6. \A n \in DOMAIN inodes : inodes'[n] = IF n = target[d] THEN node ELSE inodes[n]
  BY <1>1, <1>3
<1>7. \A n \in DOMAIN inodes :
        /\ inodes'[n].record = inodes[n].record
        /\ inodes'[n].synced = inodes[n].synced
        /\ inodes'[n].bytes = IF n = target[d] THEN "torn" ELSE inodes[n].bytes
  BY <1>2, <1>6 DEF Inode
<1>8. UNCHANGED <<target, flushed, temps, pc, saving, file, identity, failure,
                  acknowledged, losses>>
  BY DEF Damage, savers
<1>9. TypeOK'
  BY <1>5, <1>8 DEF IInv, TypeOK, Visible
<1>10. \A id \in Ids : target[id] # 0 => target[id] \in DOMAIN inodes
  BY <1>1 DEF IInv, TypeOK
<1>11. \A w \in Writers : file[w] # 0 => file[w] \in DOMAIN inodes
  BY <1>1 DEF IInv, TypeOK
<1>12. \A w \in Writers : pc[w] \in Exclusive => file[w] # 0 /\ file[w] # target[d]
  BY DEF IInv, TypeOK, OwnFileInv, Exclusive, Before
<1>13. PublishedInv'
  BY <1>7, <1>8, <1>10 DEF IInv, PublishedInv, Visible
<1>14. OwnFileInv'
  BY <1>7, <1>8, <1>11, <1>12 DEF IInv, OwnFileInv, Exclusive
<1>15. ReleaseInv' /\ RefusedPublishesNothing'
  BY <1>8 DEF IInv, ReleaseInv, RefusedPublishesNothing
<1>16. AcknowledgedDurable'
  BY <1>7, <1>8 DEF IInv, TypeOK, AcknowledgedDurable
<1> QED
  BY <1>9, <1>13, <1>14, <1>15, <1>16 DEF IInv

\* An empty directory satisfies the invariant.
LEMMA InitIInv == Init => IInv
<1> SUFFICES ASSUME Init PROVE IInv
  OBVIOUS
<1>1. TypeOK
  BY RepositoryAssumption DEF Init, TypeOK, Visible, Before
<1>2. PublishedInv /\ OwnFileInv /\ ReleaseInv /\ AcknowledgedDurable /\ RefusedPublishesNothing
  BY DEF Init, PublishedInv, OwnFileInv, ReleaseInv, AcknowledgedDurable,
         RefusedPublishesNothing, Visible, Exclusive, Unset
<1> QED BY <1>1, <1>2 DEF IInv

\* Every step of a save keeps the invariant.
LEMMA SaverKeepsIInv ==
  ASSUME IInv, NEW w \in Writers, SaverStep(w)
  PROVE  IInv'
<1>1. CASE PrepareFails(w) \/ CreateFails(w)
  BY <1>1, FailEarlyStep DEF PrepareFails, CreateFails, Before
<1>2. CASE WriteFails(w) \/ SyncFails(w) \/ LinkFails(w) \/ FlushFails(w)
  BY <1>2, FailStep DEF WriteFails, SyncFails, LinkFails, FlushFails,
                        CannotPublish, Exclusive, Failure
<1>3. CASE Interrupt(w)
  <2>1. CASE pc[w] \in Before /\ FailEarly(w, pc[w])
    BY <2>1, FailEarlyStep
  <2>2. CASE pc[w] \in Active \ Before /\ Fail(w, pc[w], {"interrupted"})
    BY <2>2, FailStep DEF Active, Exclusive, Failure
  <2> QED BY <1>3, <2>1, <2>2 DEF Interrupt
<1> QED
  BY <1>1, <1>2, <1>3, LocalSteps, CreateStep, EditStep, PublishStep, EndStep
  DEF SaverStep, SaverRuns

\* No question and no answer of a reader changes the store.
LEMMA ReadsKeepStore ==
  ASSUME NEW r \in Readers,
         \/ \E id \in Ids : Get(r, id)
         \/ \E x \in SUBSET Records, n \in Limits : Query(r, x, n)
         \/ Scan(r) \/ NotFound(r) \/ ReadRecord(r) \/ ReadCorrupt(r)
         \/ ReadFails(r) \/ Answer(r)
  PROVE  UNCHANGED <<directory, savers, losses>>
BY DEF Get, Query, Ask, Scan, NotFound, ReadRecord, ReadCorrupt, ReadFails,
       Answer, Reply

\* What a step is, for the invariant and for the refinement.
LEMMA StepKinds ==
  ASSUME [Next]_vars
  PROVE  \/ UNCHANGED <<directory, savers, losses>>
         \/ \E w \in Writers : SaverStep(w) \/ Kill(w) \/ \E x \in Records : Save(w, x)
         \/ PowerLoss
         \/ \E id \in Ids : Damage(id)
<1>1. CASE UNCHANGED vars
  BY <1>1 DEF vars
<1>2. CASE Next
  <2>1. \A s \in Sessions : {x \in Records : x.session = s} \in SUBSET Records
    OBVIOUS
  <2> QED BY <1>2, <2>1, ReadsKeepStore DEF Next
<1> QED BY <1>1, <1>2

\* Every step keeps the invariant.
LEMMA NextIInv == IInv /\ [Next]_vars => IInv'
<1> SUFFICES ASSUME IInv, [Next]_vars PROVE IInv'
  OBVIOUS
<1>1. CASE UNCHANGED <<directory, savers, losses>>
  BY <1>1, ReadersKeepIInv
<1>2. ASSUME NEW w \in Writers, SaverStep(w) \/ Kill(w) \/ \E x \in Records : Save(w, x)
      PROVE  IInv'
  BY <1>2, SaverKeepsIInv, EndStep, SaveStep
<1> QED BY <1>1, <1>2, PowerLossStep, DamageStep, StepKinds

\* The invariant holds in every reachable state.
LEMMA SpecIInv == Spec => []IInv
BY InitIInv, NextIInv, PTL DEF Spec

\* Types are kept, whatever fails.
THEOREM TypeCorrect == Spec => []TypeOK
<1>1. IInv => TypeOK
  BY DEF IInv
<1> QED BY <1>1, SpecIInv, PTL

\* A save that returned normally has its record on the disk for good: no
\* other saver replaces it, and no loss of power removes it.
THEOREM AcknowledgedIsDurable == Spec => []AcknowledgedDurable
<1>1. IInv => AcknowledgedDurable
  BY DEF IInv
<1> QED BY <1>1, SpecIInv, PTL

\* A save refused as a duplicate, or for an unsupported file system, has
\* published nothing.
THEOREM RefusedIsUnpublished == Spec => []RefusedPublishesNothing
<1>1. IInv => RefusedPublishesNothing
  BY DEF IInv
<1> QED BY <1>1, SpecIInv, PTL

-----------------------------------------------------------------------------
(* The repository implements the append-only store. *)

\* A name leads to its record, whole, or nowhere.
NamesLeadToRecords ==
  \A id \in Ids :
    /\ StoredRecord(id) = IF target[id] = 0 THEN NoRecord ELSE inodes[target[id]].record
    /\ StoredRecord(id) = NoRecord <=> id \notin Visible

\* Under the invariant every published name leads to its own record.
LEMMA NamesLead == IInv => NamesLeadToRecords
<1> SUFFICES ASSUME IInv PROVE NamesLeadToRecords
  OBVIOUS
<1>1. \A x \in Records : x # NoRecord
  <2> SUFFICES ASSUME NEW x \in Records PROVE x # NoRecord
    OBVIOUS
  <2>1. DOMAIN x = {"id", "session", "completed_at"}
    BY RepositoryAssumption
  <2>2. DOMAIN NoRecord = {"id"}
    BY DEF NoRecord
  <2> QED BY <2>1, <2>2
<1>2. \A id \in Visible : inodes[target[id]].record \in Records
  <2> SUFFICES ASSUME NEW id \in Visible PROVE inodes[target[id]].record \in Records
    OBVIOUS
  <2>1. inodes \in Seq(Inode) /\ target[id] \in DOMAIN inodes
    BY DEF IInv, TypeOK, Visible
  <2>2. inodes[target[id]] \in Inode
    BY <2>1
  <2> QED BY <2>2 DEF Inode
<1> QED
  BY <1>1, <1>2 DEF IInv, PublishedInv, StoredRecord, Visible, NamesLeadToRecords

\* The same after a step.
LEMMA NamesStillLead == IInv' => NamesLeadToRecords'
BY NamesLead, PTL

\* The records of existing files never change, and names lead to files.
LEMMA RecordsKept ==
  ASSUME IInv, NEW w \in Writers, SaverStep(w) \/ Kill(w) \/ \E x \in Records : Save(w, x)
  PROVE  \A n \in DOMAIN inodes : inodes'[n].record = inodes[n].record
<1>1. inodes \in Seq(Inode)
  BY DEF IInv, TypeOK
<1>2. CASE Create(w)
  BY <1>1, <1>2 DEF Create
<1>3. CASE Write(w)
  <2>1. PICK b : inodes' = [inodes EXCEPT ![file[w]].bytes = b]
    BY <1>3 DEF Write
  <2> QED BY <1>1, <2>1
<1>4. CASE Sync(w)
  BY <1>1, <1>4 DEF Sync
<1>5. CASE ~ Create(w) /\ ~ Write(w) /\ ~ Sync(w)
  BY <1>5 DEF SaverStep, SaverRuns, Kill, Save, Prepare, PrepareFails, CreateFails, Secure,
     SecureFails, Written, WriteFails, SyncFails, Publish, Duplicate, LinkFails,
     Flush, FlushFails, Interrupt, Release, Fail, FailEarly, directory
<1> QED BY <1>2, <1>3, <1>4, <1>5

\* Same names, same records: a step that keeps both stutters.
LEMMA SameStore ==
  ASSUME IInv, IInv', target' = target,
         \A n \in DOMAIN inodes : inodes'[n].record = inodes[n].record
  PROVE  \A id \in Ids : StoredRecord(id)' = StoredRecord(id)
<1>1. \A id \in Ids : target[id] # 0 => target[id] \in DOMAIN inodes
  BY DEF IInv, TypeOK
<1> QED BY <1>1, NamesLead, NamesStillLead DEF NamesLeadToRecords

\* Only synchronization makes names permanent, and it does so for all.
LEMMA FlushKinds ==
  ASSUME NEW w \in Writers, SaverStep(w) \/ Kill(w) \/ \E x \in Records : Save(w, x)
  PROVE  /\ flushed' \in {flushed, Visible}
         /\ Publish(w) \/ target' = target
         /\ Publish(w) => flushed' = flushed
BY DEF SaverStep, SaverRuns, Kill, Save, Prepare, PrepareFails, Create, CreateFails, Secure,
   SecureFails, Write, Written, WriteFails, Sync, SyncFails, Publish, Duplicate,
   LinkFails, Flush, FlushFails, Interrupt, Release, Fail, FailEarly, directory

StoreVars == <<[id \in Ids |-> StoredRecord(id)], flushed>>

\* Every step of a saver is a step of the store or leaves it alone.
LEMMA SaverRefines ==
  ASSUME IInv, IInv', NEW w \in Writers,
         SaverStep(w) \/ Kill(w) \/ \E x \in Records : Save(w, x)
  PROVE  Store!Next \/ UNCHANGED StoreVars
<1>1. Visible = Store!Present
  BY NamesLead DEF NamesLeadToRecords, Store!Present, Visible
<1>2. CASE target' = target
  <2>1. \A id \in Ids : StoredRecord(id)' = StoredRecord(id)
    BY <1>2, RecordsKept, SameStore
  <2>2. [id \in Ids |-> StoredRecord(id)]' = [id \in Ids |-> StoredRecord(id)]
    BY <2>1
  <2>3. CASE flushed' = flushed
    BY <2>2, <2>3 DEF StoreVars
  <2>4. CASE flushed' = Visible
    BY <1>1, <2>2, <2>4 DEF Store!Next, Store!Keep
  <2> QED BY <2>3, <2>4, FlushKinds
<1>3. CASE Publish(w)
  <2>1. /\ saving[w] \in Records /\ saving[w].id \in Ids
        /\ target[saving[w].id] = 0 /\ file[w] # 0
        /\ inodes[file[w]].record = saving[w]
        /\ target' = [target EXCEPT ![saving[w].id] = file[w]]
        /\ UNCHANGED <<inodes, flushed>>
    BY <1>3, RepositoryAssumption DEF Publish, Go, IInv, TypeOK, OwnFileInv, Before
  <2>2. \A id \in Ids : StoredRecord(id)' =
                         IF id = saving[w].id THEN saving[w] ELSE StoredRecord(id)
    <3>1. \A id \in Ids : target'[id] = IF id = saving[w].id THEN file[w] ELSE target[id]
      BY <2>1 DEF IInv, TypeOK
    <3>2. NamesLeadToRecords /\ NamesLeadToRecords'
      BY NamesLead, NamesStillLead
    <3>3. \A id \in Ids : StoredRecord(id)' = IF target'[id] = 0 THEN NoRecord
                                             ELSE inodes[target'[id]].record
      BY <2>1, <3>2 DEF NamesLeadToRecords
    <3>4. \A id \in Ids : StoredRecord(id) = IF target[id] = 0 THEN NoRecord
                                            ELSE inodes[target[id]].record
      BY <3>2 DEF NamesLeadToRecords
    <3> QED BY <2>1, <3>1, <3>3, <3>4
  <2>3. StoredRecord(saving[w].id) = NoRecord
    BY <2>1, NamesLead DEF NamesLeadToRecords
  <2>4. [id \in Ids |-> StoredRecord(id)]' =
          [[id \in Ids |-> StoredRecord(id)] EXCEPT ![saving[w].id] = saving[w]]
    BY <2>2
  <2>5. Store!Append(saving[w])
    BY <2>1, <2>3, <2>4 DEF Store!Append
  <2> QED BY <2>1, <2>5 DEF Store!Next
<1> QED BY <1>2, <1>3, FlushKinds

\* A loss of power maps to Lose of the names it takes.
LEMMA PowerLossRefines ==
  ASSUME IInv, IInv', PowerLoss
  PROVE  Store!Next
<1>1. PICK kept \in SUBSET Visible :
        /\ flushed \subseteq kept
        /\ target' = [id \in Ids |-> IF id \in kept THEN target[id] ELSE 0]
  BY DEF PowerLoss
<1>2. \A n \in DOMAIN inodes : inodes'[n].record = inodes[n].record
  BY DEF PowerLoss, IInv, TypeOK
<1>3. \A id \in Ids : target[id] # 0 => target[id] \in DOMAIN inodes
  BY DEF IInv, TypeOK
<1> DEFINE lost == Ids \ kept
<1>4. \A id \in Ids : StoredRecord(id)' =
                       IF id \in lost THEN NoRecord ELSE StoredRecord(id)
  BY <1>1, <1>2, <1>3, NamesLead, NamesStillLead DEF NamesLeadToRecords, Visible
<1>5. [id \in Ids |-> StoredRecord(id)]' =
        [id \in Ids |-> IF id \in lost THEN NoRecord
                        ELSE [i \in Ids |-> StoredRecord(i)][id]]
  BY <1>4
<1>6. lost \in SUBSET Ids /\ lost \cap flushed = {} /\ flushed' = flushed
  BY <1>1 DEF PowerLoss
<1>7. Store!Lose(lost)
  BY <1>5, <1>6 DEF Store!Lose
<1> QED BY <1>6, <1>7 DEF Store!Next

\* The repository implements the append-only store: whatever savers, failures
\* and losses of power do, a stored record is never replaced or changed, and
\* a permanent one never removed.
THEOREM RepositoryIsAppendOnly == Spec => StoreSpec
<1>1. Init => Store!Init
  BY DEF Init, Store!Init, StoredRecord
<1>2. IInv /\ IInv' /\ [Next]_vars => [Store!Next]_StoreVars
  <2> SUFFICES ASSUME IInv, IInv', [Next]_vars
               PROVE  Store!Next \/ UNCHANGED StoreVars
    OBVIOUS
  <2>1. CASE UNCHANGED <<directory, savers, losses>>
    BY <2>1 DEF directory, StoreVars, StoredRecord
  <2>2. ASSUME NEW d \in Ids, Damage(d) PROVE UNCHANGED StoreVars
    <3>1. \A n \in DOMAIN inodes : inodes'[n].record = inodes[n].record
      BY <2>2 DEF Damage, IInv, TypeOK
    <3>2. \A id \in Ids : StoredRecord(id)' = StoredRecord(id)
      BY <2>2, <3>1, SameStore DEF Damage
    <3> QED BY <2>2, <3>2 DEF Damage, StoreVars
  <2> QED BY <2>1, <2>2, SaverRefines, PowerLossRefines, StepKinds
<1> QED BY <1>1, <1>2, SpecIInv, PTL DEF Spec, StoreSpec, Store!Spec, StoreVars

-----------------------------------------------------------------------------
(* The order of an answer. *)

\* Records of one store: their ids tell them apart.
Distinct(S) == S \subseteq Records /\ \A a, b \in S : a.id = b.id => a = b

\* The order of answers is a strict total order on them.
LEMMA NewestFirstTotal ==
  ASSUME NEW S, Distinct(S)
  PROVE  /\ \A a \in S : ~ NewestFirst(a, a)
         /\ \A a, b \in S : a # b => NewestFirst(a, b) \/ NewestFirst(b, a)
         /\ \A a, b, c \in S : NewestFirst(a, b) /\ NewestFirst(b, c) => NewestFirst(a, c)
<1>1. \A a \in S : a.id \in Nat /\ a.completed_at \in Nat
  BY RepositoryAssumption DEF Distinct
<1> QED BY <1>1 DEF Distinct, NewestFirst

\* What comes earlier has the smaller place.
LEMMA PlaceMonotonic ==
  ASSUME NEW S, IsFiniteSet(S), Distinct(S), NEW a \in S, NEW b \in S, NewestFirst(a, b)
  PROVE  Place(S, a) < Place(S, b)
<1> DEFINE A == {y \in S : NewestFirst(y, a)}
           B == {y \in S : NewestFirst(y, b)}
<1>1. A \in SUBSET B /\ a \in B /\ a \notin A
  BY NewestFirstTotal
<1>2. IsFiniteSet(B)
  BY FS_Subset
<1>3. IsFiniteSet(A) /\ Cardinality(A) <= Cardinality(B) /\ Cardinality(A) # Cardinality(B)
  BY <1>1, <1>2, FS_Subset
<1>4. Cardinality(A) \in Nat /\ Cardinality(B) \in Nat
  BY <1>2, <1>3, FS_CardinalityType
<1> QED BY <1>3, <1>4 DEF Place

\* Every place below the number of records is taken by exactly one of them.
LEMMA PlacesTaken ==
  ASSUME NEW S, IsFiniteSet(S), Distinct(S)
  PROVE  /\ Cardinality(S) \in Nat
         /\ \A x \in S : Place(S, x) \in 0 .. Cardinality(S) - 1
         /\ \A x, y \in S : Place(S, x) = Place(S, y) => x = y
         /\ \A i \in 0 .. Cardinality(S) - 1 : \E x \in S : Place(S, x) = i
<1> DEFINE k == Cardinality(S)
           places == 0 .. k - 1
           f == [x \in S |-> Place(S, x)]
<1>1. k \in Nat
  BY FS_CardinalityType
<1>2. \A x \in S : Place(S, x) \in places
  <2> SUFFICES ASSUME NEW x \in S PROVE Place(S, x) \in places
    OBVIOUS
  <2> DEFINE before == {y \in S : NewestFirst(y, x)}
  <2>1. before \in SUBSET S /\ x \notin before
    BY NewestFirstTotal
  <2>2. IsFiniteSet(before) /\ Cardinality(before) <= k /\ Cardinality(before) # k
    BY <2>1, FS_Subset
  <2>3. Cardinality(before) \in Nat
    BY <2>2, FS_CardinalityType
  <2>4. Place(S, x) = Cardinality(before)
    BY DEF Place
  <2> HIDE DEF before
  <2> QED BY <1>1, <2>2, <2>3, <2>4
<1>3. \A x, y \in S : Place(S, x) = Place(S, y) => x = y
  <2> SUFFICES ASSUME NEW x \in S, NEW y \in S, Place(S, x) = Place(S, y), x # y
               PROVE FALSE
    OBVIOUS
  <2>1. Place(S, x) \in Int /\ Place(S, y) \in Int
    BY <1>1, <1>2
  <2>2. NewestFirst(x, y) \/ NewestFirst(y, x)
    BY NewestFirstTotal
  <2>3. Place(S, x) < Place(S, y) \/ Place(S, y) < Place(S, x)
    BY <2>2, PlaceMonotonic
  <2> QED BY <2>1, <2>3
<1>4. IsFiniteSet(places) /\ Cardinality(places) = k
  <2> HIDE DEF k
  <2>1. IsFiniteSet(places) /\ Cardinality(places) = IF 0 > k - 1 THEN 0 ELSE k - 1 - 0 + 1
    BY <1>1, FS_Interval
  <2> QED BY <1>1, <2>1
<1>5. f \in Injection(S, places)
  <2>1. f \in [S -> places]
    BY <1>2
  <2>2. \A a, b \in S : f[a] = f[b] => a = b
    BY <1>3
  <2> HIDE DEF f, places
  <2> QED BY <2>1, <2>2, Fun_IsInj
<1>6. f \in Surjection(S, places)
  <2> HIDE DEF f, places
  <2> QED BY <1>4, <1>5, FS_Injection
<1>7. \A i \in places : \E x \in S : f[x] = i
  <2> HIDE DEF f, places
  <2> QED BY <1>6, Fun_SurjectionProperties
<1> QED BY <1>1, <1>2, <1>3, <1>7

\* An answer leaves a record out only when its limit is filled with records
\* that come before it.
LEMMA SelectedLeavesOutOnlyLater ==
  ASSUME NEW S, IsFiniteSet(S), Distinct(S), NEW n \in Nat, NEW x \in S
  PROVE  LET got == Range(Selected(S, n))
         IN \/ x \in got
            \/ Len(Selected(S, n)) = n /\ \A y \in got : NewestFirst(y, x)
<1> DEFINE k == Cardinality(S)
           m == IF k < n THEN k ELSE n
           At(i) == CHOOSE z \in S : Place(S, z) = i - 1
           answers == [i \in 1 .. m |-> At(i)]
<1>1. /\ k \in Nat /\ m \in Nat /\ m <= k
      /\ Selected(S, n) = answers
  BY PlacesTaken DEF Selected
<1>2. Len(answers) = m /\ DOMAIN answers = 1 .. m
  <2> HIDE DEF m, At
  <2> QED BY <1>1
<1>3. \A i \in 1 .. m : At(i) \in S /\ Place(S, At(i)) = i - 1
  <2> SUFFICES ASSUME NEW i \in 1 .. m PROVE At(i) \in S /\ Place(S, At(i)) = i - 1
    OBVIOUS
  <2>1. i - 1 \in 0 .. k - 1
    <3> HIDE DEF k
    <3> QED BY <1>1
  <2>2. \E z \in S : Place(S, z) = i - 1
    BY <2>1, PlacesTaken
  <2> QED BY <2>2
<1>4. Place(S, x) \in 0 .. k - 1
  BY PlacesTaken
<1>5. CASE Place(S, x) < n
  <2> DEFINE i == Place(S, x) + 1
  <2>1. i \in 1 .. m /\ Place(S, x) = i - 1
    <3> HIDE DEF k
    <3> QED BY <1>1, <1>4, <1>5
  <2>2. At(i) = x
    BY <1>3, <2>1, PlacesTaken
  <2>3. answers[i] = x
    BY <2>1, <2>2
  <2> QED BY <1>1, <1>2, <2>1, <2>3 DEF Range
<1>6. CASE ~ Place(S, x) < n
  <2>1. m = n
    <3> HIDE DEF k
    <3> QED BY <1>1, <1>4, <1>6
  <2>2. \A y \in Range(answers) : NewestFirst(y, x)
    <3> SUFFICES ASSUME NEW i \in 1 .. m PROVE NewestFirst(At(i), x)
      BY <1>2 DEF Range
    <3>1. At(i) \in S /\ Place(S, At(i)) = i - 1
      BY <1>3
    <3>2. i - 1 < Place(S, x)
      <4> HIDE DEF k, m
      <4> QED BY <1>1, <1>4, <1>6, <2>1
    <3>3. i - 1 \in Int /\ Place(S, x) \in Int
      BY <1>1, <1>4
    <3>4. ~ NewestFirst(x, At(i)) /\ x # At(i)
      <4> HIDE DEF At
      <4> QED BY <3>1, <3>2, <3>3, PlaceMonotonic
    <3> HIDE DEF At
    <3> QED BY <3>1, <3>4, NewestFirstTotal
  <2> QED BY <1>1, <1>2, <2>1, <2>2
<1> QED BY <1>5, <1>6

-----------------------------------------------------------------------------
(* What a reader may rely on. *)

\* Published names keep leading to their records, and damage stays.
StoreKept ==
  \A id \in Visible :
    /\ target'[id] = target[id]
    /\ inodes'[target[id]].record = inodes[target[id]].record
    /\ inodes[target[id]].bytes = "torn" => inodes'[target[id]].bytes = "torn"

\* A saver edits no published file.
LEMMA SaversKeepStore ==
  ASSUME IInv, NEW w \in Writers, SaverStep(w) \/ Kill(w) \/ \E x \in Records : Save(w, x)
  PROVE  StoreKept
<1>1. inodes \in Seq(Inode) /\ \A id \in Visible : target[id] \in DOMAIN inodes
  BY DEF IInv, TypeOK, Visible
<1>2. \A id \in Visible : inodes'[target[id]].record = inodes[target[id]].record
  BY <1>1, RecordsKept
<1>3. \A id \in Visible : target'[id] = target[id]
  BY FlushKinds DEF Publish, Visible, IInv, TypeOK
<1>4. \A id \in Visible : inodes'[target[id]].bytes = inodes[target[id]].bytes
  <2>1. CASE Create(w)
    BY <1>1, <2>1 DEF Create
  <2>2. CASE Write(w)
    <3>1. PICK b : inodes' = [inodes EXCEPT ![file[w]].bytes = b]
      BY <2>2 DEF Write
    <3>2. \A id \in Visible : target[id] # file[w]
      BY <2>2 DEF Write, IInv, OwnFileInv, Exclusive, Visible
    <3> QED BY <1>1, <3>1, <3>2
  <2>3. CASE Sync(w)
    <3>1. \A id \in Visible : target[id] # file[w]
      BY <2>3 DEF Sync, Go, IInv, OwnFileInv, Exclusive, Visible
    <3> QED BY <1>1, <2>3, <3>1 DEF Sync
  <2>4. CASE ~ Create(w) /\ ~ Write(w) /\ ~ Sync(w)
    BY <2>4 DEF SaverStep, SaverRuns, Kill, Save, Prepare, PrepareFails, CreateFails, Secure,
       SecureFails, Written, WriteFails, SyncFails, Publish, Duplicate, LinkFails,
       Flush, FlushFails, Interrupt, Release, Fail, FailEarly, directory
  <2> QED BY <2>1, <2>2, <2>3, <2>4
<1> QED BY <1>2, <1>3, <1>4 DEF StoreKept

\* Damage from outside spoils bytes only.
LEMMA DamageKeepsStore ==
  ASSUME IInv, NEW d \in Ids, Damage(d)
  PROVE  StoreKept
<1>1. inodes \in Seq(Inode) /\ \A id \in Visible : target[id] \in DOMAIN inodes
  BY DEF IInv, TypeOK, Visible
<1>2. \A n \in DOMAIN inodes : inodes[n] \in Inode
  BY <1>1
<1> QED BY <1>1, <1>2 DEF Damage, StoreKept, Inode

\* What is stored stays stored.
LEMMA StoredStays ==
  ASSUME IInv, StoreKept
  PROVE  /\ Visible \subseteq Visible'
         /\ \A x \in Records : Stored(x) => Stored(x)'
BY DEF StoreKept, Stored, Visible

\* A step that leaves the readers alone and keeps the store.
LEMMA OthersKeepReaders ==
  ASSUME IInv, ReadersInv, StoreKept, UNCHANGED readers
  PROVE  ReadersInv'
<1>0. UNCHANGED <<rpc, scope, limit, todo, found, answer, owed>>
  BY DEF readers
<1>1. ReadersTypeOK'
  BY <1>0 DEF ReadersInv, ReadersTypeOK
<1>2. TodoInv'
  BY <1>0, StoredStays DEF ReadersInv, TodoInv, Matching, RecordEntry
<1>3. FoundInv'
  BY <1>0, StoredStays DEF ReadersInv, ReadersTypeOK, FoundInv
<1>4. OwedInv'
  BY <1>0, StoredStays DEF ReadersInv, ReadersTypeOK, OwedInv
<1>5. NoFalseCorruption'
  BY <1>0, StoredStays DEF ReadersInv, NoFalseCorruption, StoreKept
<1>6. NothingAcknowledgedMissed'
  BY <1>0 DEF ReadersInv, NothingAcknowledgedMissed
<1> QED BY <1>1, <1>2, <1>3, <1>4, <1>5, <1>6 DEF ReadersInv

\* A loss of power ends every read.
LEMMA PowerLossEndsReads ==
  ASSUME ReadersInv, PowerLoss
  PROVE  ReadersInv'
<1>1. /\ rpc' = [r \in Readers |-> "idle"]
      /\ answer' = [r \in Readers |-> NoAnswer]
      /\ owed' = [r \in Readers |-> {}]
      /\ UNCHANGED <<scope, limit, todo, found>>
  BY DEF PowerLoss
<1>2. ReadersTypeOK'
  BY <1>1 DEF ReadersInv, ReadersTypeOK
<1>3. TodoInv' /\ FoundInv' /\ OwedInv'
  BY <1>1 DEF TodoInv, FoundInv, OwedInv
<1>4. NoFalseCorruption' /\ NothingAcknowledgedMissed'
  BY <1>1 DEF NoFalseCorruption, NothingAcknowledgedMissed, NoAnswer, Unset
<1> QED BY <1>2, <1>3, <1>4 DEF ReadersInv

\* The invariant speaks of one reader at a time: a step of one leaves what it
\* says of the others alone.
ReaderInv(r) ==
  /\ rpc[r] \in {"scan", "read"} =>
       Matching(todo[r]) \subseteq {RecordEntry(id) : id \in Visible}
  /\ rpc[r] = "read" => Matching(todo[r]) = todo[r]
  /\ rpc[r] # "idle" =>
       /\ IsFiniteSet(found[r]) /\ \A x \in found[r] : Stored(x)
       /\ \A x \in owed[r] : x \in scope[r] /\ Stored(x)
  /\ rpc[r] = "scan" => \A x \in owed[r] : RecordEntry(x.id) \in todo[r]
  /\ rpc[r] = "read" => \A x \in owed[r] : RecordEntry(x.id) \in todo[r] \/ x \in found[r]
  /\ rpc[r] = "missing" => owed[r] = {}
  /\ answer[r].status = "corrupt_data" =>
       \E id \in Visible : inodes[target[id]].bytes = "torn"
  /\ answer[r].status \in {"records", "record_not_found"} =>
       \A x \in owed[r] :
         \/ x \in Range(answer[r].records)
         \/ /\ Len(answer[r].records) = limit[r]
            /\ \A y \in Range(answer[r].records) : NewestFirst(y, x)

LEMMA ReadersInvByReader ==
  ReadersInv <=> ReadersTypeOK /\ \A r \in Readers : ReaderInv(r)
BY DEF ReadersInv, TodoInv, FoundInv, OwedInv, NoFalseCorruption,
       NothingAcknowledgedMissed, ReaderInv

\* Everything acknowledged is in the store.
LEMMA AcknowledgedStored == IInv => \A x \in Acknowledged : x \in Records /\ Stored(x)
<1> SUFFICES ASSUME IInv, NEW n \in acknowledged
             PROVE  inodes[n].record \in Records /\ Stored(inodes[n].record)
  BY DEF Acknowledged
<1>1. inodes \in Seq(Inode) /\ n \in DOMAIN inodes
  BY DEF IInv, TypeOK
<1>2. inodes[n] \in Inode /\ n # 0
  BY <1>1
<1> QED
  BY <1>2, RepositoryAssumption DEF IInv, AcknowledgedDurable, Stored, Visible, Inode

\* A step of reader r that keeps the store keeps the invariant when it keeps
\* what the invariant says of r.
LEMMA OneReaderSteps ==
  ASSUME IInv, ReadersInv, NEW r \in Readers, UNCHANGED <<directory, savers, losses>>,
         ReadersTypeOK', ReaderInv(r)',
         \A q \in Readers : q # r =>
           /\ rpc'[q] = rpc[q] /\ scope'[q] = scope[q] /\ limit'[q] = limit[q]
           /\ todo'[q] = todo[q] /\ found'[q] = found[q] /\ answer'[q] = answer[q]
           /\ owed'[q] = owed[q]
  PROVE  ReadersInv'
<1>1. inodes' = inodes /\ target' = target
  BY DEF directory
<1>2. Visible' = Visible /\ \A x : Stored(x)' <=> Stored(x)
  BY <1>1 DEF Visible, Stored
<1>3. ASSUME NEW q \in Readers, q # r
      PROVE  ReaderInv(q)'
  <2>1. ReaderInv(q)
    BY ReadersInvByReader
  <2> QED BY <1>1, <1>2, <1>3, <2>1 DEF ReaderInv, Matching, RecordEntry
<1>4. \A q \in Readers : ReaderInv(q)'
  BY <1>3
<1> QED
  BY <1>4 DEF ReadersInv, TodoInv, FoundInv, OwedInv, NoFalseCorruption,
              NothingAcknowledgedMissed, ReaderInv

\* A question begins: what it owes is in the store, and it will come to it.
LEMMA AskStep ==
  ASSUME IInv, ReadersInv, NEW r \in Readers,
         \/ \E id \in Ids : Get(r, id)
         \/ \E records \in SUBSET Records, n \in Limits : Query(r, records, n)
  PROVE  ReadersInv'
<1>1. PICK at \in {"scan", "read", "missing"}, records \in SUBSET Records, n \in Nat \ {0} :
        /\ Ask(r, at, records, n)
        /\ todo' = [todo EXCEPT ![r] = todo'[r]]
        /\ \A e \in todo'[r] : e \in Entries
        /\ at = "scan" => todo'[r] = Entries
        /\ at # "scan" =>
             \E id \in Ids : /\ at = "missing" <=> target[id] = 0
                             /\ records = {x \in Records : x.id = id}
                             /\ todo'[r] = {RecordEntry(id)} \cap Entries
  <2>1. r \in DOMAIN todo
    BY DEF ReadersInv, ReadersTypeOK
  <2>2. CASE \E id \in Ids : Get(r, id)
    BY <2>1, <2>2 DEF Get
  <2>3. CASE \E records \in SUBSET Records, n \in Limits : Query(r, records, n)
    BY <2>1, <2>3, RepositoryAssumption DEF Query
  <2> QED BY <2>2, <2>3
<1>2. /\ UNCHANGED <<directory, savers, losses>>
      /\ rpc' = [rpc EXCEPT ![r] = at] /\ scope' = [scope EXCEPT ![r] = records]
      /\ limit' = [limit EXCEPT ![r] = n] /\ answer' = [answer EXCEPT ![r] = NoAnswer]
      /\ found' = [found EXCEPT ![r] = {}]
      /\ owed' = [owed EXCEPT ![r] = Acknowledged \cap records]
  BY <1>1 DEF Ask
<1>3. ReadersTypeOK'
  BY <1>1, <1>2 DEF ReadersInv, ReadersTypeOK
<1>4. /\ rpc'[r] = at /\ scope'[r] = records /\ answer'[r] = NoAnswer
      /\ found'[r] = {} /\ owed'[r] = Acknowledged \cap records
  BY <1>2 DEF ReadersInv, ReadersTypeOK
<1>5. /\ Visible' = Visible /\ \A x : Stored(x)' <=> Stored(x)
  BY <1>2 DEF Visible, Stored, directory
<1>6. \A x \in Acknowledged : Stored(x) /\ RecordEntry(x.id) \in Entries /\ target[x.id] # 0
  BY AcknowledgedStored DEF Stored, Visible, Entries
<1>7. Matching(todo'[r]) \subseteq {RecordEntry(id) : id \in Visible}
  BY <1>1 DEF Matching, Entries, RecordEntry, TempEntry
<1>8. at = "read" => Matching(todo'[r]) = todo'[r]
  BY <1>1 DEF Matching, RecordEntry
<1>9. \A x \in owed'[r] : at \in {"scan", "read"} => RecordEntry(x.id) \in todo'[r]
  BY <1>1, <1>4, <1>6
<1>10. at = "missing" => owed'[r] = {}
  BY <1>1, <1>4, <1>6
<1>11. ReaderInv(r)'
  <2>1. IsFiniteSet(found'[r]) /\ \A x \in found'[r] : Stored(x)
    BY <1>4, FS_EmptySet
  <2>2. \A x \in owed'[r] : x \in scope'[r] /\ Stored(x)
    BY <1>4, <1>6
  <2>3. answer'[r].status = Unset
    BY <1>4 DEF NoAnswer
  <2> QED
    BY <1>4, <1>5, <1>7, <1>8, <1>9, <1>10, <2>1, <2>2, <2>3
    DEF ReaderInv, Matching, RecordEntry, Unset
<1> QED
  BY <1>1, <1>2, <1>3, <1>11, OneReaderSteps DEF ReadersInv, ReadersTypeOK

\* The scan sees every name that is there before and after it.
LEMMA ScanStep ==
  ASSUME IInv, ReadersInv, NEW r \in Readers, Scan(r)
  PROVE  ReadersInv'
<1>1. PICK seen \in SUBSET (todo[r] \cup Entries) :
        /\ todo[r] \cap Entries \subseteq seen
        /\ todo' = [todo EXCEPT ![r] = Matching(seen)]
  BY DEF Scan
<1>2. /\ rpc[r] = "scan" /\ rpc' = [rpc EXCEPT ![r] = "read"]
      /\ UNCHANGED <<directory, savers, losses, scope, limit, found, answer, owed>>
  BY DEF Scan
<1>3. ReadersTypeOK'
  BY <1>1, <1>2 DEF ReadersInv, ReadersTypeOK
<1>4. rpc'[r] = "read" /\ todo'[r] = Matching(seen)
  BY <1>1, <1>2 DEF ReadersInv, ReadersTypeOK
<1>5. ReaderInv(r)
  BY ReadersInvByReader
<1>6. Visible' = Visible /\ inodes' = inodes /\ target' = target
      /\ \A x : Stored(x)' <=> Stored(x)
  BY <1>2 DEF Visible, Stored, directory
<1>7. Matching(todo'[r]) = todo'[r]
  BY <1>4 DEF Matching
<1>8. todo'[r] \subseteq {RecordEntry(id) : id \in Visible}
  BY <1>2, <1>4, <1>5 DEF ReaderInv, Matching, Entries, TempEntry
<1>9. \A x \in owed[r] : RecordEntry(x.id) \in todo'[r]
  <2> SUFFICES ASSUME NEW x \in owed[r] PROVE RecordEntry(x.id) \in Matching(seen)
    BY <1>4
  <2>1. RecordEntry(x.id) \in todo[r] /\ Stored(x)
    BY <1>2, <1>5 DEF ReaderInv
  <2>2. RecordEntry(x.id) \in Entries
    BY <2>1 DEF Stored, Entries
  <2> QED BY <1>1, <2>1, <2>2 DEF Matching, RecordEntry
<1>10. ReaderInv(r)'
  BY <1>2, <1>4, <1>5, <1>6, <1>7, <1>8, <1>9 DEF ReaderInv, Matching, RecordEntry
<1> QED
  BY <1>1, <1>2, <1>3, <1>10, OneReaderSteps DEF ReadersInv, ReadersTypeOK

\* A record read is the one its name stands for.
LEMMA ReadStep ==
  ASSUME IInv, ReadersInv, NEW r \in Readers, ReadRecord(r)
  PROVE  ReadersInv'
<1>1. PICK e \in todo[r] :
        /\ todo' = [todo EXCEPT ![r] = @ \ {e}]
        /\ found' = [found EXCEPT ![r] = @ \cup ({inodes[InodeOf(e)].record} \cap scope[r])]
  BY DEF ReadRecord
<1>2. /\ rpc[r] = "read"
      /\ UNCHANGED <<directory, savers, losses, rpc, scope, limit, answer, owed>>
  BY DEF ReadRecord
<1>3. ReaderInv(r) /\ ReadersTypeOK
  BY ReadersInvByReader
<1>4. PICK id \in Visible : e = RecordEntry(id)
  BY <1>2, <1>3 DEF ReaderInv
<1> DEFINE got == inodes[target[id]].record
<1>5. InodeOf(e) = target[id]
  BY <1>4 DEF InodeOf, RecordEntry
<1>6. Stored(got)
  BY DEF IInv, PublishedInv, Stored
<1>7. todo'[r] = todo[r] \ {e} /\ found'[r] = found[r] \cup ({got} \cap scope[r])
  BY <1>1, <1>3, <1>5 DEF ReadersTypeOK
<1>8. scope[r] \subseteq Records
  BY <1>3 DEF ReadersTypeOK
<1>9. ReadersTypeOK'
  BY <1>1, <1>2, <1>3, <1>5, <1>8 DEF ReadersTypeOK
<1>10. Visible' = Visible /\ inodes' = inodes /\ target' = target
       /\ \A x : Stored(x)' <=> Stored(x)
  BY <1>2 DEF Visible, Stored, directory
<1>11. IsFiniteSet(found'[r])
  <2>1. IsFiniteSet(found[r])
    BY <1>2, <1>3 DEF ReaderInv
  <2>2. found'[r] = found[r] \cup {got} \/ found'[r] = found[r]
    BY <1>7
  <2> HIDE DEF got
  <2>3. IsFiniteSet(found[r] \cup {got})
    BY <2>1, FS_AddElement
  <2> QED BY <2>1, <2>2, <2>3
<1>12. \A x \in found'[r] : Stored(x)
  BY <1>2, <1>3, <1>6, <1>7 DEF ReaderInv
<1>13. \A x \in owed[r] : RecordEntry(x.id) \in todo'[r] \/ x \in found'[r]
  <2> SUFFICES ASSUME NEW x \in owed[r], RecordEntry(x.id) \notin todo'[r]
               PROVE  x \in found'[r]
    OBVIOUS
  <2>1. x \in scope[r] /\ Stored(x) /\ (RecordEntry(x.id) \in todo[r] \/ x \in found[r])
    BY <1>2, <1>3 DEF ReaderInv
  <2>2. CASE x \in found[r]
    BY <1>7, <2>2
  <2>3. CASE RecordEntry(x.id) = e
    <3>1. x.id = id
      BY <1>4, <2>3 DEF RecordEntry
    <3> QED BY <1>7, <2>1, <3>1 DEF Stored
  <2> QED BY <1>7, <2>1, <2>2, <2>3
<1>14. ReaderInv(r)'
  BY <1>2, <1>3, <1>7, <1>10, <1>11, <1>12, <1>13 DEF ReaderInv, Matching, RecordEntry
<1> QED
  BY <1>1, <1>2, <1>9, <1>14, OneReaderSteps, <1>3 DEF ReadersTypeOK

\* Whole or spoilt: no other bytes are published, so corrupt data is damage.
LEMMA CorruptIsTorn ==
  ASSUME IInv, ReadersInv, NEW r \in Readers, rpc[r] = "read",
         NEW e \in todo[r], ~ Whole(e)
  PROVE  \E id \in Visible : inodes[target[id]].bytes = "torn"
<1>1. PICK id \in Visible : e = RecordEntry(id)
  BY DEF ReadersInv, TodoInv
<1>2. InodeOf(e) = target[id]
  BY <1>1 DEF InodeOf, RecordEntry
<1> QED BY <1>2 DEF Whole, IInv, PublishedInv

\* An answer gives all that was found, or as much as the limit allows.
LEMMA AnswerHasAll ==
  ASSUME IInv, ReadersInv, NEW r \in Readers, rpc[r] = "read", todo[r] = {}, NEW x \in owed[r]
  PROVE  LET records == Selected(found[r], limit[r])
         IN \/ x \in Range(records)
            \/ Len(records) = limit[r] /\ \A y \in Range(records) : NewestFirst(y, x)
<1>1. ReaderInv(r) /\ ReadersTypeOK
  BY ReadersInvByReader
<1>2. x \in found[r] /\ IsFiniteSet(found[r]) /\ \A y \in found[r] : Stored(y)
  BY <1>1 DEF ReaderInv
<1>3. Distinct(found[r])
  BY <1>1, <1>2 DEF Distinct, Stored, ReadersTypeOK
<1>4. limit[r] \in Nat
  BY <1>1 DEF ReadersTypeOK
<1> QED BY <1>2, <1>3, <1>4, SelectedLeavesOutOnlyLater

\* A reply ends the read with an answer the store bears out.
LEMMA ReplyStep ==
  ASSUME IInv, ReadersInv, NEW r \in Readers,
         NotFound(r) \/ ReadCorrupt(r) \/ ReadFails(r) \/ Answer(r)
  PROVE  ReadersInv'
<1>1. PICK status, records :
        /\ status \in {"record_not_found", "corrupt_data", "read_failure", "records"}
        /\ Reply(r, status, records)
        /\ rpc[r] # "idle"
        /\ status = "record_not_found" => rpc[r] = "missing"
        /\ status = "corrupt_data" => rpc[r] = "read" /\ \E e \in todo[r] : ~ Whole(e)
        /\ status = "records" =>
             rpc[r] = "read" /\ todo[r] = {} /\ records = Selected(found[r], limit[r])
  <2>1. CASE NotFound(r)
    BY <2>1 DEF NotFound
  <2>2. CASE ReadCorrupt(r)
    BY <2>2 DEF ReadCorrupt
  <2>3. CASE ReadFails(r)
    BY <2>3 DEF ReadFails
  <2>4. CASE Answer(r)
    BY <2>4 DEF Answer
  <2> QED BY <2>1, <2>2, <2>3, <2>4
<1>2. /\ rpc' = [rpc EXCEPT ![r] = "idle"]
      /\ answer' = [answer EXCEPT ![r] = [status |-> status, records |-> records]]
      /\ UNCHANGED <<directory, savers, losses, scope, limit, todo, found, owed>>
  BY <1>1 DEF Reply
<1>3. ReaderInv(r) /\ ReadersTypeOK
  BY ReadersInvByReader
<1>4. ReadersTypeOK'
  BY <1>2, <1>3 DEF ReadersTypeOK
<1>5. /\ rpc'[r] = "idle" /\ answer'[r].status = status /\ answer'[r].records = records
  BY <1>2, <1>3 DEF ReadersTypeOK
<1>6. Visible' = Visible /\ inodes' = inodes /\ target' = target
  BY <1>2 DEF Visible, directory
<1>7. status = "corrupt_data" => \E id \in Visible : inodes[target[id]].bytes = "torn"
  BY <1>1, CorruptIsTorn
<1>8. status \in {"records", "record_not_found"} =>
        \A x \in owed[r] :
          \/ x \in Range(records)
          \/ Len(records) = limit[r] /\ \A y \in Range(records) : NewestFirst(y, x)
  BY <1>1, <1>3, AnswerHasAll DEF ReaderInv
<1>9. ReaderInv(r)'
  BY <1>2, <1>5, <1>6, <1>7, <1>8 DEF ReaderInv
<1> QED
  BY <1>2, <1>3, <1>4, <1>9, OneReaderSteps DEF ReadersTypeOK

\* What readers do in a step.
LEMMA ReaderSteps ==
  ASSUME [Next]_vars
  PROVE  \/ UNCHANGED vars
         \/ UNCHANGED readers
            /\ \/ \E w \in Writers : SaverStep(w) \/ Kill(w) \/ \E x \in Records : Save(w, x)
               \/ \E id \in Ids : Damage(id)
         \/ PowerLoss
         \/ \E r \in Readers :
              \/ \E id \in Ids : Get(r, id)
              \/ \E x \in SUBSET Records, n \in Limits : Query(r, x, n)
              \/ Scan(r) \/ NotFound(r) \/ ReadRecord(r) \/ ReadCorrupt(r)
              \/ ReadFails(r) \/ Answer(r)
<1>1. ASSUME NEW w \in Writers, SaverStep(w) \/ Kill(w) \/ \E x \in Records : Save(w, x)
      PROVE  UNCHANGED readers
  BY <1>1 DEF SaverStep, SaverRuns, Kill, Save, Prepare, PrepareFails, Create, CreateFails,
     Secure, SecureFails, Write, Written, WriteFails, Sync, SyncFails, Publish, Duplicate,
     LinkFails, Flush, FlushFails, Interrupt, Release, Fail, FailEarly
<1>2. \A id \in Ids : Damage(id) => UNCHANGED readers
  BY DEF Damage
<1>3. \A s \in Sessions : {x \in Records : x.session = s} \in SUBSET Records
  OBVIOUS
<1> QED BY <1>1, <1>2, <1>3 DEF Next

LEMMA InitReadersInv == Init => ReadersInv
<1> SUFFICES ASSUME Init PROVE ReadersInv
  OBVIOUS
<1>1. ReadersTypeOK
  BY DEF Init, ReadersTypeOK
<1>2. TodoInv /\ FoundInv /\ OwedInv
  BY DEF Init, TodoInv, FoundInv, OwedInv
<1>3. NoFalseCorruption /\ NothingAcknowledgedMissed
  BY DEF Init, NoFalseCorruption, NothingAcknowledgedMissed, NoAnswer, Unset
<1> QED BY <1>1, <1>2, <1>3 DEF ReadersInv

LEMMA NextReadersInv == IInv /\ ReadersInv /\ [Next]_vars => ReadersInv'
<1> SUFFICES ASSUME IInv, ReadersInv, [Next]_vars PROVE ReadersInv'
  OBVIOUS
<1>1. CASE UNCHANGED vars
  <2>1. StoreKept /\ UNCHANGED readers
    BY <1>1 DEF vars, directory, StoreKept
  <2> QED BY <2>1, OthersKeepReaders
<1>2. CASE UNCHANGED readers
           /\ \/ \E w \in Writers : SaverStep(w) \/ Kill(w) \/ \E x \in Records : Save(w, x)
              \/ \E id \in Ids : Damage(id)
  BY <1>2, SaversKeepStore, DamageKeepsStore, OthersKeepReaders
<1> QED
  BY <1>1, <1>2, PowerLossEndsReads, AskStep, ScanStep, ReadStep, ReplyStep, ReaderSteps

\* What readers rely on holds in every reachable state.
LEMMA SpecReadersInv == Spec => []ReadersInv
BY InitReadersInv, NextReadersInv, SpecIInv, PTL DEF Spec

\* A get or a query reports corrupt data only when somebody outside PMQA has
\* spoilt a published file.
THEOREM NoFalseCorruptionIsReported == Spec => []NoFalseCorruption
<1>1. ReadersInv => NoFalseCorruption
  BY DEF ReadersInv
<1> QED BY <1>1, SpecReadersInv, PTL

\* An answer leaves out an acknowledged record only when its limit is filled
\* with records that come before that one.
THEOREM NothingAcknowledgedIsMissed == Spec => []NothingAcknowledgedMissed
<1>1. ReadersInv => NothingAcknowledgedMissed
  BY DEF ReadersInv
<1> QED BY <1>1, SpecReadersInv, PTL


-----------------------------------------------------------------------------
(* Saves come to an end. *)

LEMMA SaveLeftNat == \A w : SaveLeft(w) \in Nat /\ SaveLeft(w)' \in Nat
BY DEF SaveLeft, Unwritten

\* A saver that is stopped, or goes back to its caller, has nothing left.
LEMMA IdleLeft ==
  ASSUME NEW w \in Writers, IInv, pc'[w] = "idle"
  PROVE  SaveLeft(w)' <= SaveLeft(w) /\ (pc[w] # "idle" => SaveLeft(w)' < SaveLeft(w))
<1>1. SaveLeft(w)' = 0
  BY DEF SaveLeft
<1>2. pc[w] # "idle" => SaveLeft(w) > 0
  BY DEF SaveLeft, Unwritten, IInv, TypeOK, Active, Before, Exclusive
<1> QED BY <1>1, <1>2, SaveLeftNat

\* What a save's measure reads of the state.
LEMMA SameLeft ==
  ASSUME NEW w, pc'[w] = pc[w], file'[w] = file[w], failure'[w] = failure[w],
         pc[w] = "write" => inodes'[file[w]].bytes = inodes[file[w]].bytes
  PROVE  SaveLeft(w)' = SaveLeft(w)
BY DEF SaveLeft, Unwritten

\* The file somebody writes to has been created and is nobody else's.
LEMMA WritersFile ==
  ASSUME IInv, NEW w \in Writers, pc[w] = "write"
  PROVE  /\ file[w] \in DOMAIN inodes
         /\ \A v \in Writers : v # w => file[v] # file[w]
         /\ \A id \in Ids : target[id] # file[w]
<1>1. file[w] # 0 /\ file[w] \in 0 .. Len(inodes) /\ inodes \in Seq(Inode)
  BY DEF IInv, TypeOK, Before
<1>2. DOMAIN inodes = 1 .. Len(inodes) /\ Len(inodes) \in Nat
  BY <1>1
<1> QED BY <1>1, <1>2 DEF IInv, OwnFileInv, Exclusive

LEMMA OwnStepLeft ==
  ASSUME IInv, NEW w \in Writers, SaverStep(w)
  PROVE  SaveLeft(w)' < SaveLeft(w) \/ UNCHANGED vars
<1>1. /\ pc \in [Writers -> Active \cup {"idle"}] /\ failure \in [Writers -> Failure \cup {Unset}]
      /\ inodes \in Seq(Inode)
  BY DEF IInv, TypeOK
<1>2. /\ Go(w, "release", "idle") => pc'[w] = "idle" /\ pc[w] = "release"
      /\ \A at : FailEarly(w, at) => pc'[w] = "idle" /\ pc[w] = at
  BY <1>1 DEF Go, FailEarly
<1>3. CASE Release(w) \/ PrepareFails(w) \/ CreateFails(w)
  BY <1>2, <1>3, IdleLeft DEF Release, PrepareFails, CreateFails, Active, Before, Exclusive
<1>4. CASE Prepare(w) \/ Create(w) \/ Sync(w) \/ Publish(w) \/ Written(w)
  BY <1>1, <1>4 DEF Prepare, Create, Sync, Publish, Written, Go, SaveLeft, Unwritten, Active, Before, Exclusive
<1>5. CASE Secure(w)
  BY <1>1, <1>5 DEF Secure, Go, SaveLeft, Unwritten, directory
<1>6. CASE Write(w)
  <2>1. PICK b \in IF inodes[file[w]].bytes = "none" THEN {"part", "all"} ELSE {"all"} :
          inodes' = [inodes EXCEPT ![file[w]].bytes = b]
    BY <1>6 DEF Write
  <2>2. file[w] \in DOMAIN inodes
    BY <1>6, WritersFile DEF Write
  <2>3. inodes[file[w]] \in Inode
    BY <1>1, <2>2
  <2>4. inodes'[file[w]].bytes = b
    BY <2>1, <2>2, <2>3 DEF Inode
  <2>5. pc[w] = "write" /\ inodes[file[w]].bytes # "all" /\ UNCHANGED <<pc, file>>
    BY <1>6 DEF Write, savers
  <2>6. Unwritten(file[w])' < Unwritten(file[w])
    BY <2>1, <2>4, <2>5 DEF Unwritten
  <2> QED BY <2>5, <2>6 DEF SaveLeft, Unwritten
<1>7. CASE Duplicate(w) \/ Flush(w) \/ SecureFails(w)
  BY <1>1, <1>7 DEF Duplicate, Flush, SecureFails, Go, SaveLeft, Unwritten
<1>8. CASE WriteFails(w) \/ SyncFails(w) \/ LinkFails(w) \/ FlushFails(w)
  BY <1>1, <1>8 DEF WriteFails, SyncFails, LinkFails, FlushFails, Fail, Go, SaveLeft, Unwritten
<1>9. CASE Interrupt(w)
  <2>1. CASE pc[w] \in Before /\ FailEarly(w, pc[w])
    BY <1>2, <2>1, IdleLeft DEF Before
  <2>2. CASE pc[w] \in Active \ Before /\ Fail(w, pc[w], {"interrupted"})
    <3>1. /\ pc' = [pc EXCEPT ![w] = "release"] /\ failure' = [failure EXCEPT ![w] = "interrupted"]
          /\ UNCHANGED <<directory, saving, file, identity, acknowledged, losses, readers>>
      BY <2>2 DEF Fail, Go
    <3>2. pc'[w] = "release" /\ failure'[w] = "interrupted"
      BY <1>1, <3>1
    <3>3. SaveLeft(w)' = 1
      BY <3>2 DEF SaveLeft
    <3>4. CASE pc[w] = "release" /\ failure[w] = "interrupted"
      BY <1>1, <3>1, <3>4 DEF vars, savers
    <3>5. CASE pc[w] # "release" \/ failure[w] # "interrupted"
      BY <2>2, <3>3, <3>5 DEF SaveLeft, Unwritten, Active, Before, Exclusive
    <3> QED BY <3>4, <3>5
  <2> QED BY <1>9, <2>1, <2>2 DEF Interrupt
<1> QED
  BY <1>3, <1>4, <1>5, <1>6, <1>7, <1>8, <1>9 DEF SaverStep, SaverRuns

\* A saver's step leaves the other saves where they are.
LEMMA OthersLeft ==
  ASSUME IInv, NEW w \in Writers, NEW v \in Writers, v # w,
         SaverStep(v) \/ Kill(v) \/ \E x \in Records : Save(v, x)
  PROVE  SaveLeft(w)' = SaveLeft(w)
<1> USE DEF SaverStep, SaverRuns, Kill, Save, Prepare, PrepareFails, Create, CreateFails, Secure,
        SecureFails, Write, Written, WriteFails, Sync, SyncFails, Publish, Duplicate, LinkFails,
        Flush, FlushFails, Interrupt, Release, Fail, FailEarly, Forget, Go, directory, savers
<1>1. /\ pc \in [Writers -> Active \cup {"idle"}] /\ failure \in [Writers -> Failure \cup {Unset}]
      /\ file \in [Writers -> 0 .. Len(inodes)] /\ inodes \in Seq(Inode)
  BY DEF IInv, TypeOK
<1>2. pc'[w] = pc[w]
  BY <1>1
<1>3. failure'[w] = failure[w]
  BY <1>1
<1>4. file'[w] = file[w]
  BY <1>1
<1>5. ASSUME pc[w] = "write" PROVE inodes'[file[w]] = inodes[file[w]]
  <2>1. file[w] \in DOMAIN inodes /\ file[v] # file[w]
    BY <1>5, WritersFile
  <2>2. CASE Create(v)
    BY <1>1, <2>1, <2>2
  <2>3. CASE Write(v) \/ Sync(v)
    BY <2>1, <2>3
  <2>4. CASE ~ Create(v) /\ ~ Write(v) /\ ~ Sync(v)
    BY <2>4
  <2> QED BY <2>2, <2>3, <2>4
<1> QED BY <1>2, <1>3, <1>4, <1>5, SameLeft

\* SaveLeft is a natural number, every step of a save takes from it, the loop
\* that writes the payload and an interrupted release included, and nothing
\* else adds to it: no save goes on for ever, whatever fails and however many
\* savers, readers and losses of power there are.
THEOREM SavesEnd == Spec => SavesRunDown
<1>1. IInv /\ [Next]_vars => [SavesGoOn]_vars
  <2> SUFFICES ASSUME IInv, [Next]_vars, ~ UNCHANGED vars, NEW w \in Writers
               PROVE  /\ SaverStep(w) => SaveLeft(w)' < SaveLeft(w)
                      /\ pc[w] # "idle" => SaveLeft(w)' <= SaveLeft(w)
    BY SaveLeftNat DEF SavesGoOn
  <2>1. CASE SaverStep(w)
    BY <2>1, OwnStepLeft, SaveLeftNat
  <2>2. CASE ~ SaverStep(w)
    <3> SUFFICES ASSUME pc[w] # "idle" PROVE SaveLeft(w)' <= SaveLeft(w)
      BY <2>2
    <3>1. SaveLeft(w)' = SaveLeft(w) => SaveLeft(w)' <= SaveLeft(w)
      BY SaveLeftNat
    <3>2. CASE UNCHANGED <<directory, savers, losses>>
      BY <3>1, <3>2, SameLeft DEF directory, savers
    <3>3. ASSUME NEW v \in Writers, SaverStep(v) \/ Kill(v) \/ \E x \in Records : Save(v, x)
          PROVE  SaveLeft(w)' <= SaveLeft(w)
      <4>1. CASE v # w
        BY <3>1, <3>3, <4>1, OthersLeft
      <4>2. CASE v = w
        <5>1. pc'[w] = "idle"
          BY <2>2, <3>3, <4>2 DEF Kill, Save, Go, IInv, TypeOK
        <5> QED BY <5>1, IdleLeft
      <4> QED BY <4>1, <4>2
    <3>4. CASE PowerLoss
      BY <3>4, IdleLeft DEF PowerLoss
    <3>5. ASSUME NEW id \in Ids, Damage(id) PROVE SaveLeft(w)' <= SaveLeft(w)
      <4>1. pc[w] = "write" => file[w] \in DOMAIN inodes /\ target[id] # file[w]
        BY WritersFile
      <4>2. pc[w] = "write" => inodes'[file[w]] = inodes[file[w]]
        BY <3>5, <4>1 DEF Damage
      <4> QED BY <3>1, <3>5, <4>2, SameLeft DEF Damage, savers
    <3> QED BY <3>2, <3>3, <3>4, <3>5, StepKinds
  <2> QED BY <2>1, <2>2
<1> QED BY <1>1, SpecIInv, PTL DEF Spec, SavesRunDown
=============================================================================
