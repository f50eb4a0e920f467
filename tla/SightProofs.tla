---------------------------- MODULE SightProofs -----------------------------
(***************************************************************************)
(* What a command says of the disk, for every disk, every edit and every   *)
(* number of commands: the hashes recorded, the statuses reported and the  *)
(* stamps given were those of files that were there while it ran, and a    *)
(* derivation's links are to the files its job record names.               *)
(***************************************************************************)
EXTENDS ProjectProofs

(***************************************************************************)
(* What a running command has seen includes what the disk shows now.       *)
(***************************************************************************)
LooksOn == \A p \in Procs : pc[p] \notin Ended => Facts(files, links) \subseteq seen[p]

\* A step of the world: nothing of a command moves, and what it has seen since
\* it started it has still seen.
Watches ==
    /\ manifest' = manifest /\ lock' = lock /\ cmd' = cmd /\ pc' = pc /\ my' = my
    /\ \A p \in Procs : pc[p] \notin Ended =>
          /\ pc[p] # "start" => seen[p] \subseteq seen'[p]
          /\ Facts(files', links') \subseteq seen'[p]

LEMMA WorldWatches == ASSUME LooksOn, Edit \/ Relink \/ Tick PROVE Watches
<1>1. CASE Tick
  BY <1>1 DEF Tick, disk, LooksOn, Watches
<1>2. ASSUME NEW f, NEW l, Witness(f, l), NEW p \in Procs, pc[p] \notin Ended
      PROVE  /\ pc[p] # "start" => seen[p] \subseteq seen'[p]
             /\ Facts(f, l) \subseteq seen'[p]
  BY <1>2 DEF Witness
<1>3. CASE Edit
  BY <1>2, <1>3 DEF Edit, Watches
<1>4. CASE Relink
  BY <1>2, <1>4 DEF Relink, Watches
<1> QED BY <1>1, <1>3, <1>4

LEMMA NextLooksOn == ASSUME TInv, LooksOn, [Next]_vars PROVE LooksOn'
<1>1. CASE UNCHANGED vars
  BY <1>1 DEF vars, LooksOn
<1>2. ASSUME NEW p \in Procs, Command(p) \/ AcquireFails(p) \/ Crash(p) PROVE LooksOn'
  BY <1>2, StepMoves DEF Moves, LooksOn
<1>3. CASE Edit \/ Relink \/ Tick
  BY <1>3, WorldWatches DEF Watches, LooksOn
<1> QED BY <1>1, <1>2, <1>3 DEF Next, Quiet

\* What a command reads, it has seen.
LEMMA SeesWhatItReads ==
  ASSUME LooksOn, NEW p \in Procs, pc[p] \notin Ended, NEW name \in Names
  PROVE  <<name, On(name)>> \in seen[p]
BY DEF LooksOn, Facts, On

(***************************************************************************)
(* What import and add measure is real: a hash and a size are of the same  *)
(* bytes, and for import of bytes seen at the path they are recorded with. *)
(***************************************************************************)
Real(s, e) == \E c \in Contents :
    <<e.path, c>> \in s /\ e.sha256 = Sha256(c) /\ e.size = SizeOf[c]

AllReal(s, entries) == \A i \in DOMAIN entries : Real(s, entries[i])

Sighted(c, at, mine, s) ==
    /\ c.do = "add" /\ at \in {"lock", "load", "write"} =>
          \E b \in Contents : mine.hash = Sha256(b) /\ mine.size = SizeOf[b]
    /\ c.do = "import" /\ at \notin Ended =>
          AllReal(s, mine.stems) /\ AllReal(s, mine.fresh)

MeasuredManifest == manifest # NoProject => Measured(manifest.assets)

SInv == /\ RInv /\ LooksOn /\ MeasuredManifest
        /\ \A p \in Procs : Sighted(cmd[p], pc[p], my[p], seen[p])

OwnSighted(p) == Sighted(cmd[p], pc'[p], my'[p], seen'[p])

LEMMA SightedGrows ==
  ASSUME NEW c, NEW at, NEW mine, NEW s, NEW t, Sighted(c, at, mine, s), s \subseteq t
  PROVE  Sighted(c, at, mine, t)
BY DEF Sighted, AllReal, Real

\* A step that measures nothing.
LEMMA ContinueSighted ==
  ASSUME TInv, NEW p \in Procs, NEW label, NEW mine, Continue(p, label, mine),
         Sighted(cmd[p], label, mine, seen[p])
  PROVE  OwnSighted(p)
BY DEF Continue, shared, TInv, TypeOK, OwnSighted

LEMMA EndSighted ==
  ASSUME TInv, NEW p \in Procs, pc[p] \notin Ended, Sighted(cmd[p], pc[p], my[p], seen[p]),
         NEW kind, NEW id, End(p, kind, id)
  PROVE  OwnSighted(p)
<1>1. my[p] \in Locals
  BY MyType
<1>2. Answer(p, kind, id).stems = my[p].stems /\ Answer(p, kind, id).fresh = my[p].fresh
  BY <1>1 DEF Answer, Locals
<1>3. Sighted(cmd[p], "return", Answer(p, kind, id), seen[p])
  BY <1>2 DEF Sighted
<1> QED BY <1>3, ContinueSighted DEF End

LEMMA CommitSighted ==
  ASSUME TInv, NEW p \in Procs, pc[p] \notin Ended, Sighted(cmd[p], pc[p], my[p], seen[p]),
         NEW new, NEW kind, NEW id, Commit(p, new, kind, id)
  PROVE  OwnSighted(p)
<1>1. CASE Refuse(p, "Io")
  BY <1>1, EndSighted DEF Refuse
<1>2. CASE /\ pc' = [pc EXCEPT ![p] = "return"]
           /\ my' = [my EXCEPT ![p] = Answer(p, kind, id)] /\ seen' = seen
  <2>1. my[p] \in Locals
    BY MyType
  <2>2. Answer(p, kind, id).stems = my[p].stems /\ Answer(p, kind, id).fresh = my[p].fresh
    BY <2>1 DEF Answer, Locals
  <2>3. Sighted(cmd[p], "return", Answer(p, kind, id), seen[p])
    BY <2>2 DEF Sighted
  <2> QED BY <1>2, <2>3 DEF OwnSighted, TInv, TypeOK
<1> QED BY <1>1, <1>2 DEF Commit

(***************************************************************************)
(* The steps.                                                              *)
(***************************************************************************)
LEMMA PlainSighted ==
  ASSUME SInv, NEW p \in Procs,
         Acquire(p) \/ AcquireFails(p) \/ Load(p) \/ Return(p) \/ Crash(p)
  PROVE  OwnSighted(p)
<1>1. /\ TInv /\ my[p] \in Locals /\ Sighted(cmd[p], pc[p], my[p], seen[p])
      /\ pc \in [Procs -> Labels] /\ pc[p] \notin Ended
  BY MyType, ActsWhileRunning DEF SInv, RInv, CInv, TInv, TypeOK, Command
<1>2. CASE Acquire(p)
  BY <1>1, <1>2 DEF Acquire, OwnSighted, Sighted, Ended
<1>3. CASE AcquireFails(p)
  BY <1>1, <1>3, EndSighted DEF AcquireFails, Refuse
<1>4. CASE Load(p)
  <2> DEFINE mine == [my[p] EXCEPT !.m = manifest]
             next == IF cmd[p].do = "import" THEN "decide" ELSE "write"
  <2>1. pc[p] = "load" /\ (Refuse(p, "NotAProject") \/ Continue(p, next, mine))
    BY <1>4 DEF Load
  <2>2. /\ mine.stems = my[p].stems /\ mine.fresh = my[p].fresh
        /\ mine.hash = my[p].hash /\ mine.size = my[p].size
    BY <1>1 DEF Locals
  <2> HIDE DEF mine
  <2>3. Sighted(cmd[p], next, mine, seen[p])
    BY <1>1, <2>1, <2>2 DEF Sighted
  <2> QED BY <1>1, <2>1, <2>3, EndSighted, ContinueSighted DEF Refuse
<1>5. CASE Return(p) \/ Crash(p)
  BY <1>1, <1>5 DEF Return, Crash, OwnSighted, Sighted, Ended
<1> QED BY <1>2, <1>3, <1>4, <1>5

LEMMA AddSighted == ASSUME SInv, NEW p \in Procs, Add(p) PROVE OwnSighted(p)
<1>1. /\ TInv /\ my[p] \in Locals /\ Sighted(cmd[p], pc[p], my[p], seen[p])
      /\ pc[p] \notin Ended
  BY MyType, ActsWhileRunning DEF SInv, RInv, CInv, Command
<1>2. cmd[p].do = "add" /\ cmd[p].name \in Names
  <2>1. cmd[p].do = "add"
    BY DEF Add, AddCheck, AddResolve, AddHash, AddWrite, Running
  <2> QED BY <1>1, <2>1, MyType, InvocationsAssumption
<1>3. CASE AddCheck(p) \/ AddResolve(p)
  <2>1. \A mine : Sighted(cmd[p], "resolve", mine, seen[p]) /\ Sighted(cmd[p], "hash", mine, seen[p])
    BY <1>2 DEF Sighted
  <2> QED BY <1>1, <1>3, <2>1, EndSighted, ContinueSighted DEF AddCheck, AddResolve, Refuse
<1>4. CASE AddHash(p)
  <2> DEFINE bytes == On(cmd[p].name)
             mine == [my[p] EXCEPT !.hash = Sha256(bytes), !.size = SizeOf[bytes]]
  <2>1. Refuse(p, "Unreadable") \/ (Readable(cmd[p].name) /\ Continue(p, "lock", mine))
    BY <1>4 DEF AddHash
  <2>2. Readable(cmd[p].name) => bytes \in Contents
    BY <1>1, <1>2, OnType
  <2>3. mine.hash = Sha256(bytes) /\ mine.size = SizeOf[bytes]
    BY <1>1 DEF Locals
  <2> HIDE DEF mine, bytes
  <2>4. Readable(cmd[p].name) => Sighted(cmd[p], "lock", mine, seen[p])
    BY <1>2, <2>2, <2>3 DEF Sighted
  <2> QED BY <1>1, <2>1, <2>4, EndSighted, ContinueSighted DEF Refuse
<1>5. CASE AddWrite(p)
  BY <1>1, <1>5, EndSighted, CommitSighted DEF AddWrite, Refuse
<1> QED BY <1>3, <1>4, <1>5 DEF Add

LEMMA ImportSighted == ASSUME SInv, NEW p \in Procs, Import(p) PROVE OwnSighted(p)
<1>1. /\ TInv /\ LooksOn /\ my[p] \in Locals /\ Sighted(cmd[p], pc[p], my[p], seen[p])
      /\ pc[p] \notin Ended /\ Knows(cmd[p], pc[p], my[p])
  BY MyType, ActsWhileRunning DEF SInv, RInv, CInv, Command
<1>2. cmd[p].do = "import"
  BY DEF Import, ImportBeforeLock, ImportCheck, ImportLocate, ImportRead, ImportResolveStem,
     ImportHashStem, ImportDecide, ImportInput, ImportStem, ImportWriteJob, ImportEvaluation,
     Importing, Running
<1>3. AllReal(seen[p], my[p].stems) /\ AllReal(seen[p], my[p].fresh)
  BY <1>1, <1>2 DEF Sighted
<1>4. ASSUME NEW label, NEW mine, Continue(p, label, mine),
             AllReal(seen[p], mine.stems), AllReal(seen[p], mine.fresh)
      PROVE  OwnSighted(p)
  <2>1. Sighted(cmd[p], label, mine, seen[p])
    BY <1>2, <1>4 DEF Sighted
  <2> QED BY <1>1, <1>4, <2>1, ContinueSighted
<1>5. ASSUME NEW label, NEW field \in {"path", "source", "bytes", "input"}, NEW x,
             Continue(p, label, [my[p] EXCEPT ![field] = x])
      PROVE  OwnSighted(p)
  <2> DEFINE mine == [my[p] EXCEPT ![field] = x]
  <2>1. mine.stems = my[p].stems /\ mine.fresh = my[p].fresh
    BY <1>1 DEF Locals
  <2> HIDE DEF mine
  <2> QED BY <1>3, <1>4, <1>5, <2>1 DEF mine
<1>6. \A kind, id : (End(p, kind, id) => OwnSighted(p)) /\ (Refuse(p, kind) => OwnSighted(p))
  BY <1>1, EndSighted DEF Refuse
<1>7. CASE ImportCheck(p) \/ ImportLocate(p)
  BY <1>3, <1>4, <1>5, <1>6, <1>7 DEF ImportCheck, ImportLocate
<1>8. CASE ImportRead(p)
  BY <1>5, <1>6, <1>8 DEF ImportRead, Dispatch
<1>9. CASE ImportResolveStem(p)
  BY <1>3, <1>4, <1>5, <1>6, <1>9 DEF ImportResolveStem
<1>10. CASE ImportHashStem(p)
  <2> DEFINE path == my[p].path
             stem == [name |-> NextStem(p), path |-> path,
                      sha256 |-> Sha256(On(path)), size |-> SizeOf[On(path)]]
             mine == [my[p] EXCEPT !.stems = Append(@, stem)]
  <2>1. \/ Refuse(p, "StemUnreadable")
        \/ Readable(path) /\ Continue(p, "stem", mine)
    BY <1>10 DEF ImportHashStem
  <2>2. pc[p] = "stemhash" /\ path \in Names
    BY <1>1, <1>2, <1>10, PathsAssumption
    DEF ImportHashStem, Importing, Running, Knows, ImportKnows
  <2>3. Readable(path) => On(path) \in Contents /\ <<path, On(path)>> \in seen[p]
    BY <1>1, <2>2, OnType, SeesWhatItReads
  <2>4. stem.path = path /\ stem.sha256 = Sha256(On(path)) /\ stem.size = SizeOf[On(path)]
    OBVIOUS
  <2>5. mine.stems = Append(my[p].stems, stem) /\ mine.fresh = my[p].fresh
    BY <1>1 DEF Locals
  <2> HIDE DEF stem, mine
  <2>6. Readable(path) => Real(seen[p], stem)
    BY <2>3, <2>4 DEF Real
  <2>7. my[p].stems \in Seq(PreStems)
    BY <1>1 DEF Locals
  <2>8. Readable(path) => AllReal(seen[p], mine.stems)
    <3>1. \A i \in DOMAIN mine.stems :
             (i \in DOMAIN my[p].stems /\ mine.stems[i] = my[p].stems[i]) \/ mine.stems[i] = stem
      BY <2>5, <2>7
    <3> QED BY <1>3, <2>6, <3>1 DEF AllReal
  <2> QED BY <1>3, <1>4, <1>6, <2>1, <2>5, <2>8
<1>11. CASE ImportDecide(p)
  <2> DEFINE input == Record(p).input
  <2>1. CASE input \in Absolute
    BY <1>5, <1>6, <1>11, <2>1 DEF ImportDecide
  <2>2. CASE input \notin Absolute /\ On(input) = Absent
    BY <1>5, <1>6, <1>11, <2>2 DEF ImportDecide
  <2>3. CASE input \notin Absolute /\ On(input) # Absent
    BY <1>5, <1>6, <1>11, <2>3 DEF ImportDecide
  <2> QED BY <2>1, <2>2, <2>3
<1>12. CASE ImportInput(p)
  <2> DEFINE path == my[p].path
             bytes == On(path)
             asset == NewAsset(Mint(BaseOf[path], Taken(p)), path, Sha256(bytes), SizeOf[bytes])
             mine  == [my[p] EXCEPT !.input = asset.id, !.fresh = <<asset>>]
  <2>1. \/ \E why : Refuse(p, why)
        \/ Readable(path) /\ Continue(p, "register", mine)
    BY <1>12 DEF ImportInput
  <2>2. pc[p] = "inputhash" /\ path \in Names
    BY <1>1, <1>2, <1>12, PathsAssumption
    DEF ImportInput, Importing, Running, Knows, ImportKnows
  <2>3. Readable(path) => bytes \in Contents /\ <<path, bytes>> \in seen[p]
    BY <1>1, <2>2, OnType, SeesWhatItReads
  <2>4. asset.path = path /\ asset.sha256 = Sha256(bytes) /\ asset.size = SizeOf[bytes]
    BY DEF NewAsset
  <2>5. mine.stems = my[p].stems /\ mine.fresh = <<asset>>
    BY <1>1 DEF Locals
  <2> HIDE DEF asset, mine, bytes
  <2>6. Readable(path) => Real(seen[p], asset)
    BY <2>3, <2>4 DEF Real
  <2>7. Readable(path) => AllReal(seen[p], mine.fresh)
    <3>1. \A i \in DOMAIN mine.fresh : mine.fresh[i] = asset
      BY <2>5
    <3> QED BY <2>6, <3>1 DEF AllReal
  <2> QED BY <1>3, <1>4, <1>6, <2>1, <2>5, <2>7
<1>13. CASE ImportStem(p)
  <2> DEFINE stem   == my[p].stems[Len(my[p].outputs) + 1]
             id     == Mint(BaseOf[stem.name], Taken(p))
             asset  == NewAsset(id, stem.path, stem.sha256, stem.size)
             fresh  == [my[p] EXCEPT !.fresh = Append(@, asset), !.outputs = Append(@, asset.id)]
  <2>1. /\ Importing(p, "job", "register") /\ Len(my[p].outputs) < Len(my[p].stems)
        /\ \/ \E why : Refuse(p, why)
           \/ Continue(p, "register", fresh)
           \/ \E old : Continue(p, "register", [my[p] EXCEPT !.outputs = Append(@, old)])
    BY <1>13 DEF ImportStem
  <2>2. /\ my[p].stems \in Seq(PreStems) /\ my[p].outputs \in Seq(Slugs)
        /\ my[p].fresh \in Seq(Assets)
    BY <1>1 DEF Locals
  <2>3. Len(my[p].outputs) + 1 \in DOMAIN my[p].stems
    <3>1. Len(my[p].outputs) \in Nat /\ Len(my[p].stems) \in Nat
          /\ DOMAIN my[p].stems = 1..Len(my[p].stems)
      BY <2>2
    <3> QED BY <2>1, <3>1
  <2>4. Real(seen[p], stem)
    BY <1>3, <2>3 DEF AllReal
  <2>5. asset.path = stem.path /\ asset.sha256 = stem.sha256 /\ asset.size = stem.size
    BY DEF NewAsset
  <2>6. fresh.stems = my[p].stems /\ fresh.fresh = Append(my[p].fresh, asset)
    BY <1>1 DEF Locals
  <2> HIDE DEF stem, asset, fresh
  <2>7. Real(seen[p], asset)
    BY <2>4, <2>5 DEF Real
  <2>8. AllReal(seen[p], fresh.fresh)
    <3>1. \A i \in DOMAIN fresh.fresh :
             (i \in DOMAIN my[p].fresh /\ fresh.fresh[i] = my[p].fresh[i]) \/ fresh.fresh[i] = asset
      BY <2>2, <2>6
    <3> QED BY <1>3, <2>7, <3>1 DEF AllReal
  <2>9. ASSUME NEW old, Continue(p, "register", [my[p] EXCEPT !.outputs = Append(@, old)])
        PROVE  OwnSighted(p)
    <3> DEFINE mine == [my[p] EXCEPT !.outputs = Append(@, old)]
    <3>1. mine.stems = my[p].stems /\ mine.fresh = my[p].fresh
      BY <1>1 DEF Locals
    <3> HIDE DEF mine
    <3> QED BY <1>3, <1>4, <2>9, <3>1 DEF mine
  <2> QED BY <1>3, <1>4, <1>6, <2>1, <2>6, <2>8, <2>9
<1>14. CASE ImportWriteJob(p) \/ ImportEvaluation(p)
  BY <1>1, <1>6, <1>14, CommitSighted DEF ImportWriteJob, ImportEvaluation
<1> QED BY <1>7, <1>8, <1>9, <1>10, <1>11, <1>12, <1>13, <1>14 DEF Import, ImportBeforeLock

(***************************************************************************)
(* The sizes in the manifest stay those of the bytes hashed.               *)
(***************************************************************************)
LEMMA RealMeasured ==
  ASSUME NEW s, NEW entries \in Seq(Assets), AllReal(s, entries) PROVE Measured(entries)
<1> SUFFICES ASSUME NEW i \in DOMAIN entries, NEW c \in Contents,
                    entries[i].sha256 = Sha256(c)
             PROVE  entries[i].size = SizeOf[c]
  BY DEF Measured
<1>1. PICK b \in Contents : entries[i].sha256 = Sha256(b) /\ entries[i].size = SizeOf[b]
  BY DEF AllReal, Real
<1>2. b = c
  BY <1>1 DEF Sha256
<1> QED BY <1>1, <1>2

LEMMA MeasuredKept ==
  ASSUME SInv, NEW p \in Procs, Writes(p), manifest' # manifest PROVE Measured(manifest'.assets)
<1>1. /\ TInv /\ my[p].m = manifest /\ my[p] \in Locals
      /\ Sighted(cmd[p], pc[p], my[p], seen[p])
  BY WritesUnderLock, MyType DEF SInv, RInv, CInv, IInv, SnapshotIsCurrent
<1>2. \A why : ~Refuse(p, why) /\ \A kind, id : ~End(p, kind, id)
  BY DEF Refuse, End, Continue, shared
<1>3. CASE InitWrite(p)
  <2>1. manifest' = NewManifest
    BY <1>3, CommitNew DEF InitWrite
  <2>2. NewManifest.assets = <<>>
    BY DEF NewManifest
  <2> QED BY <2>1, <2>2 DEF Measured
<1>4. ASSUME ~InitWrite(p)
      PROVE  manifest \in Manifests /\ manifest.assets \in Seq(Assets) /\ Measured(manifest.assets)
  <2>1. manifest \in Manifests
    BY <1>1, <1>4, MyType DEF Writes, AddWrite, ImportWriteJob, ImportEvaluation, VerifyStamp,
       Importing, Running, Knows, UnderLock
  <2> QED BY <2>1, Parts, NoProjectAssumption DEF SInv, MeasuredManifest
<1>5. CASE AddWrite(p) /\ ~InitWrite(p)
  <2>1. PICK new \in Manifests, id \in Slugs :
           /\ Commit(p, new, "Added", id)
           /\ \E a \in Assets : /\ new.assets = Append(my[p].m.assets, a)
                               /\ a = NewAsset(id, my[p].path, my[p].hash, my[p].size)
    BY <1>1, <1>2, <1>5, AddRegisters
  <2>2. PICK a \in Assets : /\ new.assets = Append(my[p].m.assets, a)
                            /\ a = NewAsset(id, my[p].path, my[p].hash, my[p].size)
    BY <2>1
  <2>3. PICK b \in Contents : my[p].hash = Sha256(b) /\ my[p].size = SizeOf[b]
    BY <1>1, <1>5 DEF AddWrite, Running, Sighted
  <2>4. a.sha256 = Sha256(b) /\ a.size = SizeOf[b]
    BY <2>2, <2>3 DEF NewAsset
  <2>5. Measured(<<a>>) /\ <<a>> \in Seq(Assets)
    <3>1. \A i \in DOMAIN <<a>> : <<a>>[i] = a
      OBVIOUS
    <3> QED BY <2>4, <3>1 DEF Measured, Sha256
  <2>6. new.assets = manifest.assets \o <<a>>
    BY <1>1, <1>4, <1>5, <2>2
  <2>7. Measured(new.assets)
    BY <1>4, <1>5, <2>5, <2>6, MeasuredConcat
  <2> QED BY <2>1, <2>7, CommitNew
<1>6. CASE ImportWriteJob(p) /\ ~InitWrite(p)
  <2>1. PICK new \in Manifests, id \in Slugs :
           Commit(p, new, "Imported", id) /\ new.assets = my[p].m.assets \o my[p].fresh
    BY <1>1, <1>6, JobWrites
  <2>2. AllReal(seen[p], my[p].fresh) /\ my[p].fresh \in Seq(Assets)
    BY <1>1, <1>6 DEF ImportWriteJob, Importing, Running, Sighted, Ended, Locals
  <2>3. Measured(new.assets)
    BY <1>1, <1>4, <1>6, <2>1, <2>2, RealMeasured, MeasuredConcat
  <2> QED BY <2>1, <2>3, CommitNew
<1>7. CASE ImportEvaluation(p) /\ ~InitWrite(p)
  <2>1. PICK new \in Manifests, id \in Slugs :
           Commit(p, new, "EvaluationImported", id) /\ new.assets = my[p].m.assets
    BY <1>1, <1>2, <1>7, EvaluationWrites
  <2> QED BY <1>1, <1>4, <1>7, <2>1, CommitNew
<1>8. CASE VerifyStamp(p) /\ ~InitWrite(p)
  <2>1. PICK new \in Manifests :
           Commit(p, new, Verdict(my[p]), None) /\ new.assets = StampAssets(p)
    BY <1>1, <1>2, <1>8, StampWrites
  <2>2. manifest' = new
    BY <2>1, CommitNew
  <2> DEFINE old == manifest.assets
  <2>3. /\ DOMAIN new.assets = DOMAIN old
        /\ \A i \in DOMAIN old : \/ new.assets[i] = [old[i] EXCEPT !.last_verified = my[p].time]
                                 \/ new.assets[i] = old[i]
    BY <1>1, <2>1 DEF StampAssets
  <2>4. \A i \in DOMAIN old : old[i] \in Assets
    BY <1>4, <1>8
  <2>5. \A i \in DOMAIN old : new.assets[i].sha256 = old[i].sha256
                              /\ new.assets[i].size = old[i].size
    BY <2>3, <2>4 DEF Assets
  <2> QED BY <1>4, <1>8, <2>2, <2>3, <2>5 DEF Measured
<1> QED BY <1>3, <1>5, <1>6, <1>7, <1>8 DEF Writes

(***************************************************************************)
(* Every step keeps it all.                                                *)
(***************************************************************************)
LEMMA InitSInv == Init => SInv
<1> SUFFICES ASSUME Init PROVE SInv
  OBVIOUS
<1>1. RInv
  BY InitCInv DEF Init, RInv, Reported
<1>2. LooksOn
  BY DEF Init, LooksOn
<1>3. MeasuredManifest
  BY MeasuredAssumption DEF Init, MeasuredManifest
<1>4. Blank.stems = <<>> /\ Blank.fresh = <<>>
  BY DEF Blank
<1>5. \A p \in Procs : Sighted(cmd[p], pc[p], my[p], seen[p])
  BY <1>4 DEF Init, Sighted, AllReal
<1> QED BY <1>1, <1>2, <1>3, <1>5 DEF SInv

LEMMA WorldSighted == ASSUME SInv, Watches, NEW p \in Procs PROVE OwnSighted(p)
<1>1. Sighted(cmd[p], pc[p], my[p], seen[p]) /\ pc'[p] = pc[p] /\ my'[p] = my[p]
  BY DEF SInv, Watches
<1>2. CASE pc[p] = "start"
  <2>1. cmd[p].do = "import" => my[p].stems = <<>> /\ my[p].fresh = <<>>
    BY <1>2, MyType DEF SInv, RInv, CInv, Knows, ImportKnows
  <2> QED BY <1>1, <1>2, <2>1 DEF OwnSighted, Sighted, AllReal
<1>3. CASE pc[p] # "start" /\ pc[p] \notin Ended
  BY <1>1, <1>3, SightedGrows DEF OwnSighted, Watches
<1>4. CASE pc[p] \in Ended
  BY <1>1, <1>4 DEF OwnSighted, Sighted, Ended
<1> QED BY <1>2, <1>3, <1>4

LEMMA NextSInv == SInv /\ [Next]_vars => SInv'
<1> SUFFICES ASSUME SInv, [Next]_vars PROVE SInv'
  OBVIOUS
<1>1. RInv' /\ LooksOn'
  BY NextRInv, NextLooksOn DEF SInv, RInv, CInv
<1>2. CASE UNCHANGED vars
  BY <1>1, <1>2 DEF vars, SInv, MeasuredManifest
<1>3. CASE Next
  <2>1. MeasuredManifest'
    BY <1>3, WriteSteps, MeasuredKept DEF SInv, MeasuredManifest
  <2>2. CASE Edit \/ Relink \/ Tick
    <3>1. Watches
      BY <2>2, WorldWatches DEF SInv
    <3>2. \A p \in Procs : OwnSighted(p)
      BY <3>1, WorldSighted
    <3> QED BY <1>1, <2>1, <3>1, <3>2 DEF SInv, OwnSighted, Watches
  <2>3. ASSUME NEW p \in Procs, Command(p) \/ AcquireFails(p) \/ Crash(p) PROVE SInv'
    <3>1. Moves(p)
      BY <2>3, StepMoves DEF SInv, RInv, CInv
    <3>2. OwnSighted(p)
      <4>1. ASSUME cmd[p].do \notin {"add", "import"} PROVE OwnSighted(p)
        BY <4>1 DEF OwnSighted, Sighted
      <4>2. ASSUME InitProject(p) \/ Verify(p) \/ Show(p) PROVE cmd[p].do \notin {"add", "import"}
        BY <4>2 DEF InitProject, InitStart, InitExists, InitWrite, Show, ShowLoad, ShowPrint,
           Verify, VerifyLoad, VerifyStat, VerifyHash, VerifyRecord, VerifyReport, VerifyClock,
           VerifyStamp, Running
      <4> QED BY <2>3, <4>1, <4>2, PlainSighted, AddSighted, ImportSighted DEF Command
    <3> QED BY <1>1, <2>1, <3>1, <3>2 DEF Moves, OwnSighted, SInv
  <2>4. CASE Quiet
    BY <1>2, <2>4 DEF Quiet
  <2> QED BY <1>3, <2>2, <2>3, <2>4 DEF Next
<1> QED BY <1>2, <1>3

LEMMA AlwaysSInv == Spec => []SInv
BY InitSInv, NextSInv, PTL DEF Spec

(***************************************************************************)
(* verify: what the pass has found so far was so, of a snapshot the        *)
(* manifest still extends.                                                 *)
(***************************************************************************)
Saw(s, path, sha256) == \E c \in Contents : <<path, c>> \in s /\ Sha256(c) = sha256

StatusReal(s, a, status) ==
    CASE status = "verified" -> Saw(s, a.path, a.sha256)
      [] status = "missing"  -> <<a.path, Absent>> \in s
      [] status = "modified" -> \E c \in Contents : <<a.path, c>> \in s /\ Sha256(c) # a.sha256

RecordReal(s, r, status) == status = "verified" => Saw(s, r.path, r.sha256)

Checked(mine, s) ==
    /\ \A i \in DOMAIN mine.statuses : StatusReal(s, mine.snapshot.assets[i], mine.statuses[i])
    /\ \A i \in DOMAIN mine.records :
          RecordReal(s, mine.snapshot.evaluations[i].record, mine.records[i])

Extended(mine, m) ==
    Measured(mine.snapshot.assets) /\ m \in Manifests /\ Extends(mine.snapshot, m)

AllGood(mine) ==
    /\ mine.snapshot \in Manifests
    /\ Len(mine.statuses) = Len(mine.snapshot.assets)
    /\ Len(mine.records) = Len(mine.snapshot.evaluations)
    /\ Range(mine.statuses) \cup Range(mine.records) \subseteq {"verified"}

VerifyAnswers == Refusals \cup {"AllVerified", "NotAllVerified"}

Checks(c, at, mine, s, m) == c.do = "verify" =>
    /\ at \notin Ended => Checked(mine, s)
    /\ at \in {"check", "hash", "lock", "load", "write"} => Extended(mine, m)
    /\ at = "return" => /\ mine.result.kind \in VerifyAnswers
                        /\ mine.result.kind = "AllVerified" => AllGood(mine)

VInv == SInv /\ \A p \in Procs : Checks(cmd[p], pc[p], my[p], seen[p], manifest)

OwnChecks(p) == Checks(cmd[p], pc'[p], my'[p], seen'[p], manifest')

LEMMA VerdictAnswers == \A mine : Verdict(mine) \in VerifyAnswers
BY DEF Verdict, VerifyAnswers

LEMMA CheckedGrows ==
  ASSUME NEW mine, mine.statuses \in Seq(Integrities), NEW s, NEW t, Checked(mine, s), s \subseteq t
  PROVE  Checked(mine, t)
<1>1. \A a : \A status \in Integrities : StatusReal(s, a, status) => StatusReal(t, a, status)
  BY DEF StatusReal, Saw, Integrities
<1>2. \A r, status : RecordReal(s, r, status) => RecordReal(t, r, status)
  BY DEF RecordReal, Saw
<1>3. \A i \in DOMAIN mine.statuses : mine.statuses[i] \in Integrities
  OBVIOUS
<1> QED BY <1>1, <1>2, <1>3 DEF Checked

\* The manifest only grows while a pass is under way.
LEMMA ChecksGrow ==
  ASSUME CInv, Next, NEW p \in Procs, Checks(cmd[p], pc[p], my[p], seen[p], manifest)
  PROVE  Checks(cmd[p], pc[p], my[p], seen[p], manifest')
<1> SUFFICES ASSUME cmd[p].do = "verify", pc[p] \in {"check", "hash", "lock", "load", "write"},
                    Extended(my[p], manifest), manifest' # manifest
             PROVE  Extended(my[p], manifest')
  BY DEF Checks
<1>1. my[p].snapshot \in Manifests
  BY MyType DEF CInv, Knows, VerifyKnows
<1>2. manifest' \in Manifests /\ Extends(manifest, manifest')
  BY WriteSteps, Written, ChangesExtend, NoProjectAssumption DEF Extended
<1> QED BY <1>1, <1>2, ExtendsTransitive DEF Extended

LEMMA ContinueChecks ==
  ASSUME TInv, NEW p \in Procs, NEW label, NEW mine, Continue(p, label, mine),
         label # "return", label # "start", Checked(mine, seen[p]),
         label \in {"check", "hash", "lock", "load", "write"} => Extended(mine, manifest)
  PROVE  OwnChecks(p)
BY DEF Continue, shared, TInv, TypeOK, OwnChecks, Checks

LEMMA AnswerChecked ==
  ASSUME TInv, NEW p \in Procs, NEW kind, NEW id, NEW s, Checked(my[p], s)
  PROVE  /\ Checked(Answer(p, kind, id), s) /\ Answer(p, kind, id).result.kind = kind
         /\ AllGood(my[p]) => AllGood(Answer(p, kind, id))
<1> DEFINE mine == Answer(p, kind, id)
<1>1. /\ mine.statuses = my[p].statuses /\ mine.records = my[p].records
      /\ mine.snapshot = my[p].snapshot /\ mine.result.kind = kind
  BY MyType DEF Answer, Locals
<1> HIDE DEF mine
<1>2. Checked(mine, s) /\ (AllGood(my[p]) => AllGood(mine))
  BY <1>1 DEF Checked, AllGood
<1> QED BY <1>1, <1>2 DEF mine

LEMMA EndChecks ==
  ASSUME TInv, NEW p \in Procs, Checked(my[p], seen[p]), NEW kind \in VerifyAnswers, NEW id,
         End(p, kind, id),
         kind = "AllVerified" => AllGood(my[p])
  PROVE  OwnChecks(p)
<1>1. pc'[p] = "return" /\ my'[p] = Answer(p, kind, id) /\ seen' = seen /\ manifest' = manifest
  BY DEF End, Continue, shared, TInv, TypeOK
<1> QED BY <1>1, AnswerChecked DEF OwnChecks, Checks

LEMMA CommitChecks ==
  ASSUME TInv, NEW p \in Procs, Checked(my[p], seen[p]), NEW new, NEW kind \in VerifyAnswers,
         NEW id,
         Commit(p, new, kind, id), kind = "AllVerified" => AllGood(my[p])
  PROVE  OwnChecks(p)
<1>1. CASE Refuse(p, "Io")
  BY <1>1, EndChecks DEF Refuse, VerifyAnswers, Refusals
<1>2. CASE /\ pc' = [pc EXCEPT ![p] = "return"]
           /\ my' = [my EXCEPT ![p] = Answer(p, kind, id)] /\ seen' = seen
  <2>1. pc'[p] = "return" /\ my'[p] = Answer(p, kind, id)
    BY <1>2 DEF TInv, TypeOK
  <2> QED BY <1>2, <2>1, AnswerChecked DEF OwnChecks, Checks
<1> QED BY <1>1, <1>2 DEF Commit

LEMMA PlainChecks ==
  ASSUME VInv, NEW p \in Procs, cmd[p].do = "verify",
         Acquire(p) \/ AcquireFails(p) \/ Load(p) \/ Return(p) \/ Crash(p)
  PROVE  OwnChecks(p)
<1>1. /\ TInv /\ my[p] \in Locals /\ Checks(cmd[p], pc[p], my[p], seen[p], manifest)
      /\ pc \in [Procs -> Labels] /\ pc[p] \notin Ended /\ Checked(my[p], seen[p])
  BY MyType, ActsWhileRunning DEF VInv, SInv, RInv, CInv, TInv, TypeOK, Command, Checks
<1>2. CASE Acquire(p)
  BY <1>1, <1>2 DEF Acquire, OwnChecks, Checks
<1>3. CASE AcquireFails(p)
  BY <1>1, <1>3, EndChecks DEF AcquireFails, Refuse, VerifyAnswers, Refusals
<1>4. CASE Load(p)
  <2> DEFINE mine == [my[p] EXCEPT !.m = manifest]
  <2>1. pc[p] = "load" /\ (Refuse(p, "NotAProject") \/ Continue(p, "write", mine))
    BY <1>4 DEF Load
  <2>2. /\ mine.statuses = my[p].statuses /\ mine.records = my[p].records
        /\ mine.snapshot = my[p].snapshot
    BY <1>1 DEF Locals
  <2> HIDE DEF mine
  <2>3. Checked(mine, seen[p]) /\ Extended(mine, manifest)
    BY <1>1, <2>1, <2>2 DEF Checks, Checked, Extended
  <2> QED BY <1>1, <2>1, <2>3, EndChecks, ContinueChecks
      DEF Refuse, VerifyAnswers, Refusals
<1>5. CASE Return(p) \/ Crash(p)
  BY <1>1, <1>5 DEF Return, Crash, OwnChecks, Checks, Ended
<1> QED BY <1>2, <1>3, <1>4, <1>5

\* One status more, of the next asset of the snapshot.
LEMMA StatusChecks ==
  ASSUME VInv, NEW p \in Procs, NEW label \in {"check", "hash"}, Running(p, "verify", label),
         NEW integrity \in Integrities, StatusReal(seen[p], AssetAt(p), integrity),
         Continue(p, "check", Status(p, integrity))
  PROVE  OwnChecks(p)
<1> DEFINE mine == Status(p, integrity)
           old == my[p].statuses
           assets == my[p].snapshot.assets
<1>1. /\ TInv /\ my[p] \in Locals /\ Checked(my[p], seen[p]) /\ Extended(my[p], manifest)
      /\ old \in Seq(Integrities)
  BY MyType DEF VInv, SInv, RInv, CInv, Checks, Running, Ended, Locals
<1>2. /\ mine.statuses = Append(old, integrity)
      /\ mine.records = my[p].records /\ mine.snapshot = my[p].snapshot
  BY <1>1 DEF Locals, Status
<1>3. \A i \in DOMAIN old : StatusReal(seen[p], assets[i], old[i])
  BY <1>1 DEF Checked
<1>4. StatusReal(seen[p], assets[Len(old) + 1], integrity)
  BY DEF AssetAt
<1> HIDE DEF mine, old, assets
<1>5. \A i \in DOMAIN mine.statuses :
         \/ i \in DOMAIN old /\ mine.statuses[i] = old[i]
         \/ i = Len(old) + 1 /\ mine.statuses[i] = integrity
  BY <1>1, <1>2
<1>6. \A i \in DOMAIN mine.statuses : StatusReal(seen[p], assets[i], mine.statuses[i])
  BY <1>3, <1>4, <1>5
<1>7. Checked(mine, seen[p]) /\ Extended(mine, manifest)
  BY <1>1, <1>2, <1>6 DEF Checked, Extended, assets
<1> QED BY <1>1, <1>7, ContinueChecks DEF mine

LEMMA VerifyChecks == ASSUME VInv, NEW p \in Procs, Verify(p) PROVE OwnChecks(p)
<1>1. /\ TInv /\ LooksOn /\ my[p] \in Locals /\ pc[p] \notin Ended
      /\ Checks(cmd[p], pc[p], my[p], seen[p], manifest)
  BY MyType, ActsWhileRunning DEF VInv, SInv, RInv, CInv, Command
<1>2. cmd[p].do = "verify"
  BY DEF Verify, VerifyLoad, VerifyStat, VerifyHash, VerifyRecord, VerifyReport, VerifyClock,
     VerifyStamp, Running
<1>3. Checked(my[p], seen[p]) /\ VerifyKnows(pc[p], my[p])
  BY <1>1, <1>2, MyType DEF Checks, Knows
<1>4. \A why \in Refusals : Refuse(p, why) => OwnChecks(p)
  <2>1. "AllVerified" \notin Refusals
    BY DEF Refusals
  <2> QED BY <1>1, <1>3, <2>1, EndChecks DEF Refuse, VerifyAnswers
<1>5. ASSUME NEW label \in {"check", "hash"}, Running(p, "verify", label), AssetsLeft(p)
      PROVE  /\ AssetAt(p) \in Assets /\ AssetAt(p).path \in Names
             /\ <<AssetAt(p).path, On(AssetAt(p).path)>> \in seen[p]
             /\ \A c \in Contents : AssetAt(p).sha256 = Sha256(c) => AssetAt(p).size = SizeOf[c]
             /\ On(AssetAt(p).path) \in Contents \cup {Absent}
  <2>1. /\ my[p].snapshot.assets \in Seq(Assets)
        /\ Len(my[p].snapshot.assets) \in Nat /\ Len(my[p].statuses) \in Nat
    BY <1>1, <1>5, VerifyingType
  <2>2. Len(my[p].statuses) + 1 \in DOMAIN my[p].snapshot.assets
    BY <1>5, <2>1 DEF AssetsLeft
  <2>3. AssetAt(p) \in Assets
    BY <2>1, <2>2 DEF AssetAt
  <2>4. Measured(my[p].snapshot.assets)
    BY <1>1, <1>2, <1>5 DEF Running, Checks, Extended
  <2>5. AssetAt(p).path \in Names
    BY <2>3 DEF Assets
  <2> QED BY <1>1, <2>2, <2>3, <2>4, <2>5, SeesWhatItReads, OnType DEF Measured, AssetAt
<1>6. CASE VerifyLoad(p)
  <2> DEFINE mine == [my[p] EXCEPT !.snapshot = manifest]
  <2>1. \/ Refuse(p, "NotAProject")
        \/ manifest # NoProject /\ Continue(p, "check", mine)
    BY <1>6 DEF VerifyLoad
  <2>2. mine.snapshot = manifest /\ mine.statuses = <<>> /\ mine.records = <<>>
    BY <1>1, <1>3, <1>6 DEF Locals, VerifyLoad, Running, VerifyKnows
  <2> HIDE DEF mine
  <2>3. manifest # NoProject => Extended(mine, manifest)
    BY <2>2, ExtendsReflexive
    DEF Extended, VInv, SInv, MeasuredManifest, RInv, CInv, TInv, TypeOK
  <2>4. Checked(mine, seen[p])
    BY <2>2 DEF Checked
  <2> QED BY <1>1, <1>4, <2>1, <2>3, <2>4, ContinueChecks DEF Refusals
<1>7. CASE VerifyStat(p)
  <2> DEFINE name == AssetAt(p).path
  <2>1. /\ Running(p, "verify", "check") /\ AssetsLeft(p)
        /\ \/ On(name) = Absent /\ Continue(p, "check", Status(p, "missing"))
           \/ /\ On(name) # Absent /\ SizeOf[On(name)] # AssetAt(p).size
              /\ Continue(p, "check", Status(p, "modified"))
           \/ Refuse(p, "Unreadable")
           \/ Continue(p, "hash", my[p])
    BY <1>7 DEF VerifyStat
  <2>2. On(name) = Absent => StatusReal(seen[p], AssetAt(p), "missing")
    BY <1>5, <2>1 DEF StatusReal
  <2>3. On(name) # Absent /\ SizeOf[On(name)] # AssetAt(p).size
        => StatusReal(seen[p], AssetAt(p), "modified")
    <3>1. ASSUME On(name) # Absent, SizeOf[On(name)] # AssetAt(p).size
          PROVE  \E c \in Contents : <<name, c>> \in seen[p] /\ Sha256(c) # AssetAt(p).sha256
      BY <1>5, <2>1, <3>1
    <3> QED BY <3>1 DEF StatusReal
  <2>4. Extended(my[p], manifest)
    BY <1>1, <1>2, <2>1 DEF Checks, Running
  <2> QED BY <1>1, <1>3, <1>4, <2>1, <2>2, <2>3, <2>4, StatusChecks, ContinueChecks
      DEF Integrities, Refusals
<1>8. CASE VerifyHash(p)
  <2> DEFINE name == AssetAt(p).path
             good == Sha256(On(name)) = AssetAt(p).sha256
  <2>1. /\ Running(p, "verify", "hash")
        /\ \/ Refuse(p, "Unreadable")
           \/ Readable(name) /\ good /\ Continue(p, "check", Status(p, "verified"))
           \/ Readable(name) /\ ~good /\ Continue(p, "check", Status(p, "modified"))
    BY <1>8 DEF VerifyHash
  <2>2. AssetsLeft(p)
    BY <1>3, <2>1 DEF Running, VerifyKnows, AssetsLeft
  <2>3. Readable(name) => On(name) \in Contents
    BY <1>5, <2>1, <2>2 DEF Readable
  <2>4. <<name, On(name)>> \in seen[p]
    BY <1>5, <2>1, <2>2
  <2>5. Readable(name) /\ good => StatusReal(seen[p], AssetAt(p), "verified")
    BY <2>3, <2>4 DEF StatusReal, Saw
  <2>6. Readable(name) /\ ~good => StatusReal(seen[p], AssetAt(p), "modified")
    BY <2>3, <2>4 DEF StatusReal
  <2> QED BY <1>4, <2>1, <2>5, <2>6, StatusChecks DEF Integrities, Refusals
<1>9. CASE VerifyRecord(p)
  <2> DEFINE name == RecordAt(p).path
             Found(integrity) == [my[p] EXCEPT !.records = Append(@, integrity)]
             good == Readable(name) /\ Sha256(On(name)) = RecordAt(p).sha256
             records == my[p].records
             evaluations == my[p].snapshot.evaluations
  <2>1. /\ Running(p, "verify", "check") /\ RecordsLeft(p)
        /\ \/ Refuse(p, "Unreadable")
           \/ \E integrity \in Integrities :
                 (integrity = "verified" => good) /\ Continue(p, "check", Found(integrity))
    BY <1>9 DEF VerifyRecord, Integrities
  <2>2. SUFFICES ASSUME NEW integrity \in Integrities, integrity = "verified" => good,
                        Continue(p, "check", Found(integrity))
                 PROVE  OwnChecks(p)
    BY <1>4, <2>1 DEF Refusals
  <2>3. /\ evaluations \in Seq(Evaluations) /\ records \in Seq(Integrities)
        /\ Len(evaluations) \in Nat /\ Len(records) \in Nat
    BY <1>1, <2>1, VerifyingType
  <2>4. evaluations[Len(records) + 1] \in Evaluations
    <3>1. Len(records) + 1 \in 1..Len(evaluations)
      BY <2>1, <2>3 DEF RecordsLeft
    <3> QED BY <2>3, <3>1
  <2>5. name \in Names /\ RecordAt(p) = evaluations[Len(records) + 1].record
    BY <2>4 DEF RecordAt, Evaluations, HashedRefs
  <2>6. RecordReal(seen[p], RecordAt(p), integrity)
    <3>1. good => On(name) \in Contents /\ <<name, On(name)>> \in seen[p]
      BY <1>1, <2>5, OnType, SeesWhatItReads
    <3> QED BY <2>2, <3>1 DEF RecordReal, Saw
  <2> DEFINE mine == Found(integrity)
  <2>7. /\ mine.records = Append(records, integrity)
        /\ mine.statuses = my[p].statuses /\ mine.snapshot = my[p].snapshot
    BY <1>1 DEF Locals
  <2>8. \A i \in DOMAIN records : RecordReal(seen[p], evaluations[i].record, records[i])
    BY <1>3 DEF Checked
  <2> HIDE DEF mine, records, evaluations
  <2>9. \A i \in DOMAIN mine.records :
           \/ i \in DOMAIN records /\ mine.records[i] = records[i]
           \/ i = Len(records) + 1 /\ mine.records[i] = integrity
    BY <2>3, <2>7
  <2>10. \A i \in DOMAIN mine.records : RecordReal(seen[p], evaluations[i].record, mine.records[i])
    BY <2>5, <2>6, <2>8, <2>9
  <2>11. Checked(mine, seen[p]) /\ Extended(mine, manifest)
    <3>1. Extended(my[p], manifest)
      BY <1>1, <1>2, <2>1 DEF Checks, Running
    <3> QED BY <1>3, <2>7, <2>10, <3>1 DEF Checked, Extended, evaluations
  <2> QED BY <1>1, <2>2, <2>11, ContinueChecks DEF mine
<1>10. CASE VerifyReport(p)
  <2>1. /\ Running(p, "verify", "check") /\ ~AssetsLeft(p) /\ ~RecordsLeft(p)
        /\ Continue(p, "lock", my[p]) \/ End(p, Verdict(my[p]), None)
    BY <1>10 DEF VerifyReport
  <2>2. Extended(my[p], manifest)
    BY <1>1, <1>2, <2>1 DEF Checks, Running
  <2>3. Verdict(my[p]) = "AllVerified" => AllGood(my[p])
    <3>1. /\ my[p].snapshot \in Manifests /\ VerifyKnows("check", my[p])
          /\ Len(my[p].snapshot.assets) \in Nat /\ Len(my[p].snapshot.evaluations) \in Nat
          /\ Len(my[p].statuses) \in Nat /\ Len(my[p].records) \in Nat
      BY <1>1, <2>1, VerifyingType
    <3>2. Len(my[p].statuses) = Len(my[p].snapshot.assets)
          /\ Len(my[p].records) = Len(my[p].snapshot.evaluations)
      BY <2>1, <3>1 DEF VerifyKnows, AssetsLeft, RecordsLeft
    <3> QED BY <3>1, <3>2 DEF Verdict, AllGood
  <2> QED BY <1>1, <1>3, <2>1, <2>2, <2>3, VerdictAnswers, EndChecks, ContinueChecks
<1>11. CASE VerifyClock(p)
  <2> DEFINE mine == [my[p] EXCEPT !.time = now]
  <2>1. Running(p, "verify", "write") /\ Continue(p, "write", mine)
    BY <1>11 DEF VerifyClock
  <2>2. /\ mine.statuses = my[p].statuses /\ mine.records = my[p].records
        /\ mine.snapshot = my[p].snapshot
    BY <1>1 DEF Locals
  <2> HIDE DEF mine
  <2>3. Checked(mine, seen[p]) /\ Extended(mine, manifest)
    BY <1>1, <1>2, <1>3, <2>1, <2>2 DEF Checks, Running, Checked, Extended
  <2> QED BY <1>1, <2>1, <2>3, ContinueChecks
<1>12. CASE VerifyStamp(p)
  <2>1. Verdict(my[p]) = "AllVerified" => AllGood(my[p])
    BY <1>3, <1>12 DEF VerifyStamp, Running, VerifyKnows, Verdict, AllGood
  <2> QED BY <1>1, <1>3, <1>12, <2>1, VerdictAnswers, EndChecks, CommitChecks
      DEF VerifyStamp
<1> QED BY <1>6, <1>7, <1>8, <1>9, <1>10, <1>11, <1>12 DEF Verify

LEMMA InitVInv == Init => VInv
<1> SUFFICES ASSUME Init PROVE VInv
  OBVIOUS
<1>1. Blank.statuses = <<>> /\ Blank.records = <<>>
  BY DEF Blank
<1> QED BY <1>1, InitSInv DEF Init, VInv, Checks, Checked

LEMMA WorldChecks == ASSUME VInv, Watches, NEW p \in Procs PROVE OwnChecks(p)
<1>1. /\ Checks(cmd[p], pc[p], my[p], seen[p], manifest) /\ my[p] \in Locals
      /\ pc'[p] = pc[p] /\ my'[p] = my[p] /\ manifest' = manifest
  BY MyType DEF VInv, SInv, RInv, CInv, Watches
<1>2. CASE cmd[p].do = "verify" /\ pc[p] = "start"
  <2>1. my[p].statuses = <<>> /\ my[p].records = <<>>
    BY <1>2, MyType DEF VInv, SInv, RInv, CInv, Knows, VerifyKnows
  <2> QED BY <1>1, <1>2, <2>1 DEF OwnChecks, Checks, Checked
<1>3. CASE cmd[p].do = "verify" /\ pc[p] # "start" /\ pc[p] \notin Ended
  <2>1. seen[p] \subseteq seen'[p] /\ my[p].statuses \in Seq(Integrities)
    BY <1>1, <1>3 DEF Watches, Locals
  <2>2. Checked(my[p], seen'[p])
    BY <1>1, <1>3, <2>1, CheckedGrows DEF Checks
  <2> QED BY <1>1, <2>2 DEF OwnChecks, Checks
<1>4. CASE cmd[p].do = "verify" /\ pc[p] \in Ended
  BY <1>1, <1>4 DEF OwnChecks, Checks, Ended
<1> QED BY <1>2, <1>3, <1>4 DEF OwnChecks, Checks

LEMMA NextVInv == VInv /\ [Next]_vars => VInv'
<1> SUFFICES ASSUME VInv, [Next]_vars PROVE VInv'
  OBVIOUS
<1>1. SInv' /\ SInv /\ CInv /\ TInv
  BY NextSInv DEF VInv, SInv, RInv, CInv
<1>2. CASE UNCHANGED vars
  BY <1>1, <1>2 DEF vars, VInv
<1>3. CASE Edit \/ Relink \/ Tick
  <2>1. Watches
    BY <1>1, <1>3, WorldWatches DEF SInv
  <2>2. \A p \in Procs : OwnChecks(p)
    BY <2>1, WorldChecks
  <2> QED BY <1>1, <2>1, <2>2 DEF VInv, OwnChecks, Watches
<1>4. ASSUME NEW p \in Procs, Command(p) \/ AcquireFails(p) \/ Crash(p) PROVE VInv'
  <2>1. Moves(p) /\ Next
    BY <1>1, <1>4, StepMoves DEF Next
  <2>2. \A q \in Procs : Checks(cmd[q], pc[q], my[q], seen[q], manifest')
    BY <1>1, <2>1, ChecksGrow DEF VInv
  <2>3. OwnChecks(p)
    <3>1. ASSUME cmd[p].do # "verify" PROVE OwnChecks(p)
      BY <3>1 DEF OwnChecks, Checks
    <3>2. ASSUME InitProject(p) \/ Add(p) \/ Import(p) \/ Show(p) PROVE cmd[p].do # "verify"
      BY <3>2 DEF InitProject, InitStart, InitExists, InitWrite, Show, ShowLoad, ShowPrint,
         Add, AddCheck, AddResolve, AddHash, AddWrite, Import, ImportBeforeLock, ImportCheck,
         ImportLocate, ImportRead, ImportResolveStem, ImportHashStem, ImportDecide,
         ImportInput, ImportStem, ImportWriteJob, ImportEvaluation, Importing, Running
    <3> QED BY <1>4, <3>1, <3>2, PlainChecks, VerifyChecks DEF Command
  <2> QED BY <1>1, <2>1, <2>2, <2>3 DEF Moves, OwnChecks, VInv
<1>5. CASE Quiet
  BY <1>2, <1>5 DEF Quiet
<1> QED BY <1>2, <1>3, <1>4, <1>5 DEF Next

LEMMA AlwaysVInv == Spec => []VInv
BY InitVInv, NextVInv, PTL DEF Spec

\* A good verdict is of every asset and every record.
LEMMA AllGoodAt ==
  ASSUME TInv, NEW p \in Procs, AllGood(my[p])
  PROVE  /\ \A i \in DOMAIN my[p].snapshot.assets :
               i \in DOMAIN my[p].statuses /\ my[p].statuses[i] = "verified"
         /\ \A i \in DOMAIN my[p].snapshot.evaluations :
               i \in DOMAIN my[p].records /\ my[p].records[i] = "verified"
<1>1. my[p].statuses \in Seq(Integrities) /\ my[p].records \in Seq(Integrities)
  BY MyType DEF Locals
<1>2. my[p].snapshot.assets \in Seq(Assets) /\ my[p].snapshot.evaluations \in Seq(Evaluations)
  BY Parts DEF AllGood
<1>3. DOMAIN my[p].snapshot.assets = DOMAIN my[p].statuses
      /\ DOMAIN my[p].snapshot.evaluations = DOMAIN my[p].records
  BY <1>1, <1>2 DEF AllGood
<1> QED BY <1>3 DEF AllGood, Range

(***************************************************************************)
(* What verify reports of a file was so during the pass: verified files    *)
(* held the recorded bytes, missing ones were absent, modified ones held   *)
(* other bytes; a pass with a good verdict has seen every comparison       *)
(* record hold its bytes too (check_integrity, check_record_integrity).    *)
(***************************************************************************)
THEOREM StatusesAreTrue == Spec => []StatusWasReal
<1>1. VInv => StatusWasReal
  <2> SUFFICES ASSUME VInv, NEW p \in Procs, pc[p] = "return", cmd[p].do = "verify"
               PROVE  /\ \A i \in DOMAIN my[p].statuses :
                            StatusReal(seen[p], my[p].snapshot.assets[i], my[p].statuses[i])
                      /\ ExitsZero(p) =>
                           /\ \A i \in DOMAIN my[p].snapshot.assets :
                                 Saw(seen[p], my[p].snapshot.assets[i].path,
                                     my[p].snapshot.assets[i].sha256)
                           /\ \A i \in DOMAIN my[p].snapshot.evaluations :
                                 LET r == my[p].snapshot.evaluations[i].record
                                 IN  Saw(seen[p], r.path, r.sha256)
    BY DEF StatusWasReal, StatusReal, Witnessed, Saw
  <2>1. /\ Checked(my[p], seen[p]) /\ my[p].result.kind \in VerifyAnswers
        /\ my[p].result.kind = "AllVerified" => AllGood(my[p])
    BY DEF VInv, Checks, Ended
  <2>2. ASSUME ExitsZero(p) PROVE AllGood(my[p])
    <3>1. my[p].result.kind = "AllVerified"
      BY <2>1, <2>2 DEF ExitsZero, InitSucceeds, AddSucceeds, ImportSucceeds, VerifySucceeds,
         ShowSucceeds, VerifyAnswers, Refusals
    <3> QED BY <2>1, <3>1
  <2>3. ASSUME ExitsZero(p), NEW i \in DOMAIN my[p].snapshot.assets
        PROVE  Saw(seen[p], my[p].snapshot.assets[i].path, my[p].snapshot.assets[i].sha256)
    <3>1. i \in DOMAIN my[p].statuses /\ my[p].statuses[i] = "verified"
      BY <2>2, <2>3, AllGoodAt DEF VInv, SInv, RInv, CInv
    <3> QED BY <2>1, <3>1 DEF Checked, StatusReal
  <2>4. ASSUME ExitsZero(p), NEW i \in DOMAIN my[p].snapshot.evaluations
        PROVE  LET r == my[p].snapshot.evaluations[i].record IN Saw(seen[p], r.path, r.sha256)
    <3>1. i \in DOMAIN my[p].records /\ my[p].records[i] = "verified"
      BY <2>2, <2>4, AllGoodAt DEF VInv, SInv, RInv, CInv
    <3> QED BY <2>1, <3>1 DEF Checked, RecordReal
  <2> QED BY <2>1, <2>3, <2>4 DEF Checked
<1> QED BY <1>1, AlwaysVInv, PTL

(***************************************************************************)
(* The stamps: verify stamps what it has seen to be good, and all of it.   *)
(***************************************************************************)
\* The ids and hashes of the snapshot are those of the manifest read under the
\* lock, entry by entry, so what passed by id and hash is what passed by place.
LEMMA StampedIsVerified ==
  ASSUME VInv, NEW p \in Procs, Running(p, "verify", "write")
  PROVE  LET m == my[p].m
             snapshot == my[p].snapshot
         IN  /\ m = manifest /\ m \in Manifests /\ lock = p
             /\ \A i \in DOMAIN my[p].statuses :
                   /\ i \in DOMAIN m.assets /\ i \in DOMAIN snapshot.assets
                   /\ m.assets[i].id = snapshot.assets[i].id
                   /\ my[p].statuses[i] = "verified" => i \in Stamped(p)
             /\ \A i \in Stamped(p) :
                   /\ i \in DOMAIN my[p].statuses /\ my[p].statuses[i] = "verified"
                   /\ m.assets[i].path = snapshot.assets[i].path
                   /\ m.assets[i].sha256 = snapshot.assets[i].sha256
<1> DEFINE m == my[p].m
           snapshot == my[p].snapshot
           old == snapshot.assets
           new == m.assets
           statuses == my[p].statuses
<1>1. /\ TInv /\ m = manifest /\ lock = p /\ Extends(snapshot, manifest)
      /\ snapshot \in Manifests /\ m \in Manifests /\ Len(statuses) = Len(old)
      /\ my[p] \in Locals
  <2>1. TInv /\ IInv /\ my[p] \in Locals /\ Knows(cmd[p], "write", my[p]) /\ Extended(my[p], manifest)
    BY MyType DEF VInv, SInv, RInv, CInv, Checks, Running
  <2> QED BY <2>1 DEF Running, IInv, SnapshotIsCurrent, UnderLock, Knows, VerifyKnows, Extended
<1>2. Consistent(m) /\ UniqueIds(new)
  BY <1>1, NoProjectAssumption DEF VInv, SInv, RInv, CInv, ManifestConsistent, Consistent
<1>3. /\ old \in Seq(Assets) /\ new \in Seq(Assets) /\ statuses \in Seq(Integrities)
      /\ DOMAIN statuses = DOMAIN old /\ DOMAIN old \subseteq DOMAIN new
      /\ \A i \in DOMAIN old : SameAsset(old[i], new[i])
  <2>1. old \in Seq(Assets) /\ new \in Seq(Assets) /\ statuses \in Seq(Integrities)
    BY <1>1, Parts DEF Locals
  <2>2. Len(old) <= Len(new) /\ \A i \in DOMAIN old : SameAsset(old[i], new[i])
    BY <1>1 DEF Extends
  <2> HIDE DEF old, new, statuses
  <2>3. DOMAIN statuses = DOMAIN old /\ DOMAIN old \subseteq DOMAIN new
    BY <1>1, <2>1, <2>2 DEF old, statuses
  <2> QED BY <2>1, <2>2, <2>3
<1>4. \A i \in DOMAIN old : /\ new[i].id = old[i].id /\ new[i].path = old[i].path
                            /\ new[i].sha256 = old[i].sha256
  BY <1>3, SameAssetFields
<1>5. \A i, j \in DOMAIN new : new[i].id = new[j].id => i = j
  BY <1>2 DEF UniqueIds
<1>6. DOMAIN old \subseteq Nat /\ \A i \in Nat : i <= i
  BY <1>3
<1> DEFINE Good(id, h) == {i \in DOMAIN statuses :
                             /\ statuses[i] = "verified" /\ old[i].id = id
                             /\ h = None \/ old[i].sha256 = h}
<1>7. \A id, h : Passed(my[p], id, h) <=>
         Good(id, h) # {} /\ \E i \in Good(id, h) : \A j \in Good(id, None) : j <= i
  BY DEF Passed
<1>8. Stamped(p) = {i \in DOMAIN new : Passed(my[p], new[i].id, new[i].sha256)}
  BY DEF Stamped
<1> HIDE DEF old, new, statuses
<1>9. ASSUME NEW i \in DOMAIN statuses, statuses[i] = "verified" PROVE i \in Stamped(p)
  <2>1. i \in Good(new[i].id, new[i].sha256)
    BY <1>3, <1>4, <1>9
  <2>2. \A j \in Good(new[i].id, None) : j = i
    BY <1>3, <1>4, <1>5, <1>9
  <2> HIDE DEF Good
  <2>3. \A j \in Good(new[i].id, None) : j <= i
    BY <1>3, <1>6, <1>9, <2>2
  <2> QED BY <1>3, <1>7, <1>8, <1>9, <2>1, <2>3
<1>10. ASSUME NEW i \in Stamped(p) PROVE i \in DOMAIN statuses /\ statuses[i] = "verified"
  <2>1. PICK k : k \in Good(new[i].id, new[i].sha256)
    BY <1>7, <1>8
  <2>2. k \in DOMAIN statuses /\ statuses[k] = "verified" /\ old[k].id = new[i].id
    BY <2>1
  <2> QED BY <1>3, <1>4, <1>5, <1>8, <2>2
<1> QED BY <1>1, <1>3, <1>4, <1>9, <1>10 DEF old, new, statuses

\* An entry keeps its stamp in every write but verify's.
LEMMA OthersKeepStamps ==
  ASSUME VInv, NEW p \in Procs, Writes(p), ~VerifyStamp(p), manifest # NoProject,
         manifest' # manifest, NEW i \in DOMAIN manifest.assets
  PROVE  manifest'.assets[i] = manifest.assets[i]
<1>1. TInv /\ my[p].m = manifest /\ manifest \in Manifests
  BY WritesUnderLock DEF VInv, SInv, RInv, CInv, IInv, SnapshotIsCurrent, TInv, TypeOK
<1>2. \A why : ~Refuse(p, why) /\ \A kind, id : ~End(p, kind, id)
  BY DEF Refuse, End, Continue, shared
<1>3. ~InitWrite(p)
  BY <1>1, MyType DEF InitWrite, Running, Knows
<1>4. \E new \in Manifests : manifest' = new /\ IsPrefix(manifest.assets, new.assets)
  <2>1. CASE AddWrite(p)
    BY <1>1, <1>2, <2>1, AddRegisters, CommitNew DEF Registers, AppendsAssets
  <2>2. CASE ImportWriteJob(p)
    BY <1>1, <1>2, <2>2, JobWrites, CommitNew DEF ImportsJob, AppendsAssets
  <2>3. CASE ImportEvaluation(p)
    BY <1>1, <1>2, <2>3, EvaluationWrites, CommitNew, Parts, PrefixReflexive
  <2> QED BY <1>3, <2>1, <2>2, <2>3 DEF Writes
<1> QED BY <1>1, <1>4, Parts, PrefixEntries

(***************************************************************************)
(* No stamp is given away: the time an asset was last verified moves only  *)
(* in the write of a verify that saw, during its pass, the recorded bytes  *)
(* at the asset's path (stamp_verified).                                   *)
(***************************************************************************)
THEOREM StampsAreEarned == Spec => StampIsEarned
<1>1. VInv /\ [Next]_vars => [StampedWasGood]_vars
  <2> SUFFICES ASSUME VInv, Next, manifest # NoProject, NEW i \in DOMAIN manifest.assets,
                      manifest'.assets[i].last_verified # manifest.assets[i].last_verified
               PROVE  Saw(seen[lock], manifest.assets[i].path, manifest.assets[i].sha256)
    BY DEF StampedWasGood, Witnessed, Saw
  <2>1. manifest' # manifest
    OBVIOUS
  <2>2. PICK p \in Procs : Writes(p)
    BY <2>1, WriteSteps
  <2>3. VerifyStamp(p)
    BY <2>1, <2>2, OthersKeepStamps
  <2>4. Running(p, "verify", "write")
    BY <2>3 DEF VerifyStamp
  <2>5. PICK new \in Manifests : Commit(p, new, Verdict(my[p]), None)
                                 /\ new.assets = StampAssets(p)
    <3>1. \A why : ~Refuse(p, why) /\ \A kind, id : ~End(p, kind, id)
      BY <2>1 DEF Refuse, End, Continue, shared
    <3> QED BY <2>3, <3>1, StampWrites DEF VInv, SInv, RInv, CInv
  <2>6. i \in Stamped(p)
    BY <2>1, <2>4, <2>5, CommitNew, StampedIsVerified DEF StampAssets
  <2>7. /\ lock = p /\ i \in DOMAIN my[p].statuses /\ my[p].statuses[i] = "verified"
        /\ manifest.assets[i].path = my[p].snapshot.assets[i].path
        /\ manifest.assets[i].sha256 = my[p].snapshot.assets[i].sha256
    BY <2>4, <2>6, StampedIsVerified
  <2>8. StatusReal(seen[p], my[p].snapshot.assets[i], "verified")
    BY <2>4, <2>7 DEF VInv, Checks, Checked, Running, Ended
  <2> QED BY <2>7, <2>8 DEF StatusReal
<1> QED BY <1>1, AlwaysVInv, PTL DEF Spec, StampIsEarned

(***************************************************************************)
(* A pass that ended with a verdict still holds the lock until it returns, *)
(* so its stamps are in the manifest when it does.                         *)
(***************************************************************************)
StampedIn(mine, m) ==
    \A i \in DOMAIN mine.statuses : mine.statuses[i] = "verified" =>
        \E j \in DOMAIN m.assets :
           /\ m.assets[j].id = mine.snapshot.assets[i].id
           /\ m.assets[j].last_verified = mine.time /\ mine.time # 0

HasVerdict(at, mine) ==
    /\ at = "return" /\ mine.result.kind \in {"AllVerified", "NotAllVerified"}
    /\ "verified" \in Range(mine.statuses)

Kept(p) == HasVerdict(pc[p], my[p]) => lock = p /\ StampedIn(my[p], manifest)

PInv == VInv /\ \A p \in Procs : Kept(p)

LEMMA RefuseKept ==
  ASSUME TInv, NEW p \in Procs, NEW kind, kind \notin {"AllVerified", "NotAllVerified"}, NEW id,
         End(p, kind, id)
  PROVE  Kept(p)'
<1>1. pc'[p] = "return" /\ my'[p] = Answer(p, kind, id)
  BY DEF End, Continue, TInv, TypeOK
<1> QED BY <1>1, AnswerIs DEF Kept, HasVerdict

LEMMA ContinueKept ==
  ASSUME TInv, NEW p \in Procs, NEW label, NEW mine, label # "return", Continue(p, label, mine)
  PROVE  Kept(p)'
BY DEF Continue, TInv, TypeOK, Kept, HasVerdict

LEMMA CommitKept ==
  ASSUME TInv, NEW p \in Procs, NEW kind, kind \notin {"AllVerified", "NotAllVerified"}, NEW id,
         NEW new, Commit(p, new, kind, id)
  PROVE  Kept(p)'
<1>1. CASE Refuse(p, "Io")
  BY <1>1, RefuseKept DEF Refuse
<1>2. CASE pc' = [pc EXCEPT ![p] = "return"] /\ my' = [my EXCEPT ![p] = Answer(p, kind, id)]
  <2>1. my'[p] = Answer(p, kind, id)
    BY <1>2 DEF TInv, TypeOK
  <2> QED BY <2>1, AnswerIs DEF Kept, HasVerdict
<1> QED BY <1>1, <1>2 DEF Commit

LEMMA StampKept == ASSUME VInv, NEW p \in Procs, VerifyStamp(p) PROVE Kept(p)'
<1> DEFINE verdict == Verdict(my[p])
           mine == Answer(p, verdict, None)
<1>1. /\ Running(p, "verify", "write") /\ my[p].time # 0 /\ TInv /\ my[p] \in Locals
      /\ lock = p /\ my[p].m \in Manifests
  BY MyType, StampedIsVerified DEF VerifyStamp, VInv, SInv, RInv, CInv
<1>2. /\ mine.statuses = my[p].statuses /\ mine.snapshot = my[p].snapshot
      /\ mine.time = my[p].time
  BY <1>1 DEF Answer, Locals
<1>3. \A i \in DOMAIN mine.statuses : mine.statuses[i] = "verified" => i \in Stamped(p)
  BY <1>1, <1>2, StampedIsVerified
<1> HIDE DEF mine
<1>4. CASE Refuse(p, "Io")
  BY <1>1, <1>4, RefuseKept DEF Refuse
<1>5. CASE Stamped(p) = {} /\ End(p, verdict, None)
  <2>1. "verified" \notin Range(mine.statuses)
    BY <1>3, <1>5 DEF Range
  <2>2. my'[p] = mine
    BY <1>1, <1>5 DEF End, Continue, TInv, TypeOK, mine
  <2> QED BY <2>1, <2>2 DEF Kept, HasVerdict
<1>6. ASSUME NEW new \in Manifests, ~Refuse(p, "Io"), Commit(p, new, verdict, None),
             new.assets = StampAssets(p)
      PROVE  Kept(p)'
  <2>1. manifest' = new /\ my'[p] = mine /\ lock' = lock
    BY <1>1, <1>6 DEF Commit, TInv, TypeOK, mine
  <2>2. ASSUME NEW i \in DOMAIN mine.statuses, mine.statuses[i] = "verified"
        PROVE  /\ i \in DOMAIN new.assets
               /\ new.assets[i].id = mine.snapshot.assets[i].id
               /\ new.assets[i].last_verified = mine.time
    <3>1. i \in Stamped(p) /\ i \in DOMAIN my[p].m.assets
          /\ my[p].m.assets[i].id = mine.snapshot.assets[i].id
      BY <1>1, <1>2, <1>3, <2>2, StampedIsVerified
    <3>2. my[p].m.assets[i] \in Assets
      BY <1>1, <3>1, Parts
    <3>3. i \in DOMAIN new.assets
          /\ new.assets[i] = [my[p].m.assets[i] EXCEPT !.last_verified = my[p].time]
      BY <1>6, <3>1 DEF StampAssets
    <3> QED BY <1>2, <3>1, <3>2, <3>3 DEF Assets
  <2>3. StampedIn(mine, new)
    BY <1>1, <1>2, <2>2 DEF StampedIn
  <2> QED BY <1>1, <2>1, <2>3 DEF Kept
<1> QED BY <1>1, <1>4, <1>5, <1>6, StampWrites

LEMMA OwnKept ==
  ASSUME PInv, NEW p \in Procs, Command(p) \/ AcquireFails(p) \/ Crash(p) PROVE Kept(p)'
<1>1. TInv /\ my[p] \in Locals /\ pc \in [Procs -> Labels] /\ my \in [Procs -> Locals] /\ VInv
  BY MyType DEF PInv, VInv, SInv, RInv, CInv, TInv, TypeOK
<1>2. \A why \in Refusals : Refuse(p, why) => Kept(p)'
  <2>1. Refusals \cap {"AllVerified", "NotAllVerified"} = {}
    BY DEF Refusals
  <2> QED BY <1>1, <2>1, RefuseKept DEF Refuse
<1>3. \A label, mine : label # "return" /\ Continue(p, label, mine) => Kept(p)'
  BY <1>1, ContinueKept
<1>4. CASE Acquire(p) \/ Return(p) \/ Crash(p)
  BY <1>1, <1>4 DEF Acquire, Return, Crash, Kept, HasVerdict
<1>5. CASE AcquireFails(p) \/ Load(p)
  BY <1>2, <1>3, <1>5 DEF AcquireFails, Load, Refusals
<1>6. CASE InitProject(p)
  BY <1>1, <1>2, <1>3, <1>6, CommitKept DEF InitProject, InitStart, InitExists, InitWrite, Refusals
<1>7. CASE Show(p)
  BY <1>1, <1>2, <1>3, <1>7, RefuseKept DEF Show, ShowLoad, ShowPrint, Refusals
<1>8. CASE Add(p)
  <2>1. CASE AddCheck(p) \/ AddResolve(p) \/ AddHash(p)
    BY <1>2, <1>3, <2>1 DEF AddCheck, AddResolve, AddHash, Refusals
  <2>2. CASE AddWrite(p)
    BY <1>1, <1>2, <2>2, CommitKept DEF AddWrite, Refusals
  <2> QED BY <1>8, <2>1, <2>2 DEF Add
<1>9. CASE Import(p)
  <2>1. CASE \/ ImportBeforeLock(p) \/ ImportInput(p) \/ ImportStem(p)
             \/ ImportDecide(p) /\ JobsDone(p) = {}
    BY <1>2, <1>3, <2>1, ImportGoesOn
  <2>2. CASE ImportDecide(p) /\ JobsDone(p) # {}
    BY <1>1, <2>2, RefuseKept DEF ImportDecide
  <2>3. CASE ImportWriteJob(p) \/ ImportEvaluation(p)
    BY <1>1, <1>2, <2>3, RefuseKept, CommitKept DEF ImportWriteJob, ImportEvaluation, Refusals
  <2> QED BY <1>9, <2>1, <2>2, <2>3 DEF Import
<1>10. CASE Verify(p)
  <2>1. CASE VerifyLoad(p) \/ VerifyStat(p) \/ VerifyHash(p)
    BY <1>2, <1>3, <2>1 DEF VerifyLoad, VerifyStat, VerifyHash, Refusals
  <2>2. CASE VerifyRecord(p) \/ VerifyClock(p)
    BY <1>2, <1>3, <2>2 DEF VerifyRecord, VerifyClock, Refusals
  <2>3. CASE VerifyReport(p)
    <3>1. CASE Continue(p, "lock", my[p])
      BY <1>3, <3>1
    <3>2. CASE "verified" \notin Range(my[p].statuses) /\ End(p, Verdict(my[p]), None)
      <4>1. my'[p] = Answer(p, Verdict(my[p]), None)
        BY <1>1, <3>2 DEF End, Continue
      <4>2. my'[p].statuses = my[p].statuses
        BY <1>1, <4>1 DEF Answer, Locals
      <4> QED BY <3>2, <4>2 DEF Kept, HasVerdict
    <3> QED BY <2>3, <3>1, <3>2 DEF VerifyReport
  <2> QED BY <1>1, <1>10, <2>1, <2>2, <2>3, StampKept DEF Verify
<1> QED BY <1>4, <1>5, <1>6, <1>7, <1>8, <1>9, <1>10 DEF Command

\* Nobody else writes or takes the lock while a command holds it.
LEMMA OthersKept ==
  ASSUME PInv, Next, NEW p \in Procs, NEW q \in Procs, p # q,
         Command(q) \/ AcquireFails(q) \/ Crash(q)
  PROVE  Kept(p)'
<1>1. Moves(q) /\ IInv /\ Kept(p)
  BY StepMoves DEF PInv, VInv, SInv, RInv, CInv
<1>2. SUFFICES ASSUME HasVerdict(pc[p], my[p]) PROVE lock' = p /\ StampedIn(my[p], manifest')
  BY <1>1 DEF Kept, Moves
<1>3. lock = p /\ StampedIn(my[p], manifest) /\ pc[p] = "return"
  BY <1>1, <1>2 DEF Kept, HasVerdict
<1>4. lock' = lock
  BY <1>1, <1>3, FreeAssumption DEF Moves
<1>5. manifest' = manifest
  <2>1. \A r \in Procs : pc[r] \in UnderLock => r = p
    BY <1>1, <1>3 DEF IInv, SnapshotIsCurrent
  <2> QED BY <1>3, <2>1, WriteSteps, WritesUnderLock DEF UnderLock
<1> QED BY <1>3, <1>4, <1>5

LEMMA NextPInv == PInv /\ [Next]_vars => PInv'
<1> SUFFICES ASSUME PInv, [Next]_vars PROVE PInv'
  OBVIOUS
<1>1. VInv'
  BY NextVInv DEF PInv
<1>2. CASE UNCHANGED vars
  BY <1>1, <1>2 DEF vars, PInv, Kept
<1>3. CASE Edit \/ Relink \/ Tick
  BY <1>1, <1>3 DEF Edit, Relink, Tick, PInv, Kept
<1>4. ASSUME NEW q \in Procs, Command(q) \/ AcquireFails(q) \/ Crash(q) PROVE PInv'
  <2>1. Next
    BY <1>4 DEF Next
  <2>2. \A p \in Procs : Kept(p)'
    BY <1>4, <2>1, OwnKept, OthersKept
  <2> QED BY <1>1, <2>2 DEF PInv
<1>5. CASE Quiet
  BY <1>2, <1>5 DEF Quiet
<1> QED BY <1>2, <1>3, <1>4, <1>5 DEF Next

LEMMA AlwaysPInv == Spec => []PInv
<1>1. Init => PInv
  BY InitVInv DEF Init, PInv, Kept, HasVerdict
<1> QED BY <1>1, NextPInv, PTL DEF Spec

(***************************************************************************)
(* No stamp is withheld: whatever else a pass finds, the files it found    *)
(* good carry a time of that pass when it returns (verify).                *)
(***************************************************************************)
THEOREM PassingIsStamped == Spec => []PassingAssetsAreStamped
<1>1. PInv => PassingAssetsAreStamped
  <2> SUFFICES ASSUME PInv, NEW p \in Procs, pc[p] = "return",
                      my[p].result.kind \in {"AllVerified", "NotAllVerified"},
                      NEW i \in DOMAIN my[p].statuses, my[p].statuses[i] = "verified"
               PROVE  StampedIn(my[p], manifest)
    BY DEF PassingAssetsAreStamped, StampedIn
  <2>1. "verified" \in Range(my[p].statuses)
    BY DEF Range
  <2> QED BY <2>1 DEF PInv, Kept, HasVerdict
<1> QED BY <1>1, AlwaysPInv, PTL

(***************************************************************************)
(* The identities add and import record.  import opens the canonical path  *)
(* it has resolved; add resolves the name it was given and opens that name *)
(* again.  So what add hashed was seen at the name, and at the path too    *)
(* only where nobody moves the name or the place it leads to.              *)
(***************************************************************************)
Stays(n) == \A e \in Relinks : e[1] # n

\* A canonical place resolves to itself, for as long as nobody moves anything on
\* the way to it.
Canonical == \A n \in Names :
    links[n] \in Paths /\ Stays(n) /\ Stays(links[n]) => links[links[n]] = links[n]

SawFile(c, mine, s) ==
    /\ Saw(s, c.name, mine.hash)
    /\ Stays(c.name) /\ Stays(mine.path) => Saw(s, mine.path, mine.hash)

\* add and import alone answer as they do.
Fits(c, at, mine) == at = "return" =>
    /\ mine.result.kind = "Added" => c.do = "add"
    /\ mine.result.kind = "Imported" => c.do = "import"

Identified(c, at, mine, s, l) == c.do = "add" =>
    /\ at = "hash" /\ Stays(c.name) => mine.path = l[c.name]
    /\ at \in {"lock", "load", "write"} => SawFile(c, mine, s)
    /\ at = "return" /\ mine.result.kind = "Added" => SawFile(c, mine, s)

DInv == /\ SInv /\ Canonical
        /\ \A p \in Procs : /\ Fits(cmd[p], pc[p], my[p])
                            /\ Identified(cmd[p], pc[p], my[p], seen[p], links)

OwnIdentified(p) == Fits(cmd[p], pc'[p], my'[p])
                    /\ Identified(cmd[p], pc'[p], my'[p], seen'[p], links')

LEMMA ContinueIdentified ==
  ASSUME TInv, NEW p \in Procs, NEW label, label # "return", NEW mine, Continue(p, label, mine),
         Identified(cmd[p], label, mine, seen[p], links)
  PROVE  OwnIdentified(p)
BY DEF Continue, shared, disk, TInv, TypeOK, OwnIdentified, Fits

LEMMA EndIdentified ==
  ASSUME TInv, NEW p \in Procs, NEW kind, kind \notin {"Added", "Imported"}, NEW id,
         End(p, kind, id)
  PROVE  OwnIdentified(p)
<1>1. pc'[p] = "return" /\ my'[p] = Answer(p, kind, id)
  BY DEF End, Continue, TInv, TypeOK
<1> QED BY <1>1, AnswerIs DEF OwnIdentified, Fits, Identified

LEMMA CommitIdentified ==
  ASSUME TInv, NEW p \in Procs, NEW kind, NEW id, NEW new, Commit(p, new, kind, id),
         kind = "Added" => cmd[p].do = "add" /\ SawFile(cmd[p], my[p], seen[p]),
         kind = "Imported" => cmd[p].do = "import"
  PROVE  OwnIdentified(p)
<1>1. CASE Refuse(p, "Io")
  BY <1>1, EndIdentified DEF Refuse
<1>2. CASE /\ pc' = [pc EXCEPT ![p] = "return"]
           /\ my' = [my EXCEPT ![p] = Answer(p, kind, id)] /\ seen' = seen
  <2>1. pc'[p] = "return" /\ my'[p] = Answer(p, kind, id) /\ seen'[p] = seen[p]
    BY <1>2 DEF TInv, TypeOK
  <2> QED BY <2>1, AnswerIs DEF OwnIdentified, Fits, Identified, SawFile
<1> QED BY <1>1, <1>2 DEF Commit

LEMMA RefuseIdentified ==
  ASSUME TInv, NEW p \in Procs, NEW why \in Refusals, Refuse(p, why) PROVE OwnIdentified(p)
<1>1. why \notin {"Added", "Imported"}
  BY DEF Refusals
<1> QED BY <1>1, EndIdentified DEF Refuse

LEMMA PlainIdentified ==
  ASSUME DInv, NEW p \in Procs,
         Acquire(p) \/ AcquireFails(p) \/ Load(p) \/ Return(p) \/ Crash(p)
  PROVE  OwnIdentified(p)
<1>1. /\ TInv /\ my[p] \in Locals /\ Identified(cmd[p], pc[p], my[p], seen[p], links)
      /\ pc \in [Procs -> Labels]
  BY MyType DEF DInv, SInv, RInv, CInv, TInv, TypeOK
<1>2. CASE Acquire(p)
  BY <1>1, <1>2 DEF Acquire, disk, OwnIdentified, Identified, Fits
<1>3. CASE AcquireFails(p)
  BY <1>1, <1>3, RefuseIdentified DEF AcquireFails, Refusals
<1>4. CASE Load(p)
  <2> DEFINE mine == [my[p] EXCEPT !.m = manifest]
             next == IF cmd[p].do = "import" THEN "decide" ELSE "write"
  <2>1. pc[p] = "load" /\ (Refuse(p, "NotAProject") \/ Continue(p, next, mine))
    BY <1>4 DEF Load
  <2>2. mine.path = my[p].path /\ mine.hash = my[p].hash
    BY <1>1 DEF Locals
  <2> HIDE DEF mine
  <2>3. Identified(cmd[p], next, mine, seen[p], links)
    BY <1>1, <2>1, <2>2 DEF Identified, SawFile
  <2> QED BY <1>1, <2>1, <2>3, RefuseIdentified, ContinueIdentified DEF Refusals
<1>5. CASE Return(p) \/ Crash(p)
  BY <1>1, <1>5 DEF Return, Crash, OwnIdentified, Identified, Fits
<1> QED BY <1>2, <1>3, <1>4, <1>5

LEMMA AddIdentified == ASSUME DInv, NEW p \in Procs, Add(p) PROVE OwnIdentified(p)
<1>1. /\ TInv /\ LooksOn /\ my[p] \in Locals /\ pc[p] \notin Ended
      /\ Identified(cmd[p], pc[p], my[p], seen[p], links) /\ AddKnows(pc[p], my[p])
  <2>1. cmd[p].do = "add"
    BY DEF Add, AddCheck, AddResolve, AddHash, AddWrite, Running
  <2> QED BY <2>1, MyType, ActsWhileRunning DEF DInv, SInv, RInv, CInv, Command, Knows
<1>2. cmd[p].do = "add" /\ cmd[p].name \in Names
  <2>1. cmd[p].do = "add"
    BY DEF Add, AddCheck, AddResolve, AddHash, AddWrite, Running
  <2> QED BY <1>1, <2>1, MyType, InvocationsAssumption
<1>3. CASE AddCheck(p)
  <2>1. Identified(cmd[p], "resolve", my[p], seen[p], links)
    BY DEF Identified
  <2> QED BY <1>1, <1>3, <2>1, RefuseIdentified, ContinueIdentified DEF AddCheck, Refusals
<1>4. CASE AddResolve(p)
  <2> DEFINE mine == [my[p] EXCEPT !.path = links[cmd[p].name]]
  <2>1. (\E why \in Refusals : Refuse(p, why)) \/ Continue(p, "hash", mine)
    BY <1>4 DEF AddResolve, Refusals
  <2>2. mine.path = links[cmd[p].name]
    BY <1>1 DEF Locals
  <2> HIDE DEF mine
  <2>3. Identified(cmd[p], "hash", mine, seen[p], links)
    BY <2>2 DEF Identified
  <2> QED BY <1>1, <2>1, <2>3, RefuseIdentified, ContinueIdentified
<1>5. CASE AddHash(p)
  <2> DEFINE name == cmd[p].name
             mine == [my[p] EXCEPT !.hash = Sha256(On(name)), !.size = SizeOf[On(name)]]
  <2>1. /\ pc[p] = "hash"
        /\ \/ Refuse(p, "Unreadable")
           \/ Readable(name) /\ Continue(p, "lock", mine)
    BY <1>5 DEF AddHash, Running
  <2>2. my[p].path \in Paths /\ my[p].path \in Names /\ (Stays(name) => my[p].path = links[name])
    BY <1>1, <1>2, <2>1, PathsAssumption DEF AddKnows, Identified
  <2>3. Stays(name) /\ Stays(my[p].path) => On(my[p].path) = On(name)
    BY <1>2, <2>2 DEF DInv, Canonical, On
  <2>4. /\ Readable(name) => On(name) \in Contents
        /\ <<name, On(name)>> \in seen[p] /\ <<my[p].path, On(my[p].path)>> \in seen[p]
    BY <1>1, <1>2, <2>2, OnType, SeesWhatItReads
  <2>5. mine.path = my[p].path /\ mine.hash = Sha256(On(name))
    BY <1>1 DEF Locals
  <2> HIDE DEF mine
  <2>6. Readable(name) => SawFile(cmd[p], mine, seen[p])
    BY <2>3, <2>4, <2>5 DEF SawFile, Saw
  <2>7. Readable(name) => Identified(cmd[p], "lock", mine, seen[p], links)
    BY <2>6 DEF Identified
  <2> QED BY <1>1, <2>1, <2>7, RefuseIdentified, ContinueIdentified DEF Refusals
<1>6. CASE AddWrite(p)
  <2>1. SawFile(cmd[p], my[p], seen[p])
    BY <1>1, <1>2, <1>6 DEF AddWrite, Running, Identified
  <2>2. \/ \E why \in Refusals : Refuse(p, why)
        \/ \E new, id : Commit(p, new, "Added", id)
    BY <1>6 DEF AddWrite, Refusals
  <2> QED BY <1>1, <1>2, <2>1, <2>2, RefuseIdentified, CommitIdentified
<1> QED BY <1>3, <1>4, <1>5, <1>6 DEF Add

LEMMA OthersIdentified ==
  ASSUME DInv, NEW p \in Procs, InitProject(p) \/ Import(p) \/ Verify(p) \/ Show(p)
  PROVE  OwnIdentified(p)
<1>1. TInv
  BY DEF DInv, SInv, RInv, CInv
<1>2. CASE InitProject(p)
  <2>1. cmd[p].do = "init"
    BY <1>2 DEF InitProject, InitStart, InitExists, InitWrite, Running
  <2>2. \A at, mine : Identified(cmd[p], at, mine, seen[p], links)
    BY <2>1 DEF Identified
  <2>3. CASE InitStart(p) \/ InitExists(p)
    BY <1>1, <2>2, <2>3, RefuseIdentified, ContinueIdentified DEF InitStart, InitExists, Refusals
  <2>4. CASE InitWrite(p)
    BY <1>1, <2>4, CommitIdentified DEF InitWrite
  <2> QED BY <1>2, <2>3, <2>4 DEF InitProject
<1>3. CASE Show(p)
  <2>1. \A at, mine : Identified(cmd[p], at, mine, seen[p], links)
    BY <1>3 DEF Identified, Show, ShowLoad, ShowPrint, Running
  <2>2. CASE ShowLoad(p)
    BY <1>1, <2>1, <2>2, RefuseIdentified, ContinueIdentified DEF ShowLoad, Refusals
  <2>3. CASE ShowPrint(p)
    BY <1>1, <2>3, RefuseIdentified, EndIdentified DEF ShowPrint, Refusals
  <2> QED BY <1>3, <2>2, <2>3 DEF Show
<1>4. CASE Import(p)
  <2>1. cmd[p].do = "import"
    BY <1>4 DEF Import, ImportBeforeLock, ImportCheck, ImportLocate, ImportRead,
       ImportResolveStem, ImportHashStem, ImportDecide, ImportInput, ImportStem,
       ImportWriteJob, ImportEvaluation, Importing, Running
  <2>2. \A at, mine : Identified(cmd[p], at, mine, seen[p], links)
    BY <2>1 DEF Identified
  <2>3. CASE \/ ImportBeforeLock(p) \/ ImportInput(p) \/ ImportStem(p)
             \/ ImportDecide(p) /\ JobsDone(p) = {}
    BY <1>1, <2>2, <2>3, ImportGoesOn, RefuseIdentified, ContinueIdentified
  <2>4. CASE ImportDecide(p) /\ JobsDone(p) # {}
    BY <1>1, <2>4, EndIdentified DEF ImportDecide
  <2>5. CASE ImportWriteJob(p)
    BY <1>1, <2>1, <2>5, CommitIdentified DEF ImportWriteJob
  <2>6. CASE ImportEvaluation(p)
    BY <1>1, <2>6, RefuseIdentified, EndIdentified, CommitIdentified DEF ImportEvaluation, Refusals
  <2> QED BY <1>4, <2>3, <2>4, <2>5, <2>6 DEF Import
<1>5. CASE Verify(p)
  <2>1. \A at, mine : Identified(cmd[p], at, mine, seen[p], links)
    BY <1>5 DEF Identified, Verify, VerifyLoad, VerifyStat, VerifyHash, VerifyRecord,
       VerifyReport, VerifyClock, VerifyStamp, Running
  <2>2. Verdict(my[p]) \notin {"Added", "Imported"}
    BY DEF Verdict
  <2>3. CASE VerifyLoad(p) \/ VerifyStat(p) \/ VerifyHash(p)
    BY <1>1, <2>1, <2>3, RefuseIdentified, ContinueIdentified
    DEF VerifyLoad, VerifyStat, VerifyHash, Refusals
  <2>4. CASE VerifyRecord(p) \/ VerifyClock(p)
    BY <1>1, <2>1, <2>4, RefuseIdentified, ContinueIdentified
    DEF VerifyRecord, VerifyClock, Refusals
  <2>5. CASE VerifyReport(p)
    BY <1>1, <2>1, <2>2, <2>5, EndIdentified, ContinueIdentified DEF VerifyReport
  <2>6. CASE VerifyStamp(p)
    BY <1>1, <2>2, <2>6, EndIdentified, RefuseIdentified, CommitIdentified
    DEF VerifyStamp, Refusals
  <2> QED BY <1>5, <2>3, <2>4, <2>5, <2>6 DEF Verify
<1> QED BY <1>2, <1>3, <1>4, <1>5

\* Only the links Relinks names ever move.
LEMMA WorldLinks ==
  ASSUME TInv, Edit \/ Relink \/ Tick
  PROVE  /\ \A n \in Names : Stays(n) => links'[n] = links[n]
         /\ Canonical => Canonical'
<1>1. \A n \in Names : Stays(n) => links'[n] = links[n]
  <2>1. links \in [Names -> Places]
    BY DEF TInv, TypeOK
  <2>2. CASE Edit \/ Tick
    BY <2>2 DEF Edit, Tick, disk
  <2>3. CASE Relink
    BY <2>1, <2>3 DEF Relink, Stays
  <2> QED BY <2>2, <2>3
<1>2. ASSUME Canonical, NEW n \in Names, links'[n] \in Paths, Stays(n), Stays(links'[n])
      PROVE  links'[links'[n]] = links'[n]
  <2>1. links'[n] = links[n] /\ links[n] \in Names
    BY <1>1, <1>2, PathsAssumption
  <2>2. links[links[n]] = links[n] /\ links'[links[n]] = links[links[n]]
    BY <1>1, <1>2, <2>1 DEF Canonical
  <2> QED BY <2>1, <2>2
<1> QED BY <1>1, <1>2 DEF Canonical, Stays

LEMMA WorldIdentified ==
  ASSUME DInv, Edit \/ Relink \/ Tick, NEW p \in Procs PROVE OwnIdentified(p)
<1>1. Watches /\ Fits(cmd[p], pc[p], my[p]) /\ Identified(cmd[p], pc[p], my[p], seen[p], links)
      /\ cmd[p] \in Invocations
  BY WorldWatches, MyType DEF DInv, SInv, RInv, CInv
<1>2. cmd[p].do = "add" /\ Stays(cmd[p].name) => links'[cmd[p].name] = links[cmd[p].name]
  BY <1>1, WorldLinks, InvocationsAssumption DEF DInv, SInv, RInv, CInv
<1>3. pc[p] \in {"lock", "load", "write", "return"} => seen[p] \subseteq seen'[p]
  BY <1>1 DEF Watches, Ended
<1>4. seen[p] \subseteq seen'[p] /\ SawFile(cmd[p], my[p], seen[p])
      => SawFile(cmd[p], my[p], seen'[p])
  BY DEF SawFile, Saw
<1> QED BY <1>1, <1>2, <1>3, <1>4 DEF OwnIdentified, Identified, Watches

LEMMA NextDInv == DInv /\ [Next]_vars => DInv'
<1> SUFFICES ASSUME DInv, [Next]_vars PROVE DInv'
  OBVIOUS
<1>1. SInv'
  BY NextSInv DEF DInv
<1>2. CASE UNCHANGED vars
  BY <1>1, <1>2 DEF vars, DInv, Canonical
<1>3. CASE Edit \/ Relink \/ Tick
  <2>1. Canonical'
    BY <1>3, WorldLinks DEF DInv, SInv, RInv, CInv
  <2> QED BY <1>1, <1>3, <2>1, WorldIdentified, WorldWatches DEF DInv, SInv, OwnIdentified, Watches
<1>4. ASSUME NEW p \in Procs, Command(p) \/ AcquireFails(p) \/ Crash(p) PROVE DInv'
  <2>1. Moves(p)
    BY <1>4, StepMoves DEF DInv, SInv, RInv, CInv
  <2>2. OwnIdentified(p)
    BY <1>4, PlainIdentified, AddIdentified, OthersIdentified DEF Command
  <2> QED BY <1>1, <2>1, <2>2 DEF Moves, OwnIdentified, DInv, Canonical
<1>5. CASE Quiet
  BY <1>2, <1>5 DEF Quiet
<1> QED BY <1>2, <1>3, <1>4, <1>5 DEF Next

(***************************************************************************)
(* What import records as the identity of a path is what a file at that    *)
(* path had at some moment of the command, whatever was edited or moved    *)
(* while it ran; what add records is what the name it was given led to,    *)
(* and what the path held where nobody moves the name or the path (add,    *)
(* resolve_inside_root, sha256_file, import).                              *)
(***************************************************************************)
THEOREM IdentitiesAreReal == Spec => []IdentityWasReal
<1>1. Init => DInv
  <2> SUFFICES ASSUME Init PROVE DInv
    OBVIOUS
  <2>1. Canonical
    BY CanonicalAssumption DEF Init, Canonical
  <2> QED BY <2>1, InitSInv DEF Init, DInv, Fits, Identified
<1>2. DInv /\ [Next]_vars => DInv'
  BY NextDInv
<1>3. DInv => IdentityWasReal
  <2> SUFFICES ASSUME DInv, NEW p \in Procs, pc[p] = "return"
               PROVE  /\ my[p].result.kind = "Added" => SawFile(cmd[p], my[p], seen[p])
                      /\ my[p].result.kind = "Imported" => AllReal(seen[p], my[p].fresh)
    <3>1. ASSUME NEW p \in Procs, SawFile(cmd[p], my[p], seen[p])
          PROVE  /\ Witnessed(p, cmd[p].name, my[p].hash)
                 /\ Unmoved(p) => Witnessed(p, my[p].path, my[p].hash)
      BY <3>1 DEF SawFile, Stays, Unmoved, Saw, Witnessed
    <3>2. ASSUME NEW p \in Procs, AllReal(seen[p], my[p].fresh), NEW i \in DOMAIN my[p].fresh
          PROVE  Witnessed(p, my[p].fresh[i].path, my[p].fresh[i].sha256)
      BY <3>2 DEF AllReal, Real, Witnessed
    <3> QED BY <3>1, <3>2 DEF IdentityWasReal
  <2> QED BY DEF DInv, SInv, Fits, Identified, Sighted, Ended
<1> QED BY <1>1, <1>2, <1>3, PTL DEF Spec

(***************************************************************************)
(* Lineage.  An import of a job record follows the record: its stems are   *)
(* the record's, at the paths they resolve to, and what it links are       *)
(* assets of those paths and of the input's bytes, among those registered  *)
(* and those it is about to register.                                      *)
(***************************************************************************)
RegisteredAt(assets, id, path) ==
    \E i \in DOMAIN assets : assets[i].id = id /\ assets[i].path = path

RegisteredWith(assets, id, sha256) ==
    \E i \in DOMAIN assets : assets[i].id = id /\ assets[i].sha256 = sha256

Following(r, mine, l) ==
    \A i \in DOMAIN mine.stems : mine.stems[i].path = l[Beside[mine.source, r.stems[i]]]

Linking(r, mine) ==
    LET known == mine.m.assets \o mine.fresh
    IN  /\ RegisteredWith(known, mine.input, r.input_sha256)
        /\ Len(mine.outputs) <= Len(mine.stems)
        /\ \A i \in DOMAIN mine.outputs : RegisteredAt(known, mine.outputs[i], mine.stems[i].path)

Tracing(c, at, mine, l) ==
    LET r == Evidence[mine.bytes]
    IN  c.do = "import" /\ at \in HasRecord /\ r.kind = "job" =>
           /\ Following(r, mine, l)
           /\ at = "stemhash" =>
                 mine.path = l[Beside[mine.source, r.stems[Len(mine.stems) + 1]]]
           /\ at \in HasRecord \ {"stem", "stemhash"} => Len(mine.stems) = Len(r.stems)
           /\ at = "register" => Linking(r, mine)

\* A derivation says of its job record what MatchesJob asks, of these assets
\* and these links.
Matches(d, assets, l) ==
    \E c \in Contents :
       LET r == Evidence[c]
       IN  /\ Sha256(c) = d.job.sha256 /\ r.kind = "job"
           /\ Len(d.inputs) = 1 /\ Len(d.outputs) = Len(r.stems)
           /\ RegisteredWith(assets, d.inputs[1], r.input_sha256)
           /\ \A i \in DOMAIN d.outputs :
                 RegisteredAt(assets, d.outputs[i], l[Beside[d.job.path, r.stems[i]]])

Traced(m, l) ==
    \A i \in DOMAIN m.derivations :
        m.derivations[i].job # None => Matches(m.derivations[i], m.assets, l)

LInv == /\ CInv
        /\ manifest # NoProject => Traced(manifest, links)
        /\ \A p \in Procs : Tracing(cmd[p], pc[p], my[p], links)

\* The evidence a hash is of: Sha256 is injective.
LEMMA EvidenceIs ==
  ASSUME NEW c \in Contents PROVE EvidenceOf(Sha256(c)) = Evidence[c]
<1>1. \A b \in Contents : Sha256(b) = Sha256(c) => b = c
  BY DEF Sha256
<1>2. (CHOOSE b \in Contents : Sha256(b) = Sha256(c)) = c
  BY <1>1
<1> QED BY <1>2 DEF EvidenceOf

LEMMA SameMatch ==
  ASSUME manifest.assets \in Seq(Assets), UniqueIds(manifest.assets), NEW d \in Derivations,
         d.job # None, Links(d, Ids(manifest.assets))
  PROVE  MatchesJob(d) <=> Matches(d, manifest.assets, links)
<1> DEFINE assets == manifest.assets
           job == EvidenceOf(d.job.sha256)
<1>1. PICK c \in Contents : Sha256(c) = d.job.sha256
  BY DEF Derivations, HashedRefs, Hashes
<1>2. \A b \in Contents : Sha256(b) = d.job.sha256 => b = c
  BY <1>1 DEF Sha256
<1>3. job = Evidence[c]
  BY <1>1, <1>2, EvidenceIs
<1>5. ASSUME NEW id \in Ids(assets)
      PROVE  /\ AssetOf(id) \in DOMAIN assets /\ assets[AssetOf(id)].id = id
             /\ \A i \in DOMAIN assets : assets[i].id = id => i = AssetOf(id)
  <2>1. \E i \in DOMAIN assets : assets[i].id = id
    BY DEF Ids
  <2>2. AssetOf(id) \in DOMAIN assets /\ assets[AssetOf(id)].id = id
    BY <2>1 DEF AssetOf
  <2> QED BY <2>2 DEF UniqueIds
<1>6. \A id \in Ids(assets) :
         /\ \A x : assets[AssetOf(id)].sha256 = x <=> RegisteredWith(assets, id, x)
         /\ \A x : assets[AssetOf(id)].path = x <=> RegisteredAt(assets, id, x)
  BY <1>5 DEF RegisteredWith, RegisteredAt
<1>7. d.inputs \in Seq(Slugs) /\ d.outputs \in Seq(Slugs)
  BY DEF Derivations
<1>8. /\ Len(d.inputs) = 1 => d.inputs[1] \in Ids(assets)
      /\ \A i \in DOMAIN d.outputs : d.outputs[i] \in Ids(assets)
  BY <1>7 DEF Links, Range
<1>9. MatchesJob(d) <=>
         /\ job.kind = "job" /\ Len(d.inputs) = 1 /\ Len(d.outputs) = Len(job.stems)
         /\ assets[AssetOf(d.inputs[1])].sha256 = job.input_sha256
         /\ \A i \in DOMAIN d.outputs :
               assets[AssetOf(d.outputs[i])].path = links[Beside[d.job.path, job.stems[i]]]
  BY DEF MatchesJob
<1> HIDE DEF job, assets
<1>10. Matches(d, assets, links) <=>
         /\ job.kind = "job" /\ Len(d.inputs) = 1 /\ Len(d.outputs) = Len(job.stems)
         /\ RegisteredWith(assets, d.inputs[1], job.input_sha256)
         /\ \A i \in DOMAIN d.outputs :
               RegisteredAt(assets, d.outputs[i], links[Beside[d.job.path, job.stems[i]]])
  BY <1>1, <1>2, <1>3 DEF Matches
<1>11. Len(d.inputs) = 1 =>
         (assets[AssetOf(d.inputs[1])].sha256 = job.input_sha256
            <=> RegisteredWith(assets, d.inputs[1], job.input_sha256))
  BY <1>6, <1>8
<1>12. \A i \in DOMAIN d.outputs : \A x :
         assets[AssetOf(d.outputs[i])].path = x <=> RegisteredAt(assets, d.outputs[i], x)
  BY <1>6, <1>8
<1>13. (\A i \in DOMAIN d.outputs :
           assets[AssetOf(d.outputs[i])].path = links[Beside[d.job.path, job.stems[i]]])
       <=> (\A i \in DOMAIN d.outputs :
               RegisteredAt(assets, d.outputs[i], links[Beside[d.job.path, job.stems[i]]]))
  BY <1>12, Zenon
<1>14. MatchesJob(d) <=> Matches(d, assets, links)
  BY <1>9, <1>10, <1>11, <1>13
<1> QED BY <1>14 DEF assets

\* What is linked stays linked.
LEMMA MatchesGrow ==
  ASSUME NEW old \in Seq(Assets), NEW new \in Seq(Assets), Len(old) <= Len(new),
         \A i \in DOMAIN old : SameAsset(old[i], new[i]),
         NEW d, NEW l, Matches(d, old, l)
  PROVE  Matches(d, new, l)
<1>1. \A i \in DOMAIN old : /\ i \in DOMAIN new /\ new[i].id = old[i].id
                            /\ new[i].path = old[i].path /\ new[i].sha256 = old[i].sha256
  <2> SUFFICES ASSUME NEW i \in DOMAIN old
               PROVE  /\ i \in DOMAIN new /\ new[i].id = old[i].id
                      /\ new[i].path = old[i].path /\ new[i].sha256 = old[i].sha256
    OBVIOUS
  <2>1. i \in DOMAIN new
    OBVIOUS
  <2> QED BY <2>1, SameAssetFields
<1>2. \A id, x : /\ RegisteredAt(old, id, x) => RegisteredAt(new, id, x)
                 /\ RegisteredWith(old, id, x) => RegisteredWith(new, id, x)
  BY <1>1 DEF RegisteredAt, RegisteredWith
<1> QED BY <1>2 DEF Matches

LEMMA InitLInv == ASSUME Init, LineageIsTrue PROVE LInv
<1>1. CInv
  BY InitCInv
<1>2. \A p \in Procs : Tracing(cmd[p], pc[p], my[p], links)
  BY DEF Init, Tracing, HasRecord
<1>3. ASSUME manifest # NoProject PROVE Traced(manifest, links)
  <2>1. manifest \in Manifests /\ Consistent(manifest)
    BY <1>3, StartsAssumption DEF Init
  <2>2. /\ manifest.assets \in Seq(Assets) /\ UniqueIds(manifest.assets)
        /\ manifest.derivations \in Seq(Derivations)
        /\ \A i \in DOMAIN manifest.derivations :
              Links(manifest.derivations[i], Ids(manifest.assets))
    BY <2>1, Parts DEF Consistent, NoDangling
  <2>3. \A i \in DOMAIN manifest.derivations : manifest.derivations[i] \in Derivations
    BY <2>2
  <2> QED BY <1>3, <2>2, <2>3, SameMatch DEF Traced, LineageIsTrue
<1> QED BY <1>1, <1>2, <1>3 DEF LInv

(***************************************************************************)
(* The steps.                                                              *)
(***************************************************************************)
OwnTracing(p) == Tracing(cmd[p], pc'[p], my'[p], links')

LEMMA ContinueTracing ==
  ASSUME TInv, NEW p \in Procs, NEW label, NEW mine, Continue(p, label, mine),
         Tracing(cmd[p], label, mine, links)
  PROVE  OwnTracing(p)
BY DEF Continue, disk, TInv, TypeOK, OwnTracing

LEMMA AnswerTracing ==
  ASSUME TInv, NEW p \in Procs, NEW kind, NEW id, NEW new,
         End(p, kind, id) \/ Refuse(p, kind) \/ Commit(p, new, kind, id)
  PROVE  OwnTracing(p)
<1>1. pc'[p] = "return"
  BY DEF End, Refuse, Commit, Continue, TInv, TypeOK
<1> QED BY <1>1 DEF OwnTracing, Tracing, HasRecord

LEMMA PlainTracing ==
  ASSUME LInv, NEW p \in Procs,
         Acquire(p) \/ AcquireFails(p) \/ Load(p) \/ Return(p) \/ Crash(p)
  PROVE  OwnTracing(p)
<1>1. /\ TInv /\ my[p] \in Locals /\ Tracing(cmd[p], pc[p], my[p], links)
      /\ pc \in [Procs -> Labels]
  BY MyType DEF LInv, CInv, TInv, TypeOK
<1>2. CASE Acquire(p)
  BY <1>1, <1>2 DEF Acquire, disk, OwnTracing, Tracing, HasRecord
<1>3. CASE AcquireFails(p)
  BY <1>1, <1>3, AnswerTracing DEF AcquireFails
<1>4. CASE Load(p)
  <2> DEFINE mine == [my[p] EXCEPT !.m = manifest]
             next == IF cmd[p].do = "import" THEN "decide" ELSE "write"
  <2>1. pc[p] = "load" /\ (Refuse(p, "NotAProject") \/ Continue(p, next, mine))
    BY <1>4 DEF Load
  <2>2. mine.stems = my[p].stems /\ mine.bytes = my[p].bytes /\ mine.source = my[p].source
    BY <1>1 DEF Locals
  <2> HIDE DEF mine
  <2>3. Tracing(cmd[p], next, mine, links)
    BY <1>1, <2>1, <2>2 DEF Tracing, HasRecord, Following
  <2> QED BY <1>1, <2>1, <2>3, AnswerTracing, ContinueTracing
<1>5. CASE Return(p) \/ Crash(p)
  BY <1>1, <1>5 DEF Return, Crash, OwnTracing, Tracing, HasRecord
<1> QED BY <1>2, <1>3, <1>4, <1>5

LEMMA ImportBeforeLockTracing ==
  ASSUME LInv, NEW p \in Procs, ImportBeforeLock(p) PROVE OwnTracing(p)
<1>1. /\ TInv /\ my[p] \in Locals /\ Tracing(cmd[p], pc[p], my[p], links)
      /\ Knows(cmd[p], pc[p], my[p])
  BY MyType DEF LInv, CInv
<1>2. cmd[p].do = "import"
  BY DEF ImportBeforeLock, ImportCheck, ImportLocate, ImportRead, ImportResolveStem,
     ImportHashStem, Importing, Running
<1>3. \A label, mine : label \in {"resolve", "read"} => Tracing(cmd[p], label, mine, links)
  BY DEF Tracing, HasRecord
<1>4. CASE ImportCheck(p) \/ ImportLocate(p)
  BY <1>1, <1>3, <1>4, ContinueTracing, AnswerTracing DEF ImportCheck, ImportLocate
<1>5. CASE ImportRead(p)
  <2> DEFINE bytes == On(my[p].source)
             mine == [my[p] EXCEPT !.bytes = bytes]
  <2>1. pc[p] = "read"
    BY <1>5 DEF ImportRead, Running
  <2>2. my[p].stems = <<>>
    BY <1>1, <1>2, <2>1 DEF Knows, ImportKnows
  <2>3. mine.stems = <<>> /\ mine.bytes = bytes
    BY <1>1, <2>2 DEF Locals
  <2>4. \/ \E why : Refuse(p, why)
        \/ Evidence[bytes].kind = "job" /\ Continue(p, "stem", mine)
        \/ Evidence[bytes].kind = "compare" /\ Continue(p, "lock", mine)
    BY <1>5 DEF ImportRead, Dispatch
  <2> HIDE DEF mine
  <2>5. /\ Tracing(cmd[p], "stem", mine, links)
        /\ Evidence[bytes].kind = "compare" => Tracing(cmd[p], "lock", mine, links)
    BY <2>3 DEF Tracing, Following
  <2> QED BY <1>1, <2>4, <2>5, ContinueTracing, AnswerTracing
<1> DEFINE r == Record(p)
<1>6. ASSUME pc[p] \in {"stem", "stemhash"}, r.kind = "job"
      PROVE  /\ Following(r, my[p], links) /\ my[p].stems \in Seq(PreStems)
             /\ Len(my[p].stems) <= Len(r.stems) /\ Len(my[p].stems) \in Nat
             /\ r.stems \in Seq(StemNames) /\ Len(r.stems) \in Nat
  <2>1. my[p].bytes \in Contents
    BY <1>1, <1>2, <1>6 DEF Knows, ImportKnows, HasRecord
  <2>2. r.stems \in Seq(StemNames) /\ my[p].stems \in Seq(PreStems)
    BY <1>1, <1>6, <2>1, RecordType DEF Record, Locals
  <2>3. Len(my[p].stems) \in Nat /\ Len(r.stems) \in Nat
    BY <2>2
  <2>4. Len(my[p].stems) <= Len(r.stems)
    BY <1>1, <1>2, <1>6, <2>3 DEF Knows, ImportKnows, Record
  <2> QED BY <1>1, <1>2, <1>6, <2>2, <2>3, <2>4 DEF Tracing, HasRecord, Record
<1>7. CASE ImportResolveStem(p)
  <2> DEFINE name == Beside[my[p].source, NextStem(p)]
             mine == [my[p] EXCEPT !.path = links[name]]
  <2>1. /\ pc[p] = "stem" /\ r.kind = "job"
        /\ \/ StemsHashed(p) /\ Continue(p, "lock", my[p])
           \/ \E why : Refuse(p, why)
           \/ ~StemsHashed(p) /\ Continue(p, "stemhash", mine)
    BY <1>7 DEF ImportResolveStem, Importing, Running
  <2>2. Following(r, my[p], links)
    BY <1>6, <2>1
  <2>3. /\ mine.path = links[Beside[my[p].source, r.stems[Len(my[p].stems) + 1]]]
        /\ mine.stems = my[p].stems /\ mine.bytes = my[p].bytes /\ mine.source = my[p].source
    BY <1>1 DEF Locals, NextStem
  <2> HIDE DEF mine
  <2>4. StemsHashed(p) => Tracing(cmd[p], "lock", my[p], links)
    BY <2>2 DEF Tracing, StemsHashed, Record
  <2>5. Tracing(cmd[p], "stemhash", mine, links)
    BY <2>2, <2>3 DEF Tracing, Following, Record
  <2> QED BY <1>1, <2>1, <2>4, <2>5, ContinueTracing, AnswerTracing
<1>8. CASE ImportHashStem(p)
  <2> DEFINE path == my[p].path
             stem == [name |-> NextStem(p), path |-> path,
                      sha256 |-> Sha256(On(path)), size |-> SizeOf[On(path)]]
             mine == [my[p] EXCEPT !.stems = Append(@, stem)]
             stems == my[p].stems
  <2>1. /\ pc[p] = "stemhash" /\ r.kind = "job"
        /\ (\E why : Refuse(p, why)) \/ Continue(p, "stem", mine)
    BY <1>8 DEF ImportHashStem, Importing, Running
  <2>2. stem.path = links[Beside[my[p].source, r.stems[Len(stems) + 1]]]
    BY <1>1, <1>2, <2>1 DEF Tracing, HasRecord, Record
  <2>3. /\ mine.stems = Append(stems, stem) /\ mine.bytes = my[p].bytes
        /\ mine.source = my[p].source
    BY <1>1 DEF Locals
  <2>4. stems \in Seq(PreStems) /\ Following(r, my[p], links)
    BY <1>6, <2>1
  <2> HIDE DEF mine, stem
  <2>5. Following(r, mine, links)
    <3>1. \A i \in DOMAIN Append(stems, stem) :
             \/ i \in DOMAIN stems /\ Append(stems, stem)[i] = stems[i]
             \/ i = Len(stems) + 1 /\ Append(stems, stem)[i] = stem
      <4> HIDE DEF stems
      <4> QED BY <2>4
    <3> QED BY <2>2, <2>3, <2>4, <3>1 DEF Following
  <2>6. Tracing(cmd[p], "stem", mine, links)
    BY <2>3, <2>5 DEF Tracing, Record
  <2> QED BY <1>1, <2>1, <2>6, ContinueTracing, AnswerTracing
<1> QED BY <1>4, <1>5, <1>7, <1>8 DEF ImportBeforeLock

\* What is decided at the record's last hash: the input it links.
LEMMA ImportInputTracing ==
  ASSUME LInv, NEW p \in Procs, ImportDecide(p) \/ ImportInput(p) PROVE OwnTracing(p)
<1> DEFINE r == Record(p)
<1>0. PICK label \in {"decide", "inputhash"} : Running(p, "import", label) /\ r.kind = "job"
  BY DEF ImportDecide, ImportInput, Importing
<1>1. /\ TInv /\ my[p] \in Locals /\ Tracing(cmd[p], label, my[p], links)
      /\ my[p].m.assets \in Seq(Assets) /\ my[p].fresh = <<>> /\ my[p].outputs = <<>>
      /\ my[p].stems \in Seq(PreStems) /\ pc[p] = label /\ cmd[p].do = "import"
  BY <1>0, DecidingType DEF LInv, CInv, Running, ImportKnows, HasRecord
<1>2. Following(r, my[p], links) /\ Len(my[p].stems) = Len(r.stems)
  BY <1>0, <1>1 DEF Tracing, HasRecord, Record
<1>3. ASSUME NEW mine, Continue(p, "register", mine), mine.bytes = my[p].bytes,
             mine.source = my[p].source, mine.stems = my[p].stems, mine.outputs = <<>>,
             RegisteredWith(mine.m.assets \o mine.fresh, mine.input, r.input_sha256)
      PROVE  OwnTracing(p)
  <2>1. Len(mine.outputs) <= Len(mine.stems) /\ DOMAIN mine.outputs = {}
    BY <1>1, <1>3
  <2>2. Linking(r, mine)
    BY <1>3, <2>1 DEF Linking
  <2>3. Tracing(cmd[p], "register", mine, links)
    BY <1>2, <1>3, <2>2 DEF Tracing, Following, Record
  <2> QED BY <1>1, <1>3, <2>3, ContinueTracing
<1>4. CASE ImportDecide(p)
  <2> DEFINE assets == my[p].m.assets
             input == Record(p).input
             first == Min(InputByHash(p))
             linked == [my[p] EXCEPT !.input = assets[first].id]
             found == [my[p] EXCEPT !.path = links[input]]
  <2>1. \/ \E kind, id : End(p, kind, id) \/ Refuse(p, kind)
        \/ InputByHash(p) # {} /\ Continue(p, "register", linked)
        \/ Continue(p, "inputhash", found)
    <3>1. CASE input \in Absolute
      BY <1>4, <3>1 DEF ImportDecide
    <3>2. CASE input \notin Absolute /\ On(input) = Absent
      BY <1>4, <3>2 DEF ImportDecide
    <3>3. CASE input \notin Absolute /\ On(input) # Absent
      BY <1>4, <3>3 DEF ImportDecide
    <3> QED BY <3>1, <3>2, <3>3
  <2>2. CASE InputByHash(p) # {} /\ Continue(p, "register", linked)
    <3>1. InputByHash(p) \in SUBSET DOMAIN assets
      BY DEF InputByHash
    <3>2. first \in DOMAIN assets /\ assets[first].sha256 = r.input_sha256
      <4>1. first \in InputByHash(p)
        BY <1>1, <2>2, <3>1, FirstOf
      <4> QED BY <4>1 DEF InputByHash
    <3>3. RegisteredWith(assets \o <<>>, assets[first].id, r.input_sha256)
      <4>1. assets \o <<>> = assets
        BY <1>1
      <4> QED BY <3>2, <4>1 DEF RegisteredWith
    <3>4. /\ linked.bytes = my[p].bytes /\ linked.source = my[p].source /\ linked.outputs = <<>>
          /\ linked.stems = my[p].stems /\ linked.m = my[p].m /\ linked.fresh = <<>>
          /\ linked.input = assets[first].id
      BY <1>1 DEF Locals
    <3> HIDE DEF linked, first
    <3> QED BY <1>3, <2>2, <3>3, <3>4
  <2>3. CASE Continue(p, "inputhash", found)
    <3>1. /\ found.bytes = my[p].bytes /\ found.source = my[p].source
          /\ found.stems = my[p].stems
      BY <1>1 DEF Locals
    <3> HIDE DEF found
    <3>2. Tracing(cmd[p], "inputhash", found, links)
      BY <1>2, <3>1 DEF Tracing, Following, Record
    <3> QED BY <1>1, <2>3, <3>2, ContinueTracing
  <2> QED BY <1>1, <2>1, <2>2, <2>3, AnswerTracing
<1>5. CASE ImportInput(p)
  <2> DEFINE path == my[p].path
             bytes == On(path)
             asset == NewAsset(Mint(BaseOf[path], Taken(p)), path, Sha256(bytes), SizeOf[bytes])
             mine  == [my[p] EXCEPT !.input = asset.id, !.fresh = <<asset>>]
             assets == my[p].m.assets
  <2>1. \/ \E why : Refuse(p, why)
        \/ Sha256(bytes) = r.input_sha256 /\ Continue(p, "register", mine)
    BY <1>5 DEF ImportInput
  <2>2. asset.sha256 = Sha256(bytes)
    BY DEF NewAsset
  <2>3. /\ mine.bytes = my[p].bytes /\ mine.source = my[p].source /\ mine.outputs = <<>>
        /\ mine.stems = my[p].stems /\ mine.m = my[p].m /\ mine.fresh = <<asset>>
        /\ mine.input = asset.id
    BY <1>1 DEF Locals
  <2> HIDE DEF asset, mine
  <2>4. Len(assets) + 1 \in DOMAIN (assets \o <<asset>>)
        /\ (assets \o <<asset>>)[Len(assets) + 1] = asset
    <3> HIDE DEF assets
    <3> QED BY <1>1 DEF assets
  <2>5. Sha256(bytes) = r.input_sha256 =>
           RegisteredWith(assets \o <<asset>>, asset.id, r.input_sha256)
    BY <2>2, <2>4 DEF RegisteredWith
  <2> QED BY <1>1, <1>3, <2>1, <2>3, <2>5, AnswerTracing
<1> QED BY <1>4, <1>5

LEMMA ConcatAppend ==
  ASSUME NEW T, NEW s \in Seq(T), NEW t \in Seq(T), NEW x \in T
  PROVE  s \o Append(t, x) = (s \o t) \o <<x>> /\ <<x>> \in Seq(T)
<1>1. s \o Append(t, x) = Append(s \o t, x)
  OBVIOUS
<1>2. s \o t \in Seq(T)
  OBVIOUS
<1>3. \A u \in Seq(T) : Append(u, x) = u \o <<x>>
  OBVIOUS
<1> QED BY <1>1, <1>2, <1>3

\* The stem linked is found, or is new; what is linked already stays.
LEMMA LinkingGrows ==
  ASSUME NEW r, NEW mine, NEW next, NEW id, Linking(r, mine),
         mine.outputs \in Seq(Slugs), id \in Slugs, mine.stems \in Seq(PreStems),
         Len(mine.outputs) < Len(mine.stems),
         next.input = mine.input, next.stems = mine.stems, next.outputs = Append(mine.outputs, id),
         NEW fresh \in Seq(Assets), mine.m.assets \o mine.fresh \in Seq(Assets),
         next.m.assets \o next.fresh = (mine.m.assets \o mine.fresh) \o fresh,
         RegisteredAt(next.m.assets \o next.fresh, id, mine.stems[Len(mine.outputs) + 1].path)
  PROVE  Linking(r, next)
<1> DEFINE known == mine.m.assets \o mine.fresh
           both == known \o fresh
           outputs == mine.outputs
           more == Append(outputs, id)
<1>0. known \in Seq(Assets)
  OBVIOUS
<1>1. \A i \in DOMAIN known : i \in DOMAIN both /\ both[i] = known[i]
  <2> HIDE DEF known
  <2> QED BY <1>0
<1>2. \A x, y : /\ RegisteredAt(known, x, y) => RegisteredAt(both, x, y)
                /\ RegisteredWith(known, x, y) => RegisteredWith(both, x, y)
  BY <1>1 DEF RegisteredAt, RegisteredWith
<1>3. /\ Len(more) = Len(outputs) + 1
      /\ \A i \in DOMAIN more : \/ i \in DOMAIN outputs /\ more[i] = outputs[i]
                                \/ i = Len(outputs) + 1 /\ more[i] = id
  <2> HIDE DEF outputs
  <2> QED BY DEF outputs
<1>4. Len(more) <= Len(mine.stems)
  <2>1. Len(outputs) \in Nat /\ Len(mine.stems) \in Nat
    OBVIOUS
  <2> HIDE DEF outputs, more
  <2> QED BY <1>3, <2>1 DEF outputs
<1> HIDE DEF known, both, outputs, more
<1>5. \A i \in DOMAIN more : RegisteredAt(both, more[i], mine.stems[i].path)
  BY <1>2, <1>3 DEF Linking, known, both, outputs
<1>6. RegisteredWith(both, mine.input, r.input_sha256)
  BY <1>2 DEF Linking, known
<1> QED BY <1>4, <1>5, <1>6 DEF Linking, both, known, more, outputs

LEMMA ImportStemTracing == ASSUME LInv, NEW p \in Procs, ImportStem(p) PROVE OwnTracing(p)
<1> DEFINE r      == Record(p)
           at     == Len(my[p].outputs) + 1
           stem   == my[p].stems[at]
           assets == my[p].m.assets
           same   == {i \in DOMAIN Known(p) : Known(p)[i].path = stem.path}
           id     == Mint(BaseOf[stem.name], Taken(p))
           asset  == NewAsset(id, stem.path, stem.sha256, stem.size)
           fresh  == [my[p] EXCEPT !.fresh = Append(@, asset), !.outputs = Append(@, asset.id)]
           old    == Known(p)[Min(same)].id
           known  == [my[p] EXCEPT !.outputs = Append(@, old)]
<1>1. /\ Running(p, "import", "register") /\ r.kind = "job"
      /\ Len(my[p].outputs) < Len(my[p].stems)
      /\ \/ \E why : Refuse(p, why)
         \/ same = {} /\ Continue(p, "register", fresh)
         \/ same # {} /\ Continue(p, "register", known)
  BY DEF ImportStem, Importing
<1>2. /\ TInv /\ my[p] \in Locals /\ assets \in Seq(Assets)
      /\ my[p].fresh \in Seq(Assets) /\ my[p].outputs \in Seq(Slugs)
      /\ my[p].stems \in Seq(PreStems)
  BY <1>1, DecidingType DEF LInv, CInv
<1>3. /\ Following(r, my[p], links) /\ Len(my[p].stems) = Len(r.stems) /\ Linking(r, my[p])
  BY <1>1 DEF LInv, Tracing, HasRecord, Record, Running
<1>4. Known(p) = assets \o my[p].fresh /\ Known(p) \in Seq(Assets)
  BY <1>2 DEF Known
<1>5. ASSUME NEW mine, Continue(p, "register", mine), mine.bytes = my[p].bytes,
             mine.source = my[p].source, mine.stems = my[p].stems, Linking(r, mine)
      PROVE  OwnTracing(p)
  <2>1. Tracing(cmd[p], "register", mine, links)
    BY <1>3, <1>5 DEF Tracing, Following, Record
  <2> QED BY <1>2, <1>5, <2>1, ContinueTracing
<1>6. CASE same = {} /\ Continue(p, "register", fresh)
  <2>1. asset.path = stem.path /\ asset.id = id
    BY DEF NewAsset
  <2>2. asset \in Assets /\ id \in Slugs
    <3>1. at \in DOMAIN my[p].stems
      <4>1. \A m, n \in Nat : m < n => m + 1 \in 1..n
        OBVIOUS
      <4>2. Len(my[p].outputs) \in Nat /\ Len(my[p].stems) \in Nat
        BY <1>2
      <4>3. at \in 1..Len(my[p].stems)
        BY <1>1, <4>1, <4>2
      <4> QED BY <1>2, <4>3
    <3>2. stem \in PreStems
      BY <1>2, <3>1
    <3>3. id \in Slugs
      BY <1>2, <3>2, FreshId, BaseAssumption DEF Taken, PreStems
    <3> QED BY <3>2, <3>3 DEF PreStems, NewAsset, Assets
  <2>3. /\ fresh.bytes = my[p].bytes /\ fresh.source = my[p].source /\ fresh.m = my[p].m
        /\ fresh.stems = my[p].stems /\ fresh.input = my[p].input
        /\ fresh.fresh = Append(my[p].fresh, asset)
        /\ fresh.outputs = Append(my[p].outputs, id)
    BY <1>2, <2>1 DEF Locals
  <2> HIDE DEF fresh, asset, id, stem, assets
  <2>4. assets \o Append(my[p].fresh, asset) = Known(p) \o <<asset>>
        /\ <<asset>> \in Seq(Assets)
    BY <1>2, <1>4, <2>2, ConcatAppend
  <2>5. RegisteredAt(Known(p) \o <<asset>>, id, stem.path)
    <3>1. Len(Known(p)) + 1 \in DOMAIN (Known(p) \o <<asset>>)
          /\ (Known(p) \o <<asset>>)[Len(Known(p)) + 1] = asset
      BY <1>4, <2>4
    <3> QED BY <2>1, <3>1 DEF RegisteredAt
  <2>6. Linking(r, fresh)
    <3>1. fresh.m.assets \o fresh.fresh = Known(p) \o <<asset>>
      BY <2>3, <2>4 DEF assets
    <3> QED BY <1>1, <1>2, <1>3, <1>4, <2>2, <2>3, <2>4, <2>5, <3>1, LinkingGrows DEF stem, assets
  <2> QED BY <1>5, <1>6, <2>3, <2>6
<1>7. CASE same # {} /\ Continue(p, "register", known)
  <2>1. Min(same) \in DOMAIN Known(p) /\ Known(p)[Min(same)].path = stem.path
        /\ Known(p)[Min(same)] \in Assets
    <3>1. same \in SUBSET DOMAIN Known(p)
      OBVIOUS
    <3>2. Min(same) \in same /\ Known(p)[Min(same)] \in Assets
      <4> HIDE DEF same
      <4> QED BY <1>4, <1>7, <3>1, FirstOf
    <3> QED BY <3>2
  <2>2. old \in Slugs /\ RegisteredAt(Known(p), old, stem.path)
    BY <2>1 DEF RegisteredAt, Assets
  <2>3. /\ known.bytes = my[p].bytes /\ known.source = my[p].source /\ known.m = my[p].m
        /\ known.stems = my[p].stems /\ known.input = my[p].input
        /\ known.fresh = my[p].fresh /\ known.outputs = Append(my[p].outputs, old)
    BY <1>2 DEF Locals
  <2> HIDE DEF known, old, stem, assets, same
  <2>4. <<>> \in Seq(Assets) /\ Known(p) \o <<>> = Known(p)
    BY <1>4
  <2>5. Linking(r, known)
    <3>1. known.m.assets \o known.fresh = Known(p)
      BY <1>4, <2>3 DEF assets
    <3> QED BY <1>1, <1>2, <1>3, <1>4, <2>2, <2>3, <2>4, <3>1, LinkingGrows DEF stem, assets
  <2> QED BY <1>5, <1>7, <2>3, <2>5
<1> QED BY <1>1, <1>2, <1>6, <1>7, AnswerTracing

LEMMA ImportTracing == ASSUME LInv, NEW p \in Procs, Import(p) PROVE OwnTracing(p)
<1>1. TInv
  BY DEF LInv, CInv
<1>2. CASE ImportWriteJob(p) \/ ImportEvaluation(p)
  BY <1>1, <1>2, AnswerTracing DEF ImportWriteJob, ImportEvaluation
<1> QED BY <1>2, ImportBeforeLockTracing, ImportInputTracing, ImportStemTracing DEF Import

LEMMA CommandTracing ==
  ASSUME LInv, NEW p \in Procs, Command(p) \/ AcquireFails(p) \/ Crash(p) PROVE OwnTracing(p)
<1>1. ASSUME InitProject(p) \/ Add(p) \/ Verify(p) \/ Show(p) PROVE OwnTracing(p)
  <2>1. cmd[p].do # "import"
    BY <1>1 DEF InitProject, InitStart, InitExists, InitWrite, Show, ShowLoad, ShowPrint, Add,
       AddCheck, AddResolve, AddHash, AddWrite, Verify, VerifyLoad, VerifyStat, VerifyHash,
       VerifyRecord, VerifyReport, VerifyClock, VerifyStamp, Running
  <2> QED BY <2>1 DEF OwnTracing, Tracing
<1> QED BY <1>1, PlainTracing, ImportTracing DEF Command

(***************************************************************************)
(* The manifest.                                                           *)
(***************************************************************************)
\* Derivations are kept, and a new one follows its record.
LEMMA TracedGrows ==
  ASSUME NEW old \in Manifests, NEW new \in Manifests, Extends(old, new), NEW l, Traced(old, l),
         \A i \in DOMAIN new.derivations :
            i \in DOMAIN old.derivations \/ Matches(new.derivations[i], new.assets, l)
  PROVE  Traced(new, l)
<1>1. /\ old.assets \in Seq(Assets) /\ new.assets \in Seq(Assets)
      /\ old.derivations \in Seq(Derivations) /\ new.derivations \in Seq(Derivations)
  BY Parts
<1>2. \A i \in DOMAIN old.derivations : new.derivations[i] = old.derivations[i]
  BY <1>1, PrefixEntries DEF Extends
<1>3. \A d : Matches(d, old.assets, l) => Matches(d, new.assets, l)
  BY <1>1, MatchesGrow DEF Extends
<1> QED BY <1>2, <1>3 DEF Traced

\* The derivation an import writes links what it has been tracing.
LEMMA JobTraced ==
  ASSUME LInv, NEW p \in Procs, ImportWriteJob(p), manifest' # manifest
  PROVE  Traced(manifest', links)
<1> DEFINE r == Record(p)
<1>1. /\ Running(p, "import", "register") /\ r.kind = "job"
      /\ Len(my[p].outputs) = Len(my[p].stems)
  BY DEF ImportWriteJob, Importing
<1>2. /\ TInv /\ my[p].m = manifest /\ manifest \in Manifests /\ manifest # NoProject
      /\ my[p].bytes \in Contents /\ my[p].m.derivations \in Seq(Derivations)
      /\ my[p].outputs \in Seq(Slugs) /\ my[p].stems \in Seq(PreStems)
  BY <1>1, DecidingType, NoProjectAssumption
  DEF LInv, CInv, IInv, SnapshotIsCurrent, Running, UnderLock
<1>3. Following(r, my[p], links) /\ Len(my[p].stems) = Len(r.stems) /\ Linking(r, my[p])
  BY <1>1 DEF LInv, Tracing, HasRecord, Record, Running
<1>4. PICK new \in Manifests, id \in Slugs :
         /\ Commit(p, new, "Imported", id) /\ ImportsJob(my[p].m, new)
         /\ new.assets = my[p].m.assets \o my[p].fresh
         /\ \E d \in Derivations :
               /\ new.derivations = Append(my[p].m.derivations, d)
               /\ d.job = RecordRef(p) /\ d.inputs = <<my[p].input>> /\ d.outputs = my[p].outputs
  BY <1>2, JobWrites
<1>5. PICK d \in Derivations :
         /\ new.derivations = Append(my[p].m.derivations, d)
         /\ d.job = RecordRef(p) /\ d.inputs = <<my[p].input>> /\ d.outputs = my[p].outputs
  BY <1>4
<1>6. d.job.path = my[p].source /\ d.job.sha256 = Sha256(my[p].bytes)
      /\ Len(d.inputs) = 1 /\ d.inputs[1] = my[p].input
  BY <1>5 DEF RecordRef, RecordSha256
<1>7. ASSUME NEW i \in DOMAIN d.outputs
      PROVE  RegisteredAt(new.assets, d.outputs[i], links[Beside[d.job.path, r.stems[i]]])
  <2>1. i \in DOMAIN my[p].outputs /\ i \in DOMAIN my[p].stems
    BY <1>1, <1>2, <1>5
  <2>2. my[p].stems[i].path = links[Beside[my[p].source, r.stems[i]]]
    BY <1>3, <2>1 DEF Following
  <2> QED BY <1>3, <1>4, <1>5, <1>6, <2>1, <2>2 DEF Linking
<1>8. Matches(d, new.assets, links)
  <2>1. RegisteredWith(new.assets, d.inputs[1], r.input_sha256)
    BY <1>3, <1>4, <1>6 DEF Linking
  <2>2. Len(d.outputs) = Len(r.stems)
    BY <1>1, <1>3, <1>5
  <2> QED BY <1>1, <1>2, <1>6, <1>7, <2>1, <2>2 DEF Matches, Record
<1>9. \A i \in DOMAIN new.derivations :
         i \in DOMAIN manifest.derivations \/ new.derivations[i] = d
  <2> DEFINE old == my[p].m.derivations
  <2>1. old \in Seq(Derivations) /\ new.derivations = Append(old, d) /\ old = manifest.derivations
    BY <1>2, <1>5
  <2> HIDE DEF old
  <2> QED BY <2>1, AppendType
<1>10. Extends(manifest, new)
  BY <1>2, <1>4, ChangesExtend DEF Changes
<1>11. Traced(new, links)
  BY <1>2, <1>8, <1>9, <1>10, TracedGrows DEF LInv
<1> QED BY <1>4, <1>11, CommitNew

LEMMA WriteTraced ==
  ASSUME LInv, NEW p \in Procs, Writes(p), manifest' # manifest
  PROVE  Traced(manifest', links)
<1>1. TInv /\ my[p].m = manifest
  BY WritesUnderLock DEF LInv, CInv, IInv, SnapshotIsCurrent
<1>2. \A why : ~Refuse(p, why) /\ \A kind, id : ~End(p, kind, id)
  BY DEF Refuse, End, Continue, shared
<1>3. CASE manifest = NoProject /\ manifest' = NewManifest
  <2>1. NewManifest.derivations = <<>>
    BY DEF NewManifest
  <2> QED BY <1>3, <2>1 DEF Traced
<1>4. CASE /\ manifest \in Manifests /\ manifest' \in Manifests /\ Changes(manifest, manifest')
           /\ ~ImportWriteJob(p)
  <2>1. manifest'.derivations = manifest.derivations
    <3>1. CASE InitWrite(p)
      <4>1. manifest = NoProject
        BY <1>1, <3>1, MyType DEF InitWrite, Running, Knows
      <4> QED BY <1>4, <4>1, NoProjectAssumption
    <3>2. CASE AddWrite(p)
      BY <1>1, <1>2, <3>2, AddRegisters, CommitNew DEF Registers
    <3>3. CASE ImportEvaluation(p)
      BY <1>1, <1>2, <3>3, EvaluationWrites, CommitNew DEF ImportsEvaluation
    <3>4. CASE VerifyStamp(p)
      BY <1>1, <1>2, <3>4, StampWrites, CommitNew
    <3> QED BY <1>4, <3>1, <3>2, <3>3, <3>4 DEF Writes
  <2>2. manifest # NoProject /\ Extends(manifest, manifest')
    BY <1>4, ChangesExtend, NoProjectAssumption
  <2> QED BY <1>4, <2>1, <2>2, TracedGrows DEF LInv
<1>5. CASE ImportWriteJob(p)
  BY <1>5, JobTraced
<1> QED BY <1>3, <1>4, <1>5, Written DEF LInv

(***************************************************************************)
(* The world: links may move, but for those at the stems' names.           *)
(***************************************************************************)
StemsStay ==
    \A e \in Relinks : \A n \in Names, stem \in StemNames : e[1] # Beside[n, stem]

LEMMA WorldStems ==
  ASSUME StemsStay, TInv, Edit \/ Relink \/ Tick, NEW n \in Names, NEW stem \in StemNames
  PROVE  links'[Beside[n, stem]] = links[Beside[n, stem]]
<1>1. Beside[n, stem] \in Names /\ links \in [Names -> Places]
  BY FoldersAssumption DEF TInv, TypeOK
<1>2. CASE Edit \/ Tick
  BY <1>2 DEF Edit, Tick, disk
<1>3. CASE Relink
  <2>1. PICK e \in Relinks : links' = [links EXCEPT ![e[1]] = e[2]]
    BY <1>3 DEF Relink
  <2>2. e[1] # Beside[n, stem]
    BY DEF StemsStay
  <2> QED BY <1>1, <2>1, <2>2
<1> QED BY <1>2, <1>3

LEMMA WorldTracing ==
  ASSUME StemsStay, LInv, Edit \/ Relink \/ Tick, NEW p \in Procs PROVE OwnTracing(p)
<1>1. \A n \in Names, stem \in StemNames : links'[Beside[n, stem]] = links[Beside[n, stem]]
  BY WorldStems DEF LInv, CInv
<1>2. pc' = pc /\ my' = my
  BY DEF Edit, Relink, Tick
<1> DEFINE r == Record(p)
<1> SUFFICES ASSUME cmd[p].do = "import", pc[p] \in HasRecord, r.kind = "job"
             PROVE  OwnTracing(p)
  BY <1>2 DEF OwnTracing, Tracing, Record
<1>3. /\ my[p].source \in Names /\ my[p].stems \in Seq(PreStems) /\ r.stems \in Seq(StemNames)
      /\ Tracing(cmd[p], pc[p], my[p], links) /\ ImportKnows(pc[p], my[p])
  <2>1. my[p] \in Locals /\ ImportKnows(pc[p], my[p])
    BY MyType DEF LInv, CInv, Knows
  <2>2. my[p].bytes \in Contents /\ my[p].source \in Paths
    BY <2>1 DEF ImportKnows
  <2> QED BY <2>1, <2>2, RecordType, PathsAssumption DEF LInv, Locals, Record
<1> DEFINE stems == my[p].stems
<1>4. /\ Len(stems) \in Nat /\ Len(r.stems) \in Nat
      /\ pc[p] = "stemhash" => Len(stems) < Len(r.stems)
      /\ Len(stems) <= Len(r.stems)
  <2>1. Len(stems) \in Nat /\ Len(r.stems) \in Nat
    BY <1>3
  <2>2. pc[p] = "stemhash" => Len(stems) < Len(r.stems)
    BY <1>3 DEF ImportKnows, Record
  <2>3. pc[p] = "stem" => Len(stems) <= Len(r.stems)
    BY <1>3 DEF ImportKnows, Record
  <2>4. pc[p] \notin {"stem", "stemhash"} => Len(stems) = Len(r.stems)
    BY <1>3 DEF Tracing, Record
  <2> HIDE DEF stems, r
  <2> QED BY <2>1, <2>2, <2>3, <2>4
<1>5. \A i \in DOMAIN stems : r.stems[i] \in StemNames
  BY <1>3, <1>4
<1>6. pc[p] = "stemhash" => r.stems[Len(stems) + 1] \in StemNames
  BY <1>3, <1>4
<1>7. Following(r, my[p], links')
  BY <1>1, <1>3, <1>5 DEF Tracing, Following, Record
<1>8. pc[p] = "stemhash" => my[p].path = links'[Beside[my[p].source, r.stems[Len(stems) + 1]]]
  BY <1>1, <1>3, <1>6 DEF Tracing, Record
<1> QED BY <1>2, <1>3, <1>7, <1>8 DEF OwnTracing, Tracing, Record

LEMMA WorldTraced ==
  ASSUME StemsStay, LInv, Edit \/ Relink \/ Tick, manifest # NoProject
  PROVE  Traced(manifest, links')
<1>1. \A n \in Names, stem \in StemNames : links'[Beside[n, stem]] = links[Beside[n, stem]]
  BY WorldStems DEF LInv, CInv
<1>2. manifest.derivations \in Seq(Derivations)
  BY Parts DEF LInv, CInv, TInv, TypeOK
<1>3. ASSUME NEW d \in Derivations, d.job # None, Matches(d, manifest.assets, links)
      PROVE  Matches(d, manifest.assets, links')
  <2>1. PICK c \in Contents :
           LET r == Evidence[c]
           IN  /\ Sha256(c) = d.job.sha256 /\ r.kind = "job"
               /\ Len(d.inputs) = 1 /\ Len(d.outputs) = Len(r.stems)
               /\ RegisteredWith(manifest.assets, d.inputs[1], r.input_sha256)
               /\ \A i \in DOMAIN d.outputs :
                     RegisteredAt(manifest.assets, d.outputs[i], links[Beside[d.job.path, r.stems[i]]])
    BY <1>3 DEF Matches
  <2> DEFINE stems == Evidence[c].stems
  <2>2. d.job.path \in Names /\ d.outputs \in Seq(Slugs) /\ stems \in Seq(StemNames)
    BY <1>3, <2>1, RecordType DEF Derivations, HashedRefs
  <2>3. \A i \in DOMAIN d.outputs : stems[i] \in StemNames
    <3>1. Len(d.outputs) = Len(stems)
      BY <2>1
    <3> HIDE DEF stems
    <3>2. DOMAIN d.outputs = DOMAIN stems
      BY <2>2, <3>1
    <3> QED BY <2>2, <3>2
  <2>4. \A i \in DOMAIN d.outputs :
           RegisteredAt(manifest.assets, d.outputs[i], links'[Beside[d.job.path, stems[i]]])
    BY <1>1, <2>1, <2>2, <2>3
  <2> QED BY <2>1, <2>4 DEF Matches
<1>4. \A i \in DOMAIN manifest.derivations : manifest.derivations[i] \in Derivations
  BY <1>2
<1> QED BY <1>3, <1>4 DEF LInv, Traced

LEMMA NextLInv == ASSUME StemsStay PROVE LInv /\ [Next]_vars => LInv'
<1> SUFFICES ASSUME LInv, [Next]_vars PROVE LInv'
  OBVIOUS
<1>1. CInv'
  BY NextCInv DEF LInv
<1>2. CASE UNCHANGED vars
  BY <1>1, <1>2 DEF vars, LInv
<1>3. CASE Edit \/ Relink \/ Tick
  <2>1. manifest' = manifest /\ cmd' = cmd
    BY <1>3 DEF Edit, Relink, Tick
  <2> QED BY <1>1, <1>3, <2>1, WorldTraced, WorldTracing DEF LInv, OwnTracing
<1>4. ASSUME NEW p \in Procs, Command(p) \/ AcquireFails(p) \/ Crash(p) PROVE LInv'
  <2>1. Moves(p)
    BY <1>4, StepMoves DEF LInv, CInv
  <2>2. OwnTracing(p)
    BY <1>4, CommandTracing
  <2>3. Next
    BY <1>4 DEF Next
  <2>4. manifest' # NoProject => Traced(manifest', links)
    BY <2>3, WriteSteps, WriteTraced DEF LInv
  <2> QED BY <1>1, <2>1, <2>2, <2>4 DEF Moves, OwnTracing, LInv
<1>5. CASE Quiet
  BY <1>2, <1>5 DEF Quiet
<1> QED BY <1>2, <1>3, <1>4, <1>5 DEF Next

(***************************************************************************)
(* A derivation says what its job record says, whatever was registered or  *)
(* edited before the import took the lock: from a manifest of which that   *)
(* is so, no import, add, verify or edit makes it untrue (fn import).      *)
(***************************************************************************)
THEOREM LineageStaysTrue == ASSUME StemsStay PROVE Spec /\ LineageIsTrue => []LineageIsTrue
<1>1. Init /\ LineageIsTrue => LInv
  BY InitLInv
<1>2. LInv /\ [Next]_vars => LInv'
  BY NextLInv
<1>3. LInv => LineageIsTrue
  <2> SUFFICES ASSUME LInv, manifest # NoProject, NEW i \in DOMAIN manifest.derivations,
                      manifest.derivations[i].job # None
               PROVE  MatchesJob(manifest.derivations[i])
    BY DEF LineageIsTrue
  <2>1. manifest \in Manifests /\ Consistent(manifest)
    BY DEF LInv, CInv, TInv, TypeOK, ManifestConsistent
  <2>2. /\ manifest.assets \in Seq(Assets) /\ UniqueIds(manifest.assets)
        /\ manifest.derivations \in Seq(Derivations)
        /\ Links(manifest.derivations[i], Ids(manifest.assets))
    BY <2>1, Parts DEF Consistent, NoDangling
  <2>3. manifest.derivations[i] \in Derivations
    BY <2>2
  <2> QED BY <2>2, <2>3, SameMatch DEF LInv, Traced
<1> QED BY <1>1, <1>2, <1>3, PTL DEF Spec

(***************************************************************************)
(* Verdicts.  An evaluation is never changed once it is there, and what    *)
(* it says it took from the record that was read.                          *)
(***************************************************************************)
LEMMA CompareMatches ==
  ASSUME TInv, NEW p \in Procs, ImportEvaluation(p), NEW e, e.record = RecordRef(p),
         e.candidates = Candidates(Record(p)), e.preference = Preference(Record(p))
  PROVE  MatchesRecord(e)
<1> DEFINE r == Record(p)
           labelled == {i \in DOMAIN r.candidates : r.candidates[i].label = r.preference}
<1>1. Running(p, "import", "decide") /\ r.kind = "compare"
  BY DEF ImportEvaluation, Importing
<1>2. my[p].bytes \in Contents /\ ImportKnows("decide", my[p])
  BY <1>1, DecidingType
<1>3. /\ r.candidates \in Seq([label : STRING, asset : Slugs \cup {None}])
      /\ PreferenceKnown(r)
  BY <1>1, <1>2, RecordType DEF Record, ImportKnows
<1>4. EvidenceOf(e.record.sha256) = r
  BY <1>2, EvidenceIs DEF Record, RecordRef, RecordSha256
<1> HIDE DEF r
<1>5. /\ DOMAIN e.candidates = DOMAIN r.candidates /\ Len(e.candidates) = Len(r.candidates)
      /\ \A i \in DOMAIN e.candidates : e.candidates[i] = r.candidates[i].asset
  <2>1. DOMAIN r.candidates = 1..Len(r.candidates) /\ Len(r.candidates) \in Nat
    BY <1>3
  <2>2. e.candidates = [i \in 1..Len(r.candidates) |-> r.candidates[i].asset]
    BY <2>1 DEF Candidates, r
  <2> QED BY <2>1, <2>2
<1>6. CASE r.preference = None
  <2>1. e.preference = None
    BY <1>6 DEF Preference, r
  <2> QED BY <1>1, <1>4, <1>5, <1>6, <2>1 DEF MatchesRecord, r
<1>7. CASE r.preference # None
  <2>1. labelled # {} /\ labelled \in SUBSET DOMAIN r.candidates
    BY <1>3, <1>7 DEF PreferenceKnown
  <2>2. e.preference = r.candidates[Min(labelled)].asset
    BY <1>7 DEF Preference, r
  <2>3. Min(labelled) \in labelled
    <3> HIDE DEF labelled
    <3> QED BY <1>3, <2>1, FirstOf
  <2>4. \E i \in DOMAIN e.candidates :
           r.candidates[i].label = r.preference /\ e.candidates[i] = e.preference
    BY <1>5, <2>2, <2>3
  <2> QED BY <1>1, <1>4, <1>5, <1>7, <2>4 DEF MatchesRecord, r
<1> QED BY <1>6, <1>7

EInv == CInv /\ VerdictIsTrue

LEMMA EvaluationVerdict ==
  ASSUME EInv, NEW p \in Procs, ImportEvaluation(p), manifest' # manifest
  PROVE  VerdictIsTrue'
<1>1. /\ TInv /\ my[p].m = manifest /\ manifest \in Manifests /\ manifest # NoProject
      /\ my[p].m.evaluations \in Seq(Evaluations)
  BY DecidingType, NoProjectAssumption
  DEF EInv, CInv, IInv, SnapshotIsCurrent, ImportEvaluation, Importing, Running, UnderLock
<1>2. \A why : ~Refuse(p, why) /\ \A kind, id : ~End(p, kind, id)
  BY DEF Refuse, End, Continue, shared
<1>3. PICK new \in Manifests, id \in Slugs :
         /\ Commit(p, new, "EvaluationImported", id)
         /\ \E e \in Evaluations :
               /\ new.evaluations = Append(my[p].m.evaluations, e) /\ e.record = RecordRef(p)
               /\ e.candidates = Candidates(Record(p)) /\ e.preference = Preference(Record(p))
  BY <1>1, <1>2, EvaluationWrites
<1>4. PICK e \in Evaluations :
         /\ new.evaluations = Append(my[p].m.evaluations, e) /\ e.record = RecordRef(p)
         /\ e.candidates = Candidates(Record(p)) /\ e.preference = Preference(Record(p))
  BY <1>3
<1>5. MatchesRecord(e)
  BY <1>1, <1>4, CompareMatches
<1>6. ASSUME NEW i \in DOMAIN new.evaluations PROVE MatchesRecord(new.evaluations[i])
  <2> DEFINE old == my[p].m.evaluations
  <2>1. /\ old \in Seq(Evaluations) /\ new.evaluations = Append(old, e)
        /\ \A j \in DOMAIN old : MatchesRecord(old[j])
    BY <1>1, <1>4 DEF EInv, VerdictIsTrue
  <2> HIDE DEF old
  <2>2. (i \in DOMAIN old /\ new.evaluations[i] = old[i]) \/ new.evaluations[i] = e
    BY <2>1
  <2> QED BY <1>5, <2>1, <2>2
<1>7. manifest' = new
  BY <1>3, CommitNew
<1> QED BY <1>6, <1>7 DEF VerdictIsTrue

LEMMA WriteVerdict ==
  ASSUME EInv, NEW p \in Procs, Writes(p), manifest' # manifest
  PROVE  VerdictIsTrue'
<1>1. TInv /\ my[p].m = manifest
  BY WritesUnderLock DEF EInv, CInv, IInv, SnapshotIsCurrent
<1>2. \A why : ~Refuse(p, why) /\ \A kind, id : ~End(p, kind, id)
  BY DEF Refuse, End, Continue, shared
<1>3. CASE manifest = NoProject /\ manifest' = NewManifest
  <2>1. NewManifest.evaluations = <<>>
    BY DEF NewManifest
  <2> QED BY <1>3, <2>1 DEF VerdictIsTrue
<1>4. CASE manifest \in Manifests /\ ~ImportEvaluation(p)
  <2>1. manifest'.evaluations = manifest.evaluations
    <3>1. CASE InitWrite(p)
      <4>1. manifest = NoProject
        BY <1>1, <3>1, MyType DEF InitWrite, Running, Knows
      <4> QED BY <1>4, <4>1, NoProjectAssumption
    <3>2. CASE AddWrite(p)
      BY <1>1, <1>2, <3>2, AddRegisters, CommitNew DEF Registers
    <3>3. CASE ImportWriteJob(p)
      BY <1>1, <1>2, <3>3, JobWrites, CommitNew DEF ImportsJob
    <3>4. CASE VerifyStamp(p)
      BY <1>1, <1>2, <3>4, StampWrites, CommitNew
    <3> QED BY <1>4, <3>1, <3>2, <3>3, <3>4 DEF Writes
  <2>2. manifest # NoProject
    BY <1>4, NoProjectAssumption
  <2> QED BY <2>1, <2>2 DEF EInv, VerdictIsTrue
<1>5. CASE ImportEvaluation(p)
  BY <1>5, EvaluationVerdict
<1> QED BY <1>3, <1>4, <1>5, Written DEF EInv

(***************************************************************************)
(* A verdict says what its record says, the preferred asset included, in   *)
(* whatever order the labels come: from a manifest of which that is so, no *)
(* command makes it untrue (fn import_evaluation).                         *)
(***************************************************************************)
THEOREM VerdictsStayTrue == Spec /\ VerdictIsTrue => []VerdictIsTrue
<1>1. Init /\ VerdictIsTrue => EInv
  BY InitCInv DEF EInv
<1>2. EInv /\ [Next]_vars => EInv'
  <2> SUFFICES ASSUME EInv, [Next]_vars PROVE EInv'
    OBVIOUS
  <2>1. CInv'
    BY NextCInv DEF EInv
  <2>2. CASE manifest' = manifest
    BY <2>1, <2>2 DEF EInv, VerdictIsTrue
  <2>3. CASE manifest' # manifest
    <3>1. Next
      BY <2>3 DEF vars
    <3> QED BY <2>1, <2>3, <3>1, WriteSteps, WriteVerdict DEF EInv
  <2> QED BY <2>2, <2>3
<1>3. EInv => VerdictIsTrue
  BY DEF EInv
<1> QED BY <1>1, <1>2, <1>3, PTL DEF Spec
=============================================================================
