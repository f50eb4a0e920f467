# uncompose-project in TLA+

`uncompose-project` keeps one file, `uncompose.project.json` (the *manifest*), at
the root of a directory of audio files: which files belong to the project and what
their bytes hash to (assets), which were made from which (derivations), and how
comparisons of them came out (evaluations). Five short-lived commands read and
rewrite that file, several may run at once, and users and other tools change the
files around it at any moment. This directory models the commands, the lock and the
write they share, the strict reading of the document and the names of ids and files,
and states what the manifest can be relied on for.

## The system

All line numbers are of `src/crates/core/src/manifest.rs` unless a file is named.

| part | state | operations | talks to |
|---|---|---|---|
| project lock (`lock.rs`) | the lock file's inode, each process's descriptor, the kernel's flock | `acquire` (one try, then a blocking wait), drop | every command that writes |
| atomic write (1773-1791) | the manifest's directory entry, temp files, what has reached the disk | create, write, sync, rename, remove the temp file when the rename fails | readers without the lock |
| manifest (46-176) | assets, derivations, evaluations | `Manifest::new`, canonical JSON, strict read (1614-1671) | everything |
| init (244-257) | - | look for a manifest, write an empty one, both under the lock | lock, write |
| add (388-459) | the path, hash and size found before the lock | check, resolve, hash; then load, check for duplicates, mint, write | lock, write, files |
| import of a job record (821-1104) | the record's bytes, the stems hashed before the lock | locate, read, dispatch, resolve and hash each stem; then load, idempotency, input, stems, ids, write | lock, write, files |
| import of a comparison record (1120-1236) | the candidates and the preference | validate, resolve labels; then load, idempotency, known assets, id, write | lock, write |
| verify (1367-1479) | a snapshot of the manifest, statuses, what passed | stat and hash each asset, hash each record; then load, stamp, write | lock, write, files |
| show (1495-1501) | - | read; print | - |
| strict reading (46-176, 1614-1671) | - | schema URL, structs, keys of `ext` | every command |
| slugs (1719-1769), paths (1254-1275, 1676-1689) | - | `slugify`, `mint_id_with`, `canonical_inside` | add, import |
| CLI (`cli/src/main.rs`) | - | the default name, dispatch, messages, exit codes | the five commands |
| project schema (`schemas/project/v0`) | - | what other tools may expect | strict reading |
| release scripts (`ci/`, workflows), vendored schema, wheel | - | - | - |

What is hard about it:

* *Interleaving.* Hashing happens before the lock, so what a command decides under
  it rests on files and, for verify, on a manifest that are out of date by then.
* *Several looks at one file.* A name is resolved, stat'ed and opened in separate
  system calls; files and links change in between.
* *Failure.* A command can be refused, fail or be killed at every step, with the lock
  held, with a temp file half written, or after the rename.
* *Identity.* Ids are minted from file names and may collide with minted, requested
  and literal suffixes; the same record or file may come in under several names,
  through links and dot-dots, and a name need not be text.
* *A document of others.* People and tools edit the manifest between commands; a rewrite
  goes through the structs, so what those do not have is refused or lost, and what is
  read, what is written and what the published schema says are three descriptions that
  must agree.

What makes each part correct: the lock admits one holder whoever creates its file and
whoever dies; a write is seen whole, or not at all, by readers, after a crash and after
a power loss; each command changes the manifest in one step, to a consistent manifest
that keeps all that was there; what add, import and verify say of a file was true of it
while they ran; every command ends; what the tool writes it reads again, and it carries
what it does not know; ids are slugs and recorded paths lead back to their files.

## Modules

| module | models | in terms of |
|---|---|---|
| `Mutex` | what holding the lock means to a command | one variable `owner` |
| `Flock` | `lock.rs`: open-or-create, `LOCK_NB`, blocking `LOCK_EX`, drop; crashes | inodes, descriptors; refines `Mutex` |
| `AtomicWrite` | `write_atomic`, `load_manifest`'s read; kills, write-back, power loss | inodes, directory entry, durable copies |
| `Manifest` | the document, hashing, `mint_id_with`; no state | records, sequences |
| `Registry` | abstract: what commands may do to the manifest | one variable `manifest` |
| `Workspace` | what commands share: manifest, files, links, lock, clock; the steps several commands have (acquire, load, commit, return, die) | `Manifest`, `Mutex` |
| `AddCommand`, `ImportCommand`, `VerifyCommand` | the command of that name, one action per access to something shared | `Workspace` |
| `Project` | init, show and exit statuses; all commands together; the properties | the three above; refines `Registry` |
| `StrictRead` | the manifest as JSON: the structs, `load_manifest`, the rewrite, the published schema, edits by hand | one variable `doc` |
| `Slugs` | `slugify`, `is_valid_slug`, `mint_id_with` on strings; no state | sequences of characters |
| `Paths` | `canonical_inside`, `resolve_inside_root` on a tree; no state | sequences of names |
| `Naming` | add and import by real names, one command at a time | `Slugs`, `Paths`; refines `Registry` |
| `MCProject`, `MCNaming` | small instances for TLC | |
| `FlockProofs`, `AtomicWriteProofs`, `ManifestProofs`, `RegistryProofs`, `StrictReadProofs`, `NamingProofs` | proofs of one module each, `NamingProofs` of `Slugs` and `Paths` too | the module named |
| `ProjectProofs` | proofs: what the commands together do to the manifest | `Project`, `ManifestProofs` |
| `SightProofs` | proofs: what the commands say of the disk | `ProjectProofs` |

How state corresponds to code. A process of `Project` is one run of the program: `cmd[p]`
is its command line, `my[p]` its local variables under the code's names where they have
one (`stems` is `pre_stems`, `fresh` is `new_assets`, `m` the manifest loaded under the
lock, `snapshot` the one verify checks against), `pc[p]` the next thing it does. A step
ends at the next access to something another process can change: the manifest, a file,
a link, the lock. So add is AddCheck (the manifest exists, the role is a slug),
AddResolve (`resolve_inside_root`), AddHash (`sha256_file(&root.join(rel))`, which
follows the name again), Acquire, Load, AddWrite (duplicate path, id, push,
`write_atomic`), Return (the lock is dropped). `files` maps places to contents, `links`
maps names to places: a name is what a user or a record writes, a place is a canonical
path or `Outside`; `canonicalize` is `links[name]`, opening follows `files[links[name]]`.
`Edit` and `Relink` are the users and other tools. Each resolution and each look at a file
may also fail for a reason of the file system's own (`Io`, `Unreadable`, `JobUnreadable`,
`StemUnreadable`, `InputUnreadable`). `seen[p]` is a history variable: the
facts <<name, content>> that held at some moment since `p` began.

`StrictRead` follows a document at one object of each kind (the manifest, its project, an
asset, a derivation and its job, an evaluation and its record); an object says of each
field whether it is absent, null, good, of the right type but off the schema's pattern,
of another type, a number the field cannot hold (beyond 64 bits and doubles, or `1.0` for a
size), JSON that `serde_json` does not parse (`1e999`, lists too deep, half a surrogate pair),
or, where another object belongs, that object written as an array of its fields' values, which
serde takes for a struct. In such an array a field is known by its place: it ends before the
first field it leaves out (`Positional`). `SchemaRequired` and
`SchemaProperties` are read off the JSON schema, `Required`, `Optional` and
`RequiredNullable` off the structs and their serde attributes: that the two agree is
checked, not assumed. In `Naming` each file has bytes of its own, so a location in `Tree`
stands for a content and its hash; `Walk` is the kernel's
resolution of a path, a recursive function of where it is, what is left and how many links it
has followed.

`AtomicWrite` takes the rename (1784) and the report of it (1785) apart: readers see the new
manifest before the writer knows, and a writer killed in between leaves in place a manifest
nobody was told of.

Abstractions, each named where it is made: file contents are model values and SHA-256 is
injective on them; `Evidence` says what each content parses to, `BaseOf` and `FolderOf`
what names slugify to; an id is a sequence of tokens so that a minted `-2` and a literal
`-2` are equal, as they are as strings; a record with an unrepresentable timestamp counts
among the malformed ones; timestamps are clock ticks; manifest fields no property tells
apart are left out (`StrictRead` has them). `Project` uses the lock as `Mutex` and writes the
manifest in one step because `Flock` and `AtomicWrite` show that this is what the code underneath provides.

## Runs

Each configuration runs with `tlc -config X.cfg M`.

| run | what is in it | what it shows |
|---|---|---|
| `flock` | 3 processes, 2 inodes, 2 commands each; any may fail or die | `MutualExclusion`, the inductive `IInv`, `NobodyWaitsForever`, `ImplementsMutex` |
| `atomic_write` | 3 writes of 2 pieces, 2 readers, kills and power loss anywhere | `NeverTruncated`, `ReadsAreWhole`, `ErrorMeansUnwritten` |
| `together` | 2 processes, one mortal, any two of init, adds of files with one base name, of a link, with an id a mint may want, import, verify, show; or one command of every kind, well and ill formed, alone with 18 disks, 9 link layouts, an unreadable file, one removal or moved link; fairness | `ManifestConsistent`, `ReportedIsRecorded`, `NoLostUpdate`, `ImplementsRegistry`, `EveryCommandEnds`; every refusal leaves the manifest alone |
| `import` | 2 mortal processes: a job record, comparison records whose labels are out of order or shared, adds of a stem, of what the records name and through a link; one edit of record, input or stem, or that link moved | the same safety, and `LineageIsTrue`, `VerdictIsTrue`, `IdentityWasReal`, `RefusalsAreCurrent` |
| `verify` | 2 processes: verify and add; 2 edits, 2 clock ticks | `StatusWasReal`, `PassingAssetsAreStamped`, `SnapshotIsCurrent`, `StampIsEarned`, `NoLostUpdate`, `ImplementsRegistry` |
| `strict_read` | a manifest with every object and field; any two edits by hand, any commands | `WrittenIsReadable`, `SchemaValidIsRead`, `OffShapeRefused`, `NothingIsDropped` |
| `naming` | 18 arguments of add, 4 ids, 9 calls of import on a tree with links inside, outside and onto themselves; up to 3 assets | `IdsAreSlugs`, `RecordedPathsResolve`, `OneEntryPerFile`, `Confined`, `ImplementsRegistry` |
| `reimport_missing_stem` | violation | a recorded job whose stem is gone is refused, where ADR-0010 and `docs/import.md` promise a no-op |
| `off_schema` | violation | init and an import of a record without stems write a manifest the published schema rejects |
| `moved_link` | violation | a link moved between add's two looks at its argument pairs one file's path with another's bytes, where ADR-0003 speaks of one resolution |
| `ext_rounded` | violation | a number under `ext` that no double holds is rounded by a rewrite that promises it verbatim |
| `lossy_path` | violation | a name that is not UTF-8 is recorded as a path that does not lead to the file |

Bounds, and why they are enough. Two commands suffice for every lost update, double mint
or double import the lock is there to prevent, one holding it and one hashing or waiting;
`flock` has three for the lock itself. One edit per behaviour reaches every change between
two looks at a file; verify gets two, so that a file can change and come back around its
stat and its hash. Names include two files with one base name, a link to another file, a
stem whose own name ends in `-2`, an absolute name and one outside the root: these are the
ways two names meet in one path or one id. In `together` an ill-formed command runs alone:
its refusals depend on the disk, not on the other command, and what it does to another
command is done by the lock it takes, which the well-formed ones take too. `AtomicWrite`
needs two pieces for a torn file and three writes for a reader that is two renames behind.
Commands run once per process: a command starts with nothing but its arguments, so two runs
in sequence are two processes, one of which starts when the other is done. Processes are
symmetric in `import` and `verify` and no property tells them apart; `together` checks
liveness, without symmetry. In `strict_read` two edits give every pair of fields that are
off at once, a field of an object inside one that goes included, and an edit after a
command; one object of each kind is enough because serde and the walk over `ext` treat the
elements of a list alike. In `naming` three assets are the least at which a
minted suffix meets a literal one with a third file in play.

Fairness. `Flock`: weak fairness of each process's own steps, `Release` included, because
what a command does under the lock is finite, as `together` shows of the commands; the kernel
need not be fair in choosing the next holder, as commands end. `FairSpec` in `Project`: weak
fairness of `Command(p)`; `AcquireFails`, `Crash` and the edits are not fair, nobody
has to fail.

## Proofs

`tlapm M.tla` checks each proof module. The theorems hold for every value of the
constants: any number of processes, records, files, edits and any bound on them.

The layers. `FlockProofs` and `AtomicWriteProofs` are about what the commands stand on;
`ManifestProofs` has the lemmas about the document (a change one command may make keeps it
consistent and extends it); `RegistryProofs` draws the conclusion for the abstract
registry; `ProjectProofs` and `SightProofs` show that the commands, step by step at any
interleaving, make such changes and only such.

* `FlockProofs`. `IInv` is inductive: besides types it says that all open descriptors
  are of the one inode the lock's name has (the code never removes the file), that the
  flock's holders are exactly the processes that went on as holders, and that holders have
  different inodes. `MutualExclusion` alone is not inductive: it needs the one inode.
  `HolderIsAlone` is mutual exclusion, `LockIsMutex` the refinement of `Mutex`.
  Assumptions: `NoFile` is no inode, `Free` no process, `Rounds` positive.
* `AtomicWriteProofs`. `AlwaysWhole`, `ReadersSeeWhole`, `ErrorsAreUnwritten`. What the
  properties say of the file in place is inductive only with what is said of the files that
  are not: `DataShape` (a file holds the first pieces of its own write, the disk no more of
  them), `SyncedBeforeNamed` (what has the manifest's name, may get it back after a power loss
  or is about to get it is whole on the disk), `InOrder` and `Unfailed` (which write ended
  how, and that what has or may get back the name never reported an error: it was reported
  written, or its writer died between the rename and the report) and `ReaderShape` (a
  reader has a synced file open and has read its first pieces).
* `ManifestProofs`. `MintIsFresh`: no two candidates are the same (`SuffixesDiffer`), so
  by the pigeonhole principle one of the first `|taken| + 1` is free, the
  search of `mint_id_with` ends, and the least free one is a slug nobody has.
  `ChangesConsistent` and `ChangesExtend`: what `Registers`, `ImportsJob`,
  `ImportsEvaluation` and `Stamps` allow keeps `Consistent` and loses nothing.
* `RegistryProofs`. `AlwaysConsistent`: what `Registry` allows keeps a manifest consistent. The
  inductive invariant adds the manifest's type, without which entries before and after a step
  cannot be compared. No run checks `Registry` by itself: it is the property
  `ImplementsRegistry` of the runs of the commands. That it loses nothing is what each of its
  actions says; that the commands keep to it, and so lose nothing, is `NoLostUpdate`.
  Hypothesis (`StartsConsistent`): a project is found with no manifest or a consistent one.
* `ProjectProofs`, in five layers, each of which needs the ones before it:
  * `IInv`: a command between its load and its write holds the lock and the manifest it has
    read is the one in place. It is not inductive alone: what makes it so is that
    a command holds the lock from the acquire on (`HoldsFromLoad`) and brings no manifest from
    before it (`Shape`), which is what `init`, the one command that writes without loading,
    relies on. `SnapshotAlwaysCurrent`; `OneWriter`: the manifest changes only under the hand
    of the holder, who replaces exactly what it has read.
  * `TInv`: what each command knows at each of its labels (a path resolved and inside the
    root, stems as long as the record's list, ids of assets there are, `fresh` assets that
    fit behind the manifest's). `TypeCorrect` is a corollary; the invariant is what later
    steps read.
  * `CInv`, with `ManifestConsistent` and the clock (no entry is dated later than now, a verify
    that has read the clock later than no entry). From `IInv` the manifest a
    command decides on is the one it replaces, from `TInv` its decision fits it: so each write
    is one of the changes `Registry` has (`WriteSteps`). `AlwaysConsistent`,
    `NothingLost`, `Refinement`.
  * `RInv`: a command that is about to say that something is recorded knows where it is, and
    the manifest, which only grows, has it: `SuccessIsRecorded`.
  * `QInv`: a refusal that blames the manifest is given under the lock, and the lock is held
    until the command returns, so what was found true of the manifest read still is; the one
    finding carried from step to step is that no asset has the input's bytes (`InputIsNew`).
    `RefusalsAreTrue`.
* `SightProofs`, over `LooksOn` (what a running command has seen includes what the disk
  shows):
  * `VInv`: each status verify has noted was true of the bytes or the absence it saw, also
    between the stat and the hash, where the file may come and go. `StatusesAreTrue`,
    `StampsAreEarned`.
  * `PInv`: a verify that has its verdict still holds the lock, and what it found intact is
    stamped in the manifest nobody else can have written since. `PassingIsStamped`.
  * `DInv`: the hash a command carries was that of the name it looked at. From this
    `IdentitiesAreReal`, whatever links move: add's bytes were those of its argument, and of
    the path recorded when neither name is one that is moved, because a name that stays leads
    where it led from the start and a canonical path leads to itself (`Canonical`). More is
    false of add, the one command that follows a name twice (run `moved_link`); import opens
    the canonical path and needs nothing.
  * `EInv`: each evaluation is its record's (`MatchesRecord`), the preference being the asset
    of the first candidate with the preferred label. `VerdictsStayTrue`, from a manifest of
    which it is true.
  * `LInv`: import carries the stems the record lists at the paths they resolved to, and the
    ids it is about to link are of assets with those paths and the input's bytes.
    `LineageStaysTrue` has the hypothesis `StemsStay` (no stem's link is moved; the property
    reads the links as they are now) and starts from a manifest of which it is true.
  Assumptions on the constants, in `Workspace` and `ImportCommand`: `Free` and `Absent` are
  no process and no content, names and places are of their kinds, what people add are names,
  a canonical path leads to itself until somebody moves it
  (`CanonicalAssumption`), a project is found consistent or not at all, was stamped before now, and the size beside a
  recorded hash is that of the bytes with that hash (`MeasuredAssumption`, which SHA-256
  being injective makes true of what the tool wrote). The hypothesis `StemsStay`
  holds in the run `import`: the link that moves there is no stem's.
* `StrictReadProofs`. The tables of the schema and of the structs are compared kind by kind
  (`TablesAgree`, `Options`); then `TypeOK /\ WrittenIsReadable` is inductive: what a command
  makes of a readable document is readable (`CommandWrites`), a rewrite of that is again
  (`CanonicalReadable`), and an edit by hand keeps each object inside the one that has it
  (`EditedShaped`) and the fields of an array in order. `TypeCorrect`, `WritesAreRead`,
  `SchemaIsRead`, `OffShapeIsRefused`, `NothingDropped`. Assumptions: what is found is a document of that shape or none, and the
  marks for "no file", "unreadable" and "not JSON" are no documents.
* `NamingProofs`, for every alphabet, directory tree, set of links, job records and arguments:
  * `SlugifyIsSlug`: whatever string a file's stem is, what `slugify` makes of it matches the
    pattern of an id. The trim leaves the characters between the first letter or digit and the
    last that is no dash; such a first one is itself no dash, so the two are in order.
  * `MintedIsFresh`: `MintIsFresh` with strings for tokens. No two numbers are written alike
    (`DecimalInjective`), so no two candidates are the same; the id is a slug nobody has, and
    every candidate before it is taken.
  * `IInv`: besides ids that are slugs and unique, every asset's path is the stored form of its
    own place, inside the root, and paths are unique; every derivation's links are ids of assets
    that are there and its record is its own. `OneEntryPerFile` is not inductive without
    the first of these: the commands compare paths, not places. One lemma per step (`AddSound`,
    `WithInputSound`, `WithStemsSound`, `DerivationSound`, `ImportSound`); `IdsAlwaysSlugs`,
    `EachFileOnce`, `AlwaysConfined`.
  * `NamingImplementsRegistry`: add is `Register`, import is `ImportJob`, refusals stutter.
  * `PathsAlwaysResolve`: above a file inside the root there are only directories
    (`PlacesAbove`), so a walk down its names meets no link and arrives (`WalkArrives`).
  `Decimal`, `Walk` and the fold over the stems are recursive functions. The library's
  theorems about those are out of the provers' reach, so each is shown to satisfy its equation
  by hand (`DecimalCounts`, `WalkRecurs`, `WithStemsSound`): at the least argument where no
  function would do, in an order in which the calls go down, the one that does for the calls
  extends to it. For `Walk` the order is `Before`: fewer links left to follow, or as many and
  fewer components. Assumptions: letters, digits and marks are characters, lower-casing leaves
  them alone; the tree has a directory above each place and no name is dot-dot; the kernel
  follows finitely many links; a path with no last name has the empty stem; the marks for "no
  manifest" and "absent" are no manifest and no reference.

## What the code is known to do

Beside the five runs that end in a violation, two behaviours are in the model:

* the structs are read from JSON arrays too (1630): `"project": ["id", "name", "2020-..."]`, or
  an array for an asset, a derivation, a job, an evaluation or a record, opens, although the
  schema demands objects and the comments on the structs (9-11, 53-55) speak of a strict shape.
  It is one of the three liberties `OffShapeRefused` names; a rewrite makes objects of them.
* verify stats a file and then opens it (1464, 1473). A file that goes in between is
  `Unreadable` and fails the whole pass, although a missing file is elsewhere a status.

## What is not modelled

* Torn reads of a file that is being written in place while it is hashed: one access is one
  step.
* The manifest edited, removed or merged while a command runs: who writes it without the lock
  is outside what the code can promise. `StrictRead` edits it between commands. Two entries
  of one id, which a hand-made merge may leave and the strict read admits, are in no run.
* JSON text: duplicate keys (the last wins), indentation and key order. What of the text
  matters to reading (`1e999`, `1.0`, depth, surrogates) is a class of value in `StrictRead`. The
  manifest itself written as an array is refused as any document without a schema is.
* Whether a rename survives a power loss: `PowerLoss` may undo it and the documents do not
  promise otherwise; only wholeness is claimed.
* A clock that is set back: `Tick` only goes forward. `last_verified` is whatever the clock says.
* Names that differ on disk and are one after the file system's own folding of case; Windows
  separators: the commands are built for Unix.
* Messages, the overview of show, argument parsing, resolving `--project`.
* The vendored compare schema: which records conform is the parameter `Evidence`.
* Release scripts and wheel packaging: shell around git tags and registries, run by workflows.

Only model-checked: liveness (`NobodyWaitsForever`, `EveryCommandEnds`), which fairness and
ENABLED put out of the provers' reach. Every other property of a passing run is a theorem,
`LineageIsTrue` under `StemsStay`, and it and `VerdictIsTrue` from a manifest of which they are
true.

## Plan

1. (done) `Flock`, `AtomicWrite`, `Registry`, `Workspace` and the five commands, their runs,
   proofs for the lock, the registry, the minting of ids, and the one-writer discipline of
   the commands.
2. (done) `StrictRead`, `Slugs`, `Paths`, `Naming`; exit statuses; the stamps a pass owes; all
   commands in one run with liveness.
3. (done) Proofs of every safety and action property and every refinement that a passing run
   checks, for any number of commands, writes, edits, files and names.
4. Two entries of one id, as a merge by hand leaves them: what verify then reports and stamps.
