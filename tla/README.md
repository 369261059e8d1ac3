# Redeven service templates: models and proofs

The repository keeps a catalog of service templates. A release watcher follows
the upstream releases of two of them, a script publishes every new catalog as a
fast-forward of `main` together with an immutable version tag (the Go module),
and readers in Go and JavaScript fetch third-party templates from GitHub and
adapt older template documents. The modules in this directory model those
programs; TLC checks them on small instances and TLAPS proves the central
invariants for all instances.

## Inventory

| Part | Code | State | Operations | What is hard |
| --- | --- | --- | --- | --- |
| Discovery | `internal/releasewatcher/discover.go`, `semver.go`, `config.go` | none of its own; reads a registry that changes while it is read | `discover`, `discoverNPM`, `discoverOCI`, `nextTagsPage`, `compareVersions` | tag pages and mutable tags change between requests; loops of pages; bounds |
| Update | `internal/releasewatcher/apply.go` `apply` | the checkout, a staged copy, `originals` and `updates` | read and check every template, bump, stage, generate, validate | inputs edited between the copy and the commit; saves, failures and kills while files are compared and renamed; one bad source stops all |
| Replacing files | `apply.go` `replaceFiles` | the checkout's files, temporaries, the `committed` list | compare, prepare, rename, roll back, clean up | partial failure, kill between renames, concurrent saves |
| Publication | `.github/workflows/update-releases.yml`, `scripts/publish_catalog.sh`, `scripts/check_contracts.sh` | remote and local refs | the commands of the script | pushes and tags by others between any two commands, lost replies, leftovers of failed runs |
| Registry preflight | `internal/registrycheck/check.go`, `cmd/check-registry` | a failure list, a bearer token per reference | `Check`, `checkTemplate`, `get`, `bearerToken` | timeouts, token retry, tags and definitions that change meanwhile |
| Catalog generator | `internal/cataloggen/generate.go`, `cmd/build-catalog` | the three files of `dist/` | `GenerateWithVersion`, `Write`, `Verify` | two readings of every definition, a stale or half-written `dist/` |
| Source acquisition | `template/github.go`, `sdk/index.cjs` | a resolved commit and a snapshot | `Resolve`, `Discover`, `Capture` | refs move and trees are rewritten between requests; two implementations |
| Source store | `template/files.go` | a directory on disk | `ReadDirectory`, `WriteDirectory`, `Digest` | crash before the directory entries are durable; files changing while read |
| Document readers | `template/document.go`, `compat.go`, `validate.go`, `historical_spec.go`, `historical_hooks.go` | none | `readDocument`, `NormalizeSpec`, `ForPlatform`, `Read` | chains of adapters between schema versions |
| Startup output | `template/opening.go`, `sdk/index.cjs`, the script in `historical_hooks.go` | a log that another process is writing | `ParseStartupURL`, `parseStartupURL`, the wait hook | a line that is only partly written; three readers of one output |
| Contracts and types | `template/contracts.go`, `spec.go`, `svg.go`, `cmd/generate-contracts`, `cmd/validate-template`, `catalog.go` | none | constants, schemas, accessors | nothing concurrent or stateful |

How they interact: the workflow starts from a fresh clone, runs the watcher in a
worktree of its own (discovery, then update, then replacing files), commits the
result on a private branch, and hands the branch to the publication script,
which runs the contract tests in that worktree and then moves the refs. The
watcher's validation runs the catalog generator in `--verify` mode and the
registry preflight on the staged copy. The readers are a library used by the
generator and, through both SDKs, by hosts.


What makes each part correct, in one line each:

- *Replacing files*: after an error the checkout is as others left it, after a
  success every update is in place, after a kill each file is old or new, and
  the watcher overwrites only bytes it has compared.
- *Publication*: a release is one step seen from origin; it is a tested commit
  under the version its own `catalog.go` declares; it never changes, never
  stands on `main` without its tag, and a failed run is all or nothing.
- *Update*: a failure touches nothing and a success keeps what people saved,
  both but for the windows of `replaceFiles`: a save between a file's comparison and its
  rename is overwritten by a success, and a save after that comparison by a rollback. A
  success leaves consistent generated files, a recommended image never changes its
  digest, and a revision stands for one release.
- *Discovery*: no release that was there all along is missed, the artifacts of a
  plan are of one image, and every discovery ends.
- *Registry preflight*: in a run that ends with a verdict one failure hides no
  other, and a run is bounded. (A definition that cannot be read ends the run, and the
  failures found before it are dropped: `check.go:112-118`.)
- *Catalog generator*: what the bundle pins was published when the registry was
  asked and its definitions are valid, unless they were saved while the command ran
  (they are read more than once), and the three files of `dist/` are of one catalog.
- *Source acquisition*: a snapshot is one directory of one commit.
- *Source store*: what was reported written survives a crash, and nothing is
  ever overwritten.
- *Document readers*: exactly the documents with a published shape are read, and
  what they say survives the adapters.
- *Startup output*: an answer once settled stays; the parsers in Go and in JavaScript
  give the same, or one refuses a URL that the other's URL parser takes; the generated
  script gives the same for a line that holds nothing but the URL.

## Plan

The modules, in the order in which they were or will be written:

1. `ReplaceFiles` and its proofs: the only place where the watcher writes.
2. `CatalogHistory` (abstract) and `Publication` (detailed), with the
   refinement checked and proved: the only place where the remote changes.
3. `ReleaseUpdate`: the run around `replaceFiles`, whose comparisons and renames are
   steps of it, file by file; run after run.
4. `Discovery` and `Versions`: what feeds the update.
5. `Preflight`, the registry check, and `CatalogBuild`, which extends it to the
   commands around it: what guards the catalog.
6. `Acquisition`, `SourceStore`: the library for hosts, up to a source on disk.
7. `Documents`, the readers of that source, and `Opening`, the output of the
   service it declares, composed by `Launch`.
8. Theorems for the components that other parts rely on, see "What is proved".

All of these exist. What is left:

9. `ReleasePipeline`: discovery, update and publication in one specification,
   day after day, with the properties that cross them. `Publication` stands for
   the first two by `UpstreamReleases` and `Automate`, `ReleaseUpdate` for the first
   by any plan; each covers what the others may do to it.

## The modules

### ReplaceFiles

`replaceFiles` of `apply.go` (lines 292 to 334). `originals` and `updates` are
the two maps, `temporary` and `committed` the map of temporaries and the list of
renamed files, `tree` and `temp` the disk. One action per system call that can
fail: `Compare`, `CreateTemp`, `WriteTemp`, `Prepared`, `Rename`, `RenameFails`,
`RestoreOpen`/`RestoreWrite` (the truncation and the writing of `os.WriteFile`
are two steps, because a kill in between leaves a torn file), `RestoreFails`,
`RemoveTemp` for the deferred cleanup. Both loops of the code range over Go maps,
so any file may be next. `Edit` is somebody else's save, possible at any moment;
`Crash` is a kill, possible at any moment. A content is a model value; `Torn` is a
file that was not written to its end. The history variables `users`, `compared`,
`late`, `unrestored` and `unremoved` say what others did and which system calls
failed, and are read by no action.

### CatalogHistory and Publication

A commit is the sequence of changes that leads to it, so "is an ancestor of" is
"is a prefix of" and equal commits are equal histories. A change has an author,
the version `catalog.go` declares after it, the upstream release the templates
recommend after it, and one Boolean, whether `scripts/check_contracts.sh` passes.
A version is the patch number. The trees behind the commits are abstracted to
these four fields; nothing else of them matters to a ref.

`CatalogHistory` is what the users of the Go module see: `main` only grows, a tag
is set once, and `Publish` appends a tested commit and sets the tag of the
version it declares, in one step.

`Publication` is the script: `Verify` (lines 5 to 13), `Fetch` (14, 15), `Lookup`
(16 to 22), `Gate` (23 to 25), `Merge` (26), `Tag` (27), `Push` (28), with the
local `main` and `tags` of each publisher's clone. The workflow's publisher takes
a fresh clone for each run (`Automate`), from a `main` that the contracts accept
or that the watcher's own generated files repair: on any other the watcher's
validation (`apply.go:169-171, 187-198`) or the workflow's next step fails and
nothing is committed. A person keeps one clone for ever (`Prepare`), with a local
tag or an advanced `main` from an earlier failure. `Abort` fails any command or
kills the run; `PushReplyLost` is a push that origin accepted but the run reports
as failed. `ForeignPush`, `ForeignTag` and `UpstreamReleases` are the environment.
`Moving` is the set of publishers to whose private branch a commit may be added
while the script runs; the workflow never does that, a person could.

### ReleaseUpdate

`apply` (lines 26 to 184): `Begin` fixes the plan, `Read` visits the templates in
any order and patches them in memory, `ReadVersion` reads the two constants,
`Copy` copies the checkout file by file, `Build` stages, generates and validates
in the copy. Then `replaceFiles`: `Compare` visits the files one by one,
`Prepared` ends that loop, `Rename` installs one file whatever it holds by then,
`Replaced` returns. `RenameFails` is the rollback in one step: of the files
renamed so far each gets its original back, over whatever was saved there since,
or its restoring write fails and leaves it as it was or `Torn`. `Kill` ends the
process between two renames. `Abort` is an error in any phase before. The next run
starts from whatever is there: a torn template or constant ends it. The history
variable `users` is the checkout as it would be had the run written nothing;
`late` and `again` are the files saved between comparison and rename and after the
rename. Generated files are the function `Generate` of what the generator reads.
Both kinds of sources are there because they differ: an npm release may have build
metadata, which the comparison ignores, and has no digest.

### Discovery and Versions

`Discovery` has one action per request: the npm document, the token, each page of
tags, the tag's index, each platform's manifest. `Change` is anything that happens to
the registry between two of them. `obedient` distinguishes a registry that pages as
the OCI specification says, for which `NoSteadyTagIsMissed` is stated, from one that
links its pages anyhow, for which only `Ends` is. The version order is an arbitrary
relation there; the run gives it the one that `CompareVersions` computes for its tags.
`Versions` models `validVersion` and `compareVersions` on digit strings and
ASCII codes, and compares the result with the precedence of the SemVer specification
written directly from its definition, over numbers. Its state is the pair of versions to be
compared; it shares none with `Discovery`, and the run `discovery` compares versions beside a
discovery of an empty registry, so that the two do not multiply. That the order is total
(`TotalOrder`) is proved in `DiscoveryProofs`, beside the discovery that relies on it.

### Preflight and CatalogBuild

`Preflight` has one action per request of `Check`: a template's index and then each
platform's manifest, each with the plain request, the challenge, the token and the retry
as stages. `Change` is a tag or a manifest that comes, moves or goes. A definition is
what the readers of it look at: where its releases are discovered, the digests it pins, and
the first reader that refuses it. `named` and `existed` record what the registry held during
the run.

`CatalogBuild` is `cmd/build-catalog`, and `cmd/check-registry`, which is its first phase:
preflight, then for each template `ReadDefinition` (the reading that goes into the bundle,
`generate.go:169`) and `ValidateSource` (the reading that is validated, line 173), then `Write`,
file by file, or `Verify`. `Save` may change a definition between any two of them, `GiveUp`
stands for every other error and for a kill, and commands follow each other over the `dist/`
that the last one left. `dist` says of each file to which output it belongs.

### Acquisition and SourceStore

`Acquisition` has one action per GitHub request of `Resolve`, `Discover`, `Capture` and
`CaptureResolved`; trees and blobs are named by their content, so only refs move. The SDK
sends the same requests and shares the actions, except that it captures an offer with
`CaptureSource`, from the beginning, where Go has `CaptureResolved`. As in the code, `Discover`
offers a directory whose entrypoint is a blob of any mode, a symbolic link too (`github.go:309`),
and the walk then refuses the link.

`SourceStore` distinguishes what processes see (`entries`, `data`) from what the disk keeps
(`lasting`, `synced`); `Crash` falls back to the second. `ReadDirectory` runs beside the
calls that write: it lists a directory when it gets there and reads each file as far as it is
written.

### Documents, Opening and Launch

`Documents` is the chain from a source directory to a current document: `readDocument`
with its two adapters, `NormalizeSpec` with its four, and the checks before, between and
after them, each as an operator on JSON objects (functions from keys). Keys that all
versions have and no adapter touches are one key per section. `SpecShape` and `DocumentShape`
are the shapes that `Schemas` of `contracts.go` publishes for each version, written from that
code: `ReadsExactlyThePublished` compares the two, which the code itself never does.

`Opening` applies `ParseStartupURL` to an output that grows symbol by symbol; the scanner's
line limit and the limited reader's total limit are both small enough to be met in every way.
`SDKAnswer` is the same function of the SDK, line by line as it is written there. The two
validate with different URL parsers: `GoOnly` are beginnings that `url.Parse` and the checks
at `opening.go:51-52` take and `new URL` and those at `index.cjs:139-140` do not (a port above
65535), `SDKOnly` the other way round (an empty user name); `ValidURL` and `SDKValidURL` are
therefore two operators.

`Launch` starts the service a document declares and lets its output grow: `Parse` for a
current document, and for one of execution version 5 `Poll`, one turn of the loop of the shell
script that `upgradeSpecV5` generates. The script stores everything that follows the prefix,
and `Opened` is what the open script prints of it.

## What is checked

Deadlock is not checked in any run, since every program here ends.

| Run | Distinct states | Question |
| --- | ---: | --- |
| `replace_files` | 355,132 | What does `replaceFiles` leave behind, for every order of its loops, failing call, kill and save? |
| `publication` | 827,557 | Does the script publish atomically and only what was tested, under races, failures and retries, and is upstream followed? |
| `publication_moved` | violation | Is the tested commit the published one if the private branch moves? |
| `release_update` | 2,614,606 | What does a run of the watcher leave behind, run after run? |
| `discovery` | 3,588,894 | Is a plan right although the registry changes while it is read? Is the comparison of versions the SemVer precedence, and do the two validators agree? |
| `catalog_build` | 7,839,188 | What do a passed preflight, a written and a verified `dist/` mean, although definitions and registry change meanwhile? |
| `acquisition` | 319,536 | Which commit and which files does a link yield while refs move, in either client? |
| `source_store` | 880,539 | What survives a crash, may two calls mix, and what does a reader see? |
| `source_store_spelling` | violation | Does the call return for every spelling of its root? |
| `launch` | 733,865 | Are exactly the published documents read, and faithfully? Do later readings of a growing output change the answer, and do the three readers agree? |
| `launch_hook` | violation | Do the hooks of an old document open what its declaration did? |
| `opening_partial` | violation | Is the returned URL complete? |

The bounds, and why they are enough:

- `replace_files`: three destinations give a file before, at and after the one that
  fails in both loops; two contents tell old from new; two saves reach one file
  before and one after its rename, or one file twice. Files and contents are
  symmetric, since the code never compares names. The properties are proved for any
  number.
- `publication`: one automated and one manual publisher, three versions (the one
  published, the one two publishers compete for, and one more), one push, one tag and
  one failure by others. A failed run and a retry from its leftovers take one abort and
  three versions. The safety properties are proved for any number.
- `release_update`: two runs are needed for a run to meet what the last one left, a
  mixture or a torn file included; one save is enough since each property speaks of one file
  and the save may be of any file at any moment, before its comparison, between that and its
  rename, and after; two ranks, two builds and two digests tell same from different.
  `MaxRevision = 3` and initial revisions 1 and 3 put the counter at its limit.
- `discovery`: three tags, one per page, two changes: a tag may vanish and another come
  between two pages, or one tag move twice. `MaxTagCount` and `MaxPages` are reached by
  the registry that repeats pages. The tags are 1.9.0, 1.10.0, which is newer and listed
  first, and 2.0.0-market.1, which is newer than both and not eligible. For the
  comparison, cores that compare differently as words and as numbers, and pre-releases of
  up to two identifiers among numbers, words, a number with a leading zero (invalid) and
  characters on both sides of the digits: all pairs of valid versions, and each version, valid
  or not, with metadata of up to two identifiers, through both validators.
- `catalog_build`: two templates with two platforms and two indexes that differ in one
  digest, so that a tag may move halfway; each definition may be right, pin the other index, be
  skipped, or be refused by any one of its readers. One command meets a change of the registry
  and a save; two commands, of which the first has touched `dist/`, meet one of them (`Bounded`).
- `acquisition`: two commits with trees that differ in what is a template, a link that can
  mean two refs, and limits one file, one byte and one level away from the trees' sizes.
- `source_store`: a file in the root, one in a directory, one in a directory of a
  directory; two calls; two crashes, so that a crash may follow a crash.
- `launch`: every pair of versions under every choice of entrypoints; every choice of a
  document's keys for each document version; every choice of a specification's keys, with an
  empty and a non-empty value where that makes a difference, for each execution version; one
  version more on both sides. Six symbols of output are a line with the prefix, a URL and what
  follows it, its end and a second line with the prefix or a URL, with a line limit and an output
  limit of five, so that a line is too long, or the output, or both. `launch_hook` starts from the one
  kind of document it is about.

### Fairness

- `Publication!FairSpec`: the workflow runs on a schedule every day, and within a run the
  runner executes the next command or fails; so `Automate(p, FALSE)` and `Script` of the
  automated publisher are weakly fair. The manual publisher and everybody else are not, nor is
  it that a run repairs a `main` which the contracts refuse: `UpstreamIsFollowed` makes an
  exception of that. What others do is bounded; under unbounded competition a run could lose
  its race every day.
- `Discovery!FairSpec`: every request ends, by an answer or by the client's timeout of 30
  seconds, so the discovery's own steps are weakly fair; the registry's changes are not.
- `SourceStore!FairSpec`: a call that runs takes its next step. It promises no scheduling
  beyond that, and crashes are not fair.

### Where the code and its documents disagree

- `publication_moved`: the script tests the branch's worktree (`publish_catalog.sh:25`) and
  then merges the commit the branch names by then (line 26). A commit made in between is
  released untested, and under the version read before it. README.md:165 requires the tests
  for every publication. The workflow cannot do this, a person at work in the same worktree can.
- `source_store_spelling`: the loop at `files.go:160` ends when `filepath.Dir` yields the root
  argument as it is spelled. For `./x` or `x/` it never does and the call hangs; the comment
  at line 145 asks for no such spelling.
- `opening_partial`: `ParseStartupURL` takes a last line that has no line end. A reading in the
  middle of the service's write returns the first half of the URL (or of the port) as a
  success; the comment at `opening.go:30` says the first *complete* URL.
- Without a run of its own: the flag of `cmd/check-registry` is described as the "maximum time
  for each Registry preflight run" (`main.go:15`) but becomes the client's timeout for each
  request (`main.go:24`); `RequestsAreBounded` states the bound that does hold.
- `launch_hook`: the hook generated for old documents stores everything that follows the prefix
  (`historical_hooks.go:57`) and the open script prints it (line 59). Of a line such as
  "prefix URL (LAN: ...)" it opens the whole rest, where `ParseStartupURL` opens the URL;
  README.md:78 calls the two equivalent. The current Host template's own hook cuts the
  description off, and `host_hooks_test.go:49, 62` demands it. `HookAgrees` says what holds all the
  same: of a line with nothing else it takes the URL.
- Without a run: that hook looks only at the first line with the prefix. If this line has nothing
  after it, the hook polls for ever, where `ParseStartupURL` goes on to the next; if it has only
  blanks, they are stored; and a beginning of a URL it took from a half-written line stays for good.
- Without a run: the checks for newer keys (`compat.go:105`) compare names exactly, the decoder
  (`compat.go:161`) in any case, so a version 6 specification with `Startup_URL` is read as if it
  were of version 7. Keys are opaque in `Documents`.
- A tag that somebody puts on the next patch number stops the automation for good: every run
  fails at line 18 until the tag is gone or `catalog.go` moves past it. So does a commit on `main`
  that the contract tests refuse, until `main` is repaired. `UpstreamIsFollowed` names both
  exceptions.

## What is proved

`ReplaceFilesProofs`, for every set of files and contents, any number of saves, and with or
without kills, from the assumptions `ContentAssumption`, `FileAssumption` and
`BoundAssumption`:

- `Invariance`: the types and `Inv`. `Inv` is the conjunction of what each file of the
  checkout holds given how far the loops have come and who saved it (`TreeParts`), of what
  each phase has established (`Phases`), and of where temporaries are and what they hold
  (`Temporaries`). None of the properties below is inductive alone: that a failure leaves
  the checkout untouched needs to know, at the rollback, that every file not yet renamed
  still has what others left, and that `committed` lists exactly the renamed ones.
- `FailureUntouched`, `SuccessComplete`, `NeverTorn`, `CrashMixture`, `OverwritesCompared`: the
  properties of the run. `CleanReturn`: no temporary survives a return except one whose
  removal failed. `PreparedFirst`: no destination changes before every temporary is complete.

`PublicationProofs`, for any number of publishers of both
kinds, any pushes, tags, failures, versions and releases, from `PublisherAssumption` and
`BoundAssumption`:

- `Progress` (proved in `Invariance`) says what the commands a publisher has passed have
  established: between the version's reading and the push, the version is the branch's own and
  the base its ancestor; after the gate the branch is sound; after the merge the local `main`
  is the branch; after the tagging the local tag is the local `main`, whatever stale tags the
  clone had. It also keeps the releases so far. From it follow `ReleasesAreImmutable`,
  `TagsNameTheirVersion`, `OnlyTestedReleases` and `Refinement`.
- `Ledger` says how `main`, the tags and the runs in progress fit together: every tag is on
  `main`, a candidate is its base or one commit more, a base that passed the fetch is on `main`,
  and every release commit on `main` is tagged. That it survives a push is the heart of the
  proof: the accepted push is a fast-forward, so `main` is between base and branch, which are
  one commit apart; the only change that `main` can gain is the branch's last, which the same
  push tags. `InvIsInductive` proves both parts; from it follow `NoReleaseWithoutItsTag` and
  `FailuresPublishAllOrNothing`.
- `OnlyTestedReleases`, `Refinement`, `NoReleaseWithoutItsTag` and
  `FailuresPublishAllOrNothing` assume `Moving = {}`, that nobody commits to a branch while the
  script runs on it; `publication_moved` shows what happens otherwise. The others do not.

`ReleaseUpdateProofs`, for any templates of either source, any plans, any number of runs and
saves and any limit of revisions, from `FileAssumption` and `BoundAssumption`:

- `Invariance`: `Run` says what the phases have established (each update is the original one
  release later, the constants agreed and got the next number, what was copied is what is there
  unless it was saved since, what was generated is made of the copy), and of the replacing, file
  by file, what is there: `Kept`, that a file not renamed holds what people left and a compared
  one its original unless it was saved since, and `Renamed`, that a renamed one holds its update
  unless it was saved since. `Ledger` says that every recommendation ever recorded is behind the
  template's present one, or is that one, in the checkout and in what a rollback would restore.
  That a revision stands for one release needs `Ledger`: the property speaks of the recorded ones
  only, and a step adds the present one.
- `FailuresTouchNothing`, `EditsSurvive`, `DigestsStay`, `RevisionsAreOrdered`,
  `ChangesAreConsistent`: all properties of the run.

`DiscoveryProofs`, for any set of tags, page size, order of versions and number of changes,
from `TagAssumption`, `BoundAssumption` and, for versions, `TextAssumption`:

- `Collected` is the argument of `NewestIsFound`: up to the cursor, every tag that was there all
  the time has been listed. It survives a page because the page is the first tags after the
  cursor, whatever came or went before. `OneImage` follows from `Imaged`: manifests are fetched by
  the digests of the one index the tag named when it was resolved.
- `Precedence`, for texts of any length (`TextAssumption` says only that identifiers hold no dot or
  plus and core numbers no hyphen either, which is what they are split at): `LongerIsGreater` and
  `FirstGreater` show that digit strings without leading zeros compare as their values do, by
  `GreaterStays`, which says that no following digits undo a lead. `FirstDifference` identifies the
  loop's first difference with the one the specification quantifies over. Validity is needed:
  with a leading zero a longer string need not be greater.
- `TotalOrder`: only a version itself compares as equal (`VersionTies`), the answer turns around with
  the arguments, and it is transitive, by `LexIsTransitive` for identifiers and again for lists of them.
- `Validators`: `SplitAtFirst` finds the pre-release behind the first hyphen and before the first plus,
  whatever hyphens identifiers hold, and `JoinedParts` says that splitting at the dots gives back what
  was joined.

`CatalogBuildProofs`, for any sequence of templates, any platforms, definitions, commands, saves and
changes of the registry, from `TemplateAssumption`, `ChangesAssumption` and `RunsAssumption`:

- `Invariance`: `PreflightInv` says what the check of the template at hand has established and what
  the verdict stands for; `Sources` that what was read is on disk unless it was saved meanwhile;
  `Validated` that all definitions of the bundle but the last one read were validated; `Written`
  which files of `dist/` are of the present output. `Budget` counts requests against the stage
  reached. None of the properties says anything before the command ends, so each of them rests on
  one of these.
- `CatalogPublication`, `FailureReporting`, `RequestBound`, `BundleValidity`, `OneCatalog`: all
  properties of the run.

`SourceStoreProofs`, for any source with no file inside another, any number of calls for one root and
any number of crashes, from `SourceAssumption` and `BoundAssumption`; the spelling of the root does
not matter to it:

- `Progress` follows one call: the files before the present one are complete and the directories on
  their paths are collected; while the directories are synced, each name on a file's path is on
  disk or its directory is still to come; at the end all are on disk. `One` says that at most one
  call has the directory and all files are its own. A crash keeps what `Progress` says of a call
  that returned, because every directory on the way to a lasting name is lasting too.
- `OneCall` and `Durability` follow from it. `WholeReadings` needs `Reading` in addition: a walk that
  began after a call returned has, for each file it does not hold yet, a directory on its path
  still before it, so it cannot end without it.

`AcquisitionProofs`, for any repository, links and moves of refs, from `ObjectAssumption`,
`BoundAssumption` and `InputAssumption`. The first says that a tree is a sequence of entries of four kinds
which holds each name once, as git's trees do:

- `LongestRef`: the loop over the prefixes of a link has passed over no ref that was there all the
  time (`Resolution`).
- `OneCommit` is the whole of `SnapshotIsOfOneCommit`. `Descent` says that the directory was reached
  along the path in the recorded commit; `Visiting` that every leaf of the directory is below an entry
  of the stack or has been taken, and that nothing else is or has; `Counting` that the bytes of what
  was taken are within the count the walk keeps, and that within the limit. The leaves of a tree are a
  recursive function of the depth and the bytes of a set of files a fold; what is needed of them is
  proved by induction over the naturals, from the least counterexample (`LeastMember`), since the
  library's induction theorems cannot be instantiated here.
- `OffersKept`: `Offered` says that what was offered is a template of the commit that was discovered and
  that what is captured was offered. `Invariance` is the whole inductive invariant.

`LaunchProofs`, for any prefix, line and output limits, and any output, from `OpeningAssumption` and
`SourceAssumption`:

- `Final` and `Agree`. The reader is restated on the text it has read, and one lemma after the other
  says what one more symbol changes: the last line only, which ends or gets longer. So the line that
  decided goes on deciding (`OpeningInv`). The SDK's loop is a recursive function of the position;
  `UpTo` is its closed form, by induction over the position, and equals what the Go package says,
  unless the two URL parsers differ about the candidate that decides (`Disputed`), which then
  one of them refuses.
  `LaunchOpens` and `LaunchAnswers` carry both over to every launch.
- `ScriptAgrees`: `StoredInv` says that what the script stored follows the prefix on the first line that
  has it, all of it if the line had its end. A line only grows at its end, so that line stays the first.
  `OpenedIs` says what the open script prints of it: without blanks inside, the line's first field,
  which is, or begins, the URL of the answer (`FirstFieldStays`); else the URL with what follows.
- `ReadsThePublished` and `Faithfully`, for every source whose parts have the types the decoder gives
  them (`SourceAssumption`), whatever other keys and values it has. `Becomes` says what an adapter does to
  an object, `AdaptedIs` composes the chain of them. `SpecRead` then shows for each execution version that
  the checks before, between and after the adapters accept the published shape of that version and
  nothing else, and `DocumentRead` the same for documents. Neither property is inductive or needs
  to be: the source does not change until the service starts (`SourceKept`).

What recursive functions compute (`Value` and `Joined` of `Versions`, the loop of the SDK's reader) is
proved by showing that a function satisfying the equation exists and is the only one, with an induction
that argues from the least counterexample (`LeastMember`, `Upwards`).

Only model-checked: liveness (`UpstreamIsFollowed`, `Ends`, `Returns`), which is out of the
prover's reach. Every other property that a passing run checks is a theorem.

## What is not modelled

- In the readers (`validate.go`, `spec.go`, `svg.go`, `validateDocument`): the rules for single
  fields, which compare a value with a pattern or a limit: identities, parameters, mounts, npm
  packages, Compose YAML, SVG. They neither depend on the version nor on each other, and stay with
  the tests over the published history. Of `ForPlatform` only the second decoding and validation
  is modelled, in `Faithful`, not the choice of the platform's image.
- The path rules of `Digest` in `template/files.go`; the parsing of link texts, artifact names,
  `Link` headers and authentication challenges, each of which is one refusal here.
- A reader that fails: `opening.go:57` reports it as it reports a line over the limit. Of the two
  URL parsers, which candidates they take differently is abstracted to two kinds; that they print
  what they took differently, and that the blanks around a field are Unicode's in Go and
  JavaScript's in the SDK, is left out.
- In `Acquisition`, candidates for a ref that `validRef` refuses (`github.go:203-205`); in
  `ReleaseUpdate`, somebody restoring a torn file from git.
- JSON itself: duplicate keys, `null` for a missing section, keys in another case.
- `cmd/generate-contracts`, `cmd/validate-template`, `catalog.go`, the templates and the
  configuration reader: no state and no order of events. A cancelled context is not modelled: both
  commands pass one that is never cancelled.
