# A verification project for the AI sessionizer

This directory keeps TLA+ models of the sessionizer beside its code: modules
translated from the Go source, TLC runs over small instances, and theorems
checked by TLAPS for every instance. Paths below are relative to the
repository; `collect.go` without a path is
`internal/adapters/claudecode/collect.go`.

## The system

`asz` collects what coding agents write to disk, keeps it in a storage root as
immutable numbered files, assembles the files into conversations, and serves,
judges, pushes and retires what it assembled. Nothing runs in a database: every
component keeps its state in files it replaces by a rename, and several
processes work on one root behind advisory file locks.

| Component | State it keeps | Operations | Hard part | What makes it correct |
|---|---|---|---|---|
| Collectors (`internal/adapters/*`) | a cursor per source, landed files, `session.state` | discover, read a window, land, commit, mark gone | sources grow, are rewritten and pruned while they are read; stops between two writes; two collectors | nothing consumed is missing; numbers are dense; a cursor never goes back; what is left is reported |
| Session index (`internal/index`) | `index/entries.bin`, `index/index.state` | load, append, rebuild a gap, write | the index is written after the files and before the counter | it agrees with the files whenever it is trusted |
| Parser and assembler (`internal/parse`, `internal/assemble`) | rounds of a conversation, `conversation.state`, head state | catch up, assemble a window, publish a round, save the head | publish and head state are two writes; two parsers on one chain; files that outgrow a budget | every landed record is in exactly one round; watermarks only rise; a round is never replaced by another |
| Retention and retirement (`internal/retention`, `storage/removing.go`, `retired.go`) | `removing.json`, skeletons, `removal.state`, retired marks | plan, write skeletons, delete, record, resume | a removal stopped half way; a late delivery to a retired session | a removal begun is finished; nothing removed comes back |
| Metrics (`internal/metrics`) | a receipt per landed file, the spool, `metrics.state` | derive a file, put its request, save, hand off, forget | a call that goes on in a file yet to land; a pass stopped between its three writes | a call counts once; windows of a series never overlap; every file is derived |
| Push (`internal/export/otlp`) | `push.state`: files sent, rejected files, owners, receivers; a spool | pin the owner, send a batch, record it, retry | the receiver answers late, in part or not at all; a stop between send and save; another receiver configured; an older `asz` | what is recorded was taken; a session at one receiver; nothing twice but for a fault; nothing skipped |
| Pull server (`internal/pull/server`) | `_pull`: state, histories, snapshots with their uses and leases, freeze and archive jobs with their owner locks | start a freeze, copy the source, reuse or publish, grant, renew and release a lease, supersede, expire, remove, build an archive, restart it | requests, builders and the sweep on one tree; a control record seen and not on the disk; a process replaced between two transitions | a held tree stays; what was told to be gone stays gone; a tag names one evidence; a ready archive is there |
| Pull client (`internal/pull/client`, `storage/copy.go`, `admit.go`, `bootstrap.go`) | `_copy` of each pulled conversation, its tagged trees, private builds, `_removing`, leases | pull, recover, select a base, fetch, publish, admit, sweep | readers take no `_pull`; a stop between the intent and the name; a clock that goes back; a download that fails in the middle | a lease keeps its snapshot; what admits a reader is whole; a tag is published once; a fetch ends |
| Provider exchanges (`internal/adapters/claudecodeprovider`) | a shared store of bodies and a state file | read, store, refer, sweep | bodies are shared by sessions | nothing referred to is swept |
| LangSmith (`internal/adapters/langsmith`) | inbox, deliveries, cursors | accept, claim, land | deliveries repeat and arrive out of order | each run lands once |
| Scenarios and judge (`internal/scenario`, `internal/judge`) | admission, stages, verdicts, expectations | admit, run stages, publish, remove | answers late or missing, a conversation that grows while judged | a verdict is of the text it names |
| Locks (`storage/lock.go`) | advisory locks: serve, `_scenario`, `_pull`, `_admit`, `_root`, `_export`, `_metrics`, `_provider`, `_langsmith`, session, chain | take, try, wait, release | everyone takes several | one order, no deadlock |
| Copies (`internal/repack`, `internal/verify`) | a second root | copy, check | the root changes while it is copied | the copy is one the collectors could have made |
| Views, configuration, command line, record formats | none of their own | | | |

The parts interact through the storage root. A collector lands files and calls
the index; the parser reads landed files through the index, behind the
session's lock and the chain's; retention and retirement write under the root
lock; the judge and the pushes act on the outcome a collector reported and on
the rounds the parser published.

## The modules

| Module | What it models | Extended by |
|---|---|---|
| `Collector` | one session of the Claude Code collector, with the storage package and the index | `MCCollector`, `CollectorProofs` |
| `Parser` | the parser and the conversation's chain of rounds, over an abstract assembler | `MCParser`, `ParserProofs` |
| `Removal` | retention's removal of an idle session's landed files, the store of bodies, and `asz verify` reading meanwhile, over a disk that may lose unsynced names | `MCRemoval`, `RemovalProofs` |
| `Push` | sending a root's files, judge runs and metrics to a receiver, over `push.state` | `MCPush`, `PushProofs` |
| `PullServer` | the server's snapshots of a conversation: freeze jobs, publication, leases, requests, supersession, expiry, removal | `MCPullServer`, `PullServerProofs` |
| `PullClient` | the copies a machine has pulled: builds, publication, recovery, sweeps, and the readers that lease a copy | `MCPullClient`, `PullClientProofs` |
| `PullFetch` | the acquisition of one archive, client and server together: polls, restarts by number, ranges, refreshes, budget | `MCPullFetch`, `PullFetchProofs` |
| `Metrics` | the derivation of a session's metrics: receipts, requests, windows, grace, `metrics.state` | `Retire` |
| `Retire` | the retirement of a session, with `Metrics` before it and the push of its requests beside it, over a disk that may lose unsynced names | `MCRetire`, `RetireProofs` |

An `MC` module only gives TLC an instance; the mutants of a definition (named
in a comment) stand before it and are used by no specification.

### Collector

`Collector.tla` is one session of the Claude Code collector, over the storage
package and the index. Its variables are the files: `src` (the runtime's own),
`cursor`, `landed`, `nextSeq` (`session.state`), `index` and `ixState`, and the
session's `lock`; and, for each collector, `pc` and `pass`, which is what
`collectSession` holds in memory and a stop loses.

| Action | Code |
|---|---|
| `Discover`, `Busy`, `Open` | `CollectAll`, the start of `collectSession`: the lock, `RecoverNextSeq`, `LoadFor` |
| `Reindex` | `index.Rebuild`, a landed file a step |
| `Visit`, `VisitFails` | the loop over the sources, `collectSource`, `LoadCursor` |
| `FoundGone`, `FindConflict`, `NothingNew`, `ReadWindow` | the four ends of `TailAppend` as `landAppend` handles them |
| `ReadSnapshot` | the first half of `landSnapshot` |
| `Land`, `Commit`, `SourceFails` | the file, then the cursor; `GiveBack` and the error returns |
| `MarkIfGone`, `MarkFails` | `markPruned` and `markIfGone` |
| `CheckLost`, `Checked` | `markLostSessions` |
| `Visited`, `WriteIndex`, `SaveIndexState`, `Close` | the end of `collectSession`, three writes |
| `Crash` | a stop, or the failure of a write the pass returns on |
| `Grow`, `Rewrite`, `Prune` | the runtime and its user |

Every write is a rename (`WriteAtomic`), so a stop leaves a file whole or as it
was. Power loss, which could undo a rename, is `Removal`'s subject and not
modelled here. A line is a member of a small set and every line has one length;
a digest is the text it is taken of. Stat, verification and read of one window
are one step, and the source changes freely between that step and the next.

### LandedLog

`LandedLog.tla` is what a collector promises its readers, in three variables:
the `log` of landed files, numbered without a hole; the `position` of each
source; the sources that are `halted`. A file continues its source at its
position, a position moves over the last file, and nothing lands of a source
that is halted. `Collector` implements it with `landed`, the cursors' `ord` and
the cursors in conflict (`ImplementsLog`).

### Parser

`Parser.tla` is one session's parser (`internal/parse/parse.go`) and its chain
(`pkg/sessionflow`). Its variables are what is on disk: `files` (what each
landed file says of which entity), `rounds`, `headState` (`conversation.state`)
and the chain's `lock`; the `build` of the assembler that runs; and, for each
parser, `pc` and `pass`.

| Action | Code |
|---|---|
| `Begin` | `parse.Session`: the lock, the head, the fold of the chain |
| `CaughtUp` | `caughtUp`: the files the session has now |
| `Assemble` | the window of evidence, halved while it does not fit, then its frames; `assemble.Session`, `diff` |
| `CheckHead`, `WriteRound` | `Chain.Publish`: the head is read again, and the round written exclusively |
| `SaveState` | the saved head, after the round |
| `Crash` | a stop or a failed write |
| `Collect`, `Upgrade` | a collector lands a file; the program is replaced by a newer build |

The assembler is a function of the files and of its build: an entity is what was
last said of it, in that build's words, or nothing once it was dropped. A round's
digest is its place in the order of publication and an input digest is the sets
of files that were hashed into it, so `InputBound` compares the evidence itself.
A frame has one size, the header has the same, and the budget counts them.

### Removal

`Removal.tla` is level 1 of retention (`internal/retention/retention.go`). A
name in a directory is a record of what a process sees (`now`), what a loss of
power may leave (`may`) and whether a sync of it failed (`stuck`). A write adds
to `may`; a sync that succeeds leaves only `now`, unless the name is `stuck`:
`writeSkeleton` and `BodyStore.put` say why (retention.go:680-682,
bodystore.go:198-200). `PowerLoss` picks any remaining value of every name.
Three directories matter: the landed files and their skeletons are in
`provider_body` (zone.go:84-86), which `WriteSkeleton` and `SyncDeleted` sync; the
store of tips and pieces is in `provider`, and `BodyStore.put` syncs its
directories up to the session's (bodystore.go:215-223); and the session's holds
the intent and the state. So keeping a tip or a piece settles an intent and never
a deletion.

Its variables are those names (`landed`, `skeleton`, `intent`, `state`, `tip`,
`piece`), the `body` each sequence holds, what the chain covers (`parsed`), the
judge's lock (`judging`), the pass (`job`) and the check (`check`).

| Action | Code |
|---|---|
| `StartPass`, `Recover`, `NothingToRecover` | the pass under the root's lock, `Remover.Recover` |
| `Land`, `PieceNotKept` | a provider body lands; `RemovedPieces`, `PutPieces` before it |
| `Parse` | the parse of what moved |
| `NothingToRemove`, `KeepTip` | `removable`, `keepTips` and the refusals |
| `SaveIntent`, `WriteSkeleton`, `SkeletonCutShort`, `SavePhase`, `SaveGeneration`, `Delete`, `SyncDeleted`, `ReclaimTips`, `ReclaimPieces`, `RemoveIntent` | `remove` and `finish`, a write and its sync a step; each sync succeeds, fails or is never reached |
| `Stop`, `Fails`, `PowerLoss` | the process stops; a read fails; the power goes |
| `JudgeStart`, `JudgeEnd` | a run is admitted and released |
| `StartCheck` to `Compare` | `verify.Session`, `removalOf`, `Provider`, a read a step |

The session's landed files are provider bodies of one chain, one body a file;
skeletons of other kinds take the same path. Nothing is exported and no metric
is derived, so the spool is left out. A landing is one durable step: retention
does not ask, and the collector's own stops are `Collector`'s. `gone` remembers
what was ever deleted and no action reads it.

### Push

`Push.tla` is `Pusher.Pass` (`internal/export/otlp/push.go`) over a root that
holds landed files and rounds (kind `file`), judge runs (`stage`, `close`) and
the metrics spool (`request`). On disk are the `root`, what is `retired` and
`push.state` (`state`); a pass keeps in memory what it knows of `push.state`
(`mem`), what it has yet to look at (`left`), the request it makes (`batch`) and
whether it tried a stage of the run at hand (`tried`). `taken`, `kept` and
`times` are the receivers' and no action reads them.

| Action | Code |
|---|---|
| `Start`, `Finish` | `Pass`: `loadState`, the listing in order, the end |
| `PassOver`, `Add` | held and retired sessions, `batch.add`, the close guard of `addJudgments` |
| `Flush`, `TakeRequest` | the calls of `flush`, the loop of `pushSpool` |
| `Pin`, `PinFails` | `pin`: the owner is saved, or the request does not go |
| `Answered`, `Unanswered`, `Refused`, `Throttled` | `Client.Export` and `ExportMetrics`, and `mark` and `reject` after it |
| `Save`, `SaveFails` | `push.state` after every request |
| `ReadFails` | a file, request or run that does not read |
| `Stop` | a stop, or an error that ends the pass |
| `Write`, `Retire`, `Reconfigure` | collectors, the parser, the judge (`PublishStage`), metrics, retention and the user, between passes: they and the pass hold the root's lock |
| `OlderSaves` | an older `asz` rewrites `push.state` with its pushed lines only |

Every file has one size and the budget counts files. A receiver may reject any
part of a request it takes. The rate limit, the attributes and the two
transports are left out; `ForgetGone` is in `Retire`. A save
is durable: `WriteAtomic` makes it a rename, and what a loss of power does to the
rename is not modelled.

### PullServer

`PullServer.tla` is `internal/pull/server` for its snapshots. Every transition of
the server runs under `_pull/.lock` (owner.go:255) and is one action; what a
worker or a request does between two transitions interleaves. A control record
is a pair of what a reader sees and what the disk holds: `ReplaceControlDurable`
sets both, or, when its sync of the directory fails, only the first
(control.go:40-95), and `Crash(TRUE)`, a loss of power, brings the second back.

Its variables are those records (`state`, `history`, `snaps`, `leases`,
`freezes`), the lock files processes hold (`up`, `owner`, `root`, `holds`), the
evidence published under each tag (`digest`, kept once it is gone), what each
worker and request does (`work`), and what clients were told is gone (`gone`,
which no action reads).

| Action | Code |
|---|---|
| `StartFreeze`, `ClaimFreeze` | `startFreeze`; `claimFreeze` and its slots, in a new attempt or a recovered one |
| `ReadSource`, `CheckReuse`, `Reserve`, `FinishTree`, `Publish`, `FinishFreeze` | `runFreeze`: copy, `reuse`, `publish` (intent, name, commit), `supersede`, the job's end |
| `Discard`, `ClearIntent` | `settleIntent`, `discardPublication`, by the job itself or by the sweep |
| `Sweep`, `ReplayRemoving`, `RemoveIfDue`, `DeleteTree`, `RemoveFreeze` | `sweep` and what it calls |
| `Poll`, `Ask`, `HoldSnapshot`, `Admit`, `Grant`, `Renew`, `Sent`, `LetGo` | `serve`: the hold, the lease, the renewals while an answer is written, the end |
| `Done`, `ReleaseLease`, `RemoveReleased`, `ReleaseAgain` | `serveDone`, `release` |
| `Crash`, `StartProcess`, `Tick`, `Change`, `TokenGone`, `Forget` | stops, `Run`, time, the source, the tokens file, a client that stops |

### PullClient

`PullClient.tla` is one remote conversation on the machine that pulls it. Its
variables are `_copy` (`outer`), each tag's `tree` and `content`, the private
`build`, what was accepted for each tag (`evidence`), the holder of `_pull`, the
commands and their leases, and the readers. What runs under `_admit` and the
conversation's `_root` is one action.

| Action | Code |
|---|---|
| `Begin`, `Take` | `pullKeeping` asks for the manifest, then `_pull` is taken |
| `Recover`, `DiscardTree`, `ClearIntent`, `Clean`, `EmptyRemoving` | `recover`, `cleanPrivate`: what an earlier command left |
| `SelectBase`, `Fetch`, `FinishBuild`, `Reserve`, `Publish`, `AdmitResult`, `Release` | `selectBase`, `build`, `finishBuild`, `publish` |
| `RemoveIfDue`, `DeleteGone`, `Finish` | `removeDue`, `removeIfDue` of a sweep |
| `Admit`, `BindRun`, `AdmitChild`, `Leave` | `AdmitSnapshot` and the leases of views, judge runs and their children |
| `Kill`, `PowerLoss`, `Tick`, `HeadMoves` | stops, the clock (which may go back), the remote |

### PullFetch

`PullFetch.tla` joins the client's acquisition of an archive
(`client/fetch.go`) with the server's archive jobs (`server/archive.go`). A
snapshot is a number of which the last is served; `SnapshotGoes` serves the
next. The server's state is the `job` of each snapshot, the failures `kept` for
restarts and the installed `output`; the client's is its budget (`left`), its
place, the restart it asks for and the bytes it has. `lost`, `met` and `undone`
are histories no action reads: what was charged, and of which snapshots a loss of
power took back an attempt. `LatePost` is a request whose client has given it up.

`ChargedOnce` leaves out the snapshots in `undone`. A client remembers the last
failed attempt it met and no other (`s.restart`, fetch.go:262-272). The server
saves a job's next attempt by a rename whose directory sync may fail, a client sees
it fail, and a loss of power brings the older number back: the client meets that
number's failure, and then the next one's, a second time, and pays for both again. It pays
a failure too much, of a budget that exists to end such fetches; the code claims
no more. The run is too small to reach it, and the proof found it.

| Action | Code |
|---|---|
| `Accept`, `Join`, `SaveJob`, `Restart` | a POST: `startArchive`, a job that is there, `keepFailure` and the next attempt |
| `Poll`, `RangeOf`, `Extract`, `Refresh`, `Gone`, `Lose` | `fetch.go`: a poll, a range, the extraction, the manifest asked for again, a 410, a lost answer |
| `ClaimArchive`, `DiscardOutput`, `BuildArchive`, `FinishArchive` | `claimArchive` and the builder |
| `SnapshotGoes`, `Stop`, `LatePost` | the server's snapshots, stops, a late request |

### Metrics

`Metrics.tla` is `Deriver.Pass` (`internal/metrics/metrics.go`) over one session.
A landed file is a sequence of records, each the call it is a fragment of, or a
prompt, or a tool's result, with its minute; `Content` gives the files in the
order they may land. On disk are `receipt`, `spool` and `saved`
(`metrics.state`); a pass holds `pass`. What the files say is computed by
definitions over `Content`: `Known` is what reading ahead finds of a call
(`continueIn`), `OpenTail` the file a call may go on behind, `Point` a point and
its window (`windows`), `Receipt` what `deriveReceipt` decides. A request is the
set of its points, a point the calls it sums; the spool file's value is its
request, or `{}` when it is not there.

| Action | Code |
|---|---|
| `BeginPass` | the lock, `loadState`, the receipts of files no saved pass derived |
| `PassOver`, `Defer`, `DeriveReceipt`, `Break` | the loop over the files: derived, waiting for the grace, `deriveReceipt`, an error that ends the session's part |
| `Put` | `PutNamed`, then `receipt.commit` |
| `Save` | `state.save`, once, with the look-back of a session not finished |
| `Land`, `Age` | a collector, and the grace running out |

The minute of the model is four units long, a unit being the millisecond
`windows` moves a window by. A file's points are of one series, where the code
has one per model and token type, which all move together. Execution files, whose
calls are over when they land, are left out.

### Retire

`Retire.tla` extends `Metrics` with retention's level 2
(`internal/retention/retire.go`) and the push of the spool. The names that
matter are records of what a process sees and what a loss of power may leave, as
in `Removal`: the session's directory (`dir`, in its place, moved or gone), the
`marker`, each file of the `spool`. `retire` is what a retirement holds in memory,
`settled` what its process remembers; `line` and `owner` are `push.state`.

| Action | Code |
|---|---|
| `BeginRetire` | `retirable`, or `RecoverRetired` of a marked session; the marker is written |
| `MarkDurable` | `mark` |
| `HandOff`, `WriteAgain` | `metrics.HandOff`: the deletion and the durable write of each request not answered |
| `Rename`, `MoveDurable`, `DeleteMoved` | `RemoveDirDurable` |
| `Tidy`, `SyncChanged` | answered requests deleted; every directory synced before anything is forgotten |
| `ForgetGone`, `ForgetMetrics`, `Settle` | `otlp.ForgetGone`, `metrics.Forget`, `Remover.settled` |
| `Send`, `Answered`, `Unanswered`, `Reconfigure` | `pushSpool`: `claim`, `pin`, the request and its answer; the configuration |
| `Stop`, `PowerLoss` | a stop anywhere; a loss of power |

Commands hold the root's lock, so one thing is at work at a time (`Free`); a stop
leaves it half done. The session's directory and its conversation's are one name:
they take the same steps one after the other. A failed sync of the move or of
what was deleted is taken to be settled by the next that succeeds, which is what
the code takes it for (retire.go:207-214), and not so for a request or the marker,
which the code writes again. `named`, `taken` and `answered` are histories no
action reads.

## Runs

| Run | What it checks | Bounds |
|---|---|---|
| `crash` | `LandedLog` implemented (numbering, nothing lost), nothing twice, index exact | two collectors, one transcript and one manifest, two lines, two stops or failures |
| `cursors` | complete means drained; windows are read behind the text their source landed last; with fairness, catching up and noting what was pruned | one collector, a transcript of two lines, two line texts, a digest and windows of up to two lines and no further drain round, two rewrites but between a window's read and its digest, one fault |
| `chain` | one unbroken chain, bound to its evidence; what is done is whole; with fairness, the chain reaches the newest file | two parsers, a node and a gap, three files, a budget of a header and one frame, an upgrade, one fault |
| `losses` | no file is lost; none goes under a judge; with fairness, a removal begun ends | two bodies, three generations, two failed syncs anywhere, a stop, a loss of power |
| `store` | what landed still builds; nothing deleted comes back; no false damage; inconclusive means two removals | two bodies, two removals, a stop, a loss, one check of four attempts, one failure: a sync of the intent, a piece or the intent's end, or a recovery |
| `push` | one receiver; stages before their close; sent means kept; with fairness, nothing starves | two sessions (a judge run beside a file no request can carry; a file with its metrics, which may be retired), two owners with a receiver each, requests of two files, one reconfiguration, two faults |
| `closing` | a disagreement with the documentation, below | one session with a judge run, no fault |
| `serve` | held trees stay; gone stays gone; a request at work is served; a tag names one evidence | one conversation, two freeze jobs on one slot, one lease, one client, two tags, a clock of three, so two ticks, with a time to live of two, one change, one stop or loss, one failure |
| `copies` | a lease keeps its snapshot; what admits is whole; a tag is published once | two commands, two readers, three tags, a clock of two ticks that goes back, two remote versions, one kill or loss, one failure |
| `fetch` | one archive's bytes; charged once; with fairness, the fetch ends | one client, an archive of two ranges with two possible digests, two snapshots, three failures of budget, one stop or loss, two failures of the server |
| `restart` | a disagreement with the documentation, below | two clients, one snapshot, two failures of the server, no stop |
| `retire` | a call counts once; windows apart; the look-back kept; no last copy deleted; nothing answered sent again, one owner; with fairness, files are derived and a retirement ends | three files of two subagents that share a series, a call that goes on in the third, one older than the look-back, two faults of any kind, one reconfiguration |

The bounds let each hazard happen and nothing twice that needs to happen once:
two lines or bodies make an order, a second stop or loss meets a recovery, and a
second removal reuses what the first left. `losses` has a generation more than
removals complete, so that the last one can begin. `push` has two faults, so that
a failed save can be followed by a stop, and a lost answer by an older `asz`. In
`serve` a second job builds beside a first one, so that one supersedes, or meets
the intent of, the other; two conversations would only share the slot. In
`copies` a third tag is given out behind one that was removed and one that was
reserved and lost. `store` fails no sync of a tip, a skeleton, the phase, the
generation or the deletions, with any of which `NoGhost` does not hold
("Disagreements"); `losses` has all of those failures, for what holds in spite of
them.

`serve`, `copies` and the pull runs' clocks stop at a bound, `fetch` at the end of
the fetch and `retire` with the session gone and sent: `CHECK_DEADLOCK` is off
there. `serve` takes requests and
leases one at a time in each client; the renewal of a use that is due
happens before the next tick, which is what `renewEvery`, a fraction of the time
to live, is for: with a process stalled for a whole time to live `AtWorkServed`
does not hold, and the code does not promise it.

Fairness. Collectors and parsers: weak, for each one's own steps. A watching
pipeline runs pass after pass and nothing inside a pass waits, so a step that
stays possible is taken. Removal: weak for the steps of the pass, and strong for
keeping the tip, since a session that stays idle is eligible again on every
pass. Push: weak for the steps of a pass, with an answer for each request in the
end. Fetch: weak for a client's next request and for the server's claim and
build of what it accepted, which `schedule` and the sweep's ticks start again
(routes.go:713-774). Retire: weak for beginning a pass, for each file's grace, for
an answer, for a retirement that is unfinished and for its steps; that a
derivation once begun ends is said as `[]<>(pass.step = "idle")`, which is what
weak fairness of `Derive` gives, since no step of a pass waits. Nothing is
assumed of landing, of idleness, of the runtime, of stops, of failures, of
losses, of lost answers or of judge runs ending.

## Disagreements

- `closing`: a request a receiver takes is recorded whole, also when it rejected
  records of it (push.go:935-942), and the close of a judge run asks only what is
  recorded (push.go:677-684). A receiver that rejected a stage holds the close
  without it, which push.go:589-590 and docs/en/formats/otlp.md:161-163 exclude.
  `CloseAfterStages` is what does hold.
- `restart`: a restart that fails while it keeps the failed attempt leaves part
  of the record at its final name (bootstrap.go:290-306), and the same restart
  sent again does not read it (archive.go:262-276) and is refused, though
  docs/en/formats/asz-pull.md:363-366 says it can be sent again.

Five limits that are no run's. A removal whose sync of the deletions failed is
finished by a later attempt, which deletes nothing: its sync succeeds with nothing
rewritten (retention.go:514), and its intent goes. The comment of `finish` says
that "a power loss never brings back a deleted file with no intent left"
(retention.go:446-448); by the rule the file states for skeletons
(retention.go:680-682) the deletion may not have reached the disk, and a loss of
power may bring the file back. TLC finds `NoGhost` violated with one body once
`Fallible` has `"deletions"`, and so it is with four other syncs. A skeleton's is in
the directory of the deletions: removal 1 deletes and stops before its sync, the
next pass's `Recover` fails, `Pass`, which looks for no intent
(retention.go:251-266), begins removal 2 over it, the sync of its first skeleton
fails, and a later `Recover` ends both with syncs that succeed. The phase's leaves
the intent itself one that a loss of power may take back, and so, with one stop
more, does the generation's, and with two more the tip's, which syncs the session's
directory too. With three bodies what comes back may be cut against a tip that was
reclaimed, and then `StaysBuilt` and `NoFalseDamage` fail as well. The hypothesis
`NoneStranded` of the theorems says that no deletion, and no intent of a removal
that deletes, is left waiting in a directory whose sync failed; that those five
syncs do not fail is `SyncsHold`, from which `WhileSynced` proves it. Those of the
intent, of its end and of a piece may fail.

`tail_sha256` is read from the path again after a
window landed (collect.go:497), so a source rewritten in between leaves a cursor
whose digest is of text that never landed; the runs and the theorem `Resumes`
assume that away (`RewritesRace = FALSE`, the constant that names it). A source
that is gone by then leaves a cursor without a digest: what it is restored as is
read unverified, and the next digest covers the text before that window too,
though none of it landed. `ResumesOnWhatItRead` is therefore about a source's last
window and no further back. And a pass that stops
between landing a snapshot's version and saving its cursor leaves the cursor
older than the version (collect.go:535): a source that then goes back to what
the cursor names does not land again.

The last two are those `LossesInOrder` names. The
intent's two saves and the generation's each sync the session's directory; where
none of those syncs came to its end, because three passes stopped there, or the
first sync failed and two stopped, a loss of power may keep `removal.state` of
generation g and take `removing.json` back (`InOrder`). Nothing was deleted, so no
removed file's skeleton says g, and the next removal is given g again
(retention.go:420 goes by the skeletons). A check reads generation g, and no
removal in progress, before that removal and after it, while it deleted in between,
and reports damage. session.go:215-219 says that "each removal
has its own generation" and that "the later one sees a removal, or a generation,
the earlier did not". TLC finds it with `Fallible = {"intent"}`, one failure, two
stops, one loss and two bodies; `store` has one stop and does not reach it.
And a loss of power may keep the intent of a removal begun over an unfinished one
and undo the deletions of the first, whose skeletons showed its generation
(`Numbered`): the removal after them takes that generation again, and a
check may end inconclusive although the count went up by one only. TLC finds it
with three bodies, three generations, three stops and one loss. Where nothing is
stranded the theorems say these are the only ways.

Each run stops at the shortest behaviour TLC finds; the comment it contradicts
is quoted in `PROJECT.json`.

## Proofs

Each `*Proofs` module proves one inductive invariant step by step, a lemma or a
step for every action, and takes the theorems from it. The constants are
arbitrary, under the module's `ASSUME`, which TLC evaluates on every run.

- `CollectorProofs`: `TypeOK`, `SeqsDense`, `CursorBehindFiles` and
  `CursorOnlyAdvances`. The invariant adds to them that the lock's holder is the
  only collector inside the session (`LockHeld`), that its counter is the number
  of files (`CounterExact`), that the window in memory is the one after the
  cursor and, once landed, the newest file (`WindowHeld`), and that no cursor names
  a file still to land (`LastSeqLanded`): density fails at the first write of a
  collector whose counter another moved. `Refinement` shows that `Collector`
  implements `LandedLog`, from the same invariant and one more: a window in memory
  holds a line, and a snapshot's begins at its start (`WindowFilled`). The other
  four properties each take one invariant on top of it. `LandsOnce`: before the
  first fault the files of a source lie apart and behind its cursor, but for the
  window landed and not committed (`Apart`). `IndexIsExact`: the
  index on disk and the one in memory each hold the rows of some number of the
  first files, and the saved state counts the entries of the files it names
  (`IndexHeld`). Two such indexes of one length have the same entries, so that
  comparing counts, which is all `LoadFor` does, is enough wherever a stop fell
  between the two writes. `CompleteIsDrained`: what a pass
  has said of each source it is done with, and of the one it is reading
  (`Drained`). `Resumes`: a digest is, line by line, the text of the file its source
  landed last, and the window in memory is still where it was read (`Vouched`);
  the second part needs that no rewrite falls between them (`~RewritesRace`).
- `ParserProofs`: `ChainLinked`, `InputBound` and `StateBehindChain`. The
  invariant adds that a parser inside a call holds the chain (`LockHeld`), that
  the index it read is behind the files (`IndexBehind`), that a decided round
  still follows the chain's last (`DecidedFollows`) and that the round whose head
  is about to be saved is the last (`WrittenIsLast`). `EvidenceIsWhole` and
  `DoneMeansWhole` take a second one, `WholeInv`: a decided round that brings
  evidence, or leaves nothing for later, has as frames all that the fold and the
  assembly at its watermark differ in, and the fold says that assembly once the
  round is written. It is kept because frames that differ, applied, say what is
  assembled (`DiffWhole`), because a part of a delta with as many frames is the
  whole (`FittingPart`, where entities are finite in number), and because neither
  the fold through a round nor the assembly through a file changes when the chain
  or the files grow (`FoldedSame`, `AssemblyKept`). `Fold` is a recursive function;
  `FoldIs` shows, by a least counterexample, that it is what each entity's last
  mention says, and the rest of the proof uses that.
- `RemovalProofs`: `TypeOK`, `Kept`, `OnlyParsedGo`, `JudgeUndisturbed`, and, where
  `NoneStranded` always holds, `NoGhost` and `StaysBuilt`, and, with `LossesInOrder`
  too, `NoFalseDamage` and `Conclusive`. `WhileSynced` and `WhilePowerStays` state
  them with hypotheses on the constants only: that the syncs `SyncsHold` names are
  not `Fallible`, and for the last two that the power is never lost.
  `Kept` speaks of what a directory shows; a loss of power asks what it may
  show, so the invariant speaks of every value a name may come back with:
  a landed file is settled and a missing one has a skeleton whole in all its
  values (`Protected`), and while the intent says files are deleted a whole
  skeleton is a durable one (`DeletesSafe`), which `SavePhase` establishes from
  the syncs it went past (`JobFits`). That is why `WriteSkeleton` replaces a
  skeleton it finds: the mutant that keeps it breaks `Kept`.
  `NoGhost` and `StaysBuilt` take a second invariant, `StoreInv`, on top of that one,
  which each step keeps from `NoneStranded`. What was removed is the first part
  of the session, and for every intent a loss of power may leave there is a body
  where that part ends (`EndsAt`): those past it are there, were never deleted, and
  cite of it only pieces that are kept for good (`Cut`); it is kept for good itself,
  as the chain's tip; and all of the part is gone for good where the intent is gone or
  bodies landed since. One body for all intents would not do: a removal that saved
  its intent, and stopped, may fall back on the end of the removal before. Nothing
  but `SyncDeleted` and a skeleton's sync settles a deletion, so one may wait while
  another removal begins: it is covered by every intent a loss of power may leave,
  and an intent that ended has nothing left to delete (`Waiting`). A pass has made
  sure, by the step it is at, of the tip, of the intent and of the deletions
  (`Ready`). `NoGhost` follows at
  once. `StaysBuilt` needs `Builds`, a recursive function, to be what its definition
  says: it exists because a body copies from the one before it or from none, so that
  whether it builds can be said without recursion (`Chains`); that every body past the
  cut builds is then a proof by the least one that does not (`LeastOne`, from the
  library's `WFMin`).
  `NoFalseDamage` and `Conclusive` are about a run of `asz verify`, which tells two
  readings of the session apart by the generation of its removal, and so about the
  order of the removals. `NextGeneration` goes by the skeletons, while the view is
  made of the intent and the state, and each may fall back by itself: `OrderInv`
  says, of every intent a loss of power may leave, that some skeleton gone files
  have for good is of the generation before it, or of its own where bodies landed
  since (`Ordered`, `Outgone`), that skeletons which matter are settled (`Firm`), and
  what a pass has seen when it picks its generation (`Ahead`). Then the disk's steps
  count the view up, two for each removal, and never bring one back (`Marker`,
  `ViewMoves`). `Conclusive` follows by counting: an attempt that fails has seen the
  view move, for what it goes by was what the disk showed (`CheckInv`, `Fresh`).
  For `NoFalseDamage`, `DamageInv` says of the view a check began with that it is not
  above what the disk shows (`Floor`), and, as long as it lasts, that the session is
  `Intact`, a last part that landed and what the store keeps of the part before, or
  that the view names the removal at work, which deletes only what the check
  forgives; and that every body the check went past is built or removed as the disk
  has it (`Walk`), so that the next one builds (`WalkedBuilds`).
  A loss of power may break the order in two ways, which `LossesInOrder` excludes and
  "Disagreements" describes; `WhilePowerStays` states both properties without it,
  for an instance that loses no power. `WhileSynced` has an argument of its own:
  no step strands anything, because the syncs that may fail are not of the
  deletions' directory, and are tried only while no intent says that files are
  deleted.
- `PushProofs`: the safety properties of `Push`, and two no run repeats: what is
  recorded was taken, and nothing is taken twice but for a fault. The invariant adds that a
  pass and the disk agree on every owner and the pass knows every recorded file
  (`Books`), that a session's owner on the disk is the one each receiver saw and
  the one the request in hand goes under (`Owned`), that a file is looked at, in
  the request or recorded, one at a time (`Lists`), that a close in a request has
  its stages recorded (`CloseReady`), that what counts as sent is at a receiver
  recorded beside it unless none is known (`Held`), and that a file not recorded
  was taken for faults only (`Counted`). `OneReceiver` alone is not inductive: it
  is `Books` that lets a request name the owner the disk has.
- `PullServerProofs`: `HeldStays`, `TagNamesOne`, `AtWorkServed` and
  `GoneStaysGone`. `IInv` says that
  a worker at work holds its job's lock (`Crew`); that whoever settles an
  unfinished publication has its owner's lock until the intent is gone
  (`Settles`); that every tag that names something, and every tag of a publication
  at work, is behind the greatest one given out, on the disk too (`Numbers`); that
  what is held is there, and a publication at work is the intent and not there yet
  (`HeldTrees`); and that a request holds the snapshot it is about and a lease it
  uses is its own client's (`Asked`). `HeldStays` needs `Settles` and `Numbers`: a
  discard takes a tree nobody can hold, because its tag names nothing yet and its
  owner, who alone could publish it, is not at work. `TagNamesOne` is `Numbers`: a
  reserved tag is greater than every tag that ever named anything. `AtWorkServed`
  takes a second invariant, `Renewed`: while a request is sending, its snapshot's
  use is no older than the request's last renewal, and that is at most `Interval`
  old, which is less than the time to live because that is at least two seconds
  (config/remote.go:77; of one second, no interval in whole ticks would be less).
  `GoneStaysGone` takes two more, `Names` and `Ends`. Whatever a worker, a job or a
  request names was published (`Names`), and what is published and no longer whole
  and alone has ended for good (`Whole`): its tag is removed, its intent is still
  there, its use expired, or it is superseded with no lease open, each on the disk
  as it is seen (`Ended`), so that a loss of power leaves one of them. A tree is
  moved away only behind its history (`Away`), and an intent goes only when its
  tag's removal is on the disk (`Clearing`) or its tree is published, by the one
  worker whose intent it is (`Intent`). A tag the histories have removed is behind
  their greatest (`Grows`), so that none is reserved again.
- `PullClientProofs`: `LeaseKeeps`, `AdmitsWhole` and `TagsOnce`. The invariant
  says that one command is at work and holds `_pull` (`Alone`), what each step of
  it still knows of `_copy`, of its build and of the tag it publishes (`Knows`),
  that every tag that ever named a tree is behind the greatest one given out, on
  the disk too (`Ranked`), that what admits, now or after a loss of power, was
  fetched whole and is what its publication recorded (`Whole`), and that a lease is
  on a tree that is there, whole and of no unfinished publication (`Leases`).
  `TagsOnce` needs `Ranked`: a tag given out and lost in a stop is known only by the
  number behind it.
- `PullFetchProofs`: `OneArchive` and `ChargedOnce`. The invariant joins the two
  sides. Of the server: a job that is ready is on the disk as it is seen, and its
  digest is the installed archive's (`Finished`); a builder at work has the owner's
  lock and its job's attempt (`AtWork`), and a built archive is the one it will
  report (`Built`); a client that installs the list of names has the lock of a job
  that is not there (`Installs`). Of each acquisition (`Fine`): what it has is of one
  archive (`Prefix`), the restart it asks for is no attempt the job has yet to reach
  (`Reached`), no failure it met is past that number, nor of a later snapshot
  (`Latest`), and what was charged adds up (`Paid`). `ChargedOnce` alone is not
  inductive: a number behind the last one, met again, would be paid again, and
  only `Reached` and `Latest` say that there is none.
- `RetireProofs`: `RequestsKept` and `SentOnce`, and of the derivation `CountedOnce`,
  `WindowsApart` and `LookbackKept`. The first two are about what a loss of power
  brings back, so the invariant speaks of every value a name may come back with, not
  only of the one it shows (`Entries`). Each request a receiver did not take has a
  file in the spool that cannot be lost, for the files the hand-over went past, and
  for all once the directory is about to be renamed or is gone (`HandedOff`). What
  was answered has a line in push.state, or neither its file nor its directory can
  come back; what was taken went to the owner the state has, unless nothing of the
  session can come back (`Sent`). Where the state is about to forget, the directory
  and what was deleted are synced (`Synced`). A pass, a request and a retirement are
  never at work together (`Alone`). `SentOnce` is about one step and says nothing of
  the state it begins in: `Sent` and `Synced` are what keeps a request that comes back
  from finding no line.
  The derivation has an invariant of its own beside that one (`MInv`). A receipt,
  whoever wrote it, counts calls of its file alone, each in one point or older than
  the look-back, in windows that lie apart and end with its series (`Honest`); no two
  receipts count one call, and of one source the windows of one follow the other's
  end (`ReceiptsInv`). That holds because a pass has every receipt but the one in
  hand before it writes one (`Covers`), which is what the receipts committed at its
  start are for: the calls and ends `metrics.state` has are only those of the files
  it names. A spool file holds its receipt's request or none, wherever the power is
  lost (`NamedInv`), and a state is silent about the look-back only once the first
  file has its receipt (`SavedInv`, `Passing`, `MarkInv`). `WindowsApart` rests on a
  lemma about the greatest of a set of ends: a series that has more windows does not
  end before (`EndAfterGrows`). The assumption it adds on the files' records is that
  only the first file, which had landed when the first pass ran, has fragments older
  than that pass looks back: "files that land later hold newer records"
  (metrics.go:247).

Every invariant and every action property a passing run checks is proved. Only
model-checked: the liveness properties (`CatchesUp`, `GoneIsNoted`,
`ReachesIndex`, `RemovalEnds`, `EverySent`, `FetchEnds`, `RetirementEnds`,
`DerivesAll`), which TLAPS does not prove under fairness. The library's induction theorems take an operator as a
parameter, which its provers cannot instantiate; where a proof above is an
induction it is one by a least counterexample. No module here declares a
`RECURSIVE` operator.

## Not modelled

Conversion of records, assembly rules, codecs, views, configuration, bounded
JSON and flags compute values and keep no state. Repack and the control socket
are single-process reads and copies. Of the parts that do keep state:

- The pull modules leave out the transport, the listing, rate limits, the audit
  and the ranges of a response that is no archive; `PullServer` and `PullFetch`
  are not composed, since an archive job reads a snapshot only through the hold
  `HeldStays` is about.
- Two pulls take their manifests before `_pull` (pull.go:432), so a pull that
  waited may publish an older head under a newer tag; the model has the steps and
  the code promises no order, so no property states one.
- `Push` takes a save of `push.state` for durable. `WriteAtomic` does not sync the
  directory for certain, and a loss of power there is not modelled.
- A writer that stops between reserving a round's name and renaming over it leaves
  an empty file (chain.go:236); `Parser` writes a round in one step.
- `Metrics` and `Retire` leave out execution files and the MCP family, the count of
  unread files, the provider's table of a retired session, and a conversation
  directory that is another session's chain.
- The judge's stages and verdicts, LangSmith's inbox, the order of all locks: see
  the plan.

## Plan

1. `Collector`, 2. `Parser`, 3. `Removal`, 4. `Push`, 5. `PullServer`, `PullClient`
and `PullFetch`: done, with their proofs.
6. `Metrics` and `Retire`: done, with their proofs.
7. `Pipeline`: the order of a pass and every command's locks
   (`cmd/asz/refresh.go`, `storage/lock.go`), free of deadlock.
8. `Judge`: admission, stages and verdicts (`judgeadmit.go`, `internal/judge`).
9. `LangSmith`: the inbox and its deliveries.

Theorems to come: mutual exclusion and lock order of the pipeline.
