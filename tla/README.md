# assaio in TLA+

This directory holds TLA+ models of `assaio-agent`, the model-checking
configurations that run them under TLC, and theorems about them that TLAPS
checks. The models are written from the Go source under `internal/`; every
definition names its lines in `PROJECT.json` ("map").

## 1. The system

`assaio-agent` is a command-line program over one SQLite file. Vendors' coding
tools (Claude Code, Codex, Gemini, Cline, Copilot, Antigravity) write session
logs; `backfill` discovers the logs, parses them into usage records and stores
them; every report is a query over the stored records. `sync` pushes the records
to a team server (`serve`), which is the same store behind an HTTP handler.

    logs --discover--> inputs --parse--> records --upsert--> store --read--> reports
                          |                                   |  |
                     watermarks                   labels, digests  sync --> server --> its store

There is no daemon on the machine: every command is a process of its own, and
`docs/automation.md` recommends starting `backfill` from cron, a commit hook and
editor hooks at once. Two commands exclude each other only inside a SQLite
transaction, so everything between two transactions is a place where another
command, a crash or a vendor's write may come in. That is where the models look.

### Components

| Component | State it keeps | Operations | What is hard | What makes it correct |
|---|---|---|---|---|
| Import, `internal/ingest` | per run: watermarks loaded, inputs found, watermarks to write | discover, skip, stat, parse, insert, supersede, prune, flush | logs grow while read; runs overlap and die; a sub-agent is in two logs | a watermark is never held for what is not stored; a skip loses nothing; nothing is counted twice; what is on disk is stored in the end |
| Usage rows, `internal/store` insert | `usage_record`, `repository`, salt | insert, restate, register | one row is read many times, by several builds, from several transcripts and directories | columns of a row stay consistent with each other; a correction reaches the row; a project is attributed only when no transcript disagrees |
| Watermarks, steps, clear, `internal/store` | `ingest_file`, `session_step` | record, forget, drop superseded, clear by tool, age or all | a clear beside a running backfill | what was cleared can be read again |
| Drift canaries, `internal/drift` | `source_run`, the last ten runs per source | record a run, evaluate five canaries, prune watermarks | idle, partial and full runs in one history | a healthy source raises nothing, silence raises something |
| Session labels, `internal/cli/mark*` | `session_label` | mark, unmark, accept suggestions | read in one transaction, written in another | what was typed by hand stays |
| Digests, `internal/cli/digest.go` | `digest_snapshot` | take, compare, save, trim | three transactions; several windows in one table | a digest is compared with the right one |
| Sync client, `internal/cli/sync*` | none | export, push, refuse | answers are lost, syncs overlap | what was confirmed is stored |
| Team server, `internal/server` | the server's store; request windows | check identity and version, validate, insert; limit | stopped mid-request; migrated under a running server | one writer per row; budgets apart |
| Sync identity migration | members and key prefixes of all rows | validate a manifest, rekey, verify | one-way, over the whole store | no row is lost or counted twice |
| Repository identity, `internal/projectid`, store repository reads | `repository`, salt | key, register, show a name | clones, moved directories, `clear --all`, two repositories of one name | a row's repository is the one its label names; a name once shown is not passed on |
| Store opening, `internal/store` | `schema_version`, tables, columns, archives | heal columns, apply migrations | several openers; death between question and transaction | the schema is whole and no row is lost or archived twice |
| Parsers, `internal/parser/...` | none | one log to records and steps | responses split and repeated, cumulative counters, live files | each response counted once, by a key that a later read keeps |
| Evidence: attribution, git, GitHub | none kept | session-to-commit candidates, bounded reads, what is derived of reviews | rewritten times and hashes; part of an answer taken for all of it | work is found or what hid it is named; nothing is resolved by guessing |
| Plugins, `internal/plugin`, `cli/check*` | a child process and its pipe | start, handshake, stream, kill; gate a build | a child that hangs, forks, floods or dies | part of a stream is not taken for the whole; a gate with a hole fails |
| Analysis, reports, pricing, reconcile | none | pure functions of rows, sessions, steps, prices and a bill | figures with different denominators and horizons | what is shown follows from what is stored, and what is left out is said |
| Pseudonyms | a secret file | read, draw, write | several first runs at once | one secret per install |
| Survival, recommend, share, dashboard, i18n, registers, configuration, docs generator | none | rendering, constant tables, pure records | nothing over time | - |

The complete list, with the state of each, is "components" in `PROJECT.json`;
what is hard to test is listed there line by line under "hazards".

### How they interact

* `backfill` reads the watermarks once, at its start, and writes its own once, at
  its end; between the two it makes one transaction per input for the records
  and one for the steps. Another backfill or a clear may run meanwhile.
* `backfill` records a run of each source in the same process, asks `drift`
  whether discovery looks lost, and prunes watermarks only if it does not.
* `clear` deletes rows, watermarks, the registry and salt, and the digests'
  snapshots in one transaction. `clear --labels` deletes the labels in another,
  before it.
* `mark` and `digest` read in one transaction and write in a later one.
* `sync` exports a window of rows in one read and pushes it; the server checks
  the sender, the protocol version and the rows, and inserts them with the rules
  `backfill` uses, under keys that begin with the member's name.
* `serve migrate-sync` rewrites all of the server's keys in one transaction,
  while `serve` may still be running.
* Every command that touches the store opens it first, heals its columns and
  applies missing migrations, whatever else is opening it.
* `backfill` runs parser plugins after the built-in sources and stores what each
  said only if it ended well. `check` runs metric plugins, hands their verdicts
  with the built-in ones to rule plugins, and exits by their alerts and the budget.
* `evidence` joins the store's sessions to a clone's commits and, with `--github`,
  to a forge read twice by pages. It stores nothing.
* Reports and analyses read the store several times and join the answers by day,
  session, repository and label; every figure is priced by the vendored table.

## 2. The modules

| Module | Models | Extends |
|---|---|---|
| `ImportLedger` | the abstract promise of an importer: rows, steps, claims | - |
| `Ingest` | `ingest.Run` against the store, the logs and `clear` | implements `ImportLedger` |
| `Ingest_proofs` | proofs about `Ingest` | `Ingest`, TLAPS |
| `Restate` | insert and restatement of rows, registry and salt | - |
| `Restate_proofs` | proofs about `Restate` | `Restate`, TLAPS |
| `Sync` | client, server, migration | - |
| `RateLimit` | the server's limiter | - |
| `Sync_proofs` | proofs about `Sync` and `RateLimit` | both, TLAPS |
| `Desk` | labels, digests, the two transactions of `clear` | - |
| `Drift` | the canaries over a source's runs, and pruning | - |
| `DeskDrift_proofs` | proofs about `Desk` and `Drift` | both, `SetFacts`, TLAPS |
| `Opening` | processes opening one old store | - |
| `Secret` | first runs drawing the labelling secret | - |
| `StoreReads` | shown names and the reads reports are made of | `Totals` |
| `Plugin` | plugin processes under `backfill` and `check` | - |
| `Install_proofs` | proofs about `Secret`, `Opening`, `Plugin` and `StoreReads` | the four, `SetFacts`, TLAPS |
| `Evidence` | a clone, its forge and the sessions' commits | - |
| `PullRead` | the paged reads of a forge and their join | - |
| `Delivery` | what is derived of reviews, merges and timelines | - |
| `Evidence_proofs` | proofs about `PullRead`, `Delivery` and `Evidence` | the three, `SetFacts`, TLAPS |
| `Totals` | sums, counted unit by unit | - |
| `SetFacts` | least and greatest elements and sums, for the proofs | `Totals`, TLAPS |
| `Counters` | the arithmetic of a log's counters, rework | - |
| `ClaudeLog`, `CodexLog`, `OtherLogs` | the six sources' logs and parsers | `Counters` |
| `Depth` | what each source records, and tool classes | - |
| `Traces` | step sequences, their scope, two detectors | `Depth`, `Totals` |
| `Pricing` | the price table and its ledger | - |
| `Reports` | tables, disclosures and ratios of a window | `Depth`, `Pricing`, `Totals` |
| `Inputs` | the bundle analyses share; repricing | `Reports` |
| `Verdicts` | confidence, trends, ranking | `Inputs`, `Traces` |
| `Analyses` | the validators | `Verdicts` |
| `Reconcile` | a bill beside the local estimate | `Reports` |
| `Figures` | a window that grows, read by all of the last six | `Analyses`, `Reconcile` |
| `Figures_proofs` | proofs about `Figures` | `Figures`, `SetFacts`, TLAPS |
| `MC...` | instances for TLC; the modules of one process family together | the modules they name |

`Ingest` and `Restate` divide one program. `Ingest` has the control: which input
is read, skipped, marked, and what is interrupted between two transactions; a
row in it is its key. `Restate` has the data: what a second reading does to the
columns of a row; which input is read is arbitrary in it. `Drift` has the
decision `Ingest` leaves open (which source's pruning is held back), and `Desk`
the second transaction of a `clear`, of which `Ingest` and `Restate` have the
first. What is a constant in `Ingest` (a parser's `Yield`) is what `ClaudeLog`,
`CodexLog` and `OtherLogs` compute; what is a row in `StoreReads` is the input of
`Figures`.

Modules that share no state are checked in one run where a behaviour is of one
`side` or the other: `MCSync` (service, limiter), `MCDeskDrift` (desk, history),
`MCEvidence`, `MCInstall` and `MCParsers`. A side's steps leave the other's
variables alone, so what holds of the run holds of each side by itself.

### State and actions against the code

**Ingest.** `rows`, `steps` and `marks` are the keys of `usage_record`,
`session_step` and the rows of `ingest_file`. A run is a process: `known` is
`skipper.known`, `done` is `skipper.ingested`, `seen` the inputs it discovered,
`current` the input between its `Stat` and its last insert. `Begin` is
`newSkipper` (and `--full`), `DiscoverClaude` and `DiscoverSources` the two
discoveries, `PruneTrace` and `DropSuperseded` the two deletions before the
first read, `Skip` and `Stat` the two outcomes of `fileInput`, `ParseClean` and
`ParseFailed` the parse and the insert of what it gave (part of a log, if the
parse failed), `InsertSteps` the second insert and the watermark kept for the
end, `Flush` the write of all watermarks, `PruneVanished` the removal of those
of inputs not found. `Crash` may come at any point. `Append` and `Rotate` are
the vendor. A parser is the constants `Yield` and `Trace`: the keys each build
reads from each prefix of each log. `Agg` gives the key under which a parent
transcript stores a finished sub-agent's one-line summary.

**Restate.** A row has a representative of each rule of `restateActivitySQL`:
a vendor count (`output`), a part of it (`reasoning`), derived counts (`calls`
and the purposes that split them), a name (`model`), the time, and project,
subpath, conflict and repository. Columns left out follow one of these rules.
`Parse` takes a transcript's records and resolves its working directory, which
may have been removed, restored or made a repository since the last reading.
`InsertLocal` is the transaction: registration, then insert or restate of each
record. `claims` is a history: the real answers offered for each aggregate.

**Sync, RateLimit.** A stored row's key is a pair: the name before the colon and
the machine's own key. A push is one request: exported, sent, admitted, stored,
answered, each a step; `Lose` drops it anywhere, `StopWaiting` is the client's
timeout, after which the server may still store it. `confirmed` and `from` are
histories: what a client was told is stored, and who wrote a row. `Migrate` is
one transaction. In `RateLimit` a tick of the clock is the unit of the window;
`grants` is a history of the last window only: who was let through, how many ticks
ago, and as which of its window's requests.

**Desk.** A session's records are told apart only by tool and by which side of
an `--older-than` cutoff they are on, which is all a scope of `clear` sees. A
command is a record of what it has read and what it has still to do. `hand` is a
history: the label as the last edit by hand left it.

**Drift.** A run is the six counters the canaries use. `Yields` gives the counters
of a file by the format it was written in; `mishaps` is a history: how often
something was rotated, moved, or written in a format this build cannot read.
What files hold is counted as pairs of a file and a place in it. A median is the
middle value of a run's predecessors, told apart by their position; it is doubled,
and ratios are scaled by `Scale`, to stay integers.

**Opening.** `schema` is what the file holds: columns, recorded migrations,
rows of the old grain and the archive. An opener looks at the columns, heals them,
asks for each migration whether it is recorded (`Ask`), and applies it in a
transaction (`Apply`), which is refused when what it makes is there already; it
may die between any two. A migration's body is a sequence of steps of four kinds.

**Secret, StoreReads.** `loadOrCreateSecret` is split where the file system may show
another process something: `Load` reads the file and draws if there is no whole key,
`Truncate` and `Fill` are the two halves of the write, `InMemory` its failure.
In `StoreReads` the `shelf` says of each stored row which repository it was placed in,
the `registry` which were registered, in order; names and reads are operators of the
two. What a read sums is counted unit by unit, as the size of a set.

**Plugin.** A child is a script, how much of it was said, who still holds the pipe
and how it ended. The host's steps are spawn, kill at the deadline, the end of the
grace, and one `Finish` for each verb with every way of failing it.

**Evidence, PullRead, Delivery.** In `Evidence` a commit carries, as history, the
sessions whose work it is (`of`) and the pull request whose merge wrote it (`by`);
the reader's operators never look at either. `Result` is `judge` with its
candidates, status and reason; `MergeWrote` is the walk down the first-parent
line. `PullRead` has a page per step and the forge's updates between pages; `seen` is
a history of what the walk began with, of what moved since, and of whether the page
bound cut it short. `Delivery` keeps a forge's present state of reviews beside what had
been asked; `answer` is one answer of its timeline of dismissals, of any counts.

**ClaudeLog, CodexLog, OtherLogs.** The log grows one line at a time and the
parser is the fold over it, so the state after each line is what a parse of the
prefix returns. What was really said (tokens of a response, applied edits, results)
is history.

**Figures.** A window gains rows, sessions, steps or bill lines; the price table is
refreshed; days pass. `Reports` to `Reconcile` are operators of that state, and the
properties compare them with each other and with sums over the rows. Rates are
cross-multiplied or scaled, never rounded; money is an integer.

## 3. What is checked

Twelve runs. Each property of a passing run has a mutant: a definition of the model
changed as a plausible bug in that code would change it, under which TLC finds the
property violated ("Seeded fault" in the modules). A property may be the conjunction
of several named statements about one component (`RowsOwned`, `LabelsStand`,
`HistorySound`, `CallersApart`, `NothingErased`, `GateHonest`, `LabelsSettle`,
`ReadsHold`, `DeliveryTrue`, `WorkTrue`, `LogsRead`); the component's type invariant
is one of them where it is not a property of its own.

### Runs that pass

`ingest` - one importer at a time, two builds that extract different records, a
transcript of two chunks and a sub-agent's transcript of one, one fault, one
clear. `WatermarkSound`, `NoAggregateBesideTranscript` and, with fairness,
`EventuallySettled`: what is on disk is stored in the end, and a summary that a
transcript supersedes is gone. One importer at a time is enough for what crashes,
growth, rotation and a change of build do, since each needs only one run after
another; two chunks are the least at which a log grows while it is read.

`ingest_race` - two overlapping importers, two tools, steps and a trace horizon:
`SkipSound` and `ImplementsLedger` (a mark is made only of what is held then) with
one run's inserts between another's skip and flush. Two are enough for a race over
one watermark; a third adds no new pair.

`restate` - two overlapping importers of two builds over two transcripts that carry
one sub-agent, one of them with a directory that is a repository, a plain directory
or gone, the other a clone of another project; one clear. `RepoNamesLabel`,
`CountsAgree`, `RegistryCurrent`, `Unanimous`, `NothingErased`. Two transcripts and
two labels are the least at which an aggregate is contested.

`sync` - three machines, one of which presents another's secret with a digest of
its own, two pushes of one machine at once, an upgrade of the server, one fault:
`RowsOwned`, `CountedOnce`, `ConfirmedStored` and the liveness property
`SyncedEventually`. The limiter shares no state with the store (it only decides
whether a request is lost, which `Lose` covers); of it `CallersApart`, with two known
secrets and two strangers, a budget of two, a window of two ticks, which is the
least where a window can be straddled.

`desk_drift` - two sessions, two axes, two windows, every scope of `clear`, two
commands of which two digests may overlap, each killed between any two of its
transactions: `LabelsStand`, `MovementOnly`. `Kept` is 1 (12 in the code): what is
trimmed is then the next snapshot, so the trimming happens. And two files, three
formats, four retained runs (ten in the code) and floors of one or two:
`HistorySound`, `SilenceIsHeard`, `MarksOutliveLoss`. Four runs are the least with a median
of three; the floors keep the proportions that let each canary fire; `MaxMishaps`
(3) is enough for a format to change, a file to vanish and another to move.

`evidence` - one session, two pull requests, four commits of which the session and
rewrites make two, three seconds; three pull requests, last updated before the window
or in it, paged one by one with two updates while they are read; two requests of two reviews, of which a read lists one;
and every answer of a timeline with counts from -1 to 4. `WorkTrue`: what a session
wrote is a candidate, or the reason that hides it is the one given; no candidate
lies outside the session. `LinksTrue`: a commit goes to the pull request that lists
it or whose merge wrote it. `ReadComplete`, `JoinedAlike`, `DeliveryTrue`: a read is
whole or says how far it went; checks are joined only to the commits they ran on;
what is counted of reviews is what was asked, or withheld. Four commits are the
least for a rebase merge of two above another request's; pages of one put every
update between two pages.

`install` - two parsers, two metric plugins and one rule under one deadline;
`AllOrNothing`, `GateHonest` and, with fairness, `HostEnds`. Two openers, five
migrations of every kind of body, two deaths: `OpensSafely`. Three first runs, three
draws; five rows of which three claim one shown name, one clear of everything:
`LabelsSettle`, `ReadsHold`.

`parsers` - every log of four Claude lines, of five Codex items, and of four entries
of each of the other sources, read after every line: `LogsRead`. Its statements
compare what a read returns with what the log was written to say: each response
once, tokens the maximum of its lines, activity the sum, a step per kept response,
totals that add up to the last cumulative count, keys a longer read keeps.

`figures` - windows of up to three rows chosen from eight that differ in source,
price and split - one of a model named with its date, one of lines that cost no token -
with up to two bill lines and a refresh of prices; of up to eight
sets of rows and sessions over two weeks, whole analyses at each; of up to four
steps over two sequences. `SpendConserved`, `SilenceIsNotZero`, `TracesExact`,
`LeadsHonest`, `TrendInventsNothing`, `HistoryStaysPriced`. Floors are small enough
for every verdict both to be given and to be withheld.

### Runs that find a violation

Each checks one statement of the code's own documentation, and TLC finds a
behaviour of the code that contradicts it.

* `ingest_rotated`: a sub-agent's transcript is rotated away and its parent read
  again; the parent's summary is stored beside the turns it summarises.
* `drift_barren`: a healthy source that was idle for as many runs as the history
  retains is reported as never having yielded a record.
* `reconcile_billed`: a bill for a model the logs recorded and no price is known for
  is explained as usage "the local logs never recorded" and, once more, as usage
  that could not be priced, so what is printed as unexplained is too small.

### Divergences the parameters show, without a run of their own

What a parameter of the passing runs excludes, and what a reader of the models meets.

* `ClearOverlaps = TRUE` (`Ingest`): a clear during a backfill; the backfill then
  writes watermarks for records the clear deleted and the next one skips them
  (`WatermarkSound`).
* `MayOverlap` with two commands that write labels: each reads a row, then writes a
  whole one (`HandStands`).
* `SameSecond = TRUE` (`Desk`): two windows' digests of one second share the
  snapshot's only key, and one replaces the other's (`digest_snapshot.go:27`).
* `IdleMidTurn = TRUE` (`CodexLog`): a repeated token_count in the middle of a turn
  closes it without a step (`codex/steps.go:188`) although its record is kept later
  (`LogsRead`).
* A page bound that cuts a walk of pull requests short in the very second of `since`
  (`github.go:86`): what it reached is then `since` itself, so `render_changes.go:18`
  prints no word of the bound, although pull requests of that second were left unread.
  `ReadComplete` is stated of what lies above the cut, wherever the cut was.
* Read in the models, stated by no property: in `Restate` a guessed project stored
  first is later compared as if it were a claim; in `Sync` a project withdrawn on the
  machine is not withdrawn on the server, whose keys do not begin with `agent:`; in
  `Reports` a group that mixes a source without token counts with one that has them
  is marked as having them (`report/aggregate.go:78`), so its row says nothing of the
  first, which `report/unpriced.go:42` says it would, and a priced row with lines but
  no tokens is left out of a cost per line unsaid (`report/disclosure_lines.go:56`). In
  `Verdicts` a verdict that is withheld because no source reports reasoning, or because
  nothing is priced, leaves its gauge at zero (`analyze/reasoning_share.go:53`,
  `analyze/subscription.go:59`), where `analyze/format.go:157` has "Half is the only honest
  position" and `docs/corrections.md:793` lists the like as corrected; so what
  `SilenceIsNotZero` compares leaves out the gauge of a withheld verdict.

### Fairness

* `ingest`: someone keeps starting `backfill` (cron, a hook or the person), and a
  run that has started goes on unless it is killed; the model bounds how often
  it is killed. A read that fails forever is not covered: faults are bounded.
* `sync`: the scheduled sync keeps running, a live server works through what
  reaches it, a stopped one is started again, and the operator finishes the
  upgrade. Losses are bounded.
* `install`: the host goes on when it can (`Host`), and time passes: a deadline and a
  grace that have begun end. Nothing is assumed of a plugin, which may hang or fork.
* The other runs check safety only and assume no fairness.

### Bounds and parameters

Every bound is a CONSTANT with a name: chunks (`MaxSize`, `Limit`, `MaxLen`), faults,
clears, clock ticks, counts, mishaps, draws, deaths (`MaxFailures`), lines and items of
a log, rows of a window. Four parameters describe habits, not code: `ClearOverlaps`
(FALSE: nobody clears during a backfill), `MayOverlap` (only digests overlap),
`SameSecond` (FALSE) and `IdleMidTurn` (FALSE). The passing runs say what holds under
them; above is what fails without them. What a clear of labels takes
(`OnlyRemovedSessions`) is also stated for clears between whose two transactions
nothing is imported. The thresholds of `drift`, `analyze` and `report` are constants
scaled down with the windows, their order kept.

## 4. What is proved

TLAPS checks these for every value of the constants that satisfies the assumptions
named in the modules (`ShapeAssumption`, `DriftAssumption`, ...), which TLC evaluates in
the passing runs: for any number of runs, inputs, machines, sessions, commits, pages,
plugins and migrations, and any bound.

| Theorem | Property | Says |
|---|---|---|
| `Ingest_proofs!TypeCorrect` | `TypeOK` | |
| `Ingest_proofs!WatermarksAreSound` | `WatermarkSound` | a watermark is only held for what is stored |
| `Ingest_proofs!SkipsAreSound` | `SkipSound` | a skip loses nothing |
| `Ingest_proofs!AggregatesStayOut` | `NoAggregateBesideTranscript` | no summary beside the transcript it sums up |
| `Ingest_proofs!ImporterImplementsLedger` | `ImplementsLedger` | every step of the importer is the ledger's or a stutter |
| `Restate_proofs!TypeCorrect` | `TypeOK` | |
| `Restate_proofs!RepositoryIsTheLabels` | `RepoNamesLabel` | a row's repository has the row's label |
| `Restate_proofs!CountsStayTogether` | `CountsAgree` | parts and wholes of one row agree |
| `Restate_proofs!RegistryStaysCurrent` | `RegistryCurrent` | one salt, one id per repository |
| `Restate_proofs!AggregatesAreUnanimous` | `Unanimous` | a contested project is never kept |
| `Restate_proofs!NothingIsErased` | `NothingErased` | a row keeps what was read, and loses an answer only to another |
| `Sync_proofs!OneWriterPerRow` | `RowsOwned` | one machine writes a row, under its name |
| `Sync_proofs!CountedOnceAlways` | `CountedOnce` | old name or digest, never both |
| `Sync_proofs!ConfirmedStaysStored` | `ConfirmedStored` | what was confirmed stays, at least as large |
| `Sync_proofs!CallersStayApart` | `CallersApart` | no refusal for another's requests, no two budgets in a window |
| `Install_proofs!OneKeySettles` | `LabelsSettle` | one labelling key |
| `Install_proofs!StoreOpensSafely` | `OpensSafely` | a whole schema, no row lost |
| `Install_proofs!PluginsStoreWhole` | `AllOrNothing` | a plugin's records are stored all or not at all |
| `Install_proofs!GateIsHonest` | `GateHonest` | a check passes only on what it knows |
| `Install_proofs!RowsStayPlaced` | | a row is in the repository it names, registered once |
| `Install_proofs!ReadersAgree` | `ReadsHold` | names stay apart, and reads account for the same rows |
| `DeskDrift_proofs!TypeCorrect` | `LabelsStand`'s first part | |
| `DeskDrift_proofs!HandMadeLabelsStand` | `LabelsStand` | what was typed by hand stays |
| `DeskDrift_proofs!DigestsReportMovement` | `MovementOnly` | a digest is compared with its own last |
| `DeskDrift_proofs!WatermarksOutliveLoss` | `MarksOutliveLoss` | marks survive a lost root, and no longer |
| `DeskDrift_proofs!HealthIsNoAlarm` | `HistorySound` | a healthy source raises nothing but barren |
| `DeskDrift_proofs!UnderReportingIsHeard` | `SilenceIsHeard` | silence raises something |
| `Evidence_proofs!ReadIsComplete` | `ReadComplete` | a paged read misses nothing it owes |
| `Evidence_proofs!ReadJoinsAlike` | `JoinedAlike` | checks join the commits they ran on |
| `Evidence_proofs!DerivedStaysTrue` | `DeliveryTrue` | what is derived of reviews happened |
| `Evidence_proofs!WorkStaysTrue` | `WorkTrue` | work is a candidate, or what hid it is named |
| `Evidence_proofs!LinksStayTrue` | `LinksTrue` | a link is to the merge that wrote the commit |
| `Figures_proofs!PricesOutliveListing` | `HistoryStaysPriced` | a refreshed table unprices no history |
| `Figures_proofs!SilenceStaysSilence` | `SilenceIsNotZero` | what a source cannot record changes no verdict on it |
| `Figures_proofs!TrendsInventNothing` | `TrendInventsNothing` | a trend's sums are the weeks whole, a direction was taken |
| `Figures_proofs!SpendIsConserved` | `SpendConserved` | every grouping is the same window, and what is left out is said |
| `Figures_proofs!LeadsAreEarned` | `LeadsHonest` | a lead's confidence is no more than was earned; one order of attention |

### Hypotheses

Five theorems of `Restate_proofs` and those on watermarks and the ledger in
`Ingest_proofs` assume `ClearOverlaps = FALSE`: nobody clears while a backfill is in
progress. `WatermarkSound` is false without it; for `TypeOK` and `CountsAgree` it is
not needed, and is there because they are proved from one invariant with the rest.
`AggregatesStayOut` assumes one importer at a time (`\A p, q \in Runs : p = q`) and no
habit of clearing; with two, one may insert a summary after the other's pass.
`HandMadeLabelsStand` assumes that commands that write labels are not run side by side
(`LabelWritersApart`), `DigestsReportMovement` that no clear runs beside a digest and no
two digests fall in one second (`DigestsUndisturbed`); section 3 says what fails without
them. `DriftAssumption` lets healthy shapes differ, in records per file, by less than the
factor of eight the yield canary minds, once the mixed run's mean is allowed for:
by four at most. With shapes further apart a healthy source can raise `yield`, which is
then what it is for. The other assumptions type the constants, except that
`OpeningAssumption` states three facts of the embedded migrations (the first makes the
usage table, a column is added once, only the old grain is moved), that
`LimiterAssumption` and `DeliveryAssumption` keep sentinels apart from values, that
`StoredAssumption` has finitely many rows, no label that reads "x (#2)" and a string of
its own for each rank, and that
`PullAssumption` has the window's start two seconds before the end of time at least.
Those of `Figures`: a day has a length (`DayAssumption`), what a verdict names in the depth
matrix is named there (`VerdictsAssumption`), floors of samples are not negative and the
names leads are ordered by are in one order (`FloorsAssumption`), rows have natural counts of
which the long cache writes are among the writes (`usage/bounds.go:58` refuses a record where
they are not), a window is finite, a stamp is an instant, a listed rate a natural number and a
bill's line a whole amount (`FiguresAssumption`).

### Arguments

**Ingest.** `WatermarkSound` alone is not inductive: `Flush` writes what a run has
carried since its inserts, so the invariant `IInv` must say that what it carries is
true. It adds `RunClaimsHold` (what a run will mark is stored, and what it loaded
as marked still is), `InsertedRecords` (between its two inserts a cleanly parsed
input has its records stored at least up to the recorded signature),
`SeenWasOnDisk` (a sub-agent that suppresses a summary has had a transcript) and
`RunShape`. The core is `ClaimStable`: a claim survives every step that loses only
what may be missing (`NoLoss`). With it most actions follow from `NothingNew`; the
three that claim something (`Begin`, `InsertSteps`, `Flush`) have proofs of their
own, and so do the two clears: a clear by tool withdraws the marks with the rows,
and needs that no run carries any. `SkipSound` is then `RunClaimsHold` at the step
of a skip, and the implementation proof maps each action to the ledger's.
`NoAggregateBesideTranscript` has an invariant of its own, `Dropped`, of the only
run there is: past its superseded pass no summary of what it saw is stored, and none is
in what it parsed.

**Restate.** The invariant `RInv` states of each row what it owes to the registry
and to the answers ever offered for it (`RowSound`): besides the four
properties, that a conflict has neither project nor repository, and that a row
without a project, unless in conflict, was never offered a real one, nor a row
without a repository (0, not -1) a real root. Those last two are the
strengthening: without them a first real answer could follow an earlier one that
left no trace. `RestatedSound` is the column-by-column argument for one record,
`InsertLocalStep` lifts it to the transaction, `RegisterGrows` and `RepoIdNames`
say what registration does, `RunSalt` that a run's salt is the one in force.
`NothingErased` adds `FiguresKept`: every record of what is marked, and of what a run
has done and will mark, is in its row, at least as large; a maximum only adds.

**Sync.** `ConfirmedStored` needs what is in flight: a push that was stored and not yet
answered has its rows in the store (`PushesKnown`), and nothing is confirmed before the
migration renames every row (`ConfirmedKnown`). `RowsKnown` names the one machine of
each row; that a digest belongs to one machine and no old name is a digest
(`IdentityAssumption`) makes `CountedOnce` a fact about names. `StoreGrows` is the one
thing most steps need: no row shrinks or goes.

**The limiter.** Two adjoining windows could grant two budgets within one span. An open
window holds its own grants, the first of them as old as itself; what was granted before
it and is still within the span is less than a budget, since the first grant of the
window before it is already out (`OpenSound`), and with no window open less than a
budget is left at all (`ClosedSound`). The sets of grants are counted with the
library's facts on cardinality; a tick ages them by an injection.

**Opening.** The recorded migrations are a prefix, and each opening has asked for every
one before the one it is at; a column is there exactly when its migration is recorded,
which is why a late `Apply` finds its work done and is refused whole. `OldGrainToMove`
(while rows of the old grain remain, a migration that moves them is to come) is what
makes the archive disjoint.

**Secret, Plugin.** A settled key is in the file and nobody is about to write; a reader
then finds it. For plugins the obligations are passed on: a metric is answered for,
given up, running or still among the jobs (`MetricsOwed`), a rule likewise (`RulesOwed`),
and the jobs are in order, so that a rule's document is what every metric said. A passing
exit finds no job and no child, so all of them were answered.

**StoreReads.** The invariant (`ReadInv`) only says that a row is in the repository it
names and that none is registered twice; the rest follows from it in every state. A name
is a label, a label with a suffix, or that with a mark no label has, so two names of one
shape have equal parts (`SameName`, `ExtendedName`), and the ranks within a label are one
to one (`ReposApart`). `EstablishedName` compares the ranks before and after a step, which
count the same repositories unless one of them came or went. A sum is the number of
units, so no induction is needed: what is counted part by part is a partition of what is
counted at once, and the parts are numbered one after another by bijections
(`PartsTotal`). Each read then has to be shown to split its window: by shown name and
column, by session, by stated value. `SetFacts` serves first, last and earliest.

**Desk.** What a command holds of the labels is what they are, as long as one command
writes (`LabelInv`). For digests: all that a digest could be compared with was saved
since the last clear, and what is missing of a window's snapshots is older than `Kept`
that are there (`DroppedOlder`), which the trimming keeps because the newest `Kept` of a
set with one stamp more are the old ones but the last.

**Drift.** A median is the CHOOSE of a value with few below and enough at or below;
`NthIs` shows there is one, from the least of the values that are not below too many.
`MedianWithin` bounds it by the values, `MedianAboveZero` keeps it above zero if most
values are, `MedianOfAlike` pins it when all values but one agree. The invariant says of a
source that only grew that each retained run lies between `Floor` and four times `Floor`
records per file and that the last found most (`Grown`). No comparison of a canary can
then succeed; conversely, if most reading runs yielded something, the median is not zero,
and a run that yielded nothing is below any share of it.

**PullRead.** A page is a first part of what lies behind the cursor. So, between two
pages of the walk, what did not move is held or behind the cursor, and what moved once is
newer than all the walk began with (`Walking`); in the re-read, what is owed is held or
is behind the cursor still (`Rereading`). Two attempts failed for a reason in the code:
two updates in one second as the newest seen put a pull request outside what the read
can promise (`moves` counts it as two), and so does the cut above.

**Delivery.** Of each revision on which changes were asked for some review is left,
which may have lost its commit or its word, and is then unusable and says so
(`RowsSound`). A gap that is not declared leaves every such review listed.

**Evidence.** A commit never changes, so a step accounts only for what it adds
(`CommitStaysKnown` and its like for requests and places on the main line). Authored and
committed times, parents and `forge` then decide which of the ways of writing a commit it
came by. The walk down the first-parent line is argued from the least place that is not
the merge's own.

**Figures.** A step adds to a window or moves its clock, and every figure is computed from
the window anew; the invariant therefore only says that the window is finite and its counts
natural (`WindowTyped`), and of the ledger that whatever any snapshot so far has priced is in
it, at the rate it was last listed at (`LedgerHolds`). What a verdict reads of a source is the
column its subject names; a source that cannot answer has no rows among those read
(`Answering`), so taking its rows away leaves the same set, and equal sets have equal sums. A
trend's two weeks are split by day and by source: sums over disjoint parts add up
(`SetFacts`), and if the whole moved in a direction, some source moved in it. Shares are pairs
of integers, compared by multiplying crosswise, which is an order only where the second is
positive (`FractionsOrdered`); of four axes there is then a least (`LeastOfFour`), and a label
above "low" needs samples, and an axis that is not below half (`LabelEarned`). Only five
analyses can say "watch" (`OthersReport`), and each states its axes in its own way, for which
there is a lemma each (`BurnClaims`, `FrictionClaims`, ...); that friction blames a cause
only where it has rows comes from sums that are not zero. Attention is a strict order because
names are apart, so the place of a lead is one more than the number before it, and the places
are those from 1 on (`PlacesFill`).

`SpendIsConserved` needs nothing of the window but its type, and of the ledger that its rates
are natural numbers (`PricesRated`). A table by any key is a family of disjoint parts (`Fiber`),
and the lemma under all of its clauses is that sums over the parts add up to the sum over the
whole (`SetFacts!PartSumGroups`): cost and tokens of every table (`TableHolds`), the line
ratios of projects, sources, models and tasks (`RatesMerge`, `RateOfWhole`), the words beside
them (`LegendHolds`, `DisclosureTells`). What moved between two weeks is a difference of sums
over groups that need not be in both (`GroupsSum`, `SetFacts!SplitBalance`); the window named as
the less known has something unpriced because a share compared crosswise is positive
(`LessKnown`). Pricing the premium part again moves nothing because charging is linear in a
row's counts, which is where the long writes must be among the writes (`ChargedTogether`); and a
bill's scope takes each day to one side (`BillSplits`, `PaidSplits`). `RateTold` asks for a
sentence wherever lines were written and there is no ratio, but for priced lines where no
line-recording row has a token, which are not spoken of (`report/disclosure_lines.go:56`), as section 3 says.

### Only model-checked

* Liveness (`EventuallySettled`, `SyncedEventually`, `HostEnds`): the prover has no rule
  for fairness and ENABLED.
* `LogsRead`: a log is folded line by line into what the parser holds, and the property is
  about the fold's value for every log. That needs an induction with an operator as parameter,
  which no prover here can instantiate.
* `TracesExact`: what came after a failure and the repeats are folds over a sequence's steps,
  for the same reason.
* No module here declares a RECURSIVE operator.


## 5. What is left out, and why

In modelled components:

* `Ingest`: a record's time, outside the side of a cutoff it is on, and so records
  dated in the future; columns that follow a rule another column represents.
* The derived counts of a row after two overlapping readings: the shorter inserted
  last lowers them, and no property says otherwise (see the hazards).
* `Drift`: sources that are plugins and have no files; a source is one directory.
* `Sync`: two machines with one member digest, a `clear` on the server's own store,
  the field limits of `validate.go`, and the dashboard's pages.
* `Desk`: the content of a digest; `label`'s derivation is the constant `Suggested`.
* Parsers: JSON itself, clamped and malformed values beyond a skipped line, Codex's
  `session_meta`, names of skills and entrypoints, Antigravity's text heuristics.
  Cline's records are keyed by their place in the task's message list; a rewind of
  the conversation that shortens the list and writes another one gives new messages
  old keys. The model's logs only grow, so no property is about it.
* `Evidence`: line counts, partial clones' fetches, several repositories at once.
* `Plugin`: installing, listing and trusting a plugin; its environment.
* `Figures`: wording, charts, floating-point rounding. The `signals` coverage of a
  source that counts no tokens (Antigravity) is measured in tokens and so reads as
  none; the model has it so, and no property objects.
* `compact` rewrites the file and changes no row.

Components with no model are listed in `PROJECT.json` with the reason. Rendering,
constant tables and configuration have no behaviour over time.

## 6. What comes next

The planned modules are written and checked, and every safety property the runs check is
proved but `TracesExact` and `LogsRead`. In order of what they would add:

| Module | Theorem | Argument |
|---|---|---|
| `Traces` | the part of `TracesExact` that is no fold | a scope is a part of the sequences |
| `ClaudeLog`, `CodexLog` | the part of `LogsRead` that is about keys | a later line adds keys and changes none |
