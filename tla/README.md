# Verification of the agent harness

TLA+ modules, TLC configurations and TLAPS proofs for the agent harness: the
task graph that coding agents plan and review their work in (`agent_harness/`),
and the tools around it. Paths below are relative to the repository.

Run from this directory:

    tlc -workers 2 -config TaskGraph_pair.cfg MCTaskGraph.tla
    tlc -workers 2 -config GraphStore_careful.cfg MCGraphStore.tla
    tlc -workers 2 -config Journal.cfg MCJournal.tla
    tlc -workers 2 -config Sessions.cfg MCConformance.tla
    tlc -workers 2 -config Installer.cfg MCInstaller.tla
    tlapm TaskGraphProofs.tla
    tlapm TaskGraphLedgerProofs.tla
    tlapm EffectivenessProofs.tla
    tlapm GraphStoreProofs.tla
    tlapm JournalProofs.tla
    tlapm SessionHooksProofs.tla
    tlapm ConformanceProofs.tla
    tlapm InstallerProofs.tla

`PROJECT.json` lists the components, the runs, the lines each definition
models, the mutants that show each property can fail, the findings, the hazards
and the theorems.

## 1. The system

| Component | State it keeps | Operations | Talks to |
|---|---|---|---|
| Task graph, `graph.py` | one JSON document: nodes with dependencies, status, attempt budget, submission, verdict, histories | `add_node start submit verify withdraw_submission retry grant_attempt supersede`, and read-only views | called by the CLI inside a storage transaction |
| Storage, `storage.py` | the graph file, its `.lock` file, temporary files | `FileLock` enter and exit, `load`, `save` (temporary file, fsync, rename), `transaction` | file system, other processes |
| CLI, `cli.py` | none of its own | `init`, one command per graph operation, `doctor`, reports; after a success one journal record | storage, journal |
| Journal, `journal.py` | month files of JSON lines in the user's home | `append` (bounded line, torn-tail repair), `read`, `read_repo`, `prune` | every process of the user |
| Session hooks, `session_hooks.py` | no state besides journal records | `session_start` (record, then decide and claim a bypass report under `report.lock`), `record_edit`, `observe` for turn ends and closes | journal |
| Claude Stop hook, `claude_hook.py` | none | refuse a stop while the graph is incomplete; record the end of the turn | storage, journal |
| Conformance, `conformance.py` | none | windows of sessions, verdict per session, overlap | journal, Codex store |
| Effectiveness, `effectiveness.py` | none | merge copies of graphs, count reviews and failures | graph files, journal |
| Codex sessions, worktree, paths | none | read another tool's database; hash git output; check paths | operating system |
| Installer, `scripts/install_pc.py` | installed payload and managed files, with a manifest | install, check, uninstall, as sequences of file steps | file system |
| Adapter sync, evaluations, mutation audit | copies; case results; none | copy, compare; score; run tests on mutated source | file system |

Hard behaviour, and where it is dealt with:

* **Long legal call sequences.** The document has eight statuses per node and
  operations that reach from one node to all of its descendants. Failing a
  verified ancestor from below, refunds, retirement and re-planning combine in
  ways the tests visit one at a time. → `TaskGraph`.
* **Concurrency.** Any number of `graphctl` processes and hooks of any number
  of sessions share the graph file and the journal; only the lock file orders
  the former, only the report lock orders the claims, and on POSIX nothing but
  `O_APPEND` orders the appends. → `GraphStore`, `SessionHooks`, `Journal`.
* **Crashes.** A process can die holding the lock, between the rename and the
  journal record, or in the middle of a line. → `GraphStore`, `Journal`,
  `SessionHooks`.
* **Ordering.** Journal position is not causality: records of different
  processes can be flushed late. Two implementations of session windows must
  agree. → `SessionHooks`, `Conformance`.
* **Copies.** One graph is reported from several files that were taken at
  different times. → `Effectiveness`.
* **Re-runs.** An interrupted install is re-run, of another version or with
  another runtime, over files that people touched. → `Installer`.

What makes each component correct: the graph, that accepted work always stands
on settled work, that acceptance is independent, that failure is charged where
it belongs and nowhere else, and that plans finish; storage, that no accepted
transition is lost and readers only see complete documents; the journal, that an
interrupted write costs at most the record being written and one neighbour, and
on Windows no neighbour; the hooks, that a bypass whose claim can be read is
reported at most once, and never held against a session that used the graph; the
reports, that they agree with the hooks and that their totals do not depend on
the order of their inputs; the installer, that a run can be repeated, an
interrupted one too. Section 6 says where the code falls short of that.

## 2. Modules

    TaskGraph ──Ledger──▶ WorkLedger          GraphStore ──Register──▶ GraphRegister
        ▲                                     Journal ──Log──▶ RecordLog
    Effectiveness (reads copies of the               ▲ what an append does
        document)                             SessionHooks ◀── Conformance (judges
                                              Installer            the same records)


### TaskGraph

`TaskGraph.tla` is class `Graph`. Its variables are the fields of the nodes, as
functions of the node id: `status`, `depends_on`, `attempts`, `max_attempts`,
`executor_id`, `evidence`, `review_context`, `verification`, `failure_history`,
`review_history`, `attempt_history`, `superseded_at`. An id that is not planned
yet has status `absent`.

One action is one successful call, from its first check to the validation that
ends it: `AddNode Start Submit Pass Uncertain Fail Withdraw Retry GrantAttempt
Supersede`; `verify` is three actions, one per verdict. A refused call raises,
and the storage transaction then saves nothing, so it is no step. `Promote` is
`_promote_blocked_nodes`, which `validate` runs; every action applies it to the
statuses it writes. The runtime checks of `validate` are deliberately not
guards. They are stated as the invariants `DependenciesSettled`,
`VerdictMatchesStatus` and `IndependentPass`: if they hold, `validate` never
refuses what an operation built, which is what makes leaving them out exact.

Abstractions:

* Text is gone: objectives, descriptions, reasons, timestamps, and the checks
  that only look at the form of an argument. An item of evidence is a record of
  its criterion, its kind and its summary, taken from the constant `Items`; a
  submission is a set of them (`Covered` is what it speaks to), without their
  order. The evidence of a review is the criteria it covers, which is all that
  is read of it. All nodes share one set `Criteria`.
* Actors are labels with a function `Identity`, the reduction that
  `Graph._identity` makes (`strip().casefold()`); several labels may be one
  actor, and one run has such a pair.
* A FAIL or UNCERTAIN review keeps its verdict and reviewer; its criteria lists
  are checked at entry, can always be satisfied, and nothing in the graph reads
  them afterwards. A PASS keeps what it covered.
* `failure_history` holds the node's own verification failures, as attempt
  numbers (the event id is `node:attempt`); the notes that an invalidation adds
  decide nothing.
* `descendants` is a breadth-first search; the model defines its result as the
  least set closed under children, which needs no recursion and can be used in
  proofs. Acyclicity is stated as: every non-empty set of nodes has a member
  that depends on none of them, the condition under which Kahn's algorithm in
  `_topological_ids` finishes.
* `init` writes one node; larger plans come from `add_node`.
* `review_history` is bounded by count (`MAX_EVIDENCE`) and by bytes
  (`MAX_REVIEW_HISTORY_BYTES`), as in the code. How long a record is depends on
  texts that are not modelled, so `ArchiveDoubt` keeps any number of the newest
  records, but none when the new one alone is too long: `Oversized` is the set
  of those. `attempt_history` is unbounded in the code; the model keeps its
  newest `RETRY_LOG` entries.

### WorkLedger

`WorkLedger.tla` is the promise without the mechanism: which nodes are accepted,
which retired, and how often each was failed. Work is accepted once everything
it builds on is settled; a failure takes back the node it names and everything
below it and nothing else; failures per node are bounded. `TaskGraph!Ledger`
instantiates it with `accepted` the verified nodes, `retired` the superseded
ones and `failures` the lengths of the failure histories.

### GraphStore

`GraphStore.tla` is `storage.py` as `cli.py` drives it: any number of processes,
each running one command. `init` creates the graph, `mutate` stands for every
other mutating command, `check` for whoever only reads (status, validate, the
Stop hook). A step is one call to the operating system, in the order of the
code, and every error path is there: the transaction's refusals, the save that
fails, the lock file that was created but not written, the lock that cannot be
removed.

| State | In the code |
|---|---|
| `lock` | the identity of the file at `lock_path` |
| `graph`, `stamp` | content and identity of the file at `path` |
| `media`, `durable` | what of it is on the disk, and what would be found after a power failure |
| `pc`, `command` | how far a process is, and what it runs |
| `fd`, `identity` | `FileLock._fd`, `FileLock._identity` |
| `seen` | the `lstat` that `open_bounded_regular_file` compares with |
| `held`, `temp` | the `Graph` in memory and the temporary file |
| `outcome`, `recorded` | exit code; journal records |
| `removing` | the lock the person of `core/recovery.md` has decided to remove |

`TaskGraph` and `GraphStore` meet in `Operate`: there a transition on the
document in memory is accepted or refused; here it is one step. A document is
reduced to the set of processes whose transition it contains, which is all that
"nothing is lost" needs. `GraphStore` is thereby the reason why an operation may
be one atomic action in `TaskGraph`.

`Step` is the program. `Crash`, `Flush`, `PowerFailure`, `DecideRemoval` and
`RemoveLock` are its surroundings. After a power failure the directory is in the
state that was flushed last: the code flushes the file but not the directory, so
a rename may be undone, and a lock file may be gone or back. A person looks and
removes in two steps; `Careful` says whether the look includes that nothing is
running. Identities of lock files are reused as soon as no directory entry and
no descriptor holds them.

Left out: the kinds of file that `load` refuses, other than half-written ones;
the symbolic-link checks; a new process under the identity of an old one.

### GraphRegister

`GraphRegister.tla` is the promise: one document, created once, extended by one
command at a time on top of everything before it; a power failure may take it
back to a flushed state; success is only reported for what is in it.
`GraphStore!Register` maps `doc` to `graph`, `stable` to `durable` and
`answered` to the processes that ended with exit code 0. The publication
(`Replace`, `Link`) is the point where a transition happens.

### Journal

`Journal.tla` is `journal.py`: month files that any number of processes append
to. A file is the lines that end in a newline and the tail after the last one;
a line is the sequence of what was written into it, and the reader gets a
record only from a line that holds one record and holds it whole.

| State | In the code |
|---|---|
| `files` | the month files under the journal directory |
| `month`, `windows` | the month of the clock; `os.name == "nt"` |
| `pc`, `call` | how far a writer is in `append`, and what it knows: the month, the size of the line, the end of file it saw, whether it needs a separator, whether its file was unlinked since |
| `lock` | who holds a month's `.lock`, on Windows only |
| `owed`, `taken`, `tears` | what `append` returned `True` for; how many calls and torn writes there were |

`Call` is `record` and `render`, `Open` the open and the look at the last byte,
`Write` the one `os.write`. `WriteShort` is a write that takes less, which the
code does not notice; `Die` a process that ends anywhere, in the middle of its
write too, and `Refused` every path on which `append` returns `False`. On POSIX
the end of the file is where it is when the write happens; on Windows it is
where the writer found it, which is safe only under the lock. `Prune` may unlink
a file that a writer has open. `Read` is what `read` yields over all months.
`Render` keeps what shedding fields does to the size of a line: the mark that
names what was shed costs bytes too.

Left out: links in place of the directory or files, file modes, the bounds on
what a reader takes.

### RecordLog

`RecordLog.tla` is what readers rely on: per month, a record appears at the end,
the newest may become unreadable, and whole months go, oldest first. Nothing
moves. `Journal!Log` maps a month to what the reader gets of its file. Hooks and
reports take positions for time, so this is their interface to the journal:
`SessionHooks` appends to one sequence under this promise.

### SessionHooks

`SessionHooks.tla` is `session_hooks.py` with the records that `claude_hook.py`
and `graphctl` add.

| State | In the code |
|---|---|
| `journal` | the records in the order readers get them |
| `clock` | `utc_now`, in seconds: several records share one |
| `life`, `home` | whether a session runs; the repository its hooks derive |
| `hook`, `since`, `bypass` | where the start hook of a session is, the open record it holds, and what it means to report |
| `reportLock` | who holds `report.lock`, dead or alive |
| `printed` | how often somebody was told of a session |

`Open` is `session_start` up to its record, `Decide` and `LockTimeout` the two
ends of waiting for `report.lock`, `Claim` the record that precedes the message
and `Report` the message. `HookKilled` is the client's time limit, at any of
these points; a lock it held stays until a person removes it
(`RemoveReportLock`). `Edit`, `GraphRun`, `TurnEnd` and `Close` append the other
records, and a `graphctl` run may name its session or not and may be recorded
after the session is over. What `Journal` shows of an append is allowed here:

* a record is at the end and readable (`Written`);
* nothing readable is left, and `append` says so, or says `True` because it
  ignores how much `os.write` took (`LostAppend`; `Claim` has a disjunct for
  either answer, and no other action looks at it);
* the newest record becomes unreadable later on (`Spoil`, the same step of
  `RecordLog`).

`forgotten` are the sessions of whose report a claim was acknowledged and cannot
be read. `PreviousBypass` is
`previous_bypass` with everything it calls: the cut at the asker's opening, the
windows, the claims, the two exemptions for runs, the threshold, and the scan
over the newest `MAX_CANDIDATES` sessions.

Left out: how a path becomes a `path_id` (`Outside` stands for a file that is
not the project's), the wording, hooks of sessions without an identifier.

### Conformance

`Conformance.tla` extends it with `conformance.py`, which reads the same records
a second time and by other code: `Judge` is the verdict on a session,
`Transitions` its windows over the journal of all repositories, `Marked` the
overlap of sessions found by sorting and bisection. Ties in the sort are a set
of `Orders`. The properties compare the two modules, and the bisection with the
comparison of all pairs.

Left out: Codex sessions, filters, rates.

### Effectiveness

`Effectiveness.tla` extends `TaskGraph` with `effectiveness.py` as operators on
documents: `Prefer` and `ByNode` merge copies of one graph, `Written` are the
reviews of a node in the order they are read, `Key` is `_review_key`, `Keys` the
keys that occur and `Kept` the review that stays under one: the last written.
`Key` has the summaries of the evidence and not its kind, so that two reviews
may share one and `Caught`, which looks at the kind, sees the one that is kept.
`ReportOf` is the report; two copies, before and after any step of the graph,
are the archives. `OrderFree` names the fields that no order of the copies
changes. `budget_exhausted` is not among them, since it depends on a tie of
`_prefer`, nor is `Caught`, the reviews that count as
`failed_despite_test_evidence`, which depends on the last review written under a
key (section 6). Left out: `granted_attempts`, which depends on the order in the
same way, `most_failed_criteria`, the ratios, copies with another objective, the
order of the summaries in a key.

### Installer

`Installer.tla` is `scripts/install_pc.py`. `install` and `uninstall` are
sequences of file steps (`INSTALL`, `UNINSTALL`), and `at` is the next one.

| State | In the code |
|---|---|
| `windows` | `os.name == "nt"` |
| `checkout` | the version of the skills, reviewers and templates under `ROOT` |
| `payload`, `manifest` | what is under `install_root` |
| `build` | the bytes of the executables in `install_root/venv` (`Venv`), by number; 0 before there are any |
| `target` | what is at the places of `_targets`: a link to the payload, to a runtime, the text of a version, the copy of an executable by the number of its build, or a part of a directory (`Partial`) |
| `block`, `hooks` | the managed block of the two instruction files; the entries of the two hook files |
| `command`, `at`, `runtime`, `wanted`, `changed` | the running command: its next step, its `runtime_bin`, the hook documents `_expected_state` built, which of them it will write |
| `touched`, `interrupted` | for properties: what a person changed since the preflight; runtimes with an install that never completed |

`BeginInstall` is `main` with its preflight and what follows it, `CreateRuntime`:
`pip install --force-reinstall` into the installer's own runtime writes the
executables anew, or fails before. `Plan` is the documents and the second
preflight, which compares with the executables as they are then, and `Refuse` its
refusal; `Compare` is the decision which hook files to write; the others write
one thing each. `Crash` ends a run between any two steps and, on Windows, within
the removal or the copy of a directory (`Copying`); the other writes are renames
of finished files. `TouchTarget` and
`TouchHooks` are people and other tools, also in the middle of a run;
`UpdateCheckout` is a `git pull`.

One target stands for the eight skill links, one for the links to commands, and
one entry for the managed entries of a hook file, which are written together. On
POSIX skills and commands are links and only the reviewers copies; on Windows
all are copies (`Source`), compared by what they contain: that of a command is the
current build of the installer's own runtime, and that of a runtime given with
`--runtime-bin-dir` is taken not to change. Nobody but the installer writes
executables. Left out: links left by older versions, backups, two installers at
once.

### MCTaskGraph, MCGraphStore, MCJournal, MCConformance, MCInstaller

Constants for TLC and symmetry. `PlannedSpec` of `MCTaskGraph` starts from plans
that are already written (states that `init` and `add_node` reach) so that three
nodes can be checked with two attempts each. `LaterSpec` of `MCConformance`
starts after a first session that edited, or edited a file outside, or used the
graph, so that the bounds are spent on what starts do about it.

### TaskGraphProofs, TaskGraphLedgerProofs

Theorems about `TaskGraph` for every set of nodes, labels, criteria and all
bounds.

### EffectivenessProofs

Theorems about the report of any two copies of a graph that a step separates.
First what `ByNode` and `Reviewed` make of two documents, whatever they hold;
then the failed reviews on a node (`Failures`) and what each operation does to
them.

### GraphStoreProofs

Theorems about `GraphStore` for any number of processes, lock identities and
power failures.

### JournalProofs

From the bottom up: what the reader's loop returns (`Gathered`), what joining the
months returns (`Joined`), the size of a rendered line, what one write does to a
file and to its reader (`Effect`), then the invariants, and `StepFacts`, which
says of any step whose write reached which month, who began a call, and what was
acknowledged.

### SessionHooksProofs, ConformanceProofs

Theorems about `SessionHooks` and `Conformance` for any number of sessions,
repositories, records and faults. `ConformanceProofs` is the search for
overlaps; it extends the other for what is known of positions in the journal.

### InstallerProofs

Theorems about `Installer` for any number of runtimes, versions, crashes and
edits, on both platforms.

## 3. Runs

| Run | Instance | Shows |
|---|---|---|
| `taskgraph_plans` | 3 nodes, every plan shape without an isolated node, 2 attempts | `DependenciesSettled`, `SomebodyCanMove`, `BudgetExact`, `FailureStaysDownstream`, `CompletionStable`; every step is one of `WorkLedger` (`LedgerSteps`) |
| `taskgraph_pair` | 2 nodes, 3 labels of 2 actors, up to 2 attempts with grants, archives of length 1, submissions with evidence too long for the trail | `TypeOK`, `IndependentPass`, `VerdictMatchesStatus`, `NextActionsAccepted`, `FailureEventsUnique`, `DoubtArchived` |
| `taskgraph_liveness` | 2 nodes, 2 actors, up to 2 attempts with grants, a plan that grows | `EventuallyComplete`, refinement of `WorkLedger` with its fairness (`LedgerFairSpec`); reports over copies: `CopiesCountOnce`, `FailuresStayCounted` |
| `store_careful` | 3 processes of any command, 2 lock identities, 1 power failure, a careful person | `TypeOK`, `MutualExclusion`, `ReadIsCurrent`, `AcknowledgedKept`, refinement of `GraphRegister` (`RegisterSpec`) |
| `store_reckless` | 3 processes, 2 lock identities, a person who removes any lock at any time | `GraphWhole`, `InitIsTheBase`, `LockAccounted` |
| `journal` | 3 writers, 2 months, 4 appends, 1 torn write, POSIX and Windows | `TypeOK`, `OneLossPerTear`, `WriterOrder`, refinement of `RecordLog` (`LogSpec`) |
| `sessions` | 3 sessions of a repository, up to 7 records, 2 seconds, 1 fault | `TypeOK`, `AtMostOnce`, `NamedRunProtects`; hook against report: `HookAgreesWithReport`, `NothingBuried`; `ContestedExact` |
| `installer` | both platforms, 2 runtimes, one with up to 2 builds, 2 versions, 2 crashes, 1 edit by a person | `TypeOK`, `HooksAccountedFor`, `CompletedIsInSync`, `ForeignStays`, `UninstallLeavesNothing` |
| `superseded_reopened`, `unjudged_spent` | 2 and 3 nodes | two disagreements about retirement; see section 6 |
| `taskgraph_caught` | 1 node, 2 attempts, evidence of two kinds in one wording | one about the report; see section 6 |
| `reinstall_refused` | 1 runtime, 2 versions, 1 crash | one about interrupted upgrades; see section 6 |

Bounds of the graph. Three nodes are the least that give chains, forks, joins
and the triangle, a grandchild (invalidation beyond direct dependents) and two
siblings under a common ancestor. Two attempts are the least with rework after a
failure and a refund of a later attempt. `MAX_ATTEMPTS` is 20 in the code;
nothing compares it with anything but `max_attempts`. Two actors suffice for
independence, and a third label makes two spellings of one. Archives of length 1
make every append trim by count. In `taskgraph_pair` any submission with evidence
is too long for the trail and one without is not, so that a doubt is archived or
empties the trail; that a trail of several may be cut to fewer by its bytes is
left to the theorem. No operation reads the trail, and where the properties do
not either every record is taken for too long, which keeps it empty. The archive
of attempts has one entry in the liveness run: a second retry would trim it, and
the premise of `FailuresStayCounted` excludes the trimming, which only the model
does. Evidence there is of tests in one wording; two kinds in one wording are
`taskgraph_caught`. `CHECK_DEADLOCK FALSE` because a completed plan in which
all ids are used is a legitimate end; that nothing else is one is what
`SomebodyCanMove` and `EventuallyComplete` say.

Of storage. Three processes give a holder, one that waits and one that arrives
after a lock was removed; or an `init`, a transaction and a reader. Processes
run one command each, so a fourth would only repeat a finished one. Two lock
identities are the least with a reused one beside a fresh one. One power failure
separates what was flushed from what was not. `CHECK_DEADLOCK FALSE` because all
processes may have ended.

Of the journal. A tear touches its own writer, one that looked at the file
before and one that comes after: three writers. The fourth append is the first
one after the damage was repaired. Two months have a change in mid-call and a
prune of the older. The records are one that fits, one that must shed its
snapshot and then just fits with the mark, and one that cannot fit.
`CHECK_DEADLOCK FALSE` because all appends may have been made.

Of the sessions. The first session has a past; two more race for the report of
it, or one of them becomes a candidate itself, so that the scan sees two, and
`MAX_CANDIDATES` is 2. The thresholds are one file and two edits instead of the
code's. With one path the run decides by them whether a session edited the
project at all, or only a file outside: it does not separate the number of files
from the number of edits, which the proofs leave open. Records stop at 7, of which
edits, runs and turn ends may add up to a length of 5; the rest is left for
openings, closings and claims. Two seconds make openings that differ and windows
that touch. One fault is a lost record, acknowledged or
not, a spoilt one, or a killed hook. One repository, since
`History` separates them before anything else is decided. `CHECK_DEADLOCK FALSE`
because records run out.

Of the installer. With two runtimes and two versions an interrupted install can
be of another runtime or version than the one that follows; the second crash
interrupts the repair. Two builds are the least by which a copy is of one and the
runtime of the other. One edit puts a foreign file, a missing one or a changed
hook at any point of the history. The platform is an initial choice that never
changes.

Symmetry: nodes are interchangeable (their order decides nothing that is
modelled), labels as far as they spell the same number of names, processes, lock
identities and writers, and the sessions without a past. Runtimes are not, since
one of them is the installer's own. No run that
checks liveness uses symmetry.

Fairness of `TaskGraph`. The program does nothing on its own, so `Fairness` in
`TaskGraph` is an assumption about the people and agents that follow
`status_summary`'s `next_action`: ready nodes are started, running ones
submitted, failed and invalidated ones retried (weak fairness: these stay
possible until done), a person who is asked about an exhausted node grants or
retires (weak), and a reviewer decides in the end. That last one is strong
fairness, because an UNCERTAIN verdict followed by a withdrawal disables the
decision again and again. Nobody has to supersede or grant anything that is not
exhausted, to doubt, or to plan. Under this assumption completion is a property
of the code: failures are finite only because every failure consumes an attempt,
refunds hand back only what is held, and the ceiling is absolute.

No other module assumes fairness or states liveness. A command of `GraphStore` has
no loop, and while it waits for the lock its timeout is always possible; that a
stale lock goes away is no property of the code, which never removes one by
itself. What can be said is `LockAccounted`: whose it is. The jittered retry
promises no process the lock, an append may be refused for ever, and a start hook
gives up after a second.

Every property of a passing run has a mutant: a small slip in one definition
(direct dependents instead of descendants, labels compared by spelling, a
separator left out, a history cut before the claims are read, ...) under which
TLC finds the property violated. The mutated forms stand next to the definitions
they replace and are used nowhere else.

## 4. Proofs

Assumptions: `LabelsAssumption` (`None` is no label, `Identity` maps labels to
labels), `BoundsAssumption` (the ceilings are naturals, `MAX_ATTEMPTS` positive).
Nothing is assumed about the number of nodes, not even that it is finite.

In `TaskGraphProofs`:

* `TypeCorrect`. By itself inductive, thanks to the floor in `Refund`.
* `WorkStandsOnSettled` (`DependenciesSettled`). The invariant is `SettledInv`:
  ready and active nodes rest on settled dependencies, and blocked nodes have
  one that is not. The second half is not needed for the first but for
  progress. Operations that move one unsettled node are one lemma (`MoveOne`):
  no active node can depend on an unsettled one. `Fail` is the case that needs
  `DescendantsClosed`: what stays active is outside the descendants, and so are
  its dependencies.
* `PlanNeverStalls` (`SomebodyCanMove`). `PlanInv`: dependencies were planned
  before their dependents, hence no cycle. Among the owed nodes one depends on
  no owed node; all it waits for is settled, so `SettledInv` says it is not
  blocked.
* `BudgetCountsFailures` (`BudgetExact`), `EventIdsUnique`
  (`FailureEventsUnique`). Neither is inductive alone. `ChargeInv` adds that
  failures are numbered strictly below the attempt a node holds, so that a
  refund exposes no used number and an appended failure is the largest.
* `VerifiedIndependently` (`IndependentPass`). `PassInv` adds that running and
  awaiting nodes name an executor.

In `TaskGraphLedgerProofs`, on top of these:

* `VerdictIsCurrent` (`VerdictMatchesStatus`). The property is inductive, node by
  node (`VerdictInv`): every operation that takes a node to a status with another
  verdict replaces the verdict too, those that reach it from another node's
  review included.
* `SummaryIsAccepted` (`NextActionsAccepted`), assuming `TwoActors`: every actor
  has another one. `LimitInv` says that ready and blocked nodes have an attempt
  left and no node holds more than its limit. The case that needs it is a node
  whose attempt is refunded and that becomes ready again.
* `CompletionHolds` (`CompletionStable`). Once all nodes are settled no guard
  but that of planning holds; by the type invariant alone.
* `FailuresReachDownstream` (`FailureStaysDownstream`). Needs `SettledInv` for
  the promotion that follows a failure: a blocked node has an unsettled
  dependency, and a failure settles none, so what is outside the descendants
  stays where it is.
* `DoubtsStayOnRecord` (`DoubtArchived`), where the archives keep an entry
  (`RETRY_LOG` not 0). Whatever the byte bound makes of the trail, it keeps the
  newest record, unless that alone exceeds it.
* `VerifiedAllTheWayUp` (`AncestorsVerified`): `DependenciesSettled` closed over
  ancestors, where none was retired (`RetiredInv`: a superseded node is marked
  for good). No induction along a path is needed: the nodes that are not
  accepted ancestors form a set closed under dependents, so no descendant of an
  unverified node is outside it.
* `GraphImplementsLedger`: `Spec` implies `LedgerSpec`, and every step of the
  graph is one of the ledger or leaves it alone (`LedgerSteps`). `Fail` is the
  step that uses `ChargeInv` (failures are bounded) and `DescendantsClosed`.

In `EffectivenessProofs`, on top of these:

* `ReportCountsCopiesOnce` (`CopiesCountOnce`). Two records of a node that
  neither `Prefer` tells apart have the same attempts, and if they are settled
  the same status, since no operation takes a node from one settled status to
  the other (`SettledAlike`): what is counted of them is the same whichever is
  kept (`OrderOfTwo`). What is counted of reviews is a set of keys, which has no
  order (`ReportReviews`), so the question is which failed reviews a step adds:
  one if it is a failed review, none otherwise (`AllFailuresStep`). `Submit`,
  which replaces the evidence a verdict is keyed by, is the case that needs
  `VerdictInv`: a running node shows no verdict. `ReportInv` adds to the
  invariants above that an unplanned node has no failed review, and that the
  failed reviews on record are finite, without which their number says nothing.
* `ReportKeepsFailures` (`FailuresStayCounted`), where the archive of attempts
  keeps an entry (`RETRY_LOG` not 0; the code's archive is not trimmed). `Retry`
  moves a verdict to the archive together with the evidence it was on, so its key
  stays the same; no other operation replaces a FAIL. That needs `VerdictInv` for
  the nodes that are started or reviewed and `PassInv` for a verified node that
  somebody else's review fails.

In `GraphStoreProofs`, from `StoreAssumption` (the special values are no
documents and no identities):

* `StoreTypeCorrect` (`TypeOK`) and `NeverTorn` (`GraphWhole`). Inductive
  together with `Placed`, which says where each command can be: only a file that
  was flushed gets the name of the graph. No assumption about the person.
* `LockExcludes` (`MutualExclusion`). `LockInv`: whoever is inside the lock owns
  the file at `lock_path`, and nobody is about to remove it; while somebody is
  about to, the file exists, so nobody can enter in the meantime. This is the
  argument for the procedure in `core/recovery.md`.
* `TransactionReadsCurrent` (`ReadIsCurrent`), `AcknowledgedStays`
  (`AcknowledgedKept`). `FileInv` adds what a process inside the lock knows of
  the file, from its first look at it on, and that a process that has not
  published is in no document, not even in the one a power failure may restore.
* `InitStaysTheBase` (`InitIsTheBase`) and `LocksAccounted` (`LockAccounted`),
  without mutual exclusion and without an assumption about the person. `BaseInv`
  adds what the commands on their way carry: a transaction writes back the init
  whose document it read, and an init that saves has a document of its own, which
  it gives the name only where there is no graph.
* `StoreIsRegister` (`RegisterSpec`): under `Careful`, every step is a step of
  `GraphRegister` or leaves it alone.

In `JournalProofs`, from `JournalAssumption` (`None` is no writer, the bounds are
naturals) and `EntriesAssumption` (an entry has at least one byte that is never
shed, and sizes are naturals):

* Loops. The reader's loop and the joining of months are recursive functions on
  lengths. A recursive function needs a proof that it exists, and what it returns
  needs induction; both use the set of lengths for which the claim holds
  (`Induction` turns 0 and closure under successor into all of `Nat`, with a set
  where the library's theorem has an operator). So `GatheredOrigins` (every record
  read is a line that parses, in the order of the lines) and `FlattenJoined`
  (the joined months have the records of each, in order) hold for files of any
  length.
* `JournalTypes` (`TypeOK`). `Typed` says more of files: they are sequences of
  sequences of pieces. Uses that `render` returns only sizes that fit
  (`RenderType`).
* `JournalWriterOrder` (`WriterOrder`). Not inductive: nothing in it keeps a call
  in progress from writing an identity behind a later one. `Fresh` says that the
  identity of a call is nowhere yet and beyond all that its writer has written,
  in no later month than the call's; `Known`, that an identity has one writer;
  `InOrder`, that the lines of the months hold each writer's records in order.
  A write puts one piece after all others (`Placed`), so `Fresh` keeps `InOrder`.
* `JournalLosses` (`OneLossPerTear`). `Losses`: on POSIX, the acknowledged records
  that no reader gets and the months with a torn tail are together at most as
  many as the tears. The writer that had looked before the tear trades the tail
  for its record; everybody else repairs. `TailNotOwed` says that a tail which a
  repair or a pasted record makes unreadable was acknowledged to nobody. On
  Windows `Serial` says that whoever holds a month's lock has seen its file as it
  is, so that the trade never happens. `Serial` needs `Unpruned`: only an opened
  file can be unlinked under its writer.
* `JournalImplementsLog` (`LogSpec`): a write appends to what is read of its
  month, or takes the unterminated last record away (`ReadsOn`); a pruning leaves
  the newest month.

In `SessionHooksProofs`, from `SessionsAssumption` (the special values are no
sessions, repositories or paths; bounds are naturals):

* `SessionsTypeCorrect` (`TypeOK`), by itself inductive.
* `ReportedOnce` (`AtMostOnce`). `ClaimInv`: whoever claims holds `report.lock`
  and nobody has claimed before it; whoever prints is the only one that does so
  for its session, and comes after its claim, unless a claim of it was
  acknowledged and lost (`forgotten`), at its writing or later. What makes the
  look under the lock see every earlier claim is `AtHome`: a claim of a session
  is in the history of the repository that whoever looks for it reads. A lock
  that is removed can only be the lock of a hook that is dead, which claims and
  prints no more.
* `NamedRunsCount` (`NamedRunProtects`). The decision reads the history before
  the asker's opening, except for runs that name their session, which it looks
  for in all of it; the opening it finds is the first on record, the same one that
  the property takes (`OpeningSeen`).
* `HookAndReportAgree` (`HookAgreesWithReport`), `NoBypassIsBuried`
  (`NothingBuried`), assuming that there is one repository, `Repos = {r}`. With
  several they are false, for the reason in section 6. They unfold both
  implementations to positions in the journal: first opening, last end, edits and
  runs are the same in both (`WholeHistory`, `FinishedOnRecord`,
  `UsedIsTransitions`). The second also needs that of the sessions that ended
  later the one that ended last exists, and is the one a start looks at first
  (`FiniteNewer`, `LastToEnd`, `NewestIsReported`).

In `ConformanceProofs`:

* `OverlapsFound` (`ContestedExact`). It follows from `TypeOK` alone, in every
  state. A sorted sequence of the bounded sessions has each of them once
  (`SeqsExhaust`, by counting); since it is sorted, the number that bisection
  returns is the size of exactly the prefix that starts in time
  (`PrefixStartsInTime`); the one chosen reaches at least as far as any other of
  the prefix (`ChosenIsFurthestOther`); so if any other session overlaps, it
  does.

In `InstallerProofs`, from `InstallerAssumption` (the special values are distinct
from each other and from runtimes and versions). `Where` and `Advances` say at
which step each action is and what follows it; the invariants are in terms of
the number of the next step.

* `InstallerTypeCorrect` (`TypeOK`), with the same of the planned documents: a
  document that is planned has one entry of its runtime (`WithTyped`), and an
  edit keeps the owner of the entry it edits (`TouchedDocument`).
* `EntriesAccountedFor` (`HooksAccountedFor`). `OwnersInv`: no entry of the
  runtime on record is planned, and a file that was written, or that the install
  decided not to write, has none. So none is left when the receipt replaces the
  record.
* `CompletedInstall` (`CompletedIsInSync`). `ProgressInv` says what each step that
  was taken has left and no later one undoes. A hook file that is not written is
  as planned since `Compare`, whatever an earlier run wrote; a target that was
  not touched since the preflight is not foreign (`LastStep`, `ReceiptInSync`).
* `ForeignKept` (`ForeignStays`). From the same invariant: where an install places
  a target nothing foreign is left to lose, and the planned document has all
  entries of others. An uninstall removes only what matches, and nothing foreign
  does (`SourceTyped`).
* `UninstallComplete` (`UninstallLeavesNothing`). `OwnInv`: unless an install was
  interrupted, whatever is at a target is foreign, or ours by the runtime on
  record and the payload as it is. Between two receipts this is false, which is
  what the premise about interrupted installs is for; the end of an install
  restores it, since it placed every target itself. An install that writes the
  executables and is then refused breaks it for the copies of commands on
  Windows: they become copies of an earlier build, the exception `Leftover`
  makes (`BuildStays`: nothing else does).

Model-checked only: all liveness, which is out of the prover's reach (temporal
reasoning with fairness, `ENABLED`). Every invariant and action property of a
passing run is stated by a theorem.

## 5. Not modelled

* Codex sessions, worktree fingerprints: they read another tool's database and
  hash the output of git, in one pass and without state of their own. The
  report's rows of Codex sessions have a constant verdict per row of that
  database and its filters, and nothing relates them to the journal.
* Path safety, apart from the race between looking at a file and opening it
  (`Look`, `SameFile` of `GraphStore`): questions to the operating system.
* Adapter sync and evaluations: one pass over files of a checkout or of a
  finished case; nothing runs beside them and nothing is kept. Mutation audit: a
  test tool.
* Field-level validation of documents and of arguments, text and size limits: it
  decides before any state changes.
* Of the installer, links left by older versions, backups, two installers at
  once.
* Of the effectiveness report, `granted_attempts`, `most_failed_criteria`, the
  ratios, copies of graphs with different objectives and the reading of files.
* What no property would catch: a record written into a month that was pruned
  after its writer opened the file; a file that appears at a target between the
  installer's preflight and its write, which the code overwrites; the lock of the
  next holder removed by the release of one whose live lock a person had removed.
  The steps are in the models.

## 6. Disagreements between documents and code

* **A retired node becomes owed again** (`superseded_reopened`). `A` awaits
  review, its dependent `B` is superseded, `A` fails: `B` is `invalidated`.
  `_invalidate_descendants` passes over failed nodes only.
* **An unjudged attempt stays on the budget** (`unjudged_spent`). `X` and `Y`
  depend on `A`. `X` runs, is superseded, then `Y`'s review fails `A`: `X` is
  invalidated with its attempt still charged. `BudgetExact` excludes nodes that
  were retired, for this reason.
* **The installer refuses its own files** (`reinstall_refused`). An upgrade is
  interrupted after the payload was updated and before the reviewer definitions
  were replaced. They are copies of the old payload, and the preflight compares
  them with the new one: every later run ends with "unmanaged target conflict",
  and `--uninstall` leaves them. Running the program that way gives that error.
  On Windows every target is a copy, so that skills and commands are exposed to
  it too, and an interruption while a skill's directory is replaced leaves a part
  of one, with the same consequences (the exception in
  `UninstallLeavesNothing`).
* **A caught failure is not counted** (`taskgraph_caught`). A review fails on
  test evidence; after a retry the same reviewer fails the same criteria on
  evidence with the same summary and another kind. Both have one key, the second
  is kept, and the report says 1 review failed and none despite test evidence.
  Running the report on such a document gives these numbers.

Noticed on the way, without a run:

* On Windows a repeated install is refused, with nothing interrupted and nothing
  touched. `main` compares the copied commands with the executables of its own
  runtime, has `pip` write these anew (`install_pc.py:409-435`, `--force-reinstall`;
  the launchers hold the time they were made), and `install` compares again: its
  own copies are now an "unmanaged target conflict", for this run (`Refuse`) and
  every later one, although README.md says to re-run the command. `--uninstall`
  (756-758) leaves them, hence the second exception in `UninstallLeavesNothing`.
  That a launcher differs from one build to the next is an assumption about `pip`;
  POSIX has links, which are compared by where they lead.
* A bypass can be reported again, although docs/conformance.md:195 has a report
  "never repeated" and a message only when "the record was written" (202-203):
  `append` does not look at the count `os.write` returns (`journal.py:255`), so
  that it acknowledges a claim of which only a part was written, and a whole one
  may be spoilt by the next torn write. The message is printed, no claim can be
  read, and the next start prints it again. `AtMostOnce` excepts such sessions
  (`forgotten`) and no others.
* The packet of a reviewer names files of a node that is not verified under
  `upstream_verified_files`, when a superseded node lies in between
  (`graph.py:965`): `AncestorsVerified` has the exception it needs.
* A command can exit with 2 for a change that is in the file, when the lock
  cannot be removed afterwards (`storage.py:83`, `cli.py:839`).
* A named `graphctl` run that is recorded under another repository key (another
  worktree, a path outside) counts in the report and not in the hook
  (`cli.py:825`, `session_hooks.py:311`, `conformance.py:71`). The properties
  that compare the two are therefore checked and proved within one repository.
* `escalations.budget_exhausted` and `granted_attempts` depend on the order of the
  copies when two have the same number of attempts (`_prefer`, a tie keeps the
  first), and `caught` when two reviews have one key.
* `supersede` also returns dependents that its own promotion has just made
  ready, and the CLI tells the user to retry them, which `retry` refuses.

## 7. Plan

Done: the graph, storage, journal, session hooks, both reports and the installer
as modules with runs; the theorems of section 4.

Left: links left by older versions in `Installer`; the number of files against
the number of edits in an instance with two paths; reports over more than two
copies, whose `ByNode` is a recursion over a list, out of the prover's reach.
