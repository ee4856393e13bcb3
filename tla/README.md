# TLA+ models of llm_serving

This directory is a formal model of the parts of the repository that have a logic of
their own, with TLC configurations that check it on small instances and TLAPS proofs
for every value of the constants. The repository configures and runs other people's
inference engines; what it adds in code is a janitor for the shared KV-cache directory,
a benchmark sweep that survives kills, a patched vLLM scheduler, a way to patch installed
packages in place, clients that put load on a server, and a test of the links between GPUs.

`tlc -config X.cfg M` runs a configuration, `tlapm MProofs.tla` a proof module.

## 1. Inventory

### KV cache cleaner — `scripts/kv_cache_lru_cleaner.py`

*State*: the flock descriptor, the signal flag, and, inside `compact`, the snapshot of
pages sorted by `st_atime`, `need` and `batch_est`. *Operations*: `acquire_lock`,
`run_loop`, `poll_once`, `compact` (statvfs, scan, unlink in order, re-check after a
batch), `prune_empty_dirs`. *Interactions*: through the filesystem only, with vLLM and
SGLang processes that write, rename, read and hold open pages, with operators who delete
files, and with a second cleaner. *Hard*: every system call interleaves with all of them;
a page unlinked while open frees nothing; the lock is a path somebody may remove.
*Correct when*: it begins to unlink at the trigger and never goes past the target, takes the
least recently used pages first, never takes a directory from under a file, keeps a second
cleaner out, stops when told to, and relieves pressure again and again.

### Benchmark sweep — `bench/run_sweep.py`, `bench/bench_client.py`

*State*: an append-only results file; in memory the cells done, `dead_layout` and
`skip_mtp_from`, rebuilt from the file by other code when a session is resumed.
*Operations*: the loop over `all_configs`, the skip rules, a start, `bench_config`'s
contexts and concurrency levels, one append per row. *Hard*: a kill between any two
appends or in the middle of one, sessions with other `--only` and `--contexts`, failures
that end a context or all longer ones. *Correct when*: what is skipped depends on the
file alone, and no cell is missing without a row that says why.

### Server lifecycle — `bench/run_sweep.py:163-387`, `run_vllm.sh`

*State*: the shell the sweep started, the API process behind the port, the workers
behind it, none of which the sweep knows in full: it knows a shell by its Popen object,
an API process by the port, workers by their names. *Operations*: `stop_port`,
`start_vllm`, `wait_healthy`. *Hard*: servers that crash, hang or ignore SIGTERM,
workers that survive, a sweep that is killed while its server lives on. *Correct when*:
the GPUs belong to one server at a time, what is measured is the configuration's own
server, and nothing is left behind.

### Patched scheduler — `patches/vllm_offload_scheduler`

*State*: the running, waiting and skipped queues, each request's computed tokens and
blocks, the budget of the step, loads and batches in flight. *Operations*: one call of
`schedule()`, which gives tokens to running requests, preempts, and admits waiting ones
with prefixes found locally or loaded through a connector; `_mamba_block_aligned_split`.
*Hard*: preemption among batches in flight, background loads that fail, chunks that must
end where a recurrent state can be cached. *Correct when*: no request or block is lost
or used twice, the function's own assertions hold, chunks end on the right positions and
every request finishes.

### Function patcher — `scripts/vllm_function_patch.py`, `apply_*.sh`

*State*: the text of the installed files. *Operations*: twelve scripts, each a list of
edits over one or more installations; look up, truncate and write, compile, read back.
*Hard*: kills in the middle of a write, new versions in which a body is not found,
scripts that edit the same file, reinstalls. *Correct when*: a script that reports
success has done its edits and no other run undoes them.

### All-reduce test — `hw_prob.py:376-536`

*State*: the parent's list of workers, each worker's place in a line of collective calls,
rank 0's summary. *Operations*: starting a worker per GPU, joining them in order,
`_cleanup_processes`; in a worker `init_process_group`, a `new_group` for every combination of
ranks, warm-up and timed all-reduces for its own groups, a barrier of the world after each.
*Hard*: a collective returns only when every member has made the same call, so ranks that
disagree on the order wait for each other until NCCL times out; Ctrl+C reaches parent and
workers at any point. *Correct when*: ranks go through the calls in lockstep, one group is
measured at a time, and a clean-up leaves no listed worker.

### Load clients — `stress_test_llm.py`, `stress_test_embedding.py`, `bench/bench_client.py`

*State*: the length of the calibrated text, the permits of a semaphore, each task's stream
(`saw_chunk`), what it has sent and how it ended. *Operations*: the choice of a mode,
`calibrate_*`, warm-up, requests and agent streams as tasks of one event loop, the summary
and exit code. *Hard*: servers that refuse, break a stream off, end it early or fall silent;
a length found by asking for token counts twice; contexts of agents that must not share a
prefix. *Correct when*: concurrency is bounded, exit code 0 means that every request was
answered, prompts have about the length asked for, and every run ends.

### Parts without a model

| part | why |
|---|---|
| arguments file (`bench/overlay_args.py`, `parse_args.sh`) | parsers of text without state: what can go wrong is in the characters, which a model abstracts away |
| GPU measurements, the other probes of `hw_prob.py` | straight-line measurements of one device after another |
| offload worker's `register_kv_caches` patch | a pure function from layers to views of tensors |
| thinking budget, DP statistics, pinning and model-class patches | control flow that is vLLM's own; data, logging |
| installers, run scripts, templates | sequences of commands and constants |

PROJECT.json lists every part under `components`, and under `hazards`, line by line,
what is hard to test in this code and which property covers it.

## 2. Modules

| module | what it is |
|---|---|
| `Cleaner`, `MCCleaner`, `CleanerProofs` | the cleaner among engines and operators |
| `SweepPolicy` | abstract specification of the sweep: the file alone decides |
| `Sweep`, `MCSweep`, `SweepProofs` | the sweep with sessions, memory and kills; implements `SweepPolicy` |
| `Launch`, `LaunchProofs` | the processes behind a start of the sweep |
| `Scheduler`, `MCScheduler` | the patched `schedule()` |
| `SchedulerFacts`, `SchedulerProofs` | lemmas on its queues, sums and blocks; its invariant and theorems |
| `Patcher`, `MCPatcher`, `PatcherProofs` | the apply scripts on an installation |
| `Rounds` | abstract specification of a line of collectives over all ranks |
| `AllReduce`, `AllReduceProofs` | the workers and parent of the all-reduce test; implements `Rounds` |
| `Calibration` | how the clients make a text of a wanted number of tokens (pure operators) |
| `LoadTest`, `MCLoadTest`, `LoadTestProofs` | the three load clients against a faulty server |

PROJECT.json's `map` gives the lines each definition translates.

### Cleaner

One action per system call: `MkdirRoot`, `OpenLock`, `FlockLock` are `acquire_lock`;
`LoopTest`, `PollOnce`, `EndCycle`, `Wake` are `run_loop`; `CompactStat`, `ScanEntry`,
`ScanFault`, `ScanDone`, `UnlinkOldest`, `UnlinkSkip`, `SnapshotDone`, `Recheck` are
`compact`; `PruneWalk`, `PruneDir`, `PruneDone` are `prune_empty_dirs`. The scan reads
one directory entry a step, so that pages appear, vanish and change behind it. `used` is
what statvfs reports: a page's size leaves it at the unlink or, if an engine has it
open (`ghosts`), at the close. A lock file is an inode number, so that a file removed
and made again is another lock. `lastUse`, `credit`, `since` and `armed` are history variables
that the properties need and no action reads; `armed` says that usage has been at the
trigger since `compact` last read it and found it at the target or below.

### SweepPolicy and Sweep

A configuration is `<<family, n>>` with `n = 0` for speculation off, `1..MaxMtp` for MTP
and `MaxMtp + 1` for DSpark. `SweepPolicy` has three sets, failed, skipped and measured,
and three actions whose guards read these sets only. `Sweep` has the control flow of
`async_main`, `run_one_config` and `bench_config`: every append is an action (`SkipConfig`,
`StartFails`, `MeasureCell`, `CalibrateError`, `ConfigDone`), `NoteFailure` is the update
of `dead_layout` and `skip_mtp_from` after it, `Reload` the re-read of done cells, and
`Kill` comes between any two or tears the row being appended. The refinement mapping is
the identity on the three sets. A session's command line (`--only`, `--contexts`,
`--skip-start`) is a record of `Arguments`.

### Launch

Of each launch, the state of shell, API process (`booting` before it has workers,
`loading`, `listening`) and workers. `Terminate`, `Drained` or `DrainTimeout`,
`KillOrphans` and `Settle` are `stop_port` in order; `Begin`, `Spawn`, `Healthy`, `GiveUp`,
`ServerExited`, `BenchEnds` are `run_one_config` and `wait_healthy`. SIGTERM to the
Popen object kills the shell, which does not pass it on. `Serve`, `SpawnWorkers`, `Listen`,
`Dies`, `Ends`, `WorkersExit`, `ShellExits` are external: what bash, vLLM and the kernel do.

Two assumptions are visible in the module. `Settle` reads `time.sleep(2)` as long enough
for an API process whose workers were killed to end: without it, the server of a killed
sweep can still answer the health check of the next one. `Early` says whether a start can
be given up, or the sweep killed, before the server has workers: in that time it is known
by nothing the sweep looks for, and the run `launch_early` shows what follows.

### Scheduler

One action per pass of a loop of `schedule()`; between `phase = "idle"` and the next
nothing else happens, as in the code. `PickRunning` to `EndRunning` are the running loop,
`SkipLoading` to `EndWaiting` the waiting loop, `Finish` the rest. `Submit`, `Update`,
`LoadDone`, `LoadFails` and the block and queue operators are external: vLLM's own code,
modelled from what `schedule()` asks of it. `PREEMPTED` is folded into `WAITING`, which
`schedule()` treats alike. Prefix hits are chosen nondeterministically among `LocalHits` and
`ExternalHits`. A request is its rank of arrival. A queue is a sequence; the heap of the
priority policy and the removal of finished requests are stated by the order they leave
(`Arranged`, `Without`), so that they can be proved about without induction over data. Blocks
are counted, not shared: the blocks of all requests are a set of units `<<request, n>>`.
Two configurations that would need what is left out are excluded by `ConfigAssumption`: two
batches in flight together with drafts or a connector, and whole-prompt hits with blocks of
one token.

### Patcher

A script is a record: its edits in order, whether it writes once for all of them
(`staged`), whether a site without the files is passed over (`optional`), the lists of
sites it can be given, and which edits are read back at the end (`confirms`). One process
runs it: `EnterSite`, `PassEdit`, `NotFound` or `Replace` for each edit, `Truncate` and
`Write` for `write_text`, `Compile`, `Succeed` or `VerifyFails`. Text is abstracted to the
version of each body and whether a file is cut short; that bodies do not overlap and occur
once is assumed, and true of the payloads, none of which contains another's upstream text
but its own. `Fault` is a kill or a failed write, `Reinstall` puts any version in place.

### Rounds and AllReduce

A worker's `place` is the call it makes next or is in: a stage, the number of the group and,
for a timed all-reduce, the number of the size. `Enter` and `Return` make and end a call,
the latter once every member is in the same one (`Met`); each call of a worker is an action
(`Rendezvous`, `NewGroup`, `WarmUp`, `GroupBarrier`, `TimedMore`, `TimedLast`, `Barrier`, `Destroy`). Groups are enumerated in the order of
`itertools.combinations`. `Start` and `List` are `p.start()` and `processes.append(p)`, between
which Ctrl+C can come; `Join`, `Terminate`, `Reap`, `KillSurvivor`, `Cleaned` and `Exit` are the rest
of the parent and the joins of the interpreter at exit. `Crash`, `Wedge` and `StartFails` are
faults, `TimeOut` is NCCL's. Under the mapping `round[r]`, the number of world collectives a
rank has got past, the test implements `Rounds`.

### Calibration and LoadTest

A sample of random words has a length in characters and a rate of its own at which they count as
tokens. A text is samples repeated, cut and joined; what is kept of it is its `Weight`, the sum of
lengths times rates, which a tokenizer's `unit` divides into tokens and to which the template
adds its own. `Calibration` follows the clients' arithmetic on them. `LoadTest` has one module-wide program
counter (`args`, `scout`, `warm`, `run`, `over`) and per task a place: waiting for a permit,
request open, reading its stream, ended. `Send`, `Answer`, `Line` and `End` are a request and its
stream, `End` with every way it can end, timeouts included. A message is the sequence of
what it is made of (prefix, chunks, suffix), enough to tell what two agents share.

## 3. Runs

| run | checks | states |
|---|---|---|
| `cleaner_evict` | `TypeOK`, `NoOverEviction`, `EvictsFromTrigger`, `FilesHaveDirs`, `LRUOrder`, `StopExits`, `PressureRelieved` | 490,345 |
| `cleaner_lock` | `MutualExclusion` with two cleaners | 1,675,810 |
| `cleaner_noatime` | `LRUOrder`, violated | |
| `sweep` | `TypeOK`, `ResumeEquivalent`, `NothingMissing`, `ImplementsPolicy`, `SessionEnds` | 559,690 |
| `launch_stop` | `OneEngine`, `MeasuresOwn`, `CleansUp` | 2,641 |
| `launch_early` | `MeasuresOwn`, violated | |
| `sched_priority` | `TypeOK`, `OneQueueEach`, `BlocksHeld`, `Assertions` | 300,705 |
| `sched_fcfs` | `StatesAligned`, `InArrivalOrder`, `OldestServed`, `OldestKept`, `EveryRequestFinishes` | 3,065 |
| `sched_load` | `EveryRequestFinishes` | 15,546 |
| `patcher_all` | `OkMeansPatched`, `RerunsWriteNothing` | 618,584 |
| `allreduce_three` | `OneGroupAtATime`, `NoneSurvive`, `RankedByRankZero`, `NoneTimesOut`, `InLockstep`, `NoneStays` | 789,161 |
| `clients` | `TypeOK`, `InFlightBounded`, `CleanExit`, `GrowingContexts`, `PromptsOnTarget`, `RunEnds` | 390,021 |

The types of `Launch`, `Patcher` and `AllReduce` are proved (`TypeCorrect`) and not checked by
a run of their own.

**Bounds and why they suffice.** *Cleaner*: three pages of sizes 1 and 2 in two
directories make a batch meet the need exactly, overshoot it and fall short; three uses
after start let a page be written, scanned, used again and rewritten; one fault is enough
because a fault only skips. With two cleaners one removal of the lock and one crash give
both ways in which two can get past `acquire_lock`; pages are stamped once after start there,
because the lock does not depend on them. *Sweep*: two families with two MTP
counts show each skip rule acting within a family and not across; of three command lines
one starts configurations of both families, one only MTP ones at all contexts, and one
passes over starts, so that two sessions give a kill and a resume with another subset.
*Launch*: a third server meets what two stops and two kills can leave. *Scheduler*: blocks
for fewer than all requests force preemption, prompts longer than the batch force chunks,
two batches in flight give preemption of a request in flight; `sched_load` has blocks for
all requests (see 5). *Patcher*: one body that no payload knows, one fault, every choice of
unfit sites; besides each script alone, the two that edit one file run in any order.
*AllReduce*: three ranks have four groups, of two sizes, and a rank outside each pair; a
second Ctrl+C interrupts the clean-up of the first. *Clients*: five requests for two
permits, or two streams with three turns; targets below, near and far above a sample's
length, where calibration rounds up, hits or corrects, in any order; two samples that differ by
a seventh in their rates; `MaxLines` = 1 is a stream with and
without a chunk.

**Fairness.** A started cleaner is scheduled (`WF` on its steps; each is a system call that
returns). A sweep goes on, because starts, stops and requests have time limits (`WF(Step)`);
in `Launch`, besides, a process that was asked to end or has lost its workers ends, and a
shell follows its command. The scheduler is called again and again and batches return
(`WF`); the end of a load is reported with a batch, which is not always there to report
it, hence `SF`. In `AllReduce` the parent runs, a worker that can go on does, one that was
sent SIGTERM ends unless it is wedged, and NCCL's timeout comes. In `LoadTest` the event loop
gets to every task and every wait for the server has a timeout; nothing makes the server
answer.

**Violations found.** Both are kept as runs.

- `cleaner_noatime`: `compact` promises LRU order by `st_atime`, and `setup.sh` mounts the
  directory `noatime`: a page just read goes before one written later and never read.
- `launch_early`: a start that is given up before its server has workers or a port leaves an
  API process alive; if it listens before the next server does, the next configuration is
  measured on it.

**Behaviour worth knowing** that the models show and no document denies, or only in passing:

- *AllReduce*: the summary's header counts all groups, but only rank 0's are ranked
  (`RankedByRankZero`). The clean-up's guarantee does not reach a worker that is started but
  not yet listed, nor a clean-up interrupted by a second Ctrl+C (`NoneStays` names both). Joins
  ignore exit codes, so a test whose workers failed ends like one that went through.
- *Stress client*: agent streams send `ccu * ceil(total / ccu)` requests, more than
  `--total-requests`; a stream that breaks off after a chunk, without `[DONE]`, counts as a
  success; conflicting mode flags exit with 0; where the target is shorter than a sample, the
  text is not cut.
- *Embedding client*: the HTTP status is not looked at, a JSON error body is a success.
- *Stress client, lengths*: `-pp` texts and agent prefixes are cut to the length in characters
  that was calibrated on one sample, and each is made of other random words: they have about
  as many tokens, within what samples differ in rate, and `Tolerance` is kept by the measured
  one only. `PromptsOnTarget` therefore speaks of that one.
- *Calibration*: one correction only, so the error is bounded by the tolerance or by the
  template's tokens and one (`Slack`); the bench client overshoots by at most a sample, and
  ignores a failed warm-up. Timeouts are of idle time only: a server that keeps sending
  comment lines holds a request for ever, which `MaxLines` excludes from `RunEnds`.

## 4. Proofs

Every theorem holds for all values of the constants under the named assumptions of its
module. No proof relies on finiteness of the bounds.

*CleanerProofs.* `TypeOK /\ IInv` is inductive (`Inductive`), with `IInv` the conjunction of:
`LockInv`, past `acquire_lock` a cleaner holds the flock of its inode and nobody else does
(needed because `MutualExclusion` speaks of inodes only); `LocalsInv`, outside `compact` its
locals are empty; `BudgetInv`, usage has fallen since the last statvfs by at most the batch
and what others freed; `SnapshotInv`, snapshots hold pages under the time of their last use;
`ArmedInv`, from the poll that finds the trigger until `compact` reads the target or less, `armed`
holds (needed because engines may bring usage back down between the two reads); and an
invariant on directories. From it follow `Mutex`, `Budget`, `DirsKept`, `FromTrigger`, and
`EvictionOrder`, which assumes `~NoAtime`, the condition that `cleaner_noatime` shows to be
needed.

*SweepProofs.* `Resume`: memory equals what would be rebuilt from the file; the lemma
`SkipMeaning` ties the number `skip_mtp_from` to the set of failed starts. `AdmissionInv`
says that from its admission on nothing rules a configuration out until its own start
fails, and with it each step is a step or a stutter of the policy (`Policy`: `Sweep` implements
`SweepPolicy`). `ProgressInv` says that what a session has passed is accounted for; it gives
`Complete` (`NothingMissing`).

*LaunchProofs.* Type correctness without conditions; under `~Early`, `LaunchInv` is inductive:
only the start that is waited for has no workers yet (`EmbryoInv`), only the last server has
any (`WorkersInv`), a server that got SIGTERM has ended when `stop_port` goes on (`AskedInv`),
and after it no API process is left (`OldServersInv`). It gives `GpusToOne` (`OneEngine`) and
`OwnServer` (`MeasuresOwn`); `launch_early` shows that the condition is needed.

*SchedulerProofs*, on the lemmas of *SchedulerFacts*. The facts are of three kinds: a queue
operation keeps a sequence of distinct requests and adds or takes exactly whom it should
(and keeps the order of the rest); the sum of blocks or tokens changes by what one request
gains or loses; chunks and blocks are monotone, and a chunk cut at a block boundary ends on
one. `IInv` is then inductive under every action (`Invariant`). Its parts: `QueueInv`, the queues
partition the unfinished requests by status; `CountInv`, a request has work left unless a
batch in flight owes it a token; `FlightInv`, a request awaited by a batch is either running,
computed up to its drafts and not scheduled again, or has been preempted, and then it cannot
be admitted before the batch is back; `BlockInv`, blocks in all and of each request; `LoadInv`,
a load ends on a block, and at the last token only if whole prompts may be loaded; `AlignInv`,
where chunks of a prefill stand; `PhaseInv`, budget and batch add up, nothing from the loop's
index on is scheduled, and (`Allocating`) what was decided for the request being allocated
stays valid while others are evicted for it. `FlightInv` is what makes preemption with two
batches in flight work: without it "every request has work" is not
inductive. From `IInv` follow `TypeCorrect`, `OneQueue`, `BlocksKept`, `AssertionsPass` and `Aligned`,
that is, the safety properties of `sched_priority` and the first of `sched_fcfs`;
`FirstComeFirstServed` needs `OrderInv` besides, that nobody skips and requests arrive in order.
Two theorems say that nobody starves in that setting, if the cache has room for one request of
the model's length (`RoomForOne`, which vLLM checks before it starts): `OldestFirst` (`OldestServed`),
no call of `schedule()` ends without tokens for the oldest request unless a batch in flight owes
it one, and `OldestNeverLoses` (`OldestKept`), nobody preempts it. Their invariant is `ServedInv`:
what waits holds no block, the oldest request is the head of the running queue and served once
the loop has passed it, and as long as nothing runs the whole batch is left. What takes work is
the head itself: the preemption loop evicts from the other end until the head is alone, alone it
fits (`RoomAlone`), and in align mode, where a chunk that is cut to whole blocks could come to
nothing, it stands on a block boundary (`StatesAligned`), so that something is left (`ChunkLeft`).
The two are the safety half of `EveryRequestFinishes`.

*PatcherProofs.* `IInv`: `Place`, where the running script is among its edits; `Ready`, what it
holds in memory was made from what the file still says, and only the file being written is
cut short; `Passed`, the edits it has passed are done or about to be written; `Reached`, so
are all edits at the sites it has visited, and those of every run that reported success. It gives `SuccessLasts` (`OkMeansPatched`) and, because no body
is edited twice and no text holds two versions of one, `RerunsHarmless` (`RerunsWriteNothing`):
a script that is run again after a success opens no file.

*AllReduceProofs.* Two measures of a call: `Round`, world collectives before it, and `Local`,
calls of one group before it. `Together` says that two ranks differ by at most one in the first,
and two members of a group by at most one in the second; `Behind` that what has returned to a
rank is what lies behind it on the line. `ParentInv` says what the parent has started, listed and
killed. From these, `MeasuredAlone` (`OneGroupAtATime`), `NoDeadlock` (`NoneTimesOut`: of the ranks
that are furthest behind, one can always return), `ListedGone` (`NoneSurvive`) and `RefinesRounds`
(`InLockstep`). `RankInv` says that the summary holds, in order, those of rank 0's groups that its
place in the loops is past; it gives `RankedOnce` (`RankedByRankZero`). `EveryGroupOnce` is about the
enumeration itself: sets of ranks are ordered by size and then by the least rank in which they differ; the
number of sets before a set is its place, and no two places are the same.

*LoadTestProofs.* `IInv`: `SeqInv`, what is sent and noted are sequences of messages and results;
`PhaseInv`, nothing is under way but while tasks run; `PermitInv`, permits and requests in
flight add up; `MadeInv`, how many requests each task has made; `ExitInv`, an exit code 0 means
that all succeeded; `SentInv`, each message is the one its stream and turn determine. It gives
`Bounded`, `HonestExit` and `OwnContexts` (`GrowingContexts`). `OneCorrection` (`PromptsOnTarget`) is
arithmetic, for samples each at a rate of its own: the copies first made of a sample have at least
half the tokens they are made for (`CopiesReach`), one correction of such a text is off by the
tolerance or by the template's tokens and one at most (`CorrectionAims`), and a text that is added to
one at other rates has its own tokens or one more (`RateGrows`, `AdditionAims`). It uses `TextAssumption`: a token stands for one character or more and
a sample has at least one token.

**Model-checked only.** All liveness properties (`StopExits`, `PressureRelieved`, `SessionEnds`,
`CleansUp`, `EveryRequestFinishes`, `NoneStays`, `RunEnds`): liveness under fairness, and ENABLED,
are beyond the proof system's backends. Everything else the passing runs check is also proved.

## 5. What the models leave out

- *Cleaner*: units, log lines, the walk's hidden-name rule (split into pages and temp
  files instead). A closing warning that blames files outside the cache is not modelled.
  Two things the model shows are as the code has them and no property is about: pruning may
  remove for good a directory that only set-up makes, and temp files of dead engines are never
  evicted.
- *Sweep*: `write_summary`, request metrics, two sweeps on one results file. A line torn by a
  kill makes every later session fail; the model starts no
  session on a torn file.
- *Launch*: `/dev/shm`, the reading of the log and of its last 400,000 bytes (a start may be
  given up at any time), servers started by hand.
- *Scheduler*: encoder inputs, LoRA slots, pausing, output placeholders, sharing of blocks.
  With fewer blocks than `sched_load` has, requests whose prefixes are loaded can hold
  blocks the first in line needs, and `EveryRequestFinishes` fails: no document promises
  otherwise, so the run has blocks for all and the stall is listed as a hazard.
- *Patcher*: the texts; a payload that is revised between two runs. Lenient scripts report
  success with bodies missing, and `OkMeansPatched` takes the missing ones out for them.
- *AllReduce*: what is measured; signals other than Ctrl+C; a rendezvous port in use.
- *LoadTest*: speeds and statistics; the mixed mode and `_build_agent_stream`, which `main`
  does not reach. A bench run has one concurrency level per context here: the levels of a
  configuration are in `Sweep`.
- *Arguments*: the round trip through `overlay_args.py` and `parse_args.sh` is not modelled: it
  is about quoting and expansion of text, and nothing of it is left once a token is a value.
