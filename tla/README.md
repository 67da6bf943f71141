# A model of textflowkit

textflowkit turns media into transcripts. Around the transcription itself it
runs durable jobs on a worker pool with cancellation, resume and recovery after
a crash; it streams live audio to an owned child process; it serves all of that
over a CLI, HTTP, MCP and a local browser page. This directory models the parts
where several threads, processes, restarts or late answers meet on shared state,
and the algorithms a resumed or windowed transcription rests on. It checks them
with TLC on small instances, and proves what matters most with TLAPS for every
instance.

## Inventory

Paths are below `src/src/textflowkit/`.

| Component | State it keeps | Operations | What is hard | What makes it correct |
| --- | --- | --- | --- | --- |
| Job store (`core/jobs.py`, `core/sqlite_store.py`) | one row per job: state, attempt, accepted cancellation, label, request, result | conditional writes: create+prune, claim, begin_attempt, update_owned, accept_cancel, finalize_done, reap | stale decisions, a write that raises after it landed, pruning | a verdict is given once per attempt; DONE never over an accepted cancellation; a live row is never pruned |
| Job executor (`core/executor.py`) | queue, slots, owned ids and their attempts, tokens, latched fault | start, submit, enqueue, cancel, shutdown, the worker loop; the process-wide pool and its replacement | windows between queue, token and row; outages; joins that time out | one owner per job; slots add up; stops reach the run they name; no orphan; one concurrency bound for the process |
| Job runner (`core/runner.py`) | the attempt it owns | start, progress, verdict | lost generations, verdicts that raise | every run leaves a verdict, and only on its own generation |
| Submission (`core/submission.py`) | the attempt a caller observed and claimed | submit, resume, batch items, clean-up of a refusal | check, claim and admission are separate steps | a run starts under its own claim; a refusal touches only what its claim reopened |
| Startup recovery (`core/startup.py`) | which store is recovered | reap of live rows before the first admission | a crash at any point, a reap that fails half-way | exactly the interrupted rows fail, once |
| Checkpoints, pipeline (`core/checkpoint.py`, `core/pipeline.py`) | snapshot file per job, stage markers, outputs | begin, stage, finalize, resume selection | reuse under other options, an old generation's snapshot over a new one, publication before reuse | a resume reuses only what its own request would have produced; a finished transcript is never destroyed |
| Streaming session (`core/streaming.py`) | state, registry slot, worker, audio clocks, chunk deadline, text, event queue, replay window | start, feed, read_event, finish, cancel, events_since | cancel from another thread at any point; feed beside read; deadlines; three bounds that refuse or drop apart | a terminal state stands; slot and child are released exactly once; the clocks tell the truth; no consumer has a hole it cannot see |
| Streaming worker process (`core/streaming_process.py`, `core/stream_worker.py`) | child, three threads, two bounded queues | start, feed, finish, terminate, read_record | pipes that block each other, kill before close, overflow | no thread is stuck after terminate; no record is lost without an error |
| Streaming WebSocket (`adapters/streaming_ws.py`) | connection leases, inbox, gone signal | guard, authenticate, pump, finish, cleanup | disconnect or cancel during start and finish | leases are released once per phase; nothing behind a finish is fed; a session never outlives its connection |
| Assets (`core/streaming_assets.py`, `core/whistle_assets.py`) | cached files, verification | download, verify, install | two installers, a crash half-way | only verified bytes are ever used |
| Engines (`core/engine.py`, `core/whistle.py`) | cached engines with their locks; windows, seams, progress of a long run | resolve, transcribe, resume | a forgotten engine still at work, lazy inference; overlap of windows, resume at a window | one run at a time on a model; each word belongs to one window, resumed or not |
| Postprocessing (`core/diarize.py`, `core/translate.py`) | none | label speakers, translate | partial answers | every segment is kept |
| Sources (`sources/*`) | scratch directories, one decode | classify, fetch, decode | a limit, a stop or the deadline while a child and a thread are anywhere | audio is handed out whole or not at all |
| Rendering and publication (`render/*`) | output files | render, publish without clobbering, reuse on resume | check-then-rename, several formats failing in part | no foreign file is overwritten; a set of formats is all or named |
| Retrieval and service profile (`core/retrieval.py`, `core/service.py`) | none | page, search | boundaries of pages | pages partition the transcript |
| Batch and CLI (`core/batch.py`, `cli.py`) | results per item | run items | one item fails | the others are unaffected |
| HTTP and MCP adapters (`adapters/http_server.py`, `adapters/mcp_server.py`) | rate-limit buckets | routes | expiry and capacity of buckets | no client is limited for another's requests |
| Binding, paths, privacy (`core/bind.py`, `core/paths.py`, `core/privacy.py`) | none | decide on addresses and paths | none | stateless |
| UI ownership (`ui/ownership.py`, `ui/launcher.py`) | lock, identity and record files | acquire, discover, release | crash, stale files, a probe beside an acquire | at most one live owner, and discovery names that one |
| UI server (`ui/app.py` and others) | capability, uploads, shutdown watcher | routes, uploads, stop | the stop while work runs | the upload cap holds |
| Transcript cleanup (`ui/cleanup.py`) | one row per job with a lease | start, run, status | a run that outlives its lease | the last result is the newest run's |
| Browser client (`ui/static/*.js`) | poll timers, generations | poll, load, stream | late answers | a page shows the job it watches |

How they meet: adapters call `core/submission.py`, which writes the store and
admits to the executor; the executor's threads run `core/runner.py`, which calls
the pipeline (sources, engine, postprocessing, checkpoint, render) and lands a
verdict in the store; clients poll the store and read checkpoints and outputs;
`core/startup.py` runs once before the first admission. Streaming is a second,
independent path: WebSocket, session, child. They share only the process and its
shutdown, which cancels the sessions before it drains the pool.

PROJECT.json lists every component with what is modelled of it, and every
hazard at its line.

## Plan

Written so far, in this order:

1. `JobStore`, `JobLifecycle`, `JobExecutor`: the durable job, which is the heart
   of the program. `JobLifecycle` is the abstract promise made about a row,
   `JobExecutor` the whole pool with its callers, recovery and outages, and
   `JobExecutor_proofs` shows that the second implements the first.
2. `DefaultExecutor`: pools as a whole, their replacement and shutdown.
3. `StreamingSession`, `StreamingAudio`: the live session seen from its two
   sides, states and resources on one, frames and clocks on the other.
4. `StreamingConnection`: the socket around a session.

5. `ConnectionLimiter`, `StreamingText`: the leases of all connections, and what
   a session keeps and hands out of its events.
6. `Checkpoint`, `Publication`, `Pipeline`: what a snapshot proves, how a file is
   published, and the runs of one job that rest on both.
7. `WhistleWords`, `Whistle`: the window algorithm and the transcription that
   uses it, over a crash and a resume.
8. `Ownership`, `TranscriptCleanup`, `Proofreading`, `AssetCache`, `Decoding`,
   `EngineCache`, `RequestRate`, `Workspace`: one shared file, row, cache, pipe,
   table or page each.
9. `Pipeline_proofs`, `JobSafety_proofs`, `Services_proofs`: the safety properties
   of the durable job, its pipeline and the smaller parts.

10. `Streaming_proofs`: the same for the sessions, the audio, one connection and the
   leases of all.

11. `SequenceInduction`, `Whistle_proofs`: induction along a sequence, and with it
   the words of a chunked recording, the events of a live session and the edits of
   a segment.

What is left: the parts that are not modelled, of which the batch runner and the
download of a source come first; of the properties that are only model-checked,
`EachWordOnce` is the one whose proof would say most, and it needs a bound on the
errors of the estimates under which the alignment of two hearings is right.

## Conventions

An action is a stretch of code between two points where another thread can step
in: a lock taken or released, a store call, an await, a queue operation. Threads
are program counters (`pc`, `owner`, `phase`); a lock that is held across such
points is modelled by what its holder excludes.

A module contains, beside the code's definitions, a few that nothing uses: each
is a mistake the code could contain (a dropped guard, an order swapped), stated
just before the definition it would replace. PROJECT.json pairs every checked
property with one of them under which TLC finds the property violated.

Deadlock is checked unless the configuration says otherwise, which it does where
the program may really stop: a pool that was shut down, a session that ended.
Symmetry is used in runs without liveness only. All bounds are in the `.cfg`
files; the MC modules add symmetry sets, the inputs that are too large for a
configuration, and the composition. `MCStreaming` and `MCServices` set modules
side by side that share no state: a behaviour picks one of them and leaves the
others as they begin, so that the state space is the sum of theirs.

## Modules and the code

`map` in PROJECT.json gives the lines of every definition.

**JobStore** - the conditional writes of `core/jobs.py` and
`core/sqlite_store.py` as operators on one row: `CanClaim`, `Reopen`, `Verdict`,
`CanBegin`, `Begin`, `Progress`, `CanAcceptCancel`, `AcceptCancel`,
`CanFinalize`, `Finalize`, `Reap`, `Fresh`, `Doomed`. Both stores apply the same
conditions; their one difference that matters, that the memory store hands out
the live row, is the constant `LiveAlias` of the executor.

**JobLifecycle** - what a client may rely on for one row: created, started,
asked to stop, judged once per attempt, reopened under a new attempt.

**JobExecutor** - the pool. Variables: the rows, the queue, the slots, the owned
ids with their attempts, the tokens, the latch, the shutdown flag, and a program
counter with locals for each worker and each caller. Callers submit, resume,
cancel; a worker takes an entry, registers its token, begins the attempt, runs,
lands a verdict, repairs it when the write raised; shutdown queues its
sentinels; startup recovery reaps. `FaultyOps` names the store calls that may
raise, each before or after its write landed. `CanCrash` lets the process die
anywhere and start again over its rows. The pipeline inside a run is its
outcomes: a result, a failure, a stop. Rows that are DONE are left out of what a
resume may have observed, since no claim from DONE is ever granted.

**DefaultExecutor** - the process-wide pool: `get_executor`, `shutdown`, the
replacement of a pool whose shutdown has ended, and the budget of jobs that may
run in the process while an old pool's threads have not returned. A pool is its
queue, threads, and stranded verdicts. `reset_default_executor`, which only tests
call, is left out.

**StreamingSession** - several sessions under the process-wide ceiling. `owner`
is the place of the thread in start, read or finish; `canceller` that of the one
in cancel, which holds `_terminal_lock`; `closed` are the workers whose terminate
was entered; `told` the sessions whose cancel has returned. `Reckless` are the
sessions a cancel may reach before they run.

**StreamingAudio** - one running session. `fed` and `processed` are the two
clocks, `timer` what is left of the chunk deadline, `toChild` and `records` the
two queues, `feeder` and `reader` the places of the two threads. A frame is one
unit of audio, and the child's acknowledgement is abstracted to that unit.
`waits` records how long each frame has waited, for the properties only, and
`faulted` whether the engine erred, its stop included, or the child died. `Overlap` lets feed run
beside a read on a second thread, which the core offers and the adapter does not
do.

**StreamingConnection** - one accepted connection. The client sends any
messages; `received` and `held` are the receiver task, `inbox` its queue, `gone`
its signal; `phase` is the handler; `starter` and `finisher` the threads that go
on when the handler stops waiting for them. Of the core session only its state
and its child remain, and of start its four points: it reads the state, launches
the child, reads the state again, publishes. `CoreKeepsPromise` says whether the
last of them respects a cancel that came behind the look before it, as is
documented, or overwrites it, as is coded.

**ConnectionLimiter** - the two counters of the process and the lease of each
connection, from the guard before the upgrade to the handler's last step.

**StreamingText** - one session from the record in hand to its consumer. `kept`
are the sizes of what was accepted, `chars` and `words` what the budgets were
charged, `queue` what read_event will return, `history` the replay window,
`given` what was read. A record is valid or not as `StreamEvent.from_record`
decides. A cancel may come between reading a record and dispatching it.

**Checkpoint** - operators on a stored record: `Coherent` (from_dict), `Parse`,
`SameOptions`, `CanResume`, `StageCompleted`, `MetadataOnly`. Words are abstracted
to the version of the recording they were heard in and the stages applied to
them.

**Publication** - one file of one format: what is there (nothing, ours, theirs;
its words and stamp), `IsOwnPublication`, and the exclusive link with its
fallbacks.

**Pipeline** - runs of one job: `Launch` (claim and choice of the record), `Open`,
`Fetch`, `Extract`, `Core` (a partial snapshot of the engine), `CoresDone`,
`Recheck`, `Diarize`, `Translate`, `Mark`, `Publish`, `Link`, `Finalize`, `Fail`.
The user edits the recording, removes or puts files; the process dies; another
process reaps the row while a run still works. Runs are numbered and a save
counts only while its run owns the row.

**WhistleWords**, **Whistle** - the words of an answer and what becomes of them
(`PlaceWord`, `OwnInCore`, `ReconcileBoundary` with its alignment, `SegmentWords`,
`ValidProgress`), and the transcription around them: a native call with its child
and every way it ends, the gap calls, the snapshot after each window, the run
that resumes from it. The engine is external: it hears every occurrence whose
middle is in the clip, up to a set of errors of its estimates, may skip a word,
and may fail. Time is in quarter seconds.

**Ownership** - launches and discoveries against the lock, the identity inside the
lock file and the record beside it. Every step of a launch may fail, every process
may die, and the OS frees the lock of the dead.

**TranscriptCleanup**, **Proofreading** - the sidecar row with its lease, the runs
that write it, the text of the job changing under them; and the filter on one
segment's correction, with difflib's script as an arbitrary input.

**AssetCache** - one file per asset: absent, good, bad; callers that verify, fetch
to a temporary file, verify and rename; operators who seed by a plain copy.

**Decoding** - ffmpeg (external), the reader thread, and the caller's poll, with
the limits, the stop and the deadline.

**EngineCache** - the engines of a process: the three bounded caches keyed by the
settled configuration, each engine with its lock and its lazily loaded model, and
the users that resolve, load, infer and (for faster-whisper) drain a generator.
An engine the cache forgot lives on with the run that holds it. Whistle starts a
child of its own for each call and takes no lock.

**RequestRate** - the table of request counters with its deferred sweep. A request
is one step: one event loop, and no await between clock and count.

**Workspace** - the page: the source selected, the job on show, rows, hits, the
chains of polls, the outstanding calls and the generation counters. The server
answers anything, in any order.

How they fit: `JobExecutor` uses `JobStore`'s operators and implements
`JobLifecycle`. `DefaultExecutor` abstracts a pool from `JobExecutor`. `Pipeline`
is what `JobExecutor` takes for the three outcomes of a run; it extends
`Publication`, which extends `Checkpoint`, and takes the queue between claim and
start out. `Whistle` extends `WhistleWords` and is what `Pipeline` takes for
`Core`. `StreamingSession`, `StreamingAudio` and `StreamingText` split one class by
question: the first has no frames, the second no cancel, the third no clock.
`StreamingConnection` uses a session by what `StreamingSession` shows of it: cancel
stands, and start and finish return. `ConnectionLimiter` is what surrounds every
connection.

## Runs

| Run | Bounds | What it shows |
| --- | --- | --- |
| `races` | 1 job, 2 workers, 2 callers, 3 attempts, fair | no generation is started, stopped or failed by a caller or run that does not own it; every live job gets a verdict; shutdown ends every thread |
| `outage` | 2 jobs, 1 worker, 1 queue slot, 1 row, 2 callers; every store call of every thread may raise before or after its write; crashes | slots, tokens and latch add up; nobody but a caller who was told of the fault leaves a live row alone; every row follows the abstract lifecycle |
| `streaming` | sessions: 2, 1 slot, one of them cancelled at any moment; audio: 4 frames, queue of 3, 8 records, deadline of 2 ticks; connection: 4 messages, inbox of 2; limiter: 3 connections, 2 and 2 slots; text: 4 events, queue and window of 2 | no slot or child outlives its session; a cancel stands; a correct child is accepted, a silent one noticed, a finished session complete; audio is accounted for; a hangup is acted on and ends the session; counters match leases; no consumer has a hole it cannot see |
| `resume_pipeline` | 2 runs behind an older record, 2 blocks, 2 formats, 1 edit of the recording, 1 foreign file, 1 removal | saved work only grows and is not repeated; words are of one recording and of the request; DONE means published; a refusal is for a foreign file only |
| `whistle_windows` | 3 windows, 2 runs, 1 skipped word, estimates off by up to 3 ticks | each word spoken once is kept once; words are in order and playable; every native call ends |
| `services` | 3 pools of 2 threads and 3 jobs; 2 launches and 1 discovery; 2 servers, 2 transcripts, 5 ticks; scripts of 3 stretches and edits of at most 3 and 1 tokens, 2 flags; 2 assets, 2 installers, 1 seeder; a decode of up to 3 chunks; 2 users, caches of 1, 4 engines built; 3 peers, a table of 2, 7 ticks; 3 sources, 4 acts on the page | one concurrency bound for the process and no stranded verdict dropped; a process that serves keeps its record, and a discovery names one that held the lock since the search began; one cleanup at a time, of the text on show, with the unsure spans kept; only pinned bytes are handed out; audio whole or not at all; one inference at a time on a model, an engine loaded once; a peer is turned away only by live ones; the page shows the job it watches and goes on following it |

Why these bounds: a race of the job core needs a first generation, a second that
supersedes it and a third to expose an ABA. Two callers suffice since a call that
has returned may be followed by another. Two jobs matter only where jobs compete:
for the slot, the worker, the row capacity, the latch. A pool can be replaced
while its predecessor still drains, so three pools show a replacement of a
replacement. Sessions meet only in the registry; two of them and one slot fill
and refuse it. In the audio model four frames exceed the queue of three, and the
record queue is long enough never to overflow (see below for what happens when it
does). The handler consumes messages one by one and distinguishes six kinds; four
with an inbox of two allow a start, audio, a finish and something behind it. A
pipeline needs one run that leaves something and one that takes it up, and the
first may find a record of a still earlier one: finished under an older version of
the format, or with one block of text. Three windows have a boundary with an owner on both sides that
was itself moved. In `services` each part has two actors that collide and, where
order matters, a third that observes; the table of two counters is full with a
third peer outside; the clock passes two deadlines.

### Runs that refute a statement of the repository

| Run | Statement | What happens |
| --- | --- | --- |
| `stale_queue_entry` | a stale queue entry cannot start a newer generation (`runner.py:73`) | on the memory store an overtaken resume reads the newer attempt off the live row |
| `connection_resurrects` | a cancel during start is not resurrected (`streaming_ws.py:791`) | start overwrites a cancel that comes behind its last look at the state: the connection is closed, the child is gone, and the session says running |
| `limiter_cap` | the handshake bound does not double as a connection cap (`streaming_ws.py:390`) | an authenticated stream keeps its handshake slot |
| `resume_options` | a stage finished under another target is redone (`pipeline.py:225`) | the first save of a resume puts the new target beside the old words |
| `whistle_resume` | a prior snapshot is reused (`whistle.py:1008`) | a reconciled word ends past its segment, and the resume refuses the snapshot |
| `workspace_media` | a timestamp seeks in the media of its transcript (the finding quotes the lines) | the rows of a transcript that arrives after another file was selected seek in that file |

### Known not to hold, and not claimed

These were met while modelling. A constant or a bound of the passing runs keeps
each out of the way, or the model takes the code as it is and no property claims
otherwise.

- *Live rows on the memory store.* With `LiveAlias = TRUE` the clean-up of a
  refused resume, too, fails the row another caller reopened, against
  `submission.py:332-338`: it takes its attempt from the same late read as
  `stale_queue_entry`.
- *A fault told to a caller.* A create that landed and raised, or a save or a
  clean-up that raised, leaves a live row without anybody to end it until the next
  start reaps it (`docs/architecture.md:361` promises a latch for lost verdicts
  only). `NoSilentOrphan` allows just that.
- *A cancel during start.* For a session in `Reckless`, `CancelStands` and
  `TerminalStands` do not hold: start's last test of the state (`streaming.py:488`)
  and its assignment (`:496`) are two steps, and a cancel between them is
  overwritten. `streaming.py:453` and `docs/streaming.md:318` say otherwise. The
  child is not left behind: the cancel that comes between ends it, and for one
  that comes before the launch and finds no process, start's second look does;
  that is why `NothingLeaks` holds even so. `connection_resurrects` shows the
  overwrite one level up, with `CoreKeepsPromise = FALSE`, where nobody is left to
  cancel the session again.
- *Feed beside a read.* With `Overlap = TRUE` a frame is with the child before it
  is counted, so an acknowledgement may come too early (`streaming.py:519-526`),
  and the deadline is compared and then cleared, so it may be cleared for a frame
  that came in between (`streaming.py:969-976`).
- *A constant lag.* The chunk deadline is armed for the first frame since the
  child was last level and not renewed by progress, so a child that is always one
  frame behind is failed as stalled; `docs/streaming.md:218` describes the age of
  the oldest outstanding frame. `HonestChildAccepted` excludes the reason
  "stalled" for this.
- *A full record queue.* With `MaxRecords = 4`, `FinishedIsComplete` fails: the
  end-of-output sentinel replaces the oldest record (`streaming_process.py:438-446`),
  and when that is an event before "done", finish succeeds without it.
- *A receiver behind a full inbox.* With `MaxInbox` too small for what the client
  sends while start or finish blocks the handler, `PromptRelease` fails: the only
  task that watches the socket waits for room (`streaming_ws.py:582-584`, `692`).
- *An event a full queue refuses.* It is in the transcript and the window already,
  and the session ends over it; `NoUnseenHole` names that one exception. A failed
  finish sets no sticky failure, so a later read returns nothing instead of
  raising.
- *The re-check of a local recording.* It compares identity, size and times before
  and after the transcription; a recording changed and changed back in between is
  not seen, and a resumed diarization fetches the recording again without a
  re-check. Edits of the model are never undone.
- *A word that crosses starts within one answer.* Two words of one answer whose
  starts are reversed may lose one at the sort of the seam (`whistle.py:1179`);
  answers are ordered in the model. Repeated neighbouring tokens are documented as
  ambiguous, so `EachWordOnce` is about words spoken once.
- *The record of a dead server.* Between a crash and the next publication a
  launch holds the lock before it wrote its identity, and a discovery can return
  the dead URL (`ownership.py:53-55` says never); the record is written before the
  server serves, though the module's text says after. `DiscoveryIsExact` is about
  records whose identity was read from the holder. A discovery's probe holds the lock for a
  moment and can refuse a launch though nobody owns the database.
- *A cached file without its execution bit.* The rename precedes the chmod
  (`whistle_assets.py:410`), so a crash between them, or a seeded binary, leaves it
  without; permissions are not modelled. A cached file that fails verification is
  refused, online too, where the docstring (426-428) says it is fetched again.
- *Two chains of polls.* Reopening the job on show starts a second chain of polls
  beside the first, where `app.js:13-15` says polling is single-flight per job.

## Fairness

`races` assumes weak fairness of each worker thread, of the callers' steps inside
a call, and of shutdown: they are operating-system threads that wait only in queue
operations with a producer or in bounded joins, and a pipeline that returns. New
calls are not fair. In `streaming`, start, finish, terminate and cancel go on past
their waits, each of which has a deadline in the code; the owner of the audio
keeps reading and time passes, while the child need do nothing; of a connection
only the event loop is fair, and `ConnectionEnds` says what follows if the timers
fire (`TimersFire`) and both threads return and are answered (`ThreadsReturn`),
which their own deadlines give. `whistle_windows` assumes that the poll of a native
call goes on until its deadline; the child need do nothing. The other
runs state no liveness: the second half of `PageFollowsWatched` is the safety that
stands behind one, a poll or a timer always pending for the job on show.

## Proofs

A theorem holds for every value of the constants within the named assumptions of
the modules: finite sets of ids, threads and callers and positive limits
(`ExecutorAssumption`, `MaxRowsAssumption`, `DefaultExecutorAssumption`,
`SessionAssumption`, `AudioAssumption`, `TextAssumption`, `BoundsAssumption`), a
recording that lasts some time and says words at some time (`DurationAssumption`,
`RecordingsAssumption`), no format requested twice
(`FormatsAssumption`: `submission.py` refuses it), owners that can be told apart
(`OwnersAssumption`), and names that are not each other (`ServicesAssumption`). TLC
evaluates each of them. A hypothesis beyond these is in the theorem, and named
below with the reason why it is there.

- **Types and ownership** (`JobExecutor_proofs`): `TypeCorrect` and `OneOwner`.
  `OneOwnerPerJob` is not inductive: it needs to know which worker places hold a
  job, that an entry in the queue is owned, and that a caller between its
  reservation and its put holds neither. `OwnerInv` states just that.
- **Refinement** (`JobExecutor_proofs`): `ExecutorImplementsLifecycle`,
  `VerdictsStand`, `StopsAreHonoured`, `TokensAreNotStray`. `RefInv` says that
  the attempt any thread remembers is never ahead of the row's and never that of
  a queued row, and that a tripped token belongs to an accepted cancellation.
  Each step of the pool then maps to a step of `JobLifecycle` on one row, or to
  none. Outages and crashes are included.
- **The books of the pool** (`JobSafety_proofs`): `BooksBalance` (slots, tokens and
  latch) and `NoOrphans` (`NoSilentOrphan`). `SafeInv` adds to `RefInv` what it
  takes to follow an attempt from the claim that made it to its verdict: who has
  it on record (`Recorded`), what a call may believe of its claim (`Claimed`), who
  is inside admission while a fault is latched (`Locked`), that a latched id is out
  of the queue and only with threads that clean up (`Settling`), which thread still
  runs a running row (`RunningMinded`), and what a thread that cleans up may leave
  behind (`LeftBehind`). A live row is then minded by a call, a queue entry, a
  thread or the latch, and each step hands it from one to the next; the only steps
  that drop it are those that raise in a caller's face.
- **Claims and generations** (`JobSafety_proofs`): `RunsStartOwnClaim` and
  `RefusalsSpare`, from `GenInv`: the attempt on record for a queued id is the one
  its entry carries, and a call reads back the attempt its own claim wrote. Both
  are about stores whose rows are detached (`~LiveAlias`); with the live rows of
  the memory store they are false, which `stale_queue_entry` shows.
- **Stops** (`JobSafety_proofs`): `StopsReachTheirRun`. A run whose row has an
  accepted stop of its attempt has its token tripped (`TripInv`), and the other way
  round. The acceptance must not itself raise (`"accept" \notin FaultyOps`): one
  that raised after its commit is on record with no token tripped, and the run
  learns of it when it tries to finalize (`StopsAreHonoured` needs no hypothesis).
- **The abstract lifecycle** (`JobLifecycle_proofs`): never DONE or PENDING with
  an accepted cancellation; one verdict per attempt.
- **Pools** (`Services_proofs`): the invariant is the order of pools: only
  the newest admits, older ones are shut, and one that was replaced has neither
  threads nor stranded verdicts. `ConcurrencyBound` sums over pools from there.
- **The runs of a job** (`Pipeline_proofs`): a run saves whatever it learns in the
  step that it learns it, so the record of the run that owns the row is that run's
  knowledge (`InStep`), and what is true of every run's knowledge is true of the
  record, hence of what the next run is handed. `Known` says what a run knows at
  each of its places, `Kept` that words are marked, supersede the blocks and are of
  the fingerprinted recording: together `Core_IInv`, from which follow
  `StoredRecordIsCoherent` and `NoSaveLosesWork`, for any mixture of requests.
  Under one request (`SameRequest`: `submission.py` makes a resume repeat the
  request it resumes, and `resume_options` shows what another one does), `Tagged`
  and `Asked` tie marks and labels to what was asked: `NothingIsRedone` and
  `WordsAreAsRequested`. `Printed` says that what a live run has published is its
  rendering of its words, `Finished` that this is so for a finished job:
  `FinishedIsPublished`, for any requests and with others writing to the directory.
  `Consistent` adds that, while no row was reaped under a working run, every file
  of ours is of the words on record and final: `OnlyTheirsRefuse`, again under one
  request.
- **Sessions** (`Streaming_proofs`): a per-session invariant of three
  parts (where a child may be alive, what state goes with each place of the two
  threads, when the slot is held) and the fact that a step of one session leaves
  the others alone. `CancelWins` and `TerminalIsForGood` are about the sessions
  outside `Reckless`.
- **The audio of a session** (`Streaming_proofs`): `FinishedHasHeardAll` and
  `HonestChildStands`. `AudioInv` counts every frame on one side of the child
  (`FeedInv`), every event on one side of the reader (`ReadInv`), the records that
  can be in the queue (`RoomInv`), and says what the record at each place of the
  queue is, by how many were taken before it (`RecordsInv`); `HonestInv` fixes the
  whole sequence for a child that did not err. The argument puts no limit on the
  number of frames; what it needs is `Roomy`: the record queue has four places more
  than the frames that feed lets wait. That is the code's own back pressure (5 s of
  audio, `streaming.py:107`, against 128 records, `streaming_process.py:69`) for
  frames of 41 ms and more; a caller who feeds smaller ones and never reads can
  fill the queue, and then the first theorem is false (see *A full record queue*).
  The second also needs feed and read not to overlap (`~Overlap`), as the
  connection drives them.
- **One connection** (`Streaming_proofs`): `FinalAnswersAllAudio`. The messages are
  numbered; `InboxInv` says that the inbox is the stretch of them behind those that
  were taken, `TakenInv` and `HeardInv` that what was taken is the start, then the
  audio that was fed, then the finish; `AnswerInv` ties a final answer to a session
  no cancel reached.
- **The leases** (`Streaming_proofs`): `LeasesAddUp`, for any connections: each
  counter is the cardinality of the connections whose lease is out (`Counts`).
- **The text of a session** (`Streaming_proofs`): `NothingIsMissedUnseen`. Events are
  numbered as they are accepted. `BudgetInv` says that what the budgets were charged
  is the size of what was kept, `HistoryInv` that the window is the last events
  without a gap, and `QueueInv` that what was given and what is queued are all of
  them in order, around the one sentinel a cancel may leave and short of the one
  event a full queue refused, which ends the session.
- **Sequences** (`SequenceInduction`): a set of naturals has a least element, so what
  holds of the empty beginning of a sequence and of each beginning one longer holds of
  all (`AlongASequence`); a recursion along a sequence has a solution (`StepByStep`),
  which makes the values of the recursive functions of the models known place by
  place, and those of `FlattenSeq` with them (`Flattening`, `FlattenConcat`,
  `EndsOfPieces`, `ElementsOfPieces`: where each piece of a joined sequence lies).
  What is proved of words, events and edits rests on it.
- **The words of a chunked recording** (`Whistle_proofs`): `WhistleInvariant`: every
  word that a run holds anywhere is one that was spoken and lasts some time within
  the recording (`Playable`), and the words of its progress start in order. The
  lemmas say of each operator, the placing of an answer, the reconciliation, the
  moving of starts, the segments and the seam, that it keeps this; the alignment
  enters as any pairing at all. `TranscriptsPlay` follows, for any recording, any
  estimates and any number of windows and runs, and `NothingOfOtherAudio`, which is
  the last conjunct of `EachWordOnce` in every state.
- **The parts of a process** (`Services_proofs`), each with its own invariant, which
  the steps of the other parts leave alone:
  `CacheHoldsPinnedFiles` (a spoiled file has a seeder that began to copy it; a
  file a caller resolved stays); `DecodeIsWholeOrNothing` (what came out of the
  child is in the file or in the pipe, unless the reader failed; where child, thread
  and caller are of one another); `CleanupsExcludeEachOther` (the lease in the row
  outlasts the request behind it, so no other may begin);
  `ShownCorrectionsAreOfThisText` (a row is ended as done only by the run that opened
  it, so what it then holds corrects the text whose hash it has); `DiscoveriesAreExact`
  (what a discovery has read is of an owner it knows; only the holder of the lock
  writes beside it); `FullTablesAreLive` (the remembered bound is at most every
  expiry, and a sweep relearns the earliest); `OneRunForEachModel` (a cache holds
  one engine of a configuration, an engine loads under its lock, a user that works
  holds it); `PageFollowsItsJob` (the timer that `stopPolling` clears is one that is
  out, and a submission of the present selection is of its source);
  `FlaggedSpansStand` (both texts are pieces joined, the same pieces wherever an
  edit touches a guard, so each piece near a flag lies as far from its old place as
  the piece that holds the flag: `SameShift`, `KeptAround`), for scripts of any
  stretches and edits of any length and any flags.

Only model-checked, and why:

- all liveness (`LiveJobSettles`, `ShutdownDrains`, `EndedReleases`, `StallIsNoticed`,
  `PromptRelease`, `ConnectionEnds`, `CallsEnd`): out of the prover's reach;
- `EachWordOnce`: it does not hold for every value of the constants. Two hearings of
  one word are paired only when their starts or their ends are within 0.8 s
  (`whistle.py:1342`); with estimates off by 3 ticks to either side TLC finds the
  word kept twice or not at all. So it depends on the errors of the estimates
  (`Jitters`), and on which of the best alignments is taken.

## Not modelled

PROJECT.json gives the reason per component. In short: formatting and rendering of
output, detection and download of sources, model inference, command lines, paging,
binding, paths and privacy, packaging and scripts are input, output, layout or pure
functions. Within modelled parts:

- the transaction of a store write is one step (with its failure before and after
  it), and columns that decide no guard are absent;
- of the streaming path, byte framing, stderr and the shape of a record beyond
  valid or not;
- of the pipeline, engines without partial snapshots are the case of one block;
  plain paths skip the save after a fetch on a resume, which changes nothing a
  property sees;
- of the Whistle engine, the cutting of WAV files and the checks of their headers,
  telemetry settings and the cache of a loaded model;
- of a decode, a file left by an earlier one, the stderr thread, and a kill that
  fails; a killed tool is taken to end within the five seconds its threads are
  joined for;
- of the cleanup, a clock that stops while the machine sleeps, and the validation
  of saved spans in status; a tick is about two hundred seconds and each request
  may wait its limit twice;
- of the page, cancel, download, the stop dialog and the capture of live audio.
