# IO-III runtime: TLA+ models, checks and proofs

IO-III is a local runtime around language models: a command line and two HTTP
servers in front of a bounded execution core. This directory holds TLA+ models
of the parts of it whose behaviour depends on order, failure and persistence,
the TLC configurations that check them on small instances, and TLAPS proofs of
their properties. Paths below are relative to the repository root; "the code"
is `src/io_iii`.

## 1. Inventory

| Component | State it keeps | Operations | Works with |
|---|---|---|---|
| Steward gate (`core/session_mode.py`) | thresholds of runtime.yaml, the session's mode | `evaluate_thresholds`, `StewardGate.check` | asked by `run_turn` after each turn |
| Dialogue session (`core/dialogue_session.py`, `cli/_session_shell.py`) | one JSON file per session, `<id>.session.json`; a copy of it in each request | start, continue (with approve, redirect or close on a paused session), status, close; `run_turn`, `save_session`, `load_session` | the gate, the orchestrator, the file store, the disk |
| File store (`core/file_store.py`) | references of uploaded files, in memory only | store, resolve, delete | upload endpoint, `run_turn`, close |
| Runbook runner (`core/runbook_runner.py`, `core/runbook.py`) | outcomes, lifecycle events and counters of one run | `run`, `run_with_context` | one orchestrator call per step |
| Replay and resume (`core/replay_resume.py`) | one checkpoint file per run | `replay`, `resume` | the runner, the disk |
| Engine (`core/engine.py`, `core/engine_observability.py`) | phase, trace, events, counters of one run | `run` | routing, capabilities, providers, challenger |
| Failure model, execution trace, session state, content safety | pure values of one run | `classify_exception`; `TraceRecorder`; `validate_session_state`; `assert_no_forbidden_keys` | the engine and its callers |
| Orchestrator and the commands `run` and `capability` (`core/orchestrator.py`, `cli/__init__.py`) | a metadata log | checks before a run, the run, a record and an answer after it | the engine |
| Routing and constellation (`routing.py`, `core/constellation.py`) | none | `resolve_route`, `check_constellation` | engine, commands |
| API transport (`api/app.py`, `_bus.py`, `_webhooks.py`) | event log of each session, open streams | endpoints, streams, webhooks | the commands, through captured stdout |
| Standard-library server (`api/server.py`, `_handlers.py`, `_sse.py`) | none | handlers on one thread, a stream that runs a turn, webhooks | the session functions directly |
| Memory (`memory/`) | a file per record, with a version | `memory write` with confirmation, packs, the retrieval policy, loading for a turn | command line, `run_turn` |
| Context assembly, snapshot, portability, preflight | none, or one file in and out | pure functions | orchestrator, engine, command line |

`PROJECT.json` lists every component with its sources and status, and every
hazard at its line.

### How they interact, and what is hard

* **A session is a file that everybody rewrites whole.** Every request loads
  it, works on its own copy (for as long as a model takes to answer) and
  writes the whole of it back. The FastAPI app runs its `def` endpoints in a
  pool of threads, so requests for one session overlap; all of them save
  through the same temporary file `<id>.session.tmp`. ADR-024 declares
  concurrent session considerations out of its scope (line 372) and ADR-025
  calls the server "not designed for high concurrency" (line 174): the models
  therefore check both what holds for one request at a time and what is left
  of it when requests overlap.
* **The process may stop anywhere.** The session file outlives it, requests in
  flight and the file store do not. A command that approves a paused session
  has two saves with a turn in between.
* **Pauses.** The gate is asked after a turn was counted, with the index the
  turn had; the turn ceiling is tested after it and overrides it.
* **Failures inside a turn or a step** are followed by a save or by a
  checkpoint: what these contain decides what a retry or a resume does.
* **Chains of resumes.** A resume writes a checkpoint of its own, in which
  some fields count from the start of the slice and others from the start of
  the runbook; it may itself be resumed.
* **One run is told five times**: as trace steps, lifecycle events, counters
  of the returned state, an envelope on the exception and a metadata record.
  Each is filled on other paths; the envelope is computed from a `_phase`
  variable that the code sets on some of them.
* **A capability has a thread of its own.** `fut.result` gives up after the
  timeout, and leaving the executor's `with` block then waits for the thread.
* **Answers go through `sys.stdout`,** which the ASGI server replaces for the
  whole process while it runs a command; what a command printed decides what
  the server publishes and which webhook it sends. Some commands print before
  they save.
* **Two servers, three routes to a turn.** `session start` with a prompt,
  `session continue` and the other server's stream each run a turn with
  checks, saves and announcements of their own.
* **Memory records are files without locks**, written by commands that wait
  for a user's answer, and read one after the other by a turn.

What makes each modelled component correct:

* session: the file is always readable; a reported turn is never lost; no turn
  passes the gate without an approval; a pause ends by an action only; closed
  is final; a turn that failed changes nothing; every record is coherent (its
  counter, history, status, ceiling and gate agree);
* runner: fail-fast (ADR-014), events in ADR-015's order, counters that agree
  with the events, steps chosen by the context alone, and an end;
* replay and resume: success means that every step was completed somewhere in
  the chain, a checkpoint promises no more than was done, an invocation that was
  killed can be tried again,
  and a reported outcome is a recorded one;
* engine: the bounds of ADR-009 and ADR-012 on model calls, ADR-013's order of
  events, a trace that is never left open, an envelope that names the place
  where the run failed, counters, steps and calls that agree, and a capability
  that comes before any model or fails the run;
* transport: a client is told what the file holds; the end of a session is
  announced when it comes and only then; streams repeat the event log from its
  beginning, in order, to its end; whatever route a turn takes, the session
  keeps its lifecycle;
* memory: a turn is given exactly the records its route may see, and a write
  that nothing overtakes raises the version by one.

## 2. Modules

| Module | What it models |
|---|---|
| `StewardGate` | the thresholds and the gate as pure operators |
| `SessionLifecycle` | abstract: status, mode and history of a session, without files, requests or crashes |
| `DialogueSession` | the session file, the requests that act on it, saves step by step, the file store, restarts; implements `SessionLifecycle` |
| `FailFast` | abstract: the promise of ADR-014 |
| `RunbookRunner` | one execution of a plain or conditional runbook; implements `FailFast` |
| `ReplayResume` | replays and resumes of a run and the checkpoints they leave |
| `Routing` | `resolve_route` with its fallback, and the constellation check, as operators |
| `FailureModel` | `classify_exception` as an operator |
| `ExecutionTrace` | the trace's life cycle as operators |
| `BoundedRun` | abstract: which models a run may call, in which order, and that it ends once |
| `Engine` | one governed run from its caller's checks to its metadata record; uses the three modules above; implements `BoundedRun` |
| `Transport` | both HTTP servers around a session: captured answers, event log, streams, webhooks; implements `SessionLifecycle` |
| `Memory` | memory writes and the loading of a pack for a turn |
| `MCSession`, `MCReplay`, `MCEngine`, `MCTransport`, `MCMemory` | values of constants and symmetries for TLC |
| `DialogueSession_proofs`, `SerialSession_proofs` | theorems about `DialogueSession`, in general and for one request at a time |
| `RunbookRunner_proofs`, `ReplayResume_proofs`, `Engine_proofs`, `Memory_proofs` | theorems about the module of that name |
| `Transport_proofs`, `SerialTransport_proofs` | theorems about `Transport`, in general and for one request at a time |

Definitions of the form "Mutant: ..." are variants of the definition that
follows them with a plausible mistake in it. No specification uses them; each
shows that the property named in `PROJECT.json` is violated if the code had
that mistake.

### DialogueSession

One session. `json` and `tmp` are its two files: absent, a session record, or
torn (`Empty` after the truncation, `Garbled` when two writers overlapped).
A session record keeps the fields that decide something: mode, turn count,
ceiling, status and the turns with their index and run id. Prompts, persona
modes, timestamps and latencies are left out.

A member of `Clients` is a request in flight, a thread of the server. `pc` is
where it stands, `sess` its own copy of the session, `then` what its command
does when `save_session` returns, `file_ref` the reference it carries and `fd`
where the file it has open for writing is now.

| Action | Code |
|---|---|
| `SessionStart`, `SessionContinue`, `SessionClose` | the commands up to their first save or to their turn; `session status` reads only |
| `TurnNotBuilt` | gate, dependencies or continuity memory cannot be built: the exception escapes the command |
| `TurnRefused`, `TurnRefExpired`, `TurnRaises`, `TurnRuns` | the four ends of `run_turn` and the handlers around it; the engine run inside is atomic and returns or raises |
| `SaveOpen`, `SaveWrite`, `SaveReplace`, `SaveFails` | `save_session`: `write_text` truncates, then writes; `replace` renames; an `OSError` at any of them |
| `Cleanup`, `Upload` | the file store |
| `Restart` | the server stops and starts again |

An open file follows its inode: when another request renames the temporary
file, a writer that has it open goes on writing into what is now the session
file. `fd`, `AfterRename` and `Overwrite` model this; a document written over
another one may leave a tail of the longer one behind.

`runs`, `tokens`, `acked` and `approvals` are history variables: engine runs
so far (run *k* has run id *k*), tokens used, the runs a client was told are
turns, and the saved approvals. `RunBound` bounds engine runs and with them
the state space. `Overlap` says whether a request may begin while another one
is in flight; one model serves both questions. The mapping to
`SessionLifecycle` (`Lifecycle`) reads status, mode and history out of `json`;
a file that is torn keeps what it last held.

### RunbookRunner

The loop of `run` and of `run_with_context`, which differ in three places:
the conditions (absent in `run`), the skips, and the way `steps_completed` is
counted; `conditional` chooses between them. A step is one orchestrator call,
which returns or raises, with or without a `RuntimeFailure`. Events keep their
name and step index. Which runbook, conditions and context is chosen in `Init`.

### ReplayResume

Each member of `Runs` is one invocation of `replay` or `resume` on the run id
of the original run or of any other invocation, so chains and trees of resumes
arise. Reading and checking the checkpoint is one action (`Refused`, `Begin`),
each step of the slice another (`StepCompletes`, `StepRaises`), and the write
of the terminal checkpoint a third (`WriteCheckpoint`, `WriteFails`): its
temporary file is its own, so that it appears whole or not at all. `Killed`
ends an invocation between any two of them.

No code of the repository writes the checkpoint of an *original* run (the
runbook command writes none). It is an input: any file ADR-019 describes, a
damaged one, or none. `Damaged` stands for a file that fails the checks on
parsing, schema and identity. `covered` is a history variable: the steps that
were completed by a run or by the runs it resumes.

### Engine, with Routing, FailureModel and ExecutionTrace

`task` is what a caller asks for (which of the three callers, whether an audit
is wanted, how many capabilities are declared, and the flags its checks
depend on), `cfg` a routing table with a set of enabled providers. Both are
chosen in `Init`; everything else is the state of one run. Prompts, texts,
hashes and durations are left out: a model call answers or raises one of the
errors the code tells apart (`ProviderFailure`).

| Action | Code |
|---|---|
| `EngineRuns`, `Refuses` | the checks of `orchestrator.run`, `cmd_run` (constellation, health check, payload) and `cmd_capability`, and the first event of `engine.run` |
| `PayloadInvalid`, `LookupFails`, `InvokeCapability` | the capability block up to `executor.submit` |
| `CapabilityEnds` | the capability's own thread |
| `CapabilityReturns`, `CapabilityFails`, `TimesOut`, `LeavesExecutor` | `fut.result`, its timeout, and the exit of the `with` block, which waits |
| `Dispatch`, `NullProviderRuns` | the reset of the phase, `route_resolved`, the null provider |
| `Prepares`, `PrepareFails`, `LimitExceeded` | provider construction, context assembly, the size check |
| `ProviderAnswers`, `ProviderFails` | the executor's call |
| `ChallengerSkipped`, `ChallengerAnswers`, `ChallengerFails` | `_run_challenger` under the audit limit |
| `Revises`, `RevisionFails` | the one revision |
| `Finishes`, `ResultForbidden` | the result and its last check, which comes after `trace.complete()` |
| `HandlesException` | the `except` block: trace, envelope, `engine_run_failed` |
| `OrchestratorEnds`, `RunCommandEnds`, `CapabilityCommandEnds`, `PrintFails` | the callers after the engine: validation of the state, metadata record, answer |

`exc.at` is a history field: where an exception was raised. The envelope never
reads it; `FailureNamesPlace` compares the two. `Configs`
may hold any routing tables, so that both roles' routes can be direct, a fallback, null, or an error.

### Transport

`server` says which of the two servers runs. `session` is what the session's
file holds: status, mode and number of turns (how a save reaches the disk,
torn files and restarts are `DialogueSession`'s). A member of `Clients` is a
request; `pc` takes it from its arrival through redirection, command, turn and
restoration to what is published and sent afterwards. `stdout` and `saved`
are `sys.stdout` and what each `redirect_stdout` found there; `buf` is what was
captured for a request, as documents of which `by` is the request that printed
them (a history field: the answer cannot tell). `log`, `conn`, `got` and
`batch` are the event bus and its streams; `hooks` counts webhooks when they
are dispatched.

| Action | Code |
|---|---|
| `Arrive`, `Redirect`, `Restore` | the endpoint up to `_invoke`, `redirect_stdout`'s entry and exit |
| `Start`, `ContinueApproved`, `ContinuePaused`, `ContinueUnpaused`, `Close`, `State`, `StreamTurn`, `RunOrRunbook`, `NotLoaded` | the commands and the handlers of the other server, up to their turn or their end |
| `TurnRefused`, `TurnRaises`, `TurnNotBuilt`, `TurnRuns` | the ends of a turn, each with the order of answer and save it has; a save may raise in all of them |
| `Publishes`, `Announces` | what `app.py` publishes and dispatches after `_invoke` |
| `Reply`, `Dispatches` | what `server.py` sends and dispatches; the client may be gone |
| `Poll`, `Send`, `Leave` | `generate()` of `api_session_stream` (app.py) and a client that disconnects |

`Overlap` has the meaning it has in `DialogueSession`, for the ASGI server; the
other one serves one request after the other by construction.

### Memory

One scope. `file` and `tmp` are each key's record and temporary file. A writer
is a `memory write` command: it asks, is confirmed, reads the record, writes
the temporary file and renames it, and may be denied, fail or be killed at any
of these points (`WriteStops`). `race` says whether two writers may be between
their read and their rename at once. A turn's loading reads the keys of its
pack one file after the other (`LoadReads`) and filters them by the policy
(`LoadFilters`), while writers go on. Values and provenance are left out.

## 3. Runs

| Run | Instance | What it shows |
|---|---|---|
| `session_serial` | 1 request at a time, ceiling 3, `step_count` 2, one file reference, at most 5 engine runs | a session used by one client, with saves that fail and stops at any point: the file stays readable, no turn is lost or passes the gate, and the file goes through `SessionLifecycle`, where closed is final |
| `session_overlap` | 2 requests in flight, ceiling 2, `step_count` 1, at most 2 engine runs, symmetry | records stay coherent under every overlap and restart, though the file may be torn |
| `runbook_runs` | all runbooks of up to 3 steps, plain and with conditions over two keys and two values | result, order of events, fail-fast refinement, termination |
| `replay_chain` | 3 invocations, 3 steps, symmetry | chains of resumes cover the runbook and go on exactly where they stand (`ResumeContinues`), what a kill loses can be tried again (`RetriesLoseNothing`), checkpoints can be read back |
| `engine_runs` | every task of every caller (`EveryTask`) over routing tables that reach every outcome of both roles' routes (`EveryConfig`), every step failing in every way | events, trace, result, envelope and log record tell the same story; the bounds of `BoundedRun`; a draft is reviewed by its own model only where a fallback decided; every run whose capability returns ends |
| `transport_serial` | both servers, one request at a time, at most 4 of them, ceiling 2, a gate that fires after every turn, one stream | answers are true, endings are announced exactly when they come, streams are complete and in order, the lifecycle is kept |
| `memory_writes` | 2 writers, 2 keys, at most 2 writes, 4 packs, 2 policies, with and without races, symmetry | a turn gets exactly what its route may see; versions rise by one |
| `session_budget`, `replay_retries`, `engine_trace`, `engine_collapse`, `transport_crossed` | as above or smaller | a sentence of a document or comment that the code does not keep; section 5 |

Why the bounds are enough.

* Session: with a ceiling of 3 and `step_count` 2 there is a turn before the
  pause, the pause, the turn after the approval and the ceiling behind it;
  five engine runs allow for turns whose save is lost and which are run again.
  With two overlapping requests every pair of load, save and rename is
  interleaved; a third request adds a third copy of the same stale record.
* Runbooks: three steps let a conditional run skip, run and fail in each
  position. Three invocations make a chain of three resumes behind the
  original run, the shortest in which a checkpoint written by a resume of a
  resume is read.
* Engine: a run has no loop beyond the one audit and the one revision, and
  tasks and routing tables are all of those whose options the code tells
  apart; two models are enough for a fallback that differs from its primary
  and one that collides with the challenger.
* Transport: four requests reach a start, a turn that pauses, an approval with
  the turn that hits the ceiling, and a request after the end; one after the
  end is what repeats an announcement. One stream is read, left and behind by
  any number of events.
* Memory: two writers race; two keys let a pack find one record and miss one,
  and let one record change while the other is read. The packs are absent,
  plain, with an overlapping include, and beyond resolution.

Symmetry is used on overlapping requests, invocations and writers, which are
interchangeable; no run with symmetry checks liveness.

Deadlock is checked in the session runs and in `memory_writes`. In the others
it is not, because the modelled program ends or may be asked nothing more: the
runner returns, every invocation has ended, a run is over, all requests that
the bound allows have come.

**Fairness.** `RunbookRunner` has weak fairness of its next-state relation. It
is one loop in one thread and leaves each step when the orchestrator call
returns or raises, so it goes on as long as it can. `Engine` has weak fairness
of the engine's own steps: one thread, whose model calls are made with a
timeout. Its capability's thread has none: nothing in the code can stop a
capability that does not return, and `EndsUnlessStuck` therefore assumes one
that does. `Transport` has weak fairness of each stream's steps, because the
event loop comes back to `generate()` after every sleep; nothing makes
requests come or commands end. Requests, invocations and writers carry no
fairness: a client may go away, a process may be killed, a user may never
answer.

## 4. Proofs

All theorems hold for every value of the constants that satisfies the named
assumptions of the modules (the ceiling is positive, the marks for absent
values are no data values, ...). Where a theorem assumes `~Overlap`, requests
come one after the other, which is what the documents promise to serve.

**DialogueSession_proofs.** `TypeCorrect` and `SessionsStayCoherent`, for any
number of overlapping requests. Coherence is not inductive by itself: a save
writes what a request holds, and a request holds what it loaded or what
`run_turn` made of it. `Inv` adds that a request that is in its turn or its
save holds a session (`ClientOK`), that this session is coherent as well, and
that a request which will report a turn holds one with at least one turn. The
step from a coherent session to the next one is in lemmas about the operators
(`NewSessionOK`, `StatusChangeOK`, `RecordTurnOK`): `RecordTurnOK` needs that
an active session is below its ceiling, which is part of coherence. `RefusalOK`
shows by the way that the branch of `run_turn` that raises SESSION_AT_LIMIT is
never taken on a coherent session. There is one lemma per action, built from
lemmas on the moves they share (`GoSaveKeeps`, `DoneKeeps`, ...).

**SerialSession_proofs.** Under `~Overlap`, the other properties of
`session_serial`: `FileStaysReadable`, `TurnsAreKept`, `ApprovalsBoundTurns`,
`PausesHold`, `FailedTurnsLeaveNoTrace` and the refinement
`FileFollowsLifecycle`, and besides them `ClosedStaysClosed`, which says of the
records in the file what the lifecycle says of the status.

The heart is `Lawful(old, s, t, n)`: what a
save for purpose `t` may put in the place of `old`. `SerialInv` says that at
most one request is active, that the temporary file is what this request has
made of it (`Where`), and that the session it holds is a lawful successor of
the file (`Plan`). The file changes only at a rename, so that every action
property follows from `Lawful` alone. `TurnsAreKept` adds that a reported run
is in the file, and `ApprovalsBoundTurns` that a steward session has used at
most `step_count` turns per approval, and an active one fewer (`GateInv`): the
gate fires at multiples, which is what `Multiples` and `TurnWithin` are about.

**RunbookRunner_proofs.** Every safety property the run checks: `TypeCorrect`,
`RunsInOrder` (`EventsInOrder`), `CountsAgree` (`ResultMatchesEvents`),
`StepsFollowContext` (`ContextDecides`) and `ImplementsFailFast`
(`KeepsPromise`). The invariant ties the last event to the place where the loop
stands (`LoopOK`), so that each emitted event is a legal successor of the one
before it; ties the counters to the number of events of each kind (`CountOK`),
for which a plain runbook must have no conditions; and puts the recorded
outcomes before the current step (`OutcomesOK`), so that their indices grow.
`RunsAdvance` is what can be proved of `Returns`: every step lowers a natural
number (`MovesLeft`), so that no mixture of skips, completions and failures
goes on for ever. That the runner is able to take these steps, and does, is
TLC's.

**ReplayResume_proofs.** `TypeCorrect`, `SuccessCoversRunbook`,
`CheckpointsPromiseNoMore`, `ReportsAreRecorded`,
`ClassifiedCheckpointsAreAccepted` and `RetriesRemain`. The inductive invariant
says of each run that the steps before the one it stands at are covered (`RunOK`), that a run which is
not over has written nothing, and of each checkpoint that the steps before its
resume index are covered (`FileOK`). From the first follows `FilesStay`: a run
writes only its own file, while it is live, when it is absent.

`RetriesRemain` (`RetriesLoseNothing`) is about an invocation that is under way,
was killed or could not write its checkpoint. `Derived` says that its source
still accepts it and gives the very step it began with; by `FilesStay` no other
invocation, however many run meanwhile, can have changed that. The property
itself asks only that another try starts no earlier. It does not say that the
steps of the lost one are kept: they are not (section 5).

`ResumesContinue` (`ResumeContinues`) needs equality where those have an
inclusion. `Exact` says that a live run has covered exactly the steps before
the one it stands at, and that the chain behind a checkpoint which can be
resumed has covered exactly those before its resume index. One thing breaks
it, a resume that failed at its first step: it counts nothing and has no last
completed step, so that its own resume begins the runbook anew (`Barren`). The
theorem thereby delimits the finding `replay_retries`: in a chain of any length
nothing else makes a resume repeat a step or skip one.

**Engine_proofs.** Every safety property of `engine_runs`:
`TypeCorrect`, `EventsStayInOrder`, `TracesTell`, `FailuresNamePlace`,
`CapabilityComesFirst`, `LogsTellOutcome`, `ResultsMatch`, `ReviewersDiffer`
and the refinement `BoundsAreKept` of `BoundedRun`. The invariant says for
every program point which event was the last (`EventsInv`), what exception,
outcome and trace status there can be (`EndInv`), which calls were made and
what the phase variable is (`CallsInv`), how far the capability and its thread
are (`CapabilityInv`) and what is in the log (`LogInv`). `FailuresNamePlace`
needs `CallsInv`: an exception is classified by the phase, so that the phase at
each place that raises must be known, also where the code does not set it.
`TracesTell` and `FailuresNamePlace` are about every exception but those that
refuse a finished result: the first of these has the finding `engine_trace`, the
second is described in section 5.

* `ResultsMatch` (`ResultMatchesRecords`) compares counters that the code
  raises one by one with the numbers of events, steps and calls of a kind.
  `CountAppend` says what one more entry does to such a number; `Agree` states
  the equations between two calls, `RecordsInv` where they hold, and there is
  one lemma for each part of a run that moves several of them together.
* `ReviewersDiffer` (`OnlyFallbacksCollapse`): a run that calls a challenger
  has passed the check of the table (`RolesInv`), and where neither role fell
  back, the models that are called are the first choices the check compared
  (`FirstChoice`). This delimits the finding `engine_collapse`.
* `RunsAdvance` and `EnginesNeverStick` are what can be proved of
  `EndsUnlessStuck`. The first says that every step of the engine, of its
  caller and of the capability's thread lowers a natural number. The second
  says that the conditions on which a step could wait hold whenever it is its
  turn: the limits `engine.py` tests at lines 649 and 672 are never reached
  when they are tested, and the state that is validated at the end is valid.
  It is also why `Engine` has no branch for these three refusals.

**Memory_proofs.** The three properties of `memory_writes`: `TypeCorrect`,
`LoadsAreAllowed` (`LoadsWhatIsAllowed`) and `VersionsRise`
(`VersionsIncrease`), for any number of writers, keys and packs. For the last,
`NotOvertaken` says of a writer between its read and its rename that no other
one is there, that its record is the successor of the file, and that the
temporary file is its own. The last is why a killed writer's leftover does
no harm: it is overwritten before it is renamed.

`LoadsAreAllowed` compares what a load has collected with what is filtered out
of the pack's keys, and both are recursive: `Kept` and the resolution of the
includes. Induction with an operator for the predicate is out of reach, but not
induction as such: `SetInduction` says that a set of numbers with 0 that is
closed under the successor is all of them, and follows from the library's facts
on well-founded relations. `RecursionExists` builds with it the function a
recursive definition asks for, so that `KeptAppend` (one more element) and
`ResolvedIsSeq` can be proved. That is why `Kept` is a recursive function where
`SelectSeq` would do: the latter takes its test as an operator, which no lemma
here could range over. `ReadInv` then says that what was found so far, filtered,
is the image of the keys read so far (`Loaded`), as long as no record changed.

**Transport_proofs.** `TypeCorrect` and `StreamsStayInOrder`, with any number
of overlapping requests and of streams. `StreamOK` says that what a stream has
sent, followed by what it has read and not sent, is the event log up to there;
publishing only appends. `Asked` is what typing needs: a request about a
session finds one, and the copy a turn works on is one.

**SerialTransport_proofs.** Under `~Overlap`, for either server: `AnswersAreTrue`,
`EndingsAreTold`, `CompleteStaysFinal` and the refinement `FollowsLifecycle`.
`SerialInv` says that one request is served at a time, that a command's
documents go to its own buffer, that a turn's copy is the file's session (or,
for a start, the one to be), and that a request whose command ended has a true
answer (`Served`). `Step` lists what a command may make of the file. Each
command is shown to be `Good`: it keeps the invariant, makes such a step, and
owes an announcement if it ended the session (`Owing`). `ToldInv` then says
that a session that is over has its ending as the last one on the bus or has a
request that still owes it, and that a `SESSION_COMPLETE` was sent only for a
session that is over; `OverStays` makes that final.

`OnlyOverlapCrosses` holds for the standard-library server with `Overlap` or
without it, and for the other one without it: a request is answered with
documents of its own command only (`AnswersOwn`). It rests on `Target(c) = c`, that what a
command prints goes to its own buffer, and delimits the finding
`transport_crossed`: nothing but `redirect_stdout` under overlapping requests
crosses answers.

Every safety property and every refinement that a passing run checks is also a
theorem. Only model-checked is liveness (`Returns`, `EndsUnlessStuck`,
`StreamsCatchUp`): this prover has no ENABLED and no fairness. What a run can be
kept from by its own data is proved (`RunsAdvance`, `EnginesNeverStick`), that
it is scheduled and reaches its end is TLC's.

## 5. Where the code and its documents differ

Each of these is a run that TLC finds violated; `PROJECT.json` quotes the
sentence.

* `session_budget`: `run_turn` gives the gate no token count, so a declared
  `token_budget` pauses nothing (and `capability_classes` neither).
* `replay_retries`: a resume whose first step failed at step F > 0 writes
  `last_completed_step_index` = None. A resume of it starts at step 0 and
  executes finished steps again, where ADR-020 re-attempts step F.
  `ResumeContinues` shows that nothing else repeats a step.
* `engine_trace`: "On any exception, the execution trace always reaches
  terminal state ('failed')" (`engine.py:394`, ADR-013:91); the checks of the
  finished result come after `trace.complete()`, and the trace of a run they
  fail stays completed. `TraceTells` states what holds for all other
  exceptions.
* `engine_collapse`: the check that executor and challenger are different
  models compares the configured first choices; a fallback of the executor
  may be the challenger's model. `OnlyFallbacksCollapse` shows that the check
  does what it can: without a fallback the two models differ. Model names are
  those `resolve_route` reads: it removes blanks around them (`routing.py:30`),
  the check does not (`constellation.py:20`), so that a table that has one
  name with a blank after the colon passes it.
* `transport_crossed`: `redirect_stdout` is process-wide, so that overlapping
  requests capture each other's documents. The theorem `OnlyOverlapCrosses`
  shows that the other server and single requests are safe.

Observed while modelling; the models contain this behaviour, no run is about it.

Sessions:

* A turn that fires the gate and reaches the ceiling is reported as paused,
  with three actions, and saved as `at_limit` (`dialogue_session.py:379`,
  against ADR-024:272-273).
* With overlapping requests a turn in flight reopens a closed session
  (`_session_shell.py:356`), and turns beyond `max_turns` are reported, some
  of them lost (`:269`).
* The error paths of `session continue` print before they save
  (`_session_shell.py:327-354`): when that save fails there are two documents,
  and the ASGI server answers INVALID_JSON_OUTPUT.

Replay and resume:

* A step that raises outside the engine has no failure envelope; the failed
  checkpoint it leaves does not pass the check the code reads it with
  (`replay_resume.py:321`, against ADR-019:311-312), so that the run can be
  neither resumed nor replayed. `ClassifiedCheckpointsLoad` is about the others.
* One checkpoint is written, after the last step of the slice
  (`replay_resume.py:295,328`), where ADR-019:148-156 and ADR-020 7.1 have one
  written after each step, `in_progress` until the last. A process killed in a
  step loses the steps before it; `RetriesLoseNothing` states what is left.

Engine:

* "Only hard failures in the challenger/revision block produce
  AUDIT_CHALLENGER" (ADR-013:174): a capability's output that is refused at the
  end of an audited run (`engine.py:720`) is classified by the last phase, audit
  or revision, although nothing in these blocks failed. `FailureNamesPlace`
  states what holds for all other exceptions.
* The challenger is said to pass the draft when it is unavailable
  (`engine.py:78-79`, ADR-013:173); a provider that is down, or a route that
  cannot be resolved, fails the run (`:82`, `:162`).
* The comment on the capability's timeout says that it bounds the waiting time
  (`engine.py:262-263`); leaving the executor's `with` block waits for the
  capability. `EndsUnlessStuck` states what holds.
* Telemetry's `call_count` counts the executor's first call only
  (`engine.py:611-627`, against ADR-021:175).
* `run_turn` never hands the session's memory to the engine
  (`dialogue_session.py`, `memory_keys_loaded` counts it all the same).

Transport:

* The standard-library server sends `session_complete` for a closed session
  only, not for one at its limit, and `steward_gate_triggered` for a boundary
  turn that is at its limit (`server.py:217-230`, against `_webhooks.py:5-7`);
  its `/stream` runs turns without any webhook.
* The ASGI server's `session_state` event of a session that starts with a turn
  carries the turn's status "ok" (`app.py:281`), and `session start` announces
  neither a pause nor an end.
* SESSION_COMPLETE and `session_closed` are repeated for every turn refused on
  a session that is over; RUNBOOK_COMPLETE is sent for runbooks that failed to
  load. The code reads `webhook_url`, the module's docstring describes a
  `webhooks:` block. Nothing calls `_bus.clear` or `close_stream`.

Memory:

* `cli/_memory.py:70,122` import `load_memory_packs_config`, which does not
  exist; the import error is swallowed and the storage root is the default.
* `store.get` is outside the `try` of `write.py`, so that an unreadable record
  raises something other than MEMORY_WRITE_FAILED.
* An included pack's own scope is ignored, and a key that two packs name is
  loaded twice. Two racing writes give one version to two records
  (`store.py:76` says "monotonically increasing").

## 6. Plan

Done: all modules of section 2. The order was sessions, runbooks, replay and
resume; then the engine with its callers, the transport around sessions, and
memory; each with its runs, then its proofs.

Left, in the order of what it would add:

1. `Transport` over `DialogueSession`'s files, so that restarts and torn files
   are seen through the API. The product is large: a request has a dozen
   points in each module.
2. Pure algorithms against reference definitions: record selection under a
   budget, context assembly, snapshot validation, runbook validation. With
   `SetInduction` their loops can also be proved about.

### Not modelled

Providers and their HTTP (external services), the delivery of a webhook (one
attempt in a thread of its own, whose result nobody reads), text extraction,
redaction of logs, argument parsing, configuration files and portability
checks (plain validations before anything runs), the snapshot (one write and
one validation of a file nothing else reads), the text that context assembly
builds, built-in capabilities (pure text functions), and the repository's own
development scripts. They keep no state that another step depends on, or none
that outlives the call. `update_mode` and `transition_mode` of the session
mode are called by nothing.

Limits of the models: the engine run inside a turn and inside a runbook step
is one atomic call that returns or raises, which `Engine` justifies by
`TraceTells` and `BoundedRun`; `Transport` has one session, no restart of the
server, and counts webhooks where they are dispatched; `Memory` has one scope
and whole records, the torn ones being `DialogueSession`'s subject.

## 7. Use

    tlc -config MCSession_serial.cfg MCSession.tla
    tlapm DialogueSession_proofs.tla

`PROJECT.json` maps every definition that models code to the lines it stands
for.
