# TLA+ models of backend-doctor

backend-doctor is a command-line tool for Node.js backends. `scan` analyses a
project statically (parse, framework detection, file rules, project rules,
severity, scope filter, report), `probe` runs an application with an
instrumentation preload and turns what it records into findings, an interactive
console shows the results, and `ci report` posts them to a pull request. This
directory holds TLA+ models of its stateful parts, TLC runs on small instances
and TLAPS proofs. Line numbers refer to the repository.

## Inventory

| Component | Source (`src/`) | State it keeps | Operations | What makes it correct |
|---|---|---|---|---|
| Probe session, parent | `probe/runner.ts`, `probe/session.ts`, `probe/node-options.ts` | session directory, escalation timers, signal listeners, the last forwarded signal, the promise's value | validate, create the directory, spawn, forward, escalate, error and exit listeners, finalize | a started session is finalized and answered with how its child ended; a failed start leaves nothing; escalation in order; a bounded session ends |
| Probe hook | `probe/hook.ts` | per process: `recordable`, `disabled` per collector, request stores, lag windows | attach, collectors, final flush, detach | the host is never disturbed; every line is attributed to the right request; totals are complete |
| Probe analysis | `probe/analysis.ts` | none (pure) | group, sort, cap, percentile, warnings | deterministic; sums equal what was recorded |
| Runtime merge | `runtime/load.ts`, `runtime/merge.ts` | none | load and validate a findings file, turn it into diagnostics | no finding lost or invented |
| Console | `cli/console/*` | screen, selection, filter, `back`, pending copy, mounted instance | navigate, copy, install, show, quit, signals | the user can always go back; one result, reported once; the terminal is always restored |
| Scan command | `cli/commands/scan.ts`, `cli/console-mode.ts` | stage, report, exit code | option checks, config, scope, scan, merge, present | an error never looks like a clean scan |
| Scan core | `core/scan.ts`, `engine/runner.ts`, `engine/project-rules.ts`, `engine/severity.ts`, `engine/registry.ts` | diagnostics, skipped checks | run rules, isolate crashes, severity, ignore, scope filter, order | a crashed rule is visible; filters never drop what they should keep |
| Import graph | `engine/imports.ts`, `rules/graph/*` | the graph, Tarjan's stacks | build, cycles, reachability, unused files/exports/dependencies | cycles reported iff they exist; reachable code never flagged |
| Nest DI graph | `rules/nest/di-graph.ts`, `framework/nest/*` | the provider graph, module entries, injections | extract, cycles, resolve an injection through module imports | the same for providers; an injection Nest resolves is never reported |
| Scope | `scope/*` | none; reads git several times | resolve base, changed files, hunks | changed lines are in scope |
| Config | `config/*` | none | discover, load, validate, resolve | precedence; a broken config is an error |
| Framework detection, file collection | `framework/detect.ts`, `engine/collect.ts` | none | walk, match | every supported file once |
| CI report | `ci/*`, `cli/commands/ci.ts` | comments, check runs and reviews on the GitHub side | build surfaces, post, fail soft | one sticky comment; a failed surface never hides the blocking exit code |
| Install | `cli/commands/install.ts`, `init.ts`, `cli/install-source.ts` | files in the user's tree | status, copy, overwrite | nothing of the user's is overwritten without `--force` |
| Rules on syntax | `rules/{async,security,...}`, `engine/parser/*`, `engine/context.ts` | none | match AST patterns | per rule |
| Reporters, rule docs, `rules` command | `reporters/*`, `rule-docs/*`, `cli/commands/rules.ts` | none | format | layout |

How they interact: `scan` calls config, scope, the scan core and the runtime
merge, then hands one report to a reporter or to the console; the console calls
install and the clipboard back. `probe` starts processes that load the hook;
parent and hooks share nothing but the environment and `events.ndjson`; the
parent runs the analysis once its child is gone. `ci report` reads a report
from disk and talks to GitHub.

Hard behaviours: signals, timers and process exits racing in `probe`; appends
of several processes to one file; a promise that is settled by one of two
listeners; asynchronous clipboard and mount failures in the console; a working
tree that changes between git calls; GitHub calls that fail or are repeated by
a concurrent run; rules that throw; depth-first searches written iteratively.
PROJECT.json lists each hazard at its line.

## Modules

| Module | Models | Checked by | Proved in |
|---|---|---|---|
| `ProbeContract` | what a probe session promises its caller (spec 018) | refined by `ProbeSession` | `ProbeSessionProofs` |
| `ProbeSession` | `probe/runner.ts`, `probe/session.ts` and the life cycle of `probe/hook.ts`: parent, child, descendants, signals, timers, session files | `MCProbeSession` | `ProbeSessionProofs` |
| `ConsoleView` | `cli/console/state.ts` and the key handler and `copy` of `cli/console/session.tsx` | `MCConsoleView`, `MCConsoleCopy` | `ConsoleCopyProofs` |
| `Clipboard` | `cli/console/clipboard.ts` | `MCConsoleCopy` | `ConsoleCopyProofs` |
| `ConsoleCopy` | the `copy` of `cli/console/session.tsx` awaiting `copyToClipboard`: the two before together | `MCConsoleCopy` | `ConsoleCopyProofs` |
| `ScanContract` | what `scan` promises its caller | refined by `ScanCommand` | `ScanCommandProofs` |
| `ScanCommand` | `cli/commands/scan.ts`, `cli/console-mode.ts` and `startConsole` of `cli/console/session.tsx` | `MCScanCommand` | `ScanCommandProofs` |
| `ScanPipeline` | `core/scan.ts`, `engine/runner.ts`, `engine/project-rules.ts`, `engine/severity.ts` and what they call | `MCScanPipeline` | `ScanPipelineProofs` |
| `ProbeHook` | `probe/hook.ts` inside one process: attach, the five collectors, attribution, lag windows, exit | `MCProbeHook` | `ProbeEventsProofs` |
| `ProbeAnalysis` | `probe/analysis.ts`, and the part of `runtime/merge.ts` that reads endpoints | `MCProbeAnalysis` | `ProbeEventsProofs` |
| `CiReport` | `cli/commands/ci.ts` and `ci/*`, over successive runs for one pull request | `MCCiReport` | `CiReportProofs` |
| `ConfigLoad` | `config/load.ts` and what `config/validate.ts` answers | `MCScanInputs` | `ScanInputsProofs` |
| `ScopeResolve` | `scope/resolve.ts` | `MCScanInputs` | `ScanInputsProofs` |
| `TraceLoad` | `runtime/load.ts` | `MCScanInputs` | `ScanInputsProofs` |
| `ScanInputs` | the three before in the order of `scanCommand` | `MCScanInputs` | `ScanInputsProofs` |
| `CycleSearch` | the searches for cycles: `findCycleChains` of `engine/imports.ts` and `findProviderCycles` of `rules/nest/di-graph.ts`, and the rules `circular-dependency`, `circular-di`, `missing-forward-ref` | `MCCycleSearch` | `GraphProofs` |
| `NestWiring` | `provider-not-registered`: the metadata of modules and injections of `framework/nest/extract.ts`, resolvability of `rules/nest/di-graph.ts`; composed with `CycleSearch` | `MCCycleSearch` | `GraphProofs` |

The modules fit together by what one assumes of another. `ConsoleView` assumes
that a copy always ends, however; `ConsoleCopy` puts `Clipboard` in that place
and implements it (`ImplementsView`). `ScanCommand` keeps of the views only
whether they are mounted; the scan inside `ScanCommand` is a verdict whose
computation is `ScanPipeline`; the graph project rules, of which `ScanPipeline`
has only who runs them and on what, find their cycles in `CycleSearch`. What
`ScanCommand` takes for an outcome of its config, scope and trace stages is
worked out in `ScanInputs`. `ProbeSession` has several processes and few kinds
of line, `ProbeHook` one process and every kind; `ProbeAnalysis` takes any file
such processes can write: what it assumes of their lag lines (`LagsGrow`) is
what `LagTotals` proves of `ProbeHook`. `RulesSpec` of
`NestWiring` reads the application, lets `CycleSearch` run, and then reports.

### How the state and the actions correspond to the code

**`ProbeSession`.** `pc` is where `runProbe` is: before `mkdtemp`, before
`spawn`, before the listeners are installed, and then in the event loop; after
that the parent's process has `ended`, `crashed` (an uncaught exception) or was
`killed`. `result` is the value of the promise. Each turn of the event loop is
one action (`Forward`, `TimerFires`, `OnExit`, `ProcessExit`), because nothing
of the parent runs in between. `handle` is node's `ChildProcess` handle: it
goes when node emits `exit`, later than the child's death, so that timers and
signals can meet a dead but unreaped child. The instrumented processes append
their lines in `Record`, which also has `writeEvent`'s switch to silence after
a failed append. Time is counted in ticks and only the escalation timers look
at it; `NodeDelay` is `setTimeout`'s treatment of a delay beyond 32 bits.
`Faults` and `Permissions` say which steps may fail.

**`ConsoleView`.** `state` is the record of `state.ts`, `counts` the number of
occurrences of each issue group, `busy` the `busy` flag and `pending` the
clipboard calls under way. `navigate` is one operator per kind of key; the key
handler's early returns are the guards of the actions. `CopyEnds` is the
continuation of `copy`, which runs on whatever screen the user has reached.

**`Clipboard`.** Per tool `child` is its process, `held` whether something
still holds its stderr open (node then delays `close`), `outcome` how its
promise settled. `finish` counts once. The loop of `copyToClipboard` is
`Start` and `Continue`. `Kill` is `child.kill()`: one SIGTERM whose result
nobody looks at. A tool that was told to end runs on until it chooses to, beside
the next tool or after the answer, and may still take the text. What the code
does promise is that it was told (`StragglersAreTold`).

**`ConsoleCopy`.** `KeyPressed` are the keys of `ConsoleView`; Return on a task
calls `copyToClipboard` anew (`CallClipboard`). `ClipboardRuns` are the steps of
`Clipboard` while the call is under way or what it started still makes itself
heard, and `CopyReturns` is the continuation of the await, where the answer
decides the line that is shown. The variables of `Clipboard` are those of the
last call, as there is never more than one under way (`OneCopyAtATime`).

**`ScanCommand`.** `pc` is the place in `scanCommand`, `session` its variable of
that name, `ui` the session of `startConsole`: what is mounted, listening and
raw, and the two latches `failure` and `done`. The event loop runs only while a
progress callback yields and while `present` waits (`Yielding`), so only there
do keys, signals and stream errors reach the console.

**`ScanPipeline`.** The project on disk, the configuration and the scope are one
value, `world`, which no step changes; the steps are the stages of `runScan` in
the order of the source, and the merge of `scanCommand`. Four rules stand for
the kinds there are: one that reads its own file (`no-eval`), one that concludes
from what other files lack (`missing-global-validation-pipe`), a project rule
(`circular-dependency`) and a project rule that concludes from absence
(`unused-file`). What a rule would say of a file is part of the world;
severity, the gates, crashes, skips and filters are those of the code.
`Closure` is the reachability of `imports.ts`, defined as the least closed set.

**`CycleSearch`.** One module for both searches, because they differ in three
places only: what an edge is (`Edges`: a file's import of itself is dropped, a
class name may be that of several providers), the order edges are taken in
(`Before`) and what a node on the stack lends to a low link (`Link`: its index
in `imports.ts:182`, its low link in `di-graph.ts:149`). `calls` is the call
stack of the recursive `strongConnect`, and the explicit `work` frames of the
iterative one: a node and the edges it has left. `Meet` is the beginning of a
call, `LookBack` and `LookAside` the two branches for a node already met,
`Return` the end of a call, which cuts a component off the stack when the node
is its root and lowers the caller. From `ComponentsFound` on `path` is the
depth-first search inside one component, begun at its first member; `Back` is
the code's pop out of a dead end. The order of components and of reports is
layout. `CircularDependency`, `CircularDi` and `MissingForwardRef` are what the
rules say of the chains.

**`NestWiring`.** `app` is what is written in the source: per module four lists,
each an array, another expression or a shorthand property, of elements that are
classes, objects or unreadable; per consumer the parameters of its constructor.
An element of `imports` may be a dynamic module, and `brings` is what that adds
to the metadata of its class: providers, exports, `global`. A module is `global`
to Nest, `decorated` to the code, which looks for a decorator written `Global`.
`Extract` reads all this into `model`, `Walked` is `reachableFrom`, and
`IsInjectionResolvable` the rule's condition. `Resolves` is not code of the
repository: it is what Nest does with the same metadata, and the reference the
reports are compared with. Nest has an instance of a class of modules for each
way it is imported (`Instances`); an instance sees what its imports and the
global ones offer. Class names are those of one class each, metadata is not
inherited, and the imports and controllers a dynamic module may add are left
out.

**`ProbeHook`.** JavaScript runs one turn at a time. A turn that writes puts its
events in `toWrite` and each append is a step (`AppendEvent`), so that the
process can be killed between two of them and one of them can fail (`LoseEvent`,
after which `recordable` is off). A synchronous call is a frame (`Enter`,
`Blocked`, `Leave`): nothing else runs before it returns, except a call inside
it. `LoadHook` is the body of the module and may run again (`RequireAgain`).
`store` is the `AsyncLocalStorage` record of each request, `query` what the
Prisma extension saw of each query. The two histograms are their numbers of
ticks, and `ahead` keeps how far the two have come apart, by one at most. A
sample is the time between two ticks, and the first tick after `enable()` or
`reset()` only starts the clock (`SamplesOf`): every window after a flush has
one sample less than its ticks, while the total, which is never reset, keeps
them all. `slow` is a history variable: the calls a complete record would hold.

**`ProbeAnalysis`.** `buildFindings` is a function of the lines; a state is
therefore one file, `AppendLine` makes the next, and the properties compare
`Findings` with the lines themselves. A group is the set of the places of its
lines in the file (`CallsOf`, `RequestsOf`), a total a sum over such a set, and
`Sorted` what `sort` makes of rows no two of which compare equal. Call sites,
routes and models are numbers. A duration is written with three decimals, which
is a whole number of microseconds here, so that sums are exact and rounding them
again changes nothing; averages keep their numerator, and what floating point
does to the last digit of one is left out.

**`CiReport`.** `pc` is where the current run of `ci report` is and `request`
the one request it waits for. Outside is the GitHub API: `comments`, `reviews`
and `statuses` of one pull request, other people who comment and delete, and
the workflow, which cancels a run when the next one starts (`StartRun`). A
request of a cancelled run may be carried out later (`LateRequest`); one that
is carried out may lose its answer (`AnswerLost`). `NextPage` decides, as the
poster does, whether the listing goes on.

**`ConfigLoad`.** The walk from the target upwards (`Walk`), the second look
into the directory it ends in (`Pick`), and what an exported value is as a
configuration. `ChangeDirectory` lets files come and go between the looks.

**`ScopeResolve`.** One action per look at the file system and per git process,
in the order of `resolveScope`; `EditFile` changes the work tree or the index
between them, and `TakeAway` removes the target, or the work tree with it (what
is removed does not come back). The looks (`LookAtTarget`, `LookAtTop`) are
`statSync` and `realpathSync` without a handler: what is gone makes them throw,
which ends the command with 1. A git process whose working directory is gone
fails (node reports it as a missing binary). A file is in the tree, in the
index, ignored, different from the merge base in some lines. `TrueScope` is what
the specification of the feature calls changed; `wasIn`, `wasOut` and `linesHad`
are its history while git was asked.

**`TraceLoad`.** One action per look at the session directory, beside a probe
that is still writing it (`WriteOn`) or somebody who clears it (`ClearAway`).

**`ScanInputs`.** Config, scope and trace one after another; the first that
fails ends the command with exit code 2, or with 1 if it throws anything but a
`ConfigError`. `StartDirThrows` is the target that goes away inside the
expression that computes where the configuration is looked for (`scan.ts:68`).

Operators with a suffix (`Escalation_NoKill`, `CloseOutcome_Any`, ...) stand
just before the operator they are a plausible mistake of; PROJECT.json names the
property each of them breaks.

## Runs

| Run | Instance | What it shows |
|---|---|---|
| `probe_session` | one child, two signals, two application exit codes, `--duration` absent or one tick, no failing kill, with fairness | every answered session is finalized, a failed start leaves nothing and nothing is held after the answer, the session implements `ProbeContract`, a bounded session ends and a dead child is reported |
| `probe_session_faults` | one descendant, every I/O fault, a child that may not be signalled and one signal | a green answer is green, escalation is in order, records are kept and the findings cover the child's |
| `console_view` | reports with no, one and two groups, two copies | the selection is valid, copies go one by one and are answered |
| `console_copy` | a report with one group, two copies on a platform with two tools, with fairness | the line says copied only when a tool of the call took the text, the manual screen comes only when all of them failed, and the screens with their clipboard implement the fair `ConsoleView` |
| `scan_command` | every combination of flags, terminal and scope, stdout sound | report delivered, verdict kept, terminal restored, `ScanContract` implemented, the command ends |
| `scan_pipeline` | twelve thousand worlds of three files | nothing asked is lost silently, nothing else is reported, used files are not flagged, only earned errors fail |
| `cycle_search` | all import graphs of four files, all injection graphs of three providers, and a controller of one of three modules | the components are the strongly connected ones, each on a cycle has one chain, which is a simple cycle of real edges from its first member; what `missing-forward-ref` names cannot be built; what `provider-not-registered` reports Nest could not resolve, if dynamic modules add nothing to their class |
| `probe_hook` | two overlapping requests, two queries, a fault at any point | every call that should be recorded is, and once; queries stay with the request that started them; the windows add up to the total but for a sample each; the lines are bracketed by attach and detach |
| `probe_analysis` | every session of up to five lines on one topic | percentiles are the nearest rank, caps drop the lightest, no possible N+1 is hidden by a cap, each process counts once however the lines interleave |
| `ci_report` | two runs for one pull request, the second before or after the end of the first | the exit code is the verdict, a failed surface is warned of and does not stop the next, there is one sticky comment, written by the latest run that could, every run ends |
| `scan_inputs` | configurations of two directories, work trees of two files, sessions in every state, which change or go away while they are read | the nearest configuration is loaded if it is good and refused if not; the scope is what was changed at some moment of its resolution, with each file's own lines; what cannot be read is answered with 2, only what goes away under the command ends it with an exception, and a whole trace is read |
| `scope_lines` | violation, one file whose name is a pattern that matches another | the hunks of the other file become changed lines of this one |

### Bounds, and why they are enough

* `ProbeHook`: `MaxWork = 3` things the application and the timers start, enough
  for two requests and a query between them, for a call inside a call, or for a
  window, a sample and an exit; `MaxFaults = 1`; `MaxTicks = 3` gives two
  windows of which the second loses a sample that the total keeps; a threshold
  of one tick has calls below, at and above it. Requests and queries are
  symmetric sets: no property names one of them.
* `ProbeAnalysis`: five lines on one topic give two groups beyond a cap of one
  or two, with equal weights to break ties between; one topic begins with 98
  requests, so that the 99th percentile need not be the maximum. The code's caps
  and thresholds are larger, and only compared with.
* `CiReport`: two runs, one comment to a page, two comments of others and one
  deletion: enough for the marked comment to stand on the second page, to be
  deleted while it is looked for, and to be written by a request that comes
  late. One failed request; a second would only fail another surface likewise.
* `ScanInputs`: two files of two lines, the name of one a pattern that matches
  the other; two edits or removals, so that a file may leave the scope and come
  back; one git process that fails without cause; two directories, one change.
  Each request is difficult in one of its inputs, because the stages share
  nothing.
* `ProbeSession`: the parent has one child by construction; one descendant is
  enough for lines of two processes to interleave and for one process to
  outlive the child. Two signals let a second overtake the first, which is what
  `probeSignal` is overwritten by; the runs with faults use one, because the
  listeners are gone after an error. `MaxEvents = 3` leaves room for attach,
  collector and detach lines of one process, or for lines of two. Escalation
  has three steps in the code; a grace of one tick keeps their order visible.
  `Tick` stops at the nominal time of the last step, after which no timer can
  become due.
* `ConsoleView`: two groups with three occurrences and one cover wrapping,
  clamping and the reset on a change of group; `MaxCopies = 2` lets a second
  copy be asked for while the first is pending; `MaxScroll = 1`, because no
  guard looks at the offset.
* `ConsoleCopy`: one group and two copies, because keys are `console_view`'s
  question; two tools give a first and a last, the two cases of `Continue`,
  where Linux has three. The proofs cover any number of tools and any report.
* `ScanCommand`: all command lines; the stages are the code's own.
* `ScanPipeline`: three files give an entry, a file it reaches directly and one
  it reaches through another, with each of them ignored, broken or opaque. The
  worlds are chosen in `MCScanPipeline`: every import graph on them with every
  way of missing information, and every scope with crashes, severities and
  framework failures. They satisfy `EntriesKnown` (the module asserts it): see
  "Where code and documents differ".

* `CycleSearch`: four files are the fewest on which a component can hold a
  cycle, a second one across it and a dead end that the search for a chain has
  to leave again; the first file may import itself. Three providers, with every
  injection absent, plain or deferred, are taken under class names that sort
  against the order of files and under a name used twice, so that the order of
  edges is not that of nodes. The proofs cover any graph. The modules of
  `NestWiring` vary for one injection graph only, the one without edges, as the
  two parts share nothing but the classes: the module of the controller, one it
  imports and one that may be global, with every form of list where it matters.

`CHECK_DEADLOCK FALSE` is set where the system really may stop: in `ConsoleView`
and `ConsoleCopy` the user quits; `CycleSearch`, `ProbeAnalysis` and
`ScanInputs` are computations that return; in `ProbeHook` the process is gone;
in `CiReport` the last run of the workflow is over. The other modules have an
explicit step for the end, so that a deadlock would be reported.

### Fairness

* `probe_session`: the parent's event loop, its timers and the clock do not
  stop, and the kernel delivers a SIGKILL (`KillDelivered`). Of the application
  nothing is assumed: it may ignore SIGINT and SIGTERM for ever.
* `console_view`: only the end of a copy is fair, which `console_copy`
  establishes. Keys are not.
* `console_copy`: the program's own steps (`Start`, `Continue`), its timeout and
  the continuation of an answered await are fair; keys and tools promise
  nothing.
* `scan_command`: the command's own steps are fair, and a user who looks at the
  results eventually quits; without that the command may rightly wait for ever.
* `ci_report`: a run that is not cancelled goes on (weak fairness of `RunStep`)
  and each of its requests settles, with an answer, a refusal or an error (of
  `Answer`): node's `fetch` gives up a connection that stays silent. Runs,
  comments and deletions of others are not fair.

## Proofs

All theorems hold for every value of the constants that satisfies the named
assumptions of the modules; each is listed in PROJECT.json. Every invariance
proof has the same form: an inductive invariant, one lemma per action or group
of actions, and a last step in temporal logic.

* `ProbeSessionProofs`. `TypeCorrect`: the type invariant, strengthened by
  `EndKnown` (the dead are exactly those whose end is known) because the exit
  listener copies the child's end. `Finalized`: under `SignalsGetThrough` (the
  child may be signalled) and `SessionWritable`; the invariant is `SessionInv`,
  which ties where the parent is to what exists of the session - without
  "handle implies a directory" the exit listener could write into nothing.
  `Escalates`: under `DelaysFit` (the last delay does not exceed the timer's
  maximum), from "what has fired is due, and so is everything before it".
  `Implements`: under the three assumptions of which `StartFaultsHandled` is
  the third, every step is a step of `ProbeContract` or a stutter. Each
  assumption is the negation of a documented deviation below. `Green` and
  `RecordsKept` need none of them: they rest on `AnswerInv`, that nothing is
  answered with 0 or analysed before the child is dead and its handle gone, so
  that neither the signal to answer with nor the lines of the child can change
  afterwards. `NothingLeft` assumes `StartFaultsHandled`;
  `UnopenedInv` says what a probe has before the listeners are installed.
* `ConsoleCopyProofs`. First `ConsoleView`. The invariant adds `WayBackInv` to
  the properties: no way back leads to the details, and a way back to the manual
  screen has a task waiting there. Without it Escape could open an empty manual
  screen. Then `Clipboard`: the tools before the current one have failed for
  good and those after it are untouched (`ToolOrder`), so that `finish` ignores
  what arrives late; what is answered is what the current tool did
  (`AnswerTruth`). `HungToolsTold`: a tool that runs on after the next one was
  tried or the user answered was sent a SIGTERM, because nothing but the timeout
  and an error of its stdin ends a call over a running tool; that it obeys is
  not claimed. `TimersAreCurrent`: no timer outlives the tool it was set for.
  Then the two together: `CopyInv` ties the line on the screen
  to the answer of the last call, which cannot change while the line stands,
  because a new call and a new line come with the same key. `ViewIsImplemented`
  is the refinement, so that the theorems about the screens hold of the
  composition.
* `ScanCommandProofs`. `Consistent` says how the parts of the console go
  together and what has been given by each place; with `Ending`, which relates
  an exit code to what was said, it gives the safety properties,
  `UsageErrorsComeFirst` among them (proved, not run: it would cost a run's time
  to repeat what `UsageFirst` shows for every request), and the refinement of
  `ScanContract`. The mapping makes a scan "scanned" once there is a verdict and
  the report "seen" once results or report are out; a crash is an abort.
  `VerdictIsKept` and the refinement assume `StdoutMayBreak = FALSE`.
* `ScanPipelineProofs`. What each stage has established once it is over;
  `PipelineInv` is the whole, and the properties about the finished report
  follow. `UsedIsNeverUnused` assumes `EntriesKnown` and rests on
  `ReachableIsUsed`: when nothing is missing, the parsed files are closed under
  real imports, so what the entries use is inside what the graph reaches. The
  closure is handled through its definition as a least set (`ClosureIsLeast`).
* `GraphProofs`. Every safety property of `CycleSearch`, for every set of finite
  graphs (`GraphAssumption` says no more). The first half is Tarjan's algorithm.
  Its argument is about sets (`Sound`): what has been met, what is still on the
  stack, what is still being visited, and that the low link of a node names a
  node on the stack that it reaches, and that every way out of a finished part
  of the stack goes to something as low. `Linked` ties these sets to the
  sequences of the code (`Nested`: the frames are, in order, among the nodes on
  the stack). One lemma per kind of step keeps `Sound` (`MeetKeepsSound`,
  `LookKeepsSound`, `ReturnKeepsSound`, `CutKeepsSound`) and `CutIsComponent`
  says that what is cut off is a strongly connected component; both ways of
  lending a low link satisfy the same invariant, which is why the two variants
  may differ. The second half is the search for a chain: the path is a walk in
  the component (`Walk`), and what has been given up cannot reach its beginning
  except through the path (`GivenUpIsDead`), so that a search begun on a cycle
  never gives up its first node (`NeverGivenUp`) and the chain it closes is a
  simple cycle (`ClosedPathIsCycle`). Reachability is handled through closed
  sets throughout, as the prover has no induction over data; least
  counterexamples take its place (`LeastNumber`). The last part is
  `WiringIsReal`: what `provider-not-registered` reports Nest cannot resolve.
  The walk of the rule meets a set of modules; when it finds nothing there and
  nothing in the globals, none of them offers the token, and what does not offer
  it is closed under imports and re-exports, so that the least set of offering
  instances misses the consumer's. Four assumptions exclude the ways in which
  the code reads less than is written (`ListsAreWrittenOut`,
  `ParametersAskForTheirType`, `GlobalsAreRead`, `DynamicModulesAddNothing`);
  each is a divergence below.
  `RulesRunTheSearch` carries every theorem about `CycleSearch` over to the
  composition.
* `ProbeEventsProofs`, the hook. Everything is about `Written`, the lines in the
  file with the events the current turn has yet to append. An append moves one
  event from the second part to the first and leaves `Written` as it is; a
  failed one drops what is pending, and the process records no more. What each
  step adds to `Written` is stated once (`StepWrites`), and four invariants
  follow it. `LifecycleInv`: attach first, one detach, after it only blocking
  calls. `QueryInv`: the count in a request's store is the number of observed
  queries it began while it was open (`StoresCount`), every line has its
  request's count (`LinesFit`), and the extension knows the request that began a
  query (`QueryKnown`). `LagInv`: the samples of the windows so far fall short
  of the total by at most one for each lag line and exceed it by at most one, as
  the two histograms come apart (`SumFits`, `FlushFits`, `SumNow`); their sum is
  a recursive function, handled by least counterexamples (`LeastNumber`).
  `CompleteInv`: as long as the process can record, it has one line for its
  start and for each response, query and slow call of a collector that works
  (`StartCounted`, `ResponseCounted`, `QueryCounted`, `SlowCounted`), which
  needs that every frame is watched (`Watched`) and every query observed once,
  however often its class is loaded (`Observed`). `LagTotals` is for the
  analysis: totals never shrink, and nothing follows the final flush
  (`TotalsInv`: no total written exceeds the histogram's, none is final before
  the exit).
* `ProbeEventsProofs`, the analysis. The invariant is only that a state is a
  file of lines whose lag totals grow (`EventsInv`); the work is in the
  functions of the file. `SumFunction` of the community modules is a recursive
  function over sets: `SumAdds` shows that it satisfies its equation, and what
  follows of it - taking an element out, joining, renaming, grouping - by least
  counterexamples (`SmallestPart`). `RankLists` says that `Sorted` lists every
  element once and in order when the comparison is a strict order that decides
  every pair (`Ranks`), which each comparison of the code does because its ties
  are broken. `Percentiles`: the k-th of the durations in ascending order is the
  only value with at least k durations up to it and fewer than k below it
  (`AscendingKth`, `OnlyOneKth`), and the rank the code computes, clamped, lies
  in the list (`RankFits`). `Caps`: rows are in order of their totals, so what
  is cut weighs no more, and a sum over all rows is the sum over all lines
  (`SumOfGroups`). `N1Shown`: an endpoint has a warning because its largest
  count reaches the threshold, and its largest count is that of a request
  (`SuspectIsGuilty`, `GuiltyIsRoute`); each endpoint has one row
  (`AllEndpointsOnce`). `EachProcess`: the last lag line of a process holds its
  largest count. `AnyInterleaving`: between two files with the same lines, each
  process's in the same order, the places correspond (`Interleaved`), also those
  of the last lag lines (`MovedTotals`, the only part that needs the order);
  corresponding sets have equal sizes, sums and sorted values (`MatchedMap`,
  `MatchedSum`, `MatchedAscending`), so that every row and every section is the
  same. Swapping two neighbouring lines of different processes is one such
  correspondence.
* `ScanInputsProofs`. A stage of `ScanInputs` steps alone, so that each has an
  invariant of its own. `ConfigInv`: below the directory the walk has reached
  there was no configuration unless one came later (`Passed`), and `Chosen` says
  what the outcome may be at each place. `ScopeInv`: each list git has given is
  true of the files that have not changed sides since (`Listed`), the lines of a
  file are those it had at some moment (`Asked`, with `History` for the
  moments), and `Told` says what the git processes so far have answered; what is
  gone stays gone (`TakeAwayStays`), and only a look at it throws (`LooksStay`).
  `RefAnswers` says what a false answer of `rev-parse` leaves: an error, or no
  tracked files.
  `TraceInv`: a probe that still writes has not completed its findings.
  `RunsTheStages` says that the composition implements each stage, which carries
  the three to it; `Answered` relates the exit code to all of them. No
  assumption beyond those of the modules.
* `CiReportProofs`. For any number of runs, comments, deletions and failing
  requests and any page size. The hard part is the requests of cancelled runs,
  which are carried out whenever they like: `OrphansInv` says that a run left at
  most one, and that the current run left none. `ServerInv` says what the server
  has of a run before it posts and of runs to come: nothing. `VerdictInv` and
  `ReviewInv` relate the exit code, the warnings and the review comments to the
  place of the run: the comments of any run are a prefix of its report's, and a
  late one extends it. `StackInv` counts summaries: there is one for the pull
  request, one for each late POST and one for each deletion while a listing was
  under way, and a run that is about to POST is one behind that. Without "what
  has been listed is a prefix of what there is unless something was deleted"
  (`Listed`, `FirstInv`) a run could miss the marked comment on the next page
  and add another.

Type invariants are proved where a proof needs them and take no part in a run.

Every invariant and action property of the runs is proved. Only model-checked
are the liveness properties (`SessionsEnd`, `CopyIsAnswered`, `CommandEnds`,
`RunsEnd`, and the fairness in `ImplementsView`): they depend on fairness, which
is beyond the prover.

## Where code and documents differ

The run `scope_lines` shows one on the model: `git diff` is given the name of a
changed file as a pathspec (`resolve.ts:165`), so that the hunks of another file
it matches become changed lines of this one.

These configurations are kept beside the runs; `tlc -config X.cfg M` shows a
counterexample:

* `ProbeSessionForeign.cfg` (`MCProbeSession`) - `runner.ts:184`: node emits
  `error` for a failed kill too; the listener removes the directory of a running
  child and answers 2.
* `ConsoleEscape.cfg` (`MCConsoleView`) - the README says Esc returns to the
  previous view; there is one `back` pointer (`state.ts:43`), so after two
  detours it returns to the same screen.
* `ScanStdout.cfg` (`MCScanCommand`) - `scan.ts:194`: the fallback report is
  written to a stream without a listener, and the verdict is replaced by exit
  code 1, against AC-17 of specification 028.
* `ScanPart.cfg` (`MCScanPipeline`) - `scan.ts:115`: the Nest model of a scoped
  scan lacks the unchanged modules.
* `ScopeFailures.cfg` (`MCScanInputs`) - `resolve.ts:197`: `refResolves` takes
  any failure of git for a ref that does not exist. For the base HEAD (`:122`),
  or for HEAD after a base that resolves (`:86`), that reads as a repository
  without commits, and the scan goes on without the tracked changes; the comment
  at `:32` says a failure is reported, "never a silent fallback".
* `CycleMembers.cfg` (`MCCycleSearch`) - `circular-dependency.ts:21`: the rule's
  document says it reports every file that takes part in a cycle; it reports
  those of one chain per component.
* `NestGlobals.cfg` (`MCCycleSearch`) - `di-graph.ts:293`: a `@Global` module of
  which anything is unreadable is passed over although it lists the provider
  among its exports, so that the injection is reported; AC-7 of specification
  009 and the rule's document say unreadable metadata never produces a finding.
* `NestDynamic.cfg` (`MCCycleSearch`) - `extract.ts:203`, `:382`:
  `{ module: X, providers, exports }` is read as X, a module is global only by
  its decorator, and a `forRoot()` call in a module that the walk does not look
  at is never consulted. What such a dynamic module provides is reported though
  Nest resolves it; `provider-not-registered.ts:8` says "only provably broken
  wiring is reported", and specification 009 takes a global `forRoot()` for a
  missed report. `DynamicModulesAddNothing` excludes it.

Without a configuration of their own, of the other parts:

* `provider-not-registered` says it reports only provably broken wiring, and
  reports what Nest resolves when a provider is `{ provide: A, useClass: B }`
  (read as B alone), when a parameter has `@Inject(token)` (its type is looked
  for), when a list is a shorthand property (read as empty), when a global
  module re-exports another one, and when it is outside a scoped scan. Where
  `NestWiring` has them, `ListsAreWrittenOut`, `ParametersAskForTheirType` and
  `GlobalsAreRead` name them.
* Scope: files staged before the first commit are dropped, though specification
  015 (G4, AC-12) has them in scope. `ScopeIsTrue` is therefore stated for a
  repository with a commit, and because of `ScopeFailures.cfg` for resolutions
  in which no git fails (`GitAnswered`). A target that is missing is answered
  with 2 (`scan.ts:91`), one that goes away after that look ends the command
  with an exception.
* Clipboard: the one SIGTERM is all; a tool that ignores it stays behind.
* `ci report`: a report or an event file that holds `null` throws a `TypeError`
  (exit code 1), though specification 016 (AC-10, AC-11) says 2; likewise
  `findings.json` or `session.json` in `scan --trace` (specification 021, AC-2).
* Hook: the windows of the event-loop lag do not add up to its total, since each
  `reset()` costs the next window a sample; a blocking collector that fails
  midway leaves the earlier APIs wrapped; a lag interval beyond 32 bits becomes
  one millisecond.

And of the earlier models: with a duration just
below the timer's maximum the second and third delay overflow `setTimeout`
before the first does, and the child is killed at once (`runner.ts:165`;
`DelaysFit` excludes it, and with `TIMEOUT_MAX = 2` TLC finds
`EscalationInOrder` violated); an exception out of
`spawn` itself leaves the empty session directory behind (`SpawnThrow`, which
`StartFaultsHandled` excludes); collector lines of the application's exit
listeners may follow the detach line; the lines scope drops the internal
diagnostic of a crashed rule when line 1 is unchanged, although its
`skippedChecks` entry stays; and an entry that is ignored, or hidden by an
unreadable `package.json`, makes the files it imports look unused
(`EntriesKnown`).

## Not modelled

Layout, wording, sorting and ids of reports; globs and the directory walk; the
syntax rules and the parser, whose correctness is about TypeScript, and with
them the extraction of routes, DTOs and scopes and the Nest rules that read
them; `unused-export` and `unused-dependency`, which ask the same reachability
as `unused-file` of names instead of files; option parsing and the merge of
configuration with command-line overrides, pure and without a hard case; the
formatting of reporters and rule documents; installation, a sequential copy
whose only hazard is a crash between removal and copy (`install.ts:181`); the
staleness of React closures between a key and the next rendering; exceptions
out of Ink's unmount while the console is torn down.

## Plan

1. Done: `ProbeSession`, `ConsoleView`, `Clipboard`, `ConsoleCopy`,
   `ScanCommand`, `ScanPipeline`, `CycleSearch`, `NestWiring`, `ProbeHook`,
   `ProbeAnalysis`, `CiReport`, `ConfigLoad`, `ScopeResolve`, `TraceLoad` and
   `ScanInputs`, their contracts, and the proofs of their safety properties.
2. Later, if the code grows there: names instead of files in the graph rules,
   the merge of configuration layers.
