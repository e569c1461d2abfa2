# Formal models of Prompt Gate

TLA+ modules, TLC runs and TLAPS proofs for the agent of this repository
(`src/agent`, Go), the browser extension (`src/extension`) and the desktop
application (`src/electron`) as far as they share its state. `PROJECT.json` is the
machine-readable index: components, runs, mutants, the source lines every
definition stands for, hazards, findings and theorems. Paths below are relative to `src/agent/internal` unless they
begin with `cmd/` (`src/agent/cmd`), `extension/` or `electron/` (`src/`).

Run, in this directory:

    tlc -workers 2 -config PolicyEngine.cfg MCPolicyEngine   # a model-checking run
    tlapm PolicyEngineProofs.tla                             # a proof

## 1. The system

The agent decides what a workstation may reach and what may be pasted into or
posted to AI services. Its state is small, mutable, and shared by goroutines
that do not know of each other: the local HTTP API, the rule updater, the
profile refresher, the DNS resolver, the MITM proxy and a few periodic loops.
What is hard is nearly always the same: state in SQLite or in files, a copy of
it in memory, and writers that change the two in more than one step.

| component | state | operations | hard behaviour | what makes it correct |
|---|---|---|---|---|
| policy engine (`policy/engine.go`) | source list; domain index and category actions, swapped together | `Reload`, `SetSources`, `CheckDomain` | Reloads of concurrent goroutines, each several reads long, are not ordered | what is live misses no change older than its Reload; a 200 means the change became live |
| rule lookup and parser (`rules/lookup.go`, `parser.go`) | two maps | `Build`, `Lookup` | precedence of files, exact names and wildcards | equals its declarative definition |
| override store (`rules/override.go`) | two sets in memory, two files | `Add`, `Remove`, `NewOverrideStore` | two writes per operation, write failures, crashes between them | lists exclusive; memory = files; acknowledged requests kept |
| rule updater (`rules/updater.go`) | version in memory and in SQLite, files, live engines | `CheckNow`, `Start` | overlapping checks, partial downloads, failing reloads, restarts | no version recorded unreloaded; files settle; an update answered is live |
| statistics counter (`stats/counter.go`) | five atomics, one row | increments, `Flush`, `GetStats`, `Reset`, `Run` | no lock over flush, read and reset; failing stores; shutdown | one atomic total |
| proxy controller and server (`proxy/controller.go`, `proxy.go`, `ca.go`) | server, CA in memory and on disk, listener pointer, running flag | `Enable`, `Disable`, `SetListenAddr`, `ListenAndServe`, `Shutdown` | goroutines of ended listeners clean up late | an accepting listener can be stopped; certificates are of the installed CA |
| proxy request path (`proxy.go`, `extract.go`, `dlp/redact.go`) | none of its own | tunnel or intercept, decode, scan, mask, forward or block | every setting is read at another moment; overlapping spans; partial masking | what the settings hold back does not go out |
| DLP pipeline, cache, correlator, allowlist (`dlp/`) | patterns, weights, thresholds, cached verdicts, fragments per session, allow-once values | `Scan`, setters, `Rebuild`, `Add`/`Remove` | scans overlap setters; cache resets race puts | a verdict is that of one configuration; no stale verdict outlives its change |
| enterprise profile (`profile/`) | the active profile, its lock, HTTP validators | `Apply`, `checkOnce`, import | one of many steps fails; validators are remembered early | a fetched profile is applied or fetched again |
| system configuration (`api/handle_sysconf.go`, `sysconf/`, `cmd/proxy-helper`) | OS settings, flags, persisted flags | apply, restore, restore at start and at shutdown, the helper's watchdog | crash between OS, flag and file; a command that outlives its caller | the file knows what was set; nobody stays without a network |
| DLP matching (`dlp/ahocorasick.go`, `regex.go`, `hotword.go`, `exclusion.go`, `scorer.go`, `scorer_context.go`, `threshold.go`) | none of its own | prefix scan, filter, windows, scores, thresholds | overlapping prefixes, windows, what counts in a score; settings read at two moments | no reachable hit is missed; leniency never blocks |
| canaries (`api/canary.go`, `store/canary.go`) | table, live patterns | add, remove | check-then-insert, rebuild of an old reading | live patterns = table; limit kept |
| alerter (`alerter/`) | baseline | tick, POST | deltas over resets; answers that are lost | no block reported twice while answers arrive; none forgotten |
| tamper detector (`tamper/`) | last result | tick | two questions while the settings change; questions that fail | lasting tampering is noticed |
| store (`store/store.go`) | SQLite tables | reads and upserts | withdrawal of consent races an insert | no event stored without consent; history bounded |
| desktop application (`electron/main.ts`) | the agent's process, flags, timers | start, restart, health poll, stop | three callers of one start, awaits between its checks, exits of old children | every child is known; an agent answers again |
| browser extension (`extension/`) | held actions, the worker's open questions, port | intercept, ask, fall back, fall open | answers of two transports, timers, a host or worker that ends | a secret goes only after a timeout or a failure of its own; nobody waits for ever |
| rate limiter (`api/ratelimit.go`) | a token bucket | take, replace | filled only when somebody asks | in no stretch of time more than the burst and what the rate yields |
| notifier (`notify/`) | bounded channels | broadcast | full channels | no broadcast blocks |
| agent process (`cmd/agent/main.go`) | order of start and end | | goroutines running before and after their dependencies | |

The components call each other as follows. API handlers write the store or a
file and then call `Engine.Reload`, a setter of the pipeline, or the proxy
controller. The updater's `Reload` callback (built in `cmd/agent/main.go`)
reloads the policy engine and then rebuilds the pipeline. The resolver, the
proxy and the API count into the counter; a goroutine flushes it. The override
store only writes files; the engine reads them because `main` appends their
paths to its source list after the updater's goroutine has started. The desktop
application starts and stops the agent's process and asks its API; the browser
extension asks it over the native host or HTTP.

## 2. Modules

| module | models | constants |
|---|---|---|
| `PolicyEngine` | `Reload` read by read, `SetSources`, every request that writes something a Reload reads, the updater's writes, the start of the agent | goroutines, configured files |
| `RuleLookup` | `Build`, `add`, `Lookup`, `CheckDomain` as operators, and the declarative reference `CategoryOf` | domains and their parents |
| `OverrideStore` | `AddOverride`, `RemoveOverride`, both file writes, failures, restarts; extends `RuleLookup` for what the lists decide | entries, `MaxEntries` |
| `EventTotal` | the abstract specification of a statistic: one atomic total that is counted, reset, or loses events with its process | none |
| `StatsCounter` | one of the five counters: memory, row, the flusher, `Reset`, `GetStats`, orderly shutdown, crash, restart | bound on events |
| `ProxyLifecycle` | controller operations and the goroutine of each listener, requests in flight | addresses, bounds on Servers and listeners |
| `RuleUpdater` | `CheckNow` in several goroutines, the reload callback in halves, versions in memory and SQLite, edits over the API, publications, restarts | checkers, files, manifests, bound on trouble |
| `DLPScan` | one content scanned, pattern by pattern, under setters of thresholds, weights and patterns; its cached verdict | patterns, tables of scores and thresholds |
| `ManagedConfig` | `dlp_config`, `category_policies`, their live copies, the active profile and its lock; every path that changes them: requests, import, start, refresh; extends `DLPScan` | goroutines, profiles, bound on trouble |
| `RequestPath` | CONNECT, the checks of one request, decoding, scan or masking (`Redact` in its three reads), delivery, under changes of policy, mode and patterns | secrets, bodies, bounds |
| `DLPMatch` | the scans of one text under changes of rules, settings and allowlist: the prefix scan, the filter, the windows of the regular expressions, hotwords, exclusions, scores, bias, thresholds | rules, texts, pages, weights, bars, window, bound on changes |
| `RateLimit` | the token bucket before `POST /api/dlp/scan` and its replacement | parts of a token, rates, bursts, clock |
| `Canaries` | create, delete, refresh, start, over concurrent requests | requests, limit |
| `Allowlist` | one value: `Add`, `Remove`, `Allows`, `reload`, the clock | requests, destinations, lifetimes |
| `Correlator` | `Combine` with its clock and lock, expiry, eviction; the second scan of `Redact` | scans, sessions, limits |
| `BlockHistory` | consent, insert, trim, clearing | goroutines, limit |
| `SystemConfig` | OS setting, flag and file; requests, start, shutdown, crashes; the helper's late commands and watchdog; the application's switch | settings, helper, strikes |
| `Alerter` | baseline, threshold, POST, resets, restarts | threshold |
| `TamperDetector` | one look, question by question | bounds |
| `AgentSupervisor` | `startManagedAgent` await by await for its callers, exits, the health poll, quitting and updating | platforms, processes, limits |
| `ScanClient` | a held action, the content script, the worker, the native host, the fallbacks | actions, secrets |
| `MCServices`, `MCWatchers` | selectors, see below | |
| other `MC…` | the values of the constants for TLC | |
| `…Proofs` | theorems of the module of that name, or of the parts of a selector | |

`MCServices` extends `RequestPath`, `OverrideStore`, `DLPMatch`, `Canaries`, `Allowlist`, `Correlator`,
`BlockHistory` and `RateLimit`; `MCWatchers` extends `SystemConfig`, `Alerter`, `TamperDetector` and
`ScanClient`. The parts of a selector share no variable; where one part's code feeds
another (a canary is a pattern of the request path), the other takes the change at
any moment. Their interleavings say nothing more, so a variable chosen in the initial state names the part
whose steps a behaviour takes, and the state space is the sum and not the
product. Each invariant then holds of its part in every behaviour that
moves it, and the part's initial state in the others. `TamperSeen` is `TamperNoticed` of
the behaviours that pick the detector.

### How state and actions correspond to the code

`PolicyEngine`. `ver[x]` is the content of a rule file or of the policies
table, represented by the number of writes it has had, because the engine's maps
are a pure function of what a Reload read (`RuleLookup` is that function).
`live[x]` is the version in the installed maps. A goroutine's `pc` walks through
its handler: the lock of the override store, its `todo` of writes, then
`ReloadBegin` (the copy of the source list), one `ReadRuleFile` per file,
`ReadPolicies`, and `Install` (the swap under `Engine.mu`). `os.WriteFile` is
two writes (truncation and content); a protection plan is three upserts; a
rename is one. Every read and every write may fail, and then the handler returns
with what it has done.

`OverrideStore`. `mem` and `disk` are the two sets and the two files, `op` the
request that holds the mutex with the files it still has to write, in the
code's order (the other list first on `Add`, the allow list first on `Remove`).
A write that fails ends the request and leaves `mem` changed, as the code does.
`shipped` is the list of configured files; `Decision` runs `Build`, `Lookup` and
`CheckDomain` over the files in the order `main` registers them.

`StatsCounter`. `Swap(0)`, the upsert of `AddStats` and the restoring `Add` are
separate steps, so are the two halves of `Reset` and the two reads of
`GetStats`. `phase` and `dbOpen` are the deferred calls of `main.run`: cancel the
context, close the store, return. The five counters do not interact and every
operation treats them alike, so one stands for all.

`ProxyLifecycle`. `op` is the operation holding `Controller.mu`; it waits either
in the startup window of `ListenAndServe` or in `Shutdown`. `stage[r]` is where
the goroutine of listener `r` is; clearing `running` and clearing `httpSrv` are two
steps because they are two in the code. `Prompt` restricts the startup window
to listeners that bind or fail within it, to show that the finding below needs
no unusual listener. `inflight` are the listeners with requests that their `Shutdown`
waits for. A handler's `Disable` or `SetListenAddr` waits with the context of its request,
which has no deadline (`handlers.go:927`, `978`); main's deferred `Disable` gives up
after three seconds (`DisableAtExit`). Both need the mutex first.

`RuleUpdater`. One step for the bookkeeping under `Updater.mu`, one for the
manifest, one for every comparison and every download of a file (a digest is
represented by the content it is the digest of), one for each read and each
install of the two halves of the reload callback, one for `currentVersion` and
one for the row. `EditFile` is `PUT /api/rules/files/:name`, whose own Reload
reaches the policy engine only. `alone`, `reloaded` and `owed` are history
variables: they are never read by a guard.

`DLPScan` and `ManagedConfig`. `Score[p, w]` is what `evaluatePattern` computes from
the matches of pattern `p` under weights `w`, `Need[p, t]` the threshold of its
severity; the model is about when the weights and thresholds are read, and in
what order the results are compared (`Prefer` is `preferResult`). `ScanBegin` is the copy
under the pipeline's read lock, `JudgePattern` one evaluation, which asks
`ThresholdEngine` anew, and `Answer` the `Put`. `Profile.Apply` is one step per
category, then the read of the row (only of a profile that pins a knob), its
write, `Threshold().Set`, `SetWeights` and its `cache.Reset`, `Engine.Reload`, `Holder.Set`.
`Keep` is the zero with which a profile leaves a knob alone. `etag` is the profile
whose validators the refresher holds. Two abstractions: the several knobs of
`dlp.Thresholds` are one value and so are those of `ScoreWeights`, since every
writer writes all of them at once; and `published` has validators that
identify it (a server without any makes the refresher apply the same profile at
every tick). `caching` is fixed at start: `main` enables the cache and also
the allowlist, whose presence turns the cache off, so verdicts are cached only
when the allowlist could not be loaded. `alone`, `baseline`, `mixed`, `unsettled`,
`crossed` and `tainted` are history variables. `cast` says which goroutines are active
in a behaviour; it only narrows the instance.

`RequestPath`. A body is what the properties tell apart: for every secret the spans
of cells it lies in, whether normalisation, `decodeBase64Text` or nothing special is
needed to see it, whether it lies aside of what is decoded (names of form fields,
text outside of multipart parts), the compression, and how far into the body it
lies compared with `maxScanBytes` and `maxFileBytes`. Masking is real: `mergeSpans` merges spans, the
masked copy is scanned again, and a text leaks a secret when one of its cells goes
out. `held` is a history variable, the secrets that every setting since the request
began holds back.

`DLPMatch`. A text is not characters but spans: where the prefix of each rule occurs, what
its regular expression matches in the whole text (`hits`, with the value matched), where its
hotwords and the words of exclusions stand. `from` is the position of the search for a prefix,
which goes on behind the occurrence it found (`Sweeps`); the candidates are filtered by
category and, in large texts, by severity (`Filters`); `Finds` is the window of
`findAllInWindow`, cut off where the code cuts it. `Score`, `Bias`, `Bar` and `Blocks` are the
arithmetic of `ScoreMatch`, `ScoreBiasFromContext`, `thresholdFor` and `evaluatePattern`, in whole
numbers. Two things are assumed of the regexp package: that it finds a match wherever the
bytes it is given hold the whole of it, and that it finds the same one. `Cleared` are the values that
`IsPublicExample` and `IsPlaceholderShape` let pass. `passed` is a history variable. A word
that only arises when `evalDictionary` cuts the value out of its surroundings and joins what is
left is not modelled.

`RateLimit`. The code's floating-point tokens and seconds are whole parts of a token and
ticks; `mark` and `granted` are history variables, a moment and what was allowed since.

`Canaries`, `Allowlist`, `BlockHistory`. One step per SQL statement and per
critical section; the list that `refreshCanaryPatterns` has read travels in
`canaryKnown`. `canaryRaced`, `canaryOverdue`, `overtaken`, `allowMixed`, `untrimmed`, `wiped`
and `stragglers` are history variables that name the overlaps the code allows.

`Correlator`. `clock` is read before the lock (`PasteAsks`, then `Combine`). A text is its number in
its session, so that the property can say whose tail was put in front.

`SystemConfig`. `os`, `flag` and `file` are the three copies. An operation is the holder of
`sysConfMu`: the command, the flag, the truncation and the write of the file. `late` holds
commands whose caller has given up and which the helper still carries out. `lapse` is
a history variable: settings a failure or a crash within an operation has cut off.
The secure and the plain web proxy of a service are turned off one after the other and each may
stay on: `os["proxy"] = "plain"` when only plain ones are left, which the watchdog does
not ask for (`Seen`). A look may go wrong (`WatchdogErrs`): the services or their
settings cannot be read and the strikes are lost, or a connection is not made in time. A
removal may fail (one more look, and it is tried again) or pass over a setting.

`AgentSupervisor`. A step is what JavaScript runs between two awaits. `flow[f]` is how far a
`startManagedAgent` has come, for the boot and for the restarts, which share the flag
`restarting`. `proc` are the operating system's processes, `watched` the children whose `exit` event
is still to come. `foreign` are the processes of root or another user: a kill does not reach them, and only
on macOS, and only of who holds a port, the user is asked and may grant or refuse (`KillStale`). On Windows no stale agent is
killed at all and a signal ends a process at once. `platform` is chosen once; Linux does what macOS does when
every prompt of a kill is refused and no folder repaired. Until `restoreSystemProxy` has ended, a
quitting application does what a running one does, so the model has no state of its own for it.

`Alerter`, `TamperDetector`, `ScanClient`. One step per question, answer and timer.
`blocked`, `reported`, `unbased`, `expired` and `unanswered` are history variables.

## 3. What TLC checks

| run | checks | instance | result |
|---|---|---|---|
| `policy_reload` | `SnapshotCoversEarlierWrites`, `OwnWritesInstalled`, `EveryRequestAnswered` | two operations of any kind, the start of the agent, one configured file | 82 000 states, holds |
| `stats` | `ReadingSound`, `ResetForgets`, `ImplementsEventTotal` | three events | 182 000 states, holds |
| `proxy_lifecycle` | `ServingIsTracked`, `ServerUsesInstalledCA`, `OperationsEnd` | two Servers, three listeners, two addresses, requests in flight | 523 000 states, holds |
| `proxy_disable` | `DisableStopsListener` | two listeners, one address, prompt | violated |
| `rule_updater` | `RecordedAfterReload`, `UpdatedMeansLive`, `FilesSettle`, `UnrecordedBecomesLive` | two checkers, two files, two manifests, two troubles | 564 000 states, holds |
| `updater_retry` | `FailedReloadRetried` | one checker, three troubles | violated |
| `managed_config` | `ScanSound`, `CacheCurrent`, `BaselineKept`, `DLPInSync`, `UnfetchedApplied`, `StaleVerdictsExpire` | two patterns of equal score, two profiles, two troubles; two requests, or a request with the refresher or with a scan | 133 000 states, holds |
| `services` | `HeldBackStays` (request path); `MatchesComplete`, `LeniencyNeverBlocks` (matching); `RateKept` (rate limiter); `TripwiresMirrorRows` (canaries); `AllowsAsStored` (allowlist); `SplitSecretSeen` (correlator); `WithdrawalHolds` (history); `ListsMatchFiles`, `AcknowledgedIntentKept`, `OverrideDecides`, `IndexMatchesReference` (overrides) | two secrets in some thirty bodies, two requests, two changes; two rules, nine texts, one change; three canary, allowlist and history requests; two scans of three sessions in a map of two; a domain and a subdomain, three entries, limit 2, three shipments; a token of two parts and four ticks | 1 682 000 states, holds |
| `watchers` | `FileKnowsSettings`, `StrandingEnds` (settings); `AlertsAddUp`, `BlocksAlerted` (alerter); `TamperSeen` (detector); `LeakOnlyOnFailure`, `WaitsOnlyForFetch` (scans) | the system proxy with the helper and the switch, two failures, of commands, looks or removals; threshold 2, six blocks; three tamperings; a request, a paste and a clipboard | 205 000 states, holds |
| `agent_supervisor` | `ManagedIsReferenced`, `AnswersAgain` | macOS and Windows; two processes, one crash in a burst, two missed ticks, two troubles | 371 000 states, holds |
| `redact_session` | `CopyJudgedAlone` | one session, three texts | violated |
| `edits_settle` | `EditsSettle` | a request and a paste, one failure | violated |

The type invariants are not among the properties of the runs; they are proved for every module.
So are `LimitHolds` (canaries), `HistoryBounded` and `DetectionsWarranted`, which no run lists: TLC
confirms them on the same instances.

### Bounds

Two goroutines are enough in `PolicyEngine` and `RuleUpdater` for every way in
which one operation can overtake another; a third adds only a second overtaking
of the same kind, and the proofs below hold for any number. One
configured rule file stands for all, since a Reload treats every file alike and
the two override files follow it. `OverrideStore` needs three entries so that a
list of limit 2 can be full of others, and a domain with its parent so that
exact names, wildcards and both lists meet. Three events let one be in the row,
one in flight and one in memory. Three listeners over two Servers let the
cleanup of the first meet the second and the third, on the same Server or
another. In `RuleUpdater` two manifests that differ in both files are what
concurrent checks can mix up; `MaxTrouble` bounds how often a behaviour fails,
publishes, edits or restarts (two are enough for a failure in each of two
checks, or a publication and a failure; the violation needs three). In
`ManagedConfig` the patterns have equal scores under one value of the weights and
different ones under the other, so that ties, and verdicts that a change turns
around, both occur; one profile is managed and pins the policy and the thresholds,
the other is not and pins the weights, so that each leaves something
of the other. `MaxTrouble` there bounds requests, publications, failures and
restarts together. A third trouble takes five minutes and finds nothing new; the
invariants are proved for any number.

In `services` the spans of the two secrets lie apart, touch, overlap, contain one
another and occur twice, and every wrapping of a body occurs with two secrets; two
changes let a setting go and come back while a request is between its reads, and
two requests on one connection let the second meet what changed after CONNECT.
Three canary requests under a limit of one exceed it together; three sessions in a
map of two make the correlator evict, and a clock that reaches three lets
sessions expire and scans carry an old time. Three recorders over a limit of two rows
trim while others insert. Of the two rules of `DLPMatch` one has a prefix, an entropy and an exclusion, the
other none, needs two matches and a hotword, and biases its destination. Its texts have prefixes
that overlap, prefixes in prose, and hits at the borders of a window of three bytes, in texts
just longer than the two windows; a penalty may be a bonus. One change between two scans is enough for
a verdict to turn. Four ticks fill and empty buckets of two and four parts more than once. In `watchers` two failures are one in an operation and one
in the watchdog's removal, or two of the three looks that a removal needs; six blocks are three windows of two; one network
request, one paste and one clipboard share the worker's port, so that the
answer or the end of one meets the others. Two processes of the agent let an old
child end after a new one was started, or an agent of somebody else hold the port of a child, and a slot is used again. One setting
of two is enough for TLC in `SystemConfig`; `FileKnowsSettings` is proved for both.

### Fairness

* `PolicyEngine`: weak fairness of each goroutine's next step; strong fairness
  of taking `OverrideStore.mu`, because Go's `sync.Mutex` hands itself over to a
  waiter that starves. Nothing makes a request begin.
* `ProxyLifecycle`: goroutines are scheduled, the startup window is a timer, a `Shutdown` ends when
  no request is left, and main's after its deadline. Nothing obliges a listener to fail
  (only one that was told to close ends), a request in flight to end or the
  client of a handler to give up: a handler's operation may keep the mutex for ever, and
  `OperationsEnd` says that nothing else may, and that it then waits for a request in
  flight of the listener it shuts down.
* `RuleUpdater`: weak fairness of a check's steps (the HTTP client has a timeout,
  so each step ends in an answer or an error) and of the next check of the
  polling goroutine (its ticker). A client of the API is not obliged to ask.
* `ManagedConfig`: weak fairness of the steps of an operation and of a scan, of the
  refresher's ticker, and of the expiry of the cached verdict (its lifetime is
  finite). Requests, publications and failures are never obliged to come.
* `SystemConfig`: the helper's watchdog looks and restores (a ticker of a launch daemon); no more than
  `MaxTrouble` of its looks and removals go wrong.
  Nothing makes an agent start, a user press the switch, or a late command come.
* `Alerter`, `TamperDetector`: their tickers go on, and a POST or a question ends, one way or the
  other (the HTTP client and the commands have timeouts).
* `ScanClient`: timers fire (the bridge's, the one of a native question, the content
  script's own fetch) and a message to the worker is taken or fails. The answer of
  the worker's fetch is not fair: it has no timeout, which is what `edits_settle` shows.
* `AgentSupervisor`: callbacks and timers of the application run, a start gets an answer to each of
  its questions, an agent that was spawned comes up or ends, and the prompt of a kill is
  granted or refused (the application waits for it without doing anything else). The
  prompt of a repair need not be answered, and no kill need be granted: `AnswersAgain` excepts what
  follows, a hung agent that is out of reach (`OutOfReach`: another user's, and on Windows
  every one but the child that `agentProcess` names) and a respawn that waits for a prompt. The six seconds of
  polling may end before the timer of an exit fires, but for a hung agent, which makes each of the thirty
  questions last one and a half seconds.
* The other modules have only safety properties and no fairness.

### Deadlock

`PolicyEngine`'s runs set `CHECK_DEADLOCK FALSE`: each goroutine performs one
operation, and when all are answered nothing is left to do. That none waits
for ever is `EveryRequestAnswered`. `ManagedConfig`'s runs set it because an
agent that no request, publication or scan reaches has nothing to do; that a begun
operation goes on is part of `UnfetchedApplied` and `StaleVerdictsExpire`. The
selectors' runs and those of their parts set it because requests, clocks and blocks
are bounded and a part may have nothing left to do. All other runs check for deadlock.

### What the violations show

1. **Disable can leave a listener running** (`proxy_disable`). The goroutine of an
   ended listener clears the flag of its Server after a new listener has raised
   it, and `Disable` asks only the flag.
2. **A failed reload of a recorded version is not retried** (`updater_retry`).
   When a file is downloaded again under the version already recorded and the
   reload fails, the next check sees nothing to do. `UnrecordedBecomesLive` shows
   that a version not yet recorded is retried.
3. **A masked copy is scanned behind the secret it was made of** (`redact_session`).
   `Redact` passes the session to the scan that verifies its copy, and the correlator
   puts the tail of the original in front: what lies in the last 256 bytes is found
   again and blocked instead of masked. `SplitSecretSeen` shows that the correlator
   itself does what it promises.
4. **A paste can be held back for ever** (`edits_settle`). The fetch of the service
   worker has no timeout, and the content script waits for the worker without
   one. `WaitsOnlyForFetch` shows that this is the only wait without an end.

### What the preconditions say

The preconditions and exceptions of properties that hold are weaknesses of their own:

* A Reload that read the override files before a request changed them, and
  installs after that request was answered, brings the old lists back until
  somebody reloads: `SnapshotCoversEarlierWrites` is the most that can be said.
* `Lookup.add` keeps the first category of a name and `main` registers the override files
  last, so an override of a shipped name decides nothing, although the documents say
  that local rules win. `OverrideDecides` says when an override does decide.
* Nothing waits for the goroutine whose last flush the comment of `Counter.Run` promises:
  a shutdown can lose the last increments, which `EventTotal` allows.
* The refresher remembers the validators before it applies a profile; after one
  failure the server answers 304 until it publishes something else. `UnfetchedApplied`
  speaks of profiles whose validators are not yet remembered.
* `BaselineKept` speaks of a profile that no request overlapped: a `PUT` that asked
  `Locked()` before an import finished writes after it. `CacheCurrent` excepts a scan
  that a change crossed: its verdict is put into the cache after the reset, and
  `StaleVerdictsExpire` shows that it goes when its lifetime ends and not before.
* `HeldBackStays` lists what the proxy lets pass with open eyes (`Unheld`): a tunnel opened
  while the category was allowed stays opaque; telemetry paths; a panic of a decoder;
  what lies beyond the scanned prefix; in mask mode a form field whose secret is
  found and cannot be located is sent as it is, while any other body is blocked
  then; base64 with line breaks or in the URL alphabet is opened by the scan of block mode
  and not by mask mode; names of form fields are neither scanned nor masked.
* `TripwiresMirrorRows` excepts a refresh that listed the rows before another request changed
  them, `LimitHolds` creates that overlap in their check (several requests may together plant more canaries than the limit), `AllowsAsStored` a request whose entry
  overwrites that of a later row, `WithdrawalHolds` goroutines let in before the clearing.
* `FileKnowsSettings` excepts crashes within an operation and failed writes of the file, whose error
  is only logged; then nothing but the helper's watchdog restores the network, and
  it knows the proxy and not the resolver.
* `OperationsEnd` excepts a handler whose `Shutdown` waits for a request in flight: it holds the
  mutex of the controller, which every status request and main's own `Disable` need, as long as
  that request and its client go on.
* `AnswersAgain` excepts a hung agent that is out of the application's reach: it keeps the port, and every
  respawn ends at once. On Windows that is every hung agent but the application's own child.
* `StrandingEnds` speaks of the secure web proxy. The helper turns the two proxies of a service off by two
  commands, ignores their errors, and its watchdog asks for the secure one only: when the second command
  fails, the plain web proxy goes on pointing at a port nobody listens on and no later look sees it, although
  `main.ts:864` relies on the watchdog to guarantee internet.
* `ManagedIsReferenced` excepts two starts that spawned across each other's prompt: the first
  child is never stopped.
* `MatchesComplete` does not promise a hit whose prefix lies in its middle or further away than a window: in
  a text of more than 2048 bytes a match longer than `regexWindow` on one side of its prefix is cut, and an occurrence
  inside of another one (`Reachable` counts it up to a prefix's length short of the window) is not searched
  from. `LeniencyNeverBlocks` compares scans with the same weights: raising one is not lenient. If
  the penalty of exclusions is configured as a bonus, adding an exclusion may block, which
  `Lenient` leaves out.
* Reading along: `Automaton.Scan` returns offsets into `strings.ToLower` of the text, and the windows are cut out
  of the text itself; some letters change their length, and after a thousand of them a window
  lies beside its prefix. `evalDictionary` cuts only the first place of the value out of the surroundings:
  a word inside of a value that occurs twice counts as an exclusion. `writeCA` writes the
  certificate before the key and `loadCA` does not compare them: when a key without a certificate is on disk and the
  second write fails, the pair does not fit.
* `stopManagedAgent` sends SIGKILL after three seconds only if the reference
  still stands; a request served between `RestoreAllSysConf` and the shutdown of the HTTP server can
  set the proxy again; a blocked request whose bridge has timed out shows its toast
  although it was let go; nothing calls `Allowlist.Cleanup`.

## 4. What is proved

TLAPS proves the following for every value of the constants that satisfies the
modules' assumptions (which TLC evaluates in every run). Each theorem is of the
specification without fairness.

| theorem | statement |
|---|---|
| `PolicyEngineProofs!TypeCorrect`, `ChangesCovered`, `AnswerInstallsOwnWrites` | `TypeOK`, `SnapshotCoversEarlierWrites`, `OwnWritesInstalled` |
| `ServicesProofs!OverrideTypeCorrect`, `ListsPersisted`, `Exclusivity`, `IntentKept` | `OverrideTypeOK`, `ListsMatchFiles`, `MutuallyExclusive`, `AcknowledgedIntentKept` |
| `StatsCounterProofs!TypeCorrect`, `ReadingsSound`, `ResetsForget`, `Implementation` | `TypeOK`, `ReadingSound`, `ResetForgets`, and that `StatsCounter` implements `EventTotal` |
| `RuleUpdaterProofs!TypeCorrect`, `VersionsRecordedLate`, `UpdatesLive` | `TypeOK`, `RecordedAfterReload`, `UpdatedMeansLive` |
| `ManagedConfigProofs!TypeCorrect`, `ScansSound`, `CachedVerdicts`, `InSync`, `BaselineHolds` | `TypeOK`, `ScanSound`, `CacheCurrent`, `DLPInSync`, `BaselineKept` |
| `ProxyLifecycleProofs!TypeCorrect`, `ServingTracked`, `InstalledCAUsed` | `TypeOK`, `ServingIsTracked`, `ServerUsesInstalledCA` |
| `ServicesProofs!IndexIsReference` | what `Lookup` answers from the index `Build` makes of any list of files is `CategoryOf` of the list |
| `ServicesProofs!IndexCorrect`, `OverridesDecide` | `IndexMatchesReference`, `OverrideDecides` |
| `ServicesProofs!MergeSpansCover` | `mergeSpans` of any finite set of spans covers each of them |
| `ServicesProofs!RequestTypeCorrect`, `HeldBackKept` | the types of `RequestPath`, `HeldBackStays` |
| `ServicesProofs!MatchTypeCorrect`, `PrefixScanSound`, `LeniencyMonotone` | `MatchTypeOK`, `MatchesComplete`, `LeniencyNeverBlocks` |
| `ServicesProofs!RateTypeCorrect`, `RateRespected` | `RateTypeOK`, `RateKept` |
| `ServicesProofs!CorrTypeCorrect`, `SplitSeen` | `CorrTypeOK`, `SplitSecretSeen` |
| `ServicesProofs!HistoryTypeCorrect`, `HistoryStaysBounded`, `WithdrawalKept` | `HistoryTypeOK`, `HistoryBounded`, `WithdrawalHolds` |
| `ServicesProofs!CanaryTypeCorrect`, `LimitKept`, `TripwiresMirror` | `CanaryTypeOK`, `LimitHolds`, `TripwiresMirrorRows` |
| `ServicesProofs!AllowTypeCorrect`, `AllowedAsStored` | `AllowTypeOK`, `AllowsAsStored` |
| `AgentSupervisorProofs!TypeCorrect`, `ChildrenReferenced` | `TypeOK`, `ManagedIsReferenced` |
| `WatchersProofs!TamperTypeCorrect`, `Warranted` | `TamperTypeOK`, `DetectionsWarranted`: no change is counted twice |
| `WatchersProofs!AlertTypeCorrect`, `AlertsSound` | `AlertTypeOK`, `AlertsAddUp` |
| `WatchersProofs!ScanTypeCorrect`, `LeaksExplained` | `ScanTypeOK`, `LeakOnlyOnFailure` |
| `WatchersProofs!SettingsTypeCorrect`, `FileKnows` | `TypeOK` of `SystemConfig`, `FileKnowsSettings` |

Why the properties are not inductive, and what makes them so:

* `PolicyEngineProofs`: that the live snapshot covers earlier writes says nothing of
  a Reload in progress. The invariant adds, for every goroutine that reads, that
  each item it has read is at least as new as when it began, that the items
  still to be read lie ahead in its copy of the source list, that the source
  list is the bundled one before `SetSources` and the full one after, and that
  no operation of the API exists before that: this last fact is why a
  snapshot without override files cannot hide an override.
* `ServicesProofs`, overrides: exclusivity on disk between the two writes of an `Add`
  needs to know that the other list's file, if still to be written, is first,
  and which lists already agree with memory.
* `StatsCounterProofs`: `ReadingSound` needs the reader's half sum bounded by the
  part of the total it has already passed; `ResetForgets` needs that
  nothing older than the reset is in flight. The refinement maps the total to
  `mem + db + delta`: flushing and reading are stuttering steps.
* `RuleUpdaterProofs`: `UpdatedMeansLive` is a property of one step, carried by an
  invariant about a check that is alone: the files before its position equal its
  manifest; once past the comparison all do; once the halves of its reload have
  installed, so do the engine and the pipeline. The proof needs that a check
  which is not overlapped finds all others idle, and that beginning another one
  ends its being alone.
* `ManagedConfigProofs` has four invariants over the type invariant. For scans: what a
  scan that nothing crossed has found is the best of the patterns it has
  judged (`Chosen`), with two lemmas about verdicts: at most one is the best
  (`VerdictUnique`), and judging one more pattern keeps the best (`ChosenExtends`).
  For the row: while no two updates overlap, at most one operation is between the
  row and the last setter, and it holds the row in its variable (`SyncInv`). For
  the baseline: how far a profile has come that nothing overlaps
  (`ApplyProgress`, one conjunct per step), and that while a baseline rules
  nothing is under way but an update of the rules (`BaselineInv`).

* `ProxyLifecycleProofs`: the pointer of a Server is replaced only when it is free, so
  a run that may still accept and was not told to stop is the one its Server points to
  (`Tracked`); that a Server signs with the installed authority needs the
  authority on disk and the one of the Server that is about to be kept (`CAInstalled`).
* `ServicesProofs`: of the history, that nobody new is let in while it is wiped
  (`WipedMeansShut`), and the bound by the cardinality of the goroutines before their
  trim; of the canaries, that at most one create that no other one raced is
  past its check and finds room (`RoomForUnseen`), and that without a refresh to come
  the patterns are up to date (`MirrorOrOwed`); of the allowlist, that a request that was not
  overtaken carries the row (`EntryFollowsRow`).
* `ServicesProofs`, the index: `Build` is a fold over files and their entries. After every
  prefix of the fold the map has a domain exactly if one of the files so far names it, with the category
  of the first that does (`FirstWins`). A recursive function is proved about by taking the set of indices up
  to which the claim holds and showing that it has 0 and every successor (`SetInduction`, from the library's
  theorem that no set of natural numbers is without a least one): the one form of induction
  that needs no predicate as a parameter. With this, `IndexMatchesReference` holds in every
  typed state, and `OverridesDecide` follows from `IntentKept`.
* `ServicesProofs`, the request: `mergeSpans` folds `MergeSpan` over the sorted spans, and after each step
  every span taken lies in one of a row of spans with gaps (`MergeSpansCover`). What is spliced out
  of a text therefore covers every cell of every secret that was located, and
  `HeldBackStays` needs to know of a request being masked which secrets its parts have passed
  (`MaskProgress`), that the secrets held back are those every setting since its begin holds (`HeldNow`),
  and which ones no part can show (`Overlooked`).
* `ServicesProofs`, the correlator: what the map keeps of a session is its last text (`KeptIsLast`), and a
  session that has pasted is missing only if it was too old for some scan or as many others as the map
  holds have pasted since (`MissingForCause`); the second needs that an insertion into a full
  map evicts the oldest, so the sessions left are all rivals of the one that went.
* `ServicesProofs`, matching: the occurrences the search for a prefix takes are a greedy choice, each the first
  behind the end of the one before. The invariant says so of those taken so far (`SweepInv`), and there is only one
  such choice (`OneSelection`), so that what later steps know of the candidates does not depend on the order
  in which prefixes were searched for (`Selected`, `ValidateInv`, `JudgeInv`). An occurrence that
  was passed over begins in one that was taken (`SelectionCovers`), which is where the length of the
  prefix comes into `Reachable`. For leniency, a verdict is a function of the text, the page and the settings it was
  judged with (`BlockedInv`, `PassedInv`), and that function is monotone (`LenientVerdict`): the matches of an admitted
  pattern are the same ones under both settings, so the number they are counted with is, too.
* `ServicesProofs`, the limiter: what was allowed since `mark` and what is left in the bucket are together no
  more than the burst and what the rate yielded up to the last fill; before the first fill after `mark`
  nothing was allowed (`RateInv`).
* `AgentSupervisorProofs`: a handled exit clears `agentProcess` whoever exited, so that no child but the one
  it names is still watched, and none while a start is on its way to spawn (`Attended`).
* `WatchersProofs`: of the detector, that the detections a look under way or a later one will count without
  another change are paid for already (`Owed`); of the alerter, that what was acknowledged and what is still to be reported were
  both blocked, and that an alert under way covers the baseline up to its total
  (`AlertsCover`): this is what a reset, which makes the delta negative, keeps; of the
  scan client, `LeakOnlyOnFailure` is inductive with the types; of the settings, that what
  points at the agent is flagged, or in the file before there are flags (`Known`),
  and what is flagged is in the file or about to be written (`Filed`).

The theorems about the parts of a selector are of the part's own specification
(`HistorySpec`, `CanarySpec`, ...), whose steps the selector takes.

Only model-checked: the eleven liveness properties of the runs (fairness and `ENABLED` are beyond the
prover): `EveryRequestAnswered`, `OperationsEnd`, `FilesSettle`, `UnrecordedBecomesLive`,
`UnfetchedApplied`, `StaleVerdictsExpire`, `AnswersAgain`, `StrandingEnds`, `BlocksAlerted`, `TamperSeen`,
`WaitsOnlyForFetch`. Every safety property of a run that passes is proved.

## 5. What is not modelled

* **What a value is** (`dlp/entropy.go`, `bloom.go`, `codecontext.go`, the regular expressions themselves,
  `normalize.go` but for what it makes visible in `RequestPath`): given to `DLPMatch` as constants.
* **Loading of pattern files** (`dlp/loader.go`, `override.go`): a rule file is its set of rules.
* **The worker pool** of large texts and its recovery from a panic, which fails open.
* **Cryptography and I/O**: leaf certificates, signatures and digests (they appear
  as outcomes), DNS forwarding, the self updater's download, `heartbeat/`, the installation of
  the certificate and the shells' files in `sysconf/`.
* **Parsing and formatting**: configuration, logs, the syntax of rule files (a file
  is its set of entries), JSON bodies, the pages of blocked requests.
* **Authentication and origin checks** of the API: stateless predicates of a request.
* **Floating point**: tokens and seconds of the rate limiter are whole numbers in `RateLimit`.
* **Notifier**: a broadcast that drops what does not fit; no other state.
* **Stateless tools**: MCP, attestation, the command line tools, the editor extension.
* **User interface**: the pages and menus of the desktop application and of the extension, its
  registration for dynamic hosts and its source contexts.
* **SQLite** is a set of rows whose statements are atomic and durable and may fail,
  which is how its callers use it; its locking is not modelled.

## 6. Plan

Done, in this order: the policy engine with its writers, the override store with
the lookup, the statistics counter and its abstraction, the proxy life cycle, the
rule updater, the managed configuration with the scan, the system settings, the
supervision of the agent, the request path with masking, canaries, allowlist, correlator,
block history, alerter, tamper detector, the extension's scan client, matching, the rate
limiter; the proofs of section 4.

What would add most next:

1. The refinement of `DLPScan`'s table `Score` by `DLPMatch`: that the verdict of a scan is the best of the
   verdicts of its patterns, whatever the order of evaluation.
2. The trigger counters of the canaries with the notifier, when their losses matter.
3. An abstract *register* (last acknowledged write wins) that policy changes through
   one goroutine implement and concurrent ones do not.
4. The shells' files and the persisted listen address, which the handlers of the proxy change after
   `ProxyLifecycle`'s operation.
