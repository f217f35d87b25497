# aptos-guardian: models, checks and proofs

TLA+ modules for the monitoring agent of this repository, the TLC
configurations that check them on small instances, and theorems about them
checked by TLAPS. Paths are relative to the repository's root.

## 1. The system

One Go process, one SQLite file. A **runner** probes every configured entry in
rounds, stores each check, and hands it to an **incident engine**, which reads
the recent checks back and opens or closes incidents, writes the timeline and
calls the **alerter** (Discord). An HTTP **API**, a status **page** and Discord
**commands** read the same database and ask the engine for the **recommended
provider**. Prometheus **gauges** are set on the way.

| part | state | operations | talks to | what makes it correct |
| --- | --- | --- | --- | --- |
| runner (`internal/monitor/monitor.go`) | none but its goroutines | `Run`, `runOnce`, `checkRPC`, `checkDapp` | checkers, store, metrics, engine | rounds do not overlap; a check that is not stored has no effect; a shutdown is not an outage |
| checkers (`internal/monitor/rpc`, `httpcheck`) | one check | `Check` | the endpoint | success means everything was answered; the category names the cause |
| engine (`internal/incidents/engine.go`) | two callbacks | `ProcessRPCResult`, `ProcessDappResult`, `alertOpen`, `alertClosed` | store, alerter | one open incident per entity, opened and closed only on what the table says, never missed |
| recommendation (same file) | none | `RecommendedRPCProvider` | store | never a provider worse in every respect |
| store (`internal/store`) | `providers`, `dapps`, `checks`, `incidents`, `incident_updates`, `reports` | one to three statements each | SQLite | a statement is atomic, a caller's sequence of them is not |
| metrics (`internal/metrics`) | gauges, a counter | `RecordCheck`, `SetIncidentsOpen`, `IncReportsTotal` | Prometheus | the gauge says what the last stored check said |
| alerter (`internal/discordbot/alerts.go`) | none | `PostIncidentOpen`, `PostIncidentClosed` | Discord | what is said is true, in order, and said once |
| process (`cmd/aptos-guardian/main.go`) | the root context, what is open | start, signal, shutdown, deferred closes, exit, restart | all | it always ends after a signal, its status says why, and a stop or a crash at any point leaves a database from which monitoring goes on |
| API and status page (`internal/api`, `web`) | the page shown | `Status`, `ListIncidents`, `GetIncident`, `Report`, polling | store, engine | an answer hangs together; an acknowledged report is stored; the page does not go back in time |
| commands (`internal/discordbot/bot.go`, `commands.go`) | none | `BuildCommandContext`, the commands | store, engine | as the API; direct messages are refused |
| reports (`internal/store/reports.go`) | `reports` | `InsertReport`, `ListReports`, `trunc` | API | a stored report is what was sent, within its limits |
| configuration (`internal/config`) | none after start | `Load`, overrides, `Validate` | all | what a process runs on is complete, whichever source it came from |

What is hard here: the goroutines of a round interleave between statements;
the engine decides on rows it read earlier and on a check stored earlier still;
any statement and any message may fail and most errors are dropped; the process
may stop anywhere, and a cancelled probe looks like a failed endpoint; nobody
waits for the runner, nor for a handler; answers are put together from several
statements; detection is spread over rounds and must survive all of this, and
a change of configuration too. `PROJECT.json` lists each such hazard at its line.

## 2. The modules

| module | models | kind |
| --- | --- | --- |
| `Engine` | the engine's decisions: thresholds, counting, verdicts, severities | operators |
| `Monitor` | runner, engine, store, registry, success gauge, alerts and process life | state machine |
| `IncidentLog` | what the README's incident model promises its readers | abstract specification |
| `MonitorHistory` | `Monitor` and a history variable: checks stored since each opening | history |
| `Recommend` | one recommendation at a time beside a monitor that stores checks | state machine |
| `Checkers` | one check of an endpoint, request by request | state machine |
| `StatusPage` | `Status`, `ListIncidents` and the commands, the page that polls, the open-incidents gauge | state machine |
| `StatusHistory` | `StatusPage` and a history variable: what was the case while a request was on its way | history |
| `ConfigLoad` | `config.Load`: file, environment, defaults, refusals | operators |
| `Service` | `run` from `Load` to the exit status, and the requests answered from the store meanwhile | state machine |
| `MCMonitor`, `MCHistory`, `MCCheckers`, `MCStatusPage`, `MCStatusHistory`, `MCService` | the instances for TLC | |
| `MonitorProofs` | types of `Monitor`; what the shutdown leaves behind | proofs |
| `RoundProofs` | counting; one round at a time, deduplication, justified openings and closings | proofs |
| `LogProofs` | what timeline and channel are told; `Monitor` implements `IncidentLog` | proofs |
| `HistoryProofs` | registry, gauge, nothing missed, and recoveries earned since the opening | proofs |
| `ServiceProofs` | `ConfigLoad` and `Service` | proofs |
| `CheckersProofs`, `PageProofs`, `RecommendProofs` | `Checkers`; `StatusPage` and `StatusHistory`; `Recommend` | proofs |

### Monitor

*A statement is a step.* `store.New` sets `SetMaxOpenConns(1)`, so statements
run one at a time and goroutines interleave between them. A goroutine's `pc`
names the statement it is about to run; the action that runs it includes the
work in memory up to the next one:

| `pc` | action | code |
| --- | --- | --- |
| `ensure` | `SelectRow` | the SELECT of `EnsureProvider`/`EnsureDapp` |
| `create`, `refresh`, `probe` | `Probe` | its INSERT, its UPDATE, or neither after an error (`WriteRow`; errors ignored), then the check |
| `insert` | `InsertCheck` | `InsertCheck`; on error the goroutine returns |
| `record` | `RecordCheck` | `metrics.RecordCheck` |
| `recent` | `RecentChecks` | the engine's first read |
| `decide` | `HasOpenIncident` | its second read and the branch taken |
| `open`, `close` | `OpenIncident`, `CloseIncident` | the write |
| `note` | `AddIncidentUpdate` | timeline entry (error ignored), then the callback or none |
| `fetch` | `GetIncident` | `alertOpen`/`alertClosed` read the row again |
| `post` | `PostIncident` | the Discord message (error ignored) |

`StartRound` is `runOnce` up to `wg.Wait`, whose condition is `RoundOver`;
`Slots` exists so that rounds *could* overlap, and a mutant without the wait
lets them. `Signal` cancels the context: from then on `database/sql` refuses
every statement (`StmtOk`), probes may end as `cancelled`, Discord is still
reached. `RunReturns` is the runner's own end; `Exit` comes at any point after
the signal, because `main` does not wait for the runner; `Crash` (and the
`os.Exit(1)` after a server error) at any point before. `Boot` is the restart
by `restart: unless-stopped` (`docker-compose.yml:12`) with the tables as they
were left and any of the `Configurations`: entries may be gone, or have another
URL, and an incident may be open for an entity nobody checks any more.

A row of `checks` is its cause, newest first. The table keeps a boolean; the
model also tells a failed endpoint (`fail`) from a probe the shutdown cut short
(`cancelled`), which only the properties look at. Summaries are the verdicts
that caused them. A row of `providers` or `dapps` is the entry whose URL it
holds (`registered`). Names, times and texts are not modelled; a timestamp
plays no part in the modelled decisions.

*Abstractions.* A cancellation that falls inside a statement is one right
before or right after it (inside a round's last gauge update it can leave a
stale gauge, in a process that is ending). In the moment between `st.Close`
and the end of the process statements fail, which is `StmtFails`.

### IncidentLog

A log of incidents, at most one open per entity, each opening and closing once;
for each, the states its timeline notes (`noted`) and the states announced in
the channel (`heard`), true when said and never repeated. `Monitor` implements
it under `Log`: the abstract log is `incidents` without its summaries, what was
noted is the rows of `incident_updates`, what was heard the state each alert
showed. `StatusPage` and `Service` use its actions as their monitor.

### Recommend and Checkers

`Recommend` reads one provider's rows per step while `InsertCheck` may happen
between the steps; a read may fail and then scores like no rows. Scores are
exact fractions, `rate * 1e6 / (1 + average)` without its constant; the code
computes in `float64`, so scores that are equal in the model may differ in the
last bit there. `Checkers` sends the requests of one check; a reply is a kind
(an error of `Do`, a body cut off, an answer), a status and whether the body is
JSON. `http.NewRequest` errors (a malformed URL, the same in every round) and
the fields parsed out of a good answer (never read) are left out.
`HealthyReply` is an endpoint of the kind `checker_test.go` sets up: it answers
the paths it serves and 404 to the rest.

### StatusPage

The readers run beside the writer, and need not know more of it than the log
promises: `WriteIncidents` is `IncidentLog`'s `Open` or `Close`, which `Monitor`
implements (run `log`, theorem `ImplementsLog`), and `StoreCheck` lets the
newest rows change at will. The two compose: `OutageDetected` says that a
lasting outage opens an incident, `PageListsOpen` that an incident that stays
open reaches the page.

`Poll` is a timer of `web/app.js`, which fires whether or not earlier answers
have arrived, so several requests are in flight and their answers may overtake
each other; or someone giving the bot a command in a channel (a direct message
is refused before anything is read). `ReadCheck`, `ReadOpen` and
`ReadIncidents` are the statements of `Status`/`BuildCommandContext` and of
`ListIncidents`, one per step. A failed read of a check is an unhealthy
card, a failed list is an empty one in `Status` and the commands and a 500 in
`ListIncidents`. These reads run under the request's context or none, so the
signal does not refuse them as it does the monitor's; but `run` returns as soon
as `Shutdown` begins and closes the store under them, so from the signal on
each may fail (`ReadFails`). `Break` is a connection that fails; `Render` and
`Catch` are the page's two ways on (a command's answer goes to the channel and
changes no page). A request whose answer will not come keeps nothing of what its
handler read (`Lost`). `SetGauge` is the start value and the loop: an error,
which after the signal every read is, sets 0.

`Entities` is what the tables may hold incidents of, an earlier configuration's
entities included; `Names` is what is configured now, which `Status` and the
commands go through. An entity without a check reads as one whose newest check
failed, and is one in the model.

`DappIncident` is what `/dapp` picks from the list. `BuildDappResponse` folds
case twice, when it looks for the dApp and when it looks for its incident, so
names are compared by `Folded`, a form without case. `Validate` accepts dApps
whose names differ in case only, and an earlier configuration may have left
incidents of one; then `/dapp` shows the newest incident of either.
`TellsOfDapp` says that much: never an RPC provider's, never none while the
dApp has one in the list.

Both timers write one list. `/v1/status` lists at most 20 open incidents,
`/v1/incidents` 50: with more than 20 open the page shows the older ones after
one answer and drops them after the next, for as long as they are open.
`PageListsOpen` is therefore stated of an incident that stays among the newest
of the smaller limit; the run has limits of 1 and 2 and two entities, so that
they cut.

The page's list is a set of rows, since order and wording are layout. The three
limits (20, 50 and 100 in the code) are constants. `started_at` has whole
seconds; of several incidents of one second the model lists the later row
first, the query leaves it open.

### ConfigLoad and Service

`ConfigLoad` keeps a number as it was read and of a text whether it is given.
`Load` is `Validate` of `Override`, in this order; it returns a configuration
or none.

`Service` has `run` as a `phase`: the call that may fail next, or the deferred
call that runs next. `OpenStore` is `store.New` with its migrations, refused
after the signal since they run under the context. `StartBeside` is
`discordgo.New`, whose error `run` returns with the store open and nothing
running, and the start of the runner, the gauge's loop and the goroutine that
waits to shut the server down (`started`). `OpenBot` is the session, whose error
is only logged; `ListenAndServe` refuses, fails or returns when `Shutdown`
begins, which that goroutine calls after the signal. These are all five places
where `run` returns.
`Return` goes to the deferred calls, last in first out; `Exit` computes the
status from the error and the signal. `Start` after a crash or an exit is the
restart.

Beside it clients ask for an incident (`ReadHeader`, `ReadTimeline`) or post a
report (`InsertReport`, `CountReport`, `Acknowledge`), each handler one step per
statement, the counter's increment being one, until the process ends under it.
Two history variables go with the counter: the rows there were when the process
started (`before`) and the reports it answered with 201 (`acknowledged`), which
counts on when a client takes its answer and submits again. A call may fail for its own reasons or because
the store is closed; a failed INSERT may have been committed. Of a report the
two texts that can go around a limit are kept, as lengths: `issue_type`, and
`user_agent`, which the request's own header replaces between the handler's
`trunc` and the store's. The other texts take the path of `issue_type`.

## 3. The runs

| run | shows | bounds |
| --- | --- | --- |
| `round` | two goroutines (an RPC provider and a dApp) through rounds, a fault, a stop and restart, after which the provider may have another URL and the dApp be gone: the type invariant; one open incident per entity; reads are current when used; openings and closings justified by the rows; timeline, alerts, registry and gauge consistent; no failure made by the shutdown | thresholds 2 and 2, latencies good/elevated/critical, 1 fault, 1 stop |
| `log` | `Monitor` implements `IncidentLog`; a "down" incident closes only after `recoveries_for_close` checks since it opened; no round without failures leaves an outage or a recovery unanswered; a lasting outage is reported, a lasting recovery noticed, also when restarts take the entry out and put it back | one entity, thresholds 2 and 3, latencies good/critical, 2 incidents in a row, 1 fault, 2 stops |
| `service` | what a process runs on, that what it opened is closed in order, its exit status, that it ends; details of an incident, stored and acknowledged reports, their counter | 2 clients, 2 reports, 1 incident, limits 2 and 2, 1 fault, 2 stops, 3 files, 4 environments |
| `recommend` | the recommendation is never dominated, prefers a provider that works, and breaks ties by config order | 2 providers, window 2, latencies 1, 3, 9 |
| `checkers` | verdicts and categories for every sequence of replies; at an endpoint in good health the verdict tells whether it serves what is asked of it | four URLs: a host, a prefix, one where the ledger is missing, one that ends in `/v1` already; all kinds of reply |
| `page_answers` | an answer, to the page or to a command, tells of the time since it was asked for | an RPC provider and a dApp of one name, and a dApp no longer configured whose name differs in case; limits 1, 2 and 1, 3 incidents, one request at a time, for the incidents or by a command, 1 stop |
| `page_live` | page, cards and gauge become current and stay so | two entities, one of them configured, limits 1, 2 and 1, 2 incidents, 2 requests in flight, 1 fault, 1 stop |

Five more runs show where the documentation and the code part (section 5).

*Why the bounds are enough.* The thresholds are only compared with counts, so
`HistoryKept` rows, at least as many as either threshold (assumed in
`ConfigAssumption`), decide every comparison exactly as all rows would.
`MaxIncidents` limits the surroundings, not the code: when that many
exist, entities *without* an open incident get only good checks, while open ones
may do anything; both goroutines may open at the same time past it. A fault may
hit any statement or message, and one stop at every step with the restart that
follows covers each point of the sequence; `log` allows two stops, so that the
recovery from one can be interrupted too, and its recovery threshold is above
the failure threshold, so that the rows read must reach past the failures. Two
slots are enough to see overlap, because one is what the code allows. In
`service` two stops are a signal and a crash, or a signal in each of two
processes; lengths 0 to 3 lie on both sides of the limit 2; two reports are one
of each client or two of the same. In `page_live` one request is
of the status, the other of either timer: two of the status can overtake each
other, one of each write the same list. Two open incidents meet a limit of one,
for the list and for the gauge, and a limit of two. `page_answers` has three
incidents, one per entity or several in a row, so that either limit cuts; a
request is one for the incidents or a command, whose statements are those of
`Status`; reads fail after the signal without a fault of their own. Deadlock is checked in every run.

*Fairness* (`log`, `service`, `page_live`). In `Monitor`: weak fairness of each
goroutine (statements return, both HTTP clients and the Discord client have
timeouts), of `StartRound` (the ticker), of `Exit` (after a signal
`srv.Shutdown` lets `run` return, and the orchestrator kills what does not) and
of `Boot` (`restart: unless-stopped`). None is assumed of a signal, a crash, a
fault or `RunReturns`, nor that a probe has a particular outcome. Faults and
stops are finitely many: an engine that is never allowed a statement reports
nothing. In `Service`: `run` itself gets on, and so does the goroutine that
calls `Shutdown`; nothing is assumed of a handler, a client or a signal, and
`StopsAfterSignal` therefore needs none of them. In `StatusPage`: both timers of
the page (`setInterval`), every request (a browser's request is answered or
fails), the gauge's ticker, the end of a process told to stop and its restart.
Nothing is assumed of the monitor: the properties say what follows *if* an
incident stays open or a check stays newest.

Every property has a mutant: a plausible bug in a modelled definition (no wait
for the round, a threshold off by one, `==` for `>=`, too few rows read,
statements detached from the context, one callback not set, deferred calls in
the wrong order, defaults before the environment, the newest id for the
inserted one, ...) under which TLC finds it violated.

## 4. The proofs

Every safety property a run checks, invariant or action property, is a theorem.
They hold for every number of entries, providers, clients and requests, every
threshold, latency set, limit, bound, slot set and set of configurations
allowed by the modules' assumptions, which TLC evaluates in the runs.
`ThresholdAssumption` and `ConfigAssumption` follow from `config.Validate`, but
for the bounds; `LoadIsSound` proves that of the numbers.

| theorem | says |
| --- | --- |
| `TypeCorrect` | `Spec => []TypeOK` (`Monitor`) |
| `ReadsStayCurrent` | with unique names, `Spec => []ReadsAreCurrent` |
| `Deduplication` | with unique names, `Spec => []OneOpenPerEntity` |
| `OpeningsAreJustified`, `ClosingsAreJustified` | with unique names, the action properties `OpenJustified` and `CloseJustified` |
| `ImplementsLog` | with unique names, `Spec => KeepsLog`: `Monitor` implements `IncidentLog` |
| `TimelineKeepsOrder`, `AlertsKeepOrder`, `AlertsAreComplete` | with unique names, `TimelineInOrder`, `AlertsInOrder` and `AlertsComplete` always hold |
| `DownRecoveriesAreEarned` | with unique names, `HistorySpec => DownRecoveryEarned` |
| `RegistryHoldsConfiguration` | with unique names, `Spec => []RegistryFollows` |
| `GaugeAgrees` | with unique names, `Spec => []GaugeIsLastCheck` |
| `NothingIsMissed` | with unique names, `Spec => []NothingMissed` |
| `ShutdownLeavesNoFailure` | `Spec => []NoPhantomFailure` |
| `CountIsLongestRun` | what `countConsecutiveSuccess` computes, for every sequence of rows |
| `LoadIsSound` | whatever file and environment, what `Load` returns is `Sound` |
| `ServiceTypeCorrect` | `Spec => []TypeOK` (`Service`) |
| `RunsOnSoundConfig`, `CommandsHaveAStore`, `ExitStatusTellsWhy` | `Service`'s `ConfigHolds`, `BotWithinStore`, `ExitTellsWhy` |
| `AcknowledgedForGood`, `RowsWithinLimits`, `DetailsTellOpening`, `CounterIsRight` | `Service`'s `AcknowledgedStays`, `StoredWithinLimits`, `DetailTellsOpening`, `CounterTellsStored` |
| `CheckTypeCorrect`, `SuccessIsWhole`, `StatusBeforeContents` | `Checkers`' `TypeOK`, `SuccessNeedsAll`, `StatusToldFirst` |
| `ServedIsWhatPasses` | `Spec => []VerdictTellsServed` (`Checkers`) |
| `PageTypeCorrect` | `Spec => []TypeOK` (`StatusPage`) |
| `AnswersTellOfTheirTime` | `HistorySpec => AnswersAreTimely` (`StatusHistory`) |
| `BestIsForemost` | what the last loop of `RecommendedRPCProvider` returns, for every list of scores |
| `RecommendTypeCorrect`, `FirstOfTheBestIsTaken`, `WorkingIsPreferred`, `NobodyIsDominated` | `Recommend`'s `TypeOK`, `FirstOfTheBest`, `WorkingPreferred`, `Undominated` |

*Reads and writes of a round.* `OneOpenPerEntity` is not inductive: a goroutine
about to insert must be known to have looked at a table that has not changed
since. `ReadsAreCurrent` says that. Its first part, `OneRound`, is that all
goroutines at work belong to one slot and to configured entries; `StartRound`
keeps it because of `RoundOver`. With unique names two goroutines of one slot
never share an entity (`SoleWorker`), so a step of one cannot disturb what
another has read (`CurrentOfOthers`); a goroutine's own step turns what it has
read into what the next step needs (`CurrentOfSelf`), where `RunReached`
translates "the count reached the threshold" into "the newest rows are all so".
Deduplication and the two action properties then follow step by step.
`UniqueNames` (within one configuration) is a hypothesis of these theorems,
because `Validate` does not establish it and the run `same_name` shows that
nothing else does.

*What is told.* `ToldInOrder` adds to that what has been said of each incident
(`Told`: while it is open, at most its opening) and what a goroutine past its
write still has to say (`About`: the incident is as its verdict made it, and
the news is not out). It is inductive on top of `ReadsAreCurrent`. The order
theorems are instances of it. `AlertsComplete` speaks of quiet moments only;
`HeardOrTold` says what is true in between: every incident is in the channel as
the table has it, or a goroutine is on its way to say so, past its write and
with no fault left to lose it. For `ImplementsLog` the variables of
`IncidentLog` are functions of `Monitor`'s; four lemmas (`OpenMaps`,
`CloseMaps`, `NoteMaps`, `AnnounceMaps`) take a writing action to the abstract
one, and every other step leaves them unchanged.

*What a round leaves behind.* `Registered` follows a goroutine through
`EnsureProvider` while nothing has failed; `GaugeFollows` allows the gauge to
be behind only while the goroutine that stored the newest check has yet to
record it.

*What the engine owes.* `NothingMissed` is the safety half of `OutageDetected`
and `RecoveryDetected`: when a round ends and no statement failed since the
beginning, an entity checked by this process is not down without an open
incident, nor recovered with an incident of failures still open. That it looks
at the table, not at a count of its own, makes it survive a crash between a
check and its incident: the next check sees a longer run, and `>=` lets it
open. `NothingForgotten` allows a debt only to the goroutine on its way from
`InsertCheck` to the write. `RunIsRead` is the converse of `RunInTable`: a run
in the table is a run in the rows read, because `ReadLimit` is no less than
either threshold. Closing pays the debt because of `OneOpenPerEntity`. Latency
incidents are left out on purpose: one may be opened while the newest rows are
`recoveries_for_close` successes already (run `latency_recovery`).

*Recoveries.* `DownRecoveryEarned` compares a count over the table with a
number of rows stored since the opening, which the code never computes.
`FailuresInSight` connects them: as long as too few checks came after the
opening, one of the newest `since + 1` rows is a failure, because the newest
row at the opening was one (`OpeningsAreJustified`'s core) and rows are only
pushed on top. So a run of `recoveries_for_close` successes cannot reach past
it (`CountIsLongestRun`).

*The shutdown.* `ShutdownLeavesNoFailure` needs the invariant
`CancelledWhenDone`: a goroutine holds a cancelled outcome only while the
context is done, so its `InsertCheck` cannot succeed; `Boot` cannot revive the
goroutine, since `Exit` dropped it. It needs no unique names.

*The process.* `Stages` ties `phase` to what is open; the bot is within the
store because of the order of the deferred calls. `Reasons` ties the error of
`run` to the signal: the only return without one is that of `ListenAndServe`
after `Shutdown`, which comes after the signal.

*The requests.* `ToldTrue` says of a handler at each of its stages what its
request can rely on: the row under the id it holds is the one it stored, and a
header that says closed is of an incident that is closed. It survives the steps
of others because of `Grows`: rows of `reports` are only appended, a closed
incident stays closed, and its timeline is told of no opening any more, since a
note says the state the incident has when it is written.

`Counted` bounds the counter from both sides with two sets of clients: those
whose report is stored and not yet counted make up, with the counter, no more
than the rows stored since the start; those counted and not yet answered make
up, with the reports ever acknowledged, no more than the counter. Both sets are
finite, however many clients there are, since a step changes one request.

*One check.* `Checked` says that all replies but the last were good and that a
finished check has the verdict of its last reply; the rest is what one reply
decides (`RpcDecides`, `DappDecides`). `ServedIsWhatPasses` assumes nothing of
the URLs and the paths served. That an endpoint passes only with both paths
needs `Checked`, that it fails only for want of one needs what the first bad
reply decides. With the URL of `configs/example.yaml` the paths are `/v1/v1` and
`/v1/v1/ledger_info`, so the theorem says that a node which serves `/v1` and
`/v1/ledger_info` fails its check; the run `example_url` shows it.

*Answers.* `PageState` is `TypeOK` with what that takes for granted. `Followed`
says of a request in flight that
whatever is open was open when it was sent or is newer, that the newest outcome
of each entity is among those it had since, and, while nothing failed or
stopped, that each card read so far is one of those. That the limit cuts off
only incidents with as many newer ones in the answer is a lemma about the
greatest elements of a finite set of numbers (`CutOffByNewer`); that the gauge
keeps to its limit is another (`GreatestAreFew`), and that `/dapp` finds an
incident when there is one a third (`GreatestOne`).

*The recommendation.* Both loops are recursive functions. That a function with
such an equation exists, and what it computes, is shown by taking the least
number of turns for which it fails (`LeastNumber`), so no induction theorem is
needed. `BeatsIsAnOrder` is the arithmetic: with positive denominators,
comparing crosswise is a total preorder. `ScoreTradesOff` writes the score of
one provider times the denominator of the other as a product of a factor for
the success rates and one for the latencies; if neither factor is smaller, the
product can be no greater only if both are equal. All of this is about exact
fractions.

*Only model-checked.* Liveness, which the prover used here cannot do:
`OutageDetected`, `RecoveryDetected`, `StopsAfterSignal`, `PageListsOpen`,
`PageDropsClosed`, `CardsCatchUp`, `GaugeCatchesUp`.

## 5. Where the documentation and the code disagree

* `same_name`: "Only one open incident per entity at a time" (`README.md:77`);
  two entries with one name are accepted and race.
* `escalation`: "Severity is CRIT for hard-down" (`README.md:78`); an open WARN
  incident hides the outage and keeps its severity. The property speaks of a
  process that is up, without a fault, between two rounds, so in the trace the
  engine has processed the check that made the entity down: it found the open
  incident and looked for a recovery.
* `latency_recovery`: "closed after the configured number of consecutive
  successful checks" (`README.md:76`); slow checks before the opening are
  successes and are counted. `DownRecoveryEarned` is the part that holds.
* `recommend_rate`: "best success rate, then lowest latency" (`README.md:79`);
  the score trades one for the other. In the trace a provider with a failure
  scores as much as a slower one without, and is recommended for coming first.
* `example_url`: `configs/example.yaml:34` ends in `/v1`, to which the checker
  appends `/v1`.

Noticed while reading, with no behaviour over time to check and so without a
run: `README.md:83` sets a URL through the environment, and
`configs/example.yaml:28` writes it as `${APTOS_GUARDIAN_ALCHEMY_RPC_URL}`,
which `Load` does not expand;
`README.md` lists an optional pprof server, which `main` never starts although
the configuration has its address; `README.md:57` gives `/dapp` the last
incident, which is looked up among the open ones only, the newest 20 at that,
and may be that of a dApp whose name differs in case.

## 6. Not modelled, and the plan

Left out: `ListReports` (one read that nothing depends on) and `Healthz`;
limits given by a caller, method checks and static files; the latency gauge (set
in the same call as the success gauge) and the constant build info;
`RegisterCommands`, whose errors are only logged; the formatting of messages
and pages, macros, version data, build and deployment files; time parsing, and
with it the order of timeline entries of one second, which the query leaves
open; the byte at which `trunc` cuts, possibly inside a character; and what
nothing calls: `TrimChecks`, `PostRPCTransition`, `PostDappTransition`,
`ErrorSummary`.

What could come next, in this order:

1. `NothingMissed` without its condition on `faults`: a failed statement excuses
   the entity it hit, and only until its next check.
2. `RecommendedRPCProvider` inside an answer of `Status`: cards and
   recommendation come from different reads.
3. Timeline entries with their one-second timestamps.
