# Watchpost in TLA+

This directory specifies the core of Watchpost (`src/watchpost/`), a homelab
monitoring service, in TLA+. TLC checks the modules on small instances; the
`*_proofs` modules prove the most important of the results with TLAPS for every
instance. `PROJECT.json` is the index: which definition models which lines, what
each run checks, which faulty variant shows that a property can fail, and what
the checks found.

## 1. The system

Watchpost is one Python process with one asyncio event loop, worker threads for
SQLite, and thread pools for WinRM and vSphere. A second mode of the same
program, discovery, scans a network once and prints proposed monitors.

| Part | Source | State it keeps | Operations | Module |
|---|---|---|---|---|
| State machine of a monitor | `state.py` | state, three streak counters, `alert_open` | `observe` | `StateMachine`, `MonitorState` |
| Checks that remember | `checks/snmp.py`, `checks/ssh.py`, `checks/base.py` | last uptime, restart count, interface index and octets | `_mode_uptime`, `_mode_interface`, `_container`, `apply_thresholds` | `Checks` |
| WinRM and WMI calls | `checks/windows.py` | thread pool, Kerberos tickets, the lock around `KRB5CCNAME` | `run_ps`, `_run_ps_sync`, `_kinit` | `WinRM` |
| Results and thresholds | `checks/base.py`, `checks/__init__.py` | none | `run`, `apply_thresholds`, the registry | `Verdicts`, `Replies` |
| Network and MQTT checks | `checks/net.py`, `checks/mqtt.py` | none between polls | one exchange and a comparison | `Net` |
| Checks that ask an agent | `checks/snmp.py`, `checks/ssh.py`, `checks/windows.py` | none between polls, in the modes not named above | a command or a query and what is made of its answer | `Agents` |
| Platform and application checks | `checks/platforms.py`, `checks/apps.py` | none between polls | one or more requests and what is made of a list | `Platforms`, `Apps`, `Inventory` |
| Status rollup | `rollup.py` | none: a function of the states and of `depends_on` | `blocking_parent`, `effective`, `group_states` | `Dependencies`, `Rollup` |
| Scheduler | `scheduler.py` | a lock per monitor, a semaphore, a task per monitor | `_loop`, `poll_once`, `_probe`, `_on_transition`, `_confirm_parents`, `_release_children`, `_send` | `Scheduler`, `Pager` |
| Alert delivery | `alerts.py` | the set of running deliveries | `notify`, `_deliver` | `Alerter` |
| History store | `store.py` | two tables behind one lock and one connection | `record`, `record_event`, `prune`, `close` | `Store` |
| Service lifecycle | `__main__.py`, `scheduler.py` | the tasks | `_serve`, `start`, `stop`, `_maintenance` | `Service` |
| Configuration | `config.py` | none after loading | `load_config`: references, unique names, cycles, what a mode or a credential needs, what may become part of a command | `Config` |
| Discovery targets, directory import | `discovery.py`, `directory.py` | none | `expand_targets`, `fetch_computers` | `Targets` |
| Discovery scan | `discovery.py` | `auth_failures`, `proven`, a lock per credential, a semaphore | `run`, `scan_host`, the gates, `_with_cred` | `HostScan` |
| Discovery proposals | `discovery.py` | names taken so far, names replaced | `propose`, `render`, `_key` | `Proposals` |
| Capacity forecast | `forecast.py`, `store.py`, `scheduler.py` | the results in the store, `forecasts` | `hourly_series`, `least_squares`, `project`, `refresh_forecasts` | `Forecast` |
| Web UI and API | `web.py`, `static/` | none | reads what the others keep | not modelled |

How they interact. The configuration fixes the graph of `depends_on`, without
cycles. One task per monitor runs the check, stores the result, feeds it to the
state machine, and on a transition asks the rollup whether the monitor is behind
an outage. Before it alerts it polls the parents that are about to fail; after a
recovery it polls the descendants that were kept quiet. So polls of other
monitors are nested inside a poll, in both directions of the graph, while the
tasks of those monitors poll them as well. An alert is handed to the alerter,
which starts one delivery per target that nobody waits for. Every insert is a
statement run by a worker thread under the store's lock. Checks of Windows hosts
are blocking calls on a pool; those with Kerberos share an environment variable.
The dashboard reads the states through the rollup.

Discovery expands its targets, perhaps with the computers of a directory, and
scans many hosts at once. They share the credentials: how often each was
rejected, whether it has worked, and a lock that serialises its use until it has.
What was found becomes proposed monitors, which the user pastes into the
configuration that the next start - and the next discovery - loads.

What is hard here:

* interleaving: everything between two `await`s may find the world changed. The
  decision to alert is taken after the parents were polled; the decision to
  remind after the child was polled; the limit on rejected credentials is checked
  before a lock is waited for and again after; a thread goes on with a call that
  its coroutine gave up;
* nesting and locks: confirmation polls upwards, release polls downwards, each
  poll takes a lock and a permit; `close()` waits on the event loop for a lock that
  worker threads hold;
* partial failure: an insert that raises ends the task it happens in, a commit
  that fails leaves its statement in the transaction; an answer that cannot be
  parsed ends a whole scan; an alert delivery may fail after the message has
  arrived;
* stopping: a stop cancels every task wherever it is;
* stale readings: what a check keeps from its last poll may belong to a device
  that restarted or renumbered its interfaces since; a list that is read in pages
  changes between two of them;
* verdicts: forty modes each have their own order of rules, their own way to add up
  parts and their own treatment of what is missing;
* boundaries: a fitted line may be level, lead away or be past one threshold and not
  the other, over a history with gaps;
* protocol sequences: problem, suppressed problem, changed problem, recovery, in
  every order, over several levels and several parents; and what is proposed,
  pasted, and scanned again.

What makes each part correct:

* the counters are the streaks and the state is the last verdict of the history;
* a restart is told once, and a rate shows no more than was carried;
* a worse reply never gets a better verdict, and a monitor of many things hides the
  problem of none of them;
* of the devices that are down a poll misses no more than one for each that left the
  list before the page edge meanwhile, however the list is paged;
* a date of a forecast lies ahead, the milder threshold comes first, and the line is
  the one of least squares;
* a Kerberos call connects as its own account, with a ticket that is valid, and no
  call to Windows waits for ever;
* who is blocked, and by whom, follows from the chains of outages alone, not from
  the order of the parents;
* polls of one monitor are serialised and locks are never waited for in a circle;
  an announcement is only made about a monitor that is not blocked, a recovery
  only after an announcement, a reminder only for a problem nobody was told of;
  nobody is left uninformed;
* every result the state machine has observed is in the database, an event that is
  missing was cut by a stop or an error of the store, and a stop ends;
* a target misses an alert only when two attempts failed or the exit cut it;
* a scan covers what was asked for, each host once;
* a wrong credential is not tried more often than allowed, and none is sent past
  a gate that is closed;
* a configuration loads exactly if its names are unique, its references hold and
  its fields fit; discovery fails only for a reason; what it writes can be pasted and is
  not proposed twice.

## 2. The modules

Names are those of the source. `X_Something` next to a definition `X`, under the
comment "Faulty variant", is a plausible bug: no specification uses it. Replacing
`X` by it makes the property that `PROJECT.json` lists with it fail.

Which module builds on which:

    StateMachine <- MonitorState <- Checks          Verdicts <- Checks, Forecast
    Verdicts <- Net, Agents, Platforms, Apps <- Replies <- SoundReplies
    Apps <- Inventory
    StateMachine, Dependencies, Pager <- Scheduler        Dependencies <- Rollup
    Pager <- Alerter, Store <- Service
    Lists <- Config, Targets <- Proposals        HostScan        WinRM

**StateMachine** has `observe` as operators on a record: `Count` (the streaks),
`Target` (where they point), `Observe`. `SaturatedObserve` lets a streak stop
growing at its threshold so that the machine is finite; `Scheduler_proofs`
shows that nothing the code reads changes. **MonitorState** feeds one monitor any
sequence of results and keeps the sequence.

**Checks** puts a check in front of MonitorState: the modes that remember
something between polls (uptime, interface, container), against a device that
restarts, renumbers its interfaces, wraps `sysUpTime`, loses a link or does not
answer. `memory` is what the check object keeps. A poll of an interface is three steps:
the index is looked up if none is known, the agent reads status and counters
(`Sample`), and its reply arrives (`Answer`), which is when the code takes the time
(`snmp.py:175`). Time may pass, and the device may change, between the two. A mode "other"
stands for all checks that keep nothing and may say anything. `seen`, `sampled` and
`warnings` only serve the properties.

**Verdicts** is what all checks share: a result with a value, and
`apply_thresholds` (`Applied`). A value is a whole number, `None` a missing one; a
value that a message cannot do without is `Stated`, because formatting `None`
raises and the scheduler makes a failed poll of it. On it stand **Net**, **Agents**,
**Platforms** and **Apps**, one operator per mode of a check: from the monitor and
what came back (a record, or the list the API returned, `None` when there was no
answer) to the result, with the rules in the order of the code. **Replies** is the
registry and `Check.run`: a monitor gets one reply after the other. `NoBetter`
says when one reply is at least as bad as another, from the meaning of its fields
alone, so that `WorseReplyNeverBetter` compares the code with something that is
not the code: more of a burden or less of a reserve; a state that is not fine; a field
that is missing where the mode is about it (`Required`); a core that is busier, a reading
with less idle time, a larger number in a row of a query; of a whole, an item more or
a worse one, in a list of any length; where one item is looked for, or cores and rows
count, the lists have equal length. A missing number elsewhere is equal to itself only: the
code counts some as zero (section 6), so no order would hold. **SoundReplies** states what the theorems about replies assume
(`Sensible`); the samples of `MCReplies` meet it, which TLC evaluates on every run
(`SamplesAssumption`).

**Inventory** is the reading of a list in pages by `unifi_list_all`: one request
after the other, of a console that returns as much as it likes and whose devices
are adopted, change and are forgotten in between. `throughout` remembers for the
property which devices were listed and down during all of the poll, `slips` how many were
forgotten before the page edge: each moves one other device over it, which the poll
misses (section 6).

**Forecast** has the results of one monitor in the store, their hourly means, the
fitted line and its crossings. All of it is exact: times are fractions of an hour,
values whole numbers, and quotients pairs that are compared by multiplication.
Only the hourly mean is rounded, down. Refreshing on demand and the hourly
maintenance, with the retention that follows it, are its actions.

**WinRM** has the threads of the pool, the queue in front of them and the
coroutines that wait. `thread[t].pc` is the place in `_run_ps_sync`; from "kinit" to
"talk" of a Kerberos call the thread holds the lock. `GiveUp` is `wait_for` timing
out: a queued call is cancelled, a running one goes on for nobody.

**Dependencies** has the recursion of `blocking_parent` and `_ancestors` as
recursive functions over the graph. **Rollup** lets the states change arbitrarily
over every acyclic graph and adds what is displayed.

**Scheduler** is the asyncio program. Each monitor's task has a stack of
coroutine frames (`poll_once`, `_on_transition`, `_release_children`); an action
is the code from one suspension point to the next, or a part of it that keeps
`cpu`. `lockq[m]` and `semq` are the FIFO queues of `asyncio.Lock` and
`asyncio.Semaphore`, holders first. `cpu` names the task that is between two
`await`s; all others must wait until it suspends, so splitting a segment into
actions adds no interleavings. A store that raises (`StoreFails`) unwinds the
whole stack, releases the lock an `async with` holds and ends the task, because
nothing up to `_loop` catches it.

**Pager** is the abstract specification of the scheduler: what it promises about
announcements, without polls and locks. `Scheduler!KeepsPagerPromise` is the
refinement (`open` is `alert_open`, `blocked` is the rollup's answer).

**Alerter** composes with Pager, not with Scheduler: whatever sequence of alerts
Pager allows may be handed over, and each is delivered by tasks of its own. Since
Scheduler implements Pager, this covers every sequence the scheduler can
produce, at a fraction of the states. A failed attempt may have arrived or not.

**Store** has the statements on their way: queued for a thread and the lock,
running between `execute` and `commit`, done or failed with the outcome on its way
to the task. `txn` is the transaction of the one connection. **Service** composes
Store and Alerter with the loops, the maintenance, `stop()` and the exit. Each task has a
stack of calls, `at[t]` on top of `outer[t]`: the loop, a poll that records its result under
the monitor's lock, the confirmation of the parents, the event of a transition, the
release of the descendants, a reminder. A call says which monitor it is for, which need
not be the one of the task, and which event it has to write. An exception of the store goes
through all of them and ends the loop. It is coarser than Scheduler where Scheduler is
fine: which results make a transition, how many parents and descendants are polled and
which of them are alerted is left open, and there are no permits. It is finer where that
one is coarse: an insert takes time, may be cancelled, and shares its transaction.

**HostScan** is discovery with credentials. Per host: the services in the order
of `scan_host`, the gate of each (certificate, plain HTTP, host key), and the
loop over credentials with the lockout rules. The devices are records of what
runs, what is open, which certificate and which host key; `AnswersOf` says what
an attempt at a device can end in. `Leave` has the fall-through from UniFi to
TrueNAS on the same port, `IsVsphere` a fingerprint that may fail.

**Targets** is the arithmetic of a request: blocks, single addresses, exclusions,
`max_hosts`, and which computers of a directory count. An address is a value and a
block the list of what it expands to, with the size the code computes for it, which is one
more than the list for an IPv6 network; a target that is malformed or ends before it
starts is a kind of its own. `Scanned` has every error of `discover` up to the scan.

**Lists** is what a comprehension of the code does to a list. **Config** has names as
sequences of words and the slug as a concatenation over words, so that names that differ in punctuation collide as they do in the code;
`Visit` is the depth-first search with colours, its calls nested no deeper than there
are monitors, since each has turned one grey; `MonitorRefers` and `SettingsRefer`
are the references to credentials and alerts. `NamesItsPart` is what a mode needs
to be told, `SafeInCommands` which fields stay within the patterns of `config.py`
(`Odd` are the values they refuse), `Shaped` what a credential of each kind needs.
**Proposals** composes Config and Targets with `propose` and `render`: load, expand, scan,
propose, paste everything, load, scan and propose again. `FailOnInvalid` is `_key` raising
for a proposal that is not valid: discovery ends and writes nothing. Monitors are reduced
to what validation, de-duplication, naming and references look at.

## 3. What TLC checks

| Run | Instance | What it shows |
|---|---|---|
| `checks` | in four parts, see below | the counters are streaks; the state is the last verdict of the history; a restart is told by the first poll that can see it, once; utilisation shows no more than was carried between the two readings; worse replies and wholes of parts get no better verdicts; a down device is in the list that is judged, unless a removal moved it over the page edge; dates and line of a forecast |
| `kerberos` | two threads, three monitors, two of them with an account; tickets used for 2 hours and valid for 3, six hours | each call connects as its own account with a valid ticket; no call stays in the queue for ever |
| `rollup` | all acyclic graphs of four monitors with ordered parents, all states, two groups, one member not critical | blocked exactly if a chain that is not UP leads to a DOWN ancestor; the blocker named is a root cause; groups show the worst member; an outage only spreads |
| `pair` | server behind switch, 2 failures to DOWN, 3 polls of each loop, one permit, any insert may raise | polls of a monitor are serialised, who holds a lock waits for none, roots are alerted exactly, the refinement of Pager, and that every poll returns |
| `uplinks` | server behind two parents, one behind the other | nobody is left uninformed, with confirmation and release over two levels |
| `service` | a server behind a switch, the maintenance, one target, in four situations, see below; statements and commits that fail | what is observed is stored, of events all but those a stop or an error cut; the connection is not closed under a statement; who misses an alert; a stop ends |
| `lockout` | four hosts of six kinds, two at a time, credentials of five services, limit 1 | the lockout rules, the gates, and that every scan ends |
| `adopt` | all graphs over three monitors with colliding names; settings, credentials and monitors of which one field does not fit; nineteen requests; five networks and an empty one, and two with a part no monitor can name, scanned from configurations with none, one or two of their monitors | what loads, what is scanned, why discovery fails, that proposals can be pasted, and that they are not made again |

Four more runs are expected to find a violation: each shows a place where the
code does not do what its documentation says (section 6).

Bounds. The bounds are in the MC modules and configurations, and named there.

* `checks` has four parts; a behaviour belongs to one of them (`part`), and the
  state of the others rests. "memory": thresholds 3 and 2, nine polls of any check,
  four of one that remembers, three of an interface. "replies": the samples of `MCReplies` for each mode,
  with values below, at and above both thresholds, lists of up to two items, and
  every field missing where the code looks for that; every reply may follow every
  other. "inventory": up to three of four devices at a time, two per request, so
  that a list takes two pages or more, or three if they are short; one device forgotten
  before the page edge, with up to two that are down throughout. "forecast":
  histories of up to four polls in six units of time, two of them an hour, values
  0, 1 and 3, thresholds either way and with one of them missing; lookback,
  retention and horizon end inside that time.
* A monitor's streak needs threshold + 1 results to show an error, so nine results
  see every pair of streaks one after the other. A check that remembers needs a
  reading, a restart, a poll without answer and a further reading: four polls, one
  restart, time up to 4, with `sysUpTime` wrapping at 3. An interface is measured with two
  readings, and a third poll for one that fails or finds no index in between, within three
  units of time, so that a reply can take one of them and the next none. It has both its
  indices until the first restart. Only the part of the device that the mode reads changes
  (`Relevant`).
* In `kerberos` the clock starts at 2 and ends at 6, so a ticket can be obtained,
  used, grow too old, be renewed and grow too old again. Time passes while a call
  waits for the lock or talks, not between the look at the ticket's age and the
  connect: a unit of the clock is an hour, and that is a moment.
* The loops of the scheduler run `MaxCycles` polls of their own; the polls that
  confirmations and releases add are not bounded. Two polls are enough for a
  problem and its recovery, three for a further problem.
* In `service` a task and the maintenance, or two tasks, are two writers, which is what the
  lock and the shared transaction need. A behaviour is of one of four situations
  (`FourSituations`): three polls, in one task or the other or one inside another, with
  up to two loops ended by an error; two polls and an alert or a reminder; an alert of
  which both attempts may fail; and retention. Nothing of one makes a step of another
  impossible; together they would be some hundred million states.
* Four hosts at a limit of one, two at a time, are the fewest for which a proven
  credential can be rejected by more hosts than `BoundedOvershoot` allows, should
  the check be off by one; hosts are alike, so only which devices occur matters,
  not which host is which.
* Three monitors are the smallest graph with a cycle that does not contain its
  entry point; graphs of four contain the diamond with a tail. `MaxHosts` is 4, so
  that requests fit exactly, exceed it by a duplicate, by a block, or by the first
  address of an IPv6 network. `MaxExcluded`, 5 addresses, stands for 2^32: more than
  `MaxHosts`, and less than the largest exclusion.

Fairness. Only liveness needs it. `Scheduler!FairSpec`: strong fairness of every
task. The event loop keeps ready callbacks in a FIFO queue, locks and semaphore
are FIFO, every check has a timeout (`base.py`, `_probe` waits with it) and every
insert into SQLite ends or raises; so a task that can go on again and again does
go on. Strong rather than weak, because the model's step of a task is disabled
while another one has the `cpu`. `HostScan!FairSpec`: weak fairness of every
host's scan, for the same reasons; every attempt has a timeout.
`MCService!MCFairSpec`: weak fairness of the worker threads and of the steps of
an ending service, none of the loops or the stop itself. `WinRM!Fairness`: weak
fairness of each thread of the pool; `kinit` and the requests have timeouts of
their own, and a free lock goes to a thread that waits. Which one is not said, a
`threading.Lock` is no queue, so what is promised is that a call gets a thread
(`EveryCallIsTaken`), not that it gets the lock; and no coroutine has to give up.

Deadlock checking is off where an instance comes to its end by design: the bounded
number of results or polls, the end of a scan, the exit, the last rendering. For
`pair` the property `EveryPollReturns` tells that end from tasks that wait for each
other; `uplinks` has a step for the end, and `kerberos` has no end: both check
deadlock.

## 4. What is proved

All proofs hold for every value of the constants that satisfies the named
assumptions: any set of monitors, any graph, any positive thresholds, any
concurrency, any pool.

* `Checks_proofs` begins with one monitor: `TypeCorrect`, `CountersCorrect` and
  `LastVerdictCorrect`. The last one needs the counters: a threshold is reached
  exactly if the last n results are a run, because a counter is the length of the
  longest suffix. `NothingDownIsLost` is about the list in pages, for any list, any
  `Limit` and any pages: but for a set of devices no larger than `slips`, what was down
  throughout is either in what was read, or in the list behind the offset, as it is now.
  Then the checks that remember, for any device, any number of interfaces and
  indices, any speed, latency, thresholds and wrap of the uptime: `Told`, that the first
  reading that shows a restart is no OK; `ToldOnce`; and `WasCarried`. The invariant is

      CInv == Typed /\ ReadingSound /\ OctetsSound /\ AwaitedSound

  `ReadingSound`: what is kept is what the device said when it was last read, and
  the warnings are no more than the restarts and wraps until then. `OctetsSound`
  is why no more is shown than was carried although readings are kept over polls that
  failed: since the agent read what is kept, every interface started again and carried no
  more than it could in that time, or the one that was read still has its index.
  `AwaitedSound` says the same of an answer on its way. The shares are of the time between
  the replies, not between the readings: that makes up to 100 percent only if both took as
  long (section 6).
  The last part is about the checks that remember nothing, all types and modes, any
  replies and any number of pools, devices, guests, rows, alerts and containers:
  `WorseNeverBetter` and `NothingHidden`. Two verdicts are compared by their result
  and, since thresholds come after, by their value (`NotBetter`); one lemma per
  check shows that a reply that is no better gets a verdict that is no better, and
  `ThresholdsKeepOrder` that thresholds keep this order. A list takes more: the
  first item that fits is at the same place in both lists (`SamePlace`), the worst
  pool and the fullest one bound each pool (`PoolsParts`), devices with addresses of
  their own are as many as their places (`PlacesCounted`), more alerts are at least as
  grave. `NothingHidden` compares the whole with each part in the same way.
  What "no better" means is `NoBetter`, described with Replies.
  The hypothesis is `Sensible`. Of a monitor: its thresholds point the way the value
  gets worse (below for the days of a certificate, above for everything else, which
  the code leaves to the user), and an HTTP monitor that lists statuses lists 200. Of
  a reply: a list or a record with the fields the check reads; numbers, or `None`
  where the API may leave one out; totals that are not negative; what is fine for another
  monitor is not said of this one; no two UniFi devices with one address. With
  thresholds from below, `AggregateHidesNothing` is false: the pool that counts is
  the fullest (`platforms.py:164`), so a limit from below would miss an emptier one.
* `Rollup_proofs`, for every acyclic graph, every order of the parents and all states:
  `BlockedExactly`, `NamesRootCause`, `GroupsShowWorst`, `OutagesSpread`. The first
  two are about the recursion of `blocking_parent`: because parents come before their
  children in `Order`, the recursive equation has a solution, built one
  monitor after the other, and a blocked monitor has a path to what blocks it. A
  group's tally is followed through its loop; its result is the largest by rank,
  whatever the order of the members.
* `Scheduler_proofs` begins with `observe`: it keeps its types (`ObserveType`); saturated
  streaks decide the same states for ever (`SaturationSound`), and are zero exactly
  when the real ones are (`SaturationKeepsZero`). This is what justifies the finite
  state machine inside Scheduler. Then `Invariance` proves the inductive invariant

      IInv == TypeOK /\ StacksSound /\ LocksSound /\ DecisionsSound /\ RootsAlertedExactly

  and from it follow `TypeCorrect`, `PollsAreSerialised`, `HoldersNeverWait`,
  `RootsAreAlertedExactly` and `PagerPromiseKept`, the refinement. TypeOK alone is
  not inductive: that a frame has a caller to return to is `StacksSound`; that who
  probes is at the head of the queue, and that a task is in at most one queue, is
  `LocksSound`; that nobody changes a monitor between its transition and the
  decision about it is `DecisionsSound`. There is one lemma per action, most of
  them instances of a few about calling, returning, and joining or leaving a
  queue. The assumptions used are those named in the modules; the acyclicity of
  the graph is not among them, since the proofs need only that a monitor without
  parents is not blocked.
  `NoProblemIsLost` is about whole stacks, and its invariant (`DebtInv`) adds to IInv

      Informed == every problem nobody was told of is blocked, or some frame owes it a look

  A frame owes a monitor a look (`Owes`) if it is the transition into the problem before
  its decision; a recovery of an ancestor that has not released its children yet; or
  a release that has not come past the monitor in its loop, or is at it and its
  fresh poll is not known to be OK. Whatever ends an outage leaves such a frame: an
  ancestor leaves DOWN only by an observation, whose frame then records the event and
  releases. `CallsSound` says which frame waits for which, `AnswersSound`
  that a check which never answers WARN never makes its monitor WARN. The theorem has
  four hypotheses, and each is needed. The graph has no cycle, as the configuration
  demands. `PromptRecovery`: a monitor with parents is UP after one success, otherwise a
  release takes a first success for the end of the problem (run `lost_recovery`).
  `ParentsUpOrDown`: a monitor others depend on answers OK or fails, otherwise it
  can go from DOWN to WARN and release nobody (section 6). And the store takes every
  row: a transition whose event cannot be written raises before it releases. The run
  `uplinks` is an instance of all four, and TLC evaluated `DebtInv` on all its states.
* `WinRM_proofs`: `KerberosSafe`, that the lock is held exactly by the thread that
  works inside it and that a call connects as the account of its monitor, and
  `TicketsFresh`, that it connects with a ticket of its own that is still valid. The
  second needs `TicketAssumption`: every account has a cache of its own, tickets are
  used no longer than they are valid, and the host is up for at least that long
  when the service starts. Each of the three excludes a situation the code can be
  in (section 6); the run `kerberos_boot` shows the last one.
* `Service_proofs`: `ObservedStored`, `EventsStored` and `ClosedAfterCommit`, with
  any number of monitors, any graph, polls nested as deep as they like, failures anywhere
  and a stop at any moment. The invariant (`JobsSound`) says how calls are nested
  (`CallsSound`), that one task at a time records a result of a monitor (`OneRecords`, its
  lock), that one statement runs at a time, that a task awaits one job at most and that
  the job writes what its call has to write, and that the outcome a job brings is true of
  the database. `EventsStored` says where an event is that is missing: with a call of a
  task that is about to write it, or was when its loop ended, which need not be the task
  of its monitor. A loop that goes on has lost none, so one error loses no more events
  than its task had calls. `ServiceAssumption`: the maintenance is not a monitor, and
  `Parents` maps monitors to sets of them. `NoneMissed` is about deliveries, any number of them at a time: a target
  that wanted an alert and has not got it has refused it, lost it at the exit, or has
  a delivery on its way.
* `HostScan_proofs`: `OvershootBounded`, `GatesHold` and `RetiredNotTried` for any
  hosts, devices, credentials, limit and concurrency. The invariant places every host at
  a service and a credential of it (`AllPlaced`), says who is in which queue
  (`LocksSound`) and how many hold a permit (`PermitsSound`), and bounds the
  failures: `UnprovenWithin` until a credential has worked, when the lock serialises
  it, `ProvenSound` after. `LimitHolds` and `OneHostAtATime` assume that no UniFi key
  is configured: a host that is no console proves one that nobody accepted
  (section 6), and then neither holds.
* `Forecast_proofs`, for every history with hours missing and hours averaged.
  `LineIsClosest`: the residuals of the fitted line sum to zero, alone and weighted by
  time (the normal equations), so the squared error of any other line is that of the
  fitted one plus a square. `DatesRight`: whether a threshold lies ahead is decided by
  the sign of the slope and the value of the line at `now`; the same two say that the
  date is not in the past, within the horizon, and after that of the milder threshold.
* `Proposals_proofs`, for every configuration, network, request and limit.
  `RequestScanned` and `FailureExplained` are about `discover` and `expand_targets`, one
  target after the other: a request that is not refused for its credentials, a reference,
  the directory or a target that cannot be expanded fails only by its size; after the
  scan only a proposal that is not valid ends discovery. `LoadingSound` is about the coloured depth-first search, which finds a
  cycle exactly if there is one. A cycle is a set of monitors each of which has a
  parent in the set (a trap). Without one, the search never meets a
  grey monitor, because those on the way to it would be a trap (by induction over the
  depth of the calls); with one, no member of the trap can ever become black.
  `RescanIsEmpty`: what is proposed is new by `_key`, and what is pasted keeps the
  keys, renamed or not. `AdoptionLoads` needs most of this: the
  numbered names are finitely many times taken, so the search for a free one ends
  (pigeonhole); no two proposals get one slug; `depends_on` of a proposal leads to the
  host's own ping or to a machine proposed before, by the name it got in the end, so
  no new cycle arises; credentials of proposals fit; and what is kept is valid, because
  `_key` looked at it. Its hypothesis is `Sluggable`, what `slugify` does (a slug is a list
  of words that are their own slugs; numbers keep theirs apart). What hosts report is not
  restricted. TLC evaluated the inductive invariant (`AdoptInv`) on the states of `adopt`.

An induction over the data is stated about a set, of the numbers (`Least`, `UpTo`,
`Loop`) or of the monitors a fact holds for: the theorems of the library that take the
fact as an operator cannot be used. `ProposalsAssumption` and `TargetsAssumption` are
the types of the inputs.

The inductive invariants of Scheduler, WinRM, HostScan, Service and Proposals are not
repeated in the runs.

Only model-checked:

* liveness (`EveryPollReturns`, `EveryScanEnds`, `StopEnds`, `EveryCallIsTaken`), which
  is beyond TLAPS.

All other properties of the passing runs are theorems.

## 5. What is left out

* Timestamps and messages: no property is about them. Values only where a threshold, a
  rate or a forecast is, and latencies only where a rate is: between the sample of an
  interface and the reply.
* The duration of sleeps: `_loop` may start its poll at any time.
* The web interface: read-only views of the scheduler and the store, behind an
  optional password; no handler changes state. Rendering of text, YAML and evidence.
* How checks get their replies and parse them: commands, WQL, SOAP, JSON. A reply is
  the record that comes out. The eight threads of vSphere calls: without tickets or a
  lock they are the queue of `WinRM` with nothing to go wrong but a call given up.
* In the configuration, the expansion of secret references and the defaults of
  fields.
* A refresh of the forecasts is one step. In the code it reads monitor after monitor,
  and a read that raises leaves the others, and in the maintenance the retention of
  that hour, undone.
* SNMP and MQTT in discovery (no lockout) and the unauthenticated fingerprints; the
  devices of HostScan carry what these steps find.
* In discovery, a WinRM attempt that `wait_for` gave up: its thread goes on after the lock
  of the credential is released (`discovery.py:519`), so a refusal can reach the host
  that nobody counts.
* Of proposals: the `max_*` settings, which cut lists short; intervals, groups and the
  values of thresholds; the thresholds of monitors without a forecast; the `docker_command`
  of discovery, which the settings validate; an SNMP agent without CPU or memory
  (`discovery.py:1047`), an SSH banner in place of the open port, containers with a comma
  in their name, whether a Proxmox guest is a VM or a container. The proposals of a
  hypervisor are ordered machines first, then their CPU, memory and storage, and the
  devices of all UniFi sites are one list.
* The second counter of an interface, and a change of its speed: `Speed` is a
  constant of Checks, so the property about utilisation holds for links that do
  not renegotiate.
* In Service, the permits, and what the rollup decides: which transition is alerted.
* Restarts: nothing but the history is persisted, so every start is `Init`;
  `alert_open` is lost with the process.

## 6. Where code and documentation differ

Four runs show one each, which TLC refutes.

* `lost_recovery`: with `recoveries_to_up` above one, a child that is still DOWN
  but whose fresh poll is OK is passed over; if it then fails again, its state
  never changes and nobody is told (`scheduler.py:152`, `scheduler.py:14`).
* `foreign_host`: a 404 from a host that is no UniFi console counts as a proof of
  the key, so wrong keys are then tried in parallel and exceed the limit
  (`discovery.py:810`, `discovery.py:793`). `lockout` therefore has devices that
  answer this only where the overshoot cannot follow.
* `kerberos_boot`: an account that never had a ticket reads as one that got it at
  time 0 of the monotonic clock, so for four hours after a boot none is requested
  (`windows.py:83`, `windows.py:77`).
* `past_critical`: a value past the critical threshold makes its result a failure, and
  the history leaves failures out (`store.py:100`; `store.py:96`, `forecast.py:3`). A disk
  that fills up is projected from the hours before it was full, or has too little data.

Met while modelling, without a run of their own:

* A child whose parents are being confirmed can recover meanwhile. Its recovery is
  silent, since nothing is open yet, and the alert goes out afterwards; it stays
  open on an UP monitor (`scheduler.py:124`; `state.py:53`).
* A parent that goes from DOWN to WARN no longer blocks its children, but only a
  transition to UP releases them (`scheduler.py:137`; `README.md:302`): a child whose
  alert was suppressed meanwhile stays unreported until it changes.
* `notify_on` is applied per target and kind, `alert_open` per monitor: with the
  default a WARN is announced to nobody and its end to everybody (`alerts.py:56`;
  `README.md:302`).
* `_key` leaves out `node`, so with one node of a cluster configured all of them
  count as configured, and guests are proposed with `depends_on` the wrong node
  (`discovery.py:1013`; `README.md:243`).
* Kerberos calls wait for their lock on threads of the pool, and a call that was
  given up keeps its thread: enough of them starve NTLM and certificate calls, which
  `windows.py:66` says are unaffected.
* Two accounts whose names differ in punctuation share a ticket cache
  (`windows.py:72`).
* An index is looked up again only if it vanished (`snmp.py:168`); one that moved to
  another interface at a reboot is polled on, under the name of the first.
* A wrap of `sysUpTime` reads as a restart (`snmp.py:141`), which
  `RestartIsToldOnce` allows for.
* A restart is one WARN result; with `failures_to_down` above one it never becomes
  the state WARN, so nobody is alerted (`config.example.yaml:210`).
* Whether a request fits `max_hosts` depends on the order of its targets, because a
  block is measured against what is left and counts addresses already listed
  (`discovery.py:211`).
* Targets and exclusions are compared as text, so an address that is excluded is
  still scanned under its name in the directory.
* A hyphen in the name of a target makes a range of it, and the scan ends in an error
  (`discovery.py:189`; `config.py:641` allows host names).
* One mount point, container or guest on one host that the patterns of `config.py` refuse,
  or that has no name, ends discovery with an error after every host was scanned, and
  nothing is written: `_key` validates each proposal (`discovery.py:1012`, `:1352`) and
  nobody catches what it raises. A mount point with a space in its path is proposed as the
  part before the space.
* An IPv6 network counts its first address, which is none of its hosts
  (`discovery.py:185`), so one that fits `max_hosts` exactly is refused.
* A TrueNAS login that raises leaves the websocket open (`platforms.py:78`), since
  `__aexit__` is only called after `__aenter__` returned: one more at every poll.
* The time of an interface's counters is taken when the reply arrives (`snmp.py:165`,
  `:175`): after a slow reply a fast one makes the interval shorter than the one the
  octets were carried in, and a link that is full reads above 100 percent.
* A device that is removed while `unifi_list_all` is between two pages moves the next one
  over the edge: it is read on neither page, and if it is down the poll does not see it
  (`apps.py:146`-`160`; `apps.py:140` says "still read fully", of short pages).
* A number that is missing is read as zero (the CPU of a Proxmox node or guest,
  `platforms.py:220`-`254`; the failures of Technitium, `apps.py:272`-`314`), or is not
  compared (the size of a pool, the CPU of a VM), so its monitor is OK; and an empty list of
  UniFi devices is OK.
* A row of a WQL query that is no number leaves the aggregate and makes the result a
  WARN (`windows.py:222`-`233`): with the worst row gone a FAIL can turn into it.
* An insert that fails for a parent polled in a child's transition ends the child's loop,
  not the parent's (`scheduler.py:107`, `:133`), so one error of the store can stop the
  polling of a monitor that had none, with events of both missing.
* `unifi_list_all` stops after one page if the answer has no `totalCount`
  (`apps.py:158`), which its comment does not mention; the run has that style and the
  property leaves it out.
* A trend that is flat or recedes from a threshold it is past already gets a date, now
  (`forecast.py:91`; `README.md:322` says never a date).
* A read that raises while forecasts are refreshed skips the retention of that hour
  (`scheduler.py:191`).
* A camera that is CONNECTING is a WARN on its own and a FAIL among all cameras
  (`apps.py:264`, `apps.py:248`).
* The summary of Docker containers fails if one vanishes between `ps` and `inspect`
  (`ssh.py:267`), and leaves out stopped ones whose policy is `on-failure`.
* The banner of a TCP service is what one read returned (`net.py:67`); a banner that
  arrives in two parts does not match.
* MQTT alerts are retained, and of two deliveries that overlap the one that is retried
  arrives last (`alerts.py:61`): the state that stays on the broker may be an old one.

## 7. Plan

Done: the state machine; every check, what it remembers and what it makes of a
reply; the forecast; the rollup; the scheduler with its abstract specification;
delivery, store and service; WinRM; configuration, targets, scan and proposals.
Proofs for all of them: each safety property of the passing runs is a theorem.

Next, in this order:

1. `NoLostProblem` for parents that may WARN, if a transition to WARN comes to release
   the children (section 6), and for a store that refuses rows.
2. The sessions of vSphere calls that were given up, and `--once` (`_once`).
