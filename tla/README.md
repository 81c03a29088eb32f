# cmon-agent in TLA+

`cmon-agent` runs in the global zone of a Triton compute node and serves the
metrics of a zone in Prometheus format over HTTP.  This directory holds TLA+
modules that model it, TLC configurations that check them on small instances,
and proofs for TLAPS of what holds for every instance.  File and line numbers
refer to the repository's sources, paths relative to its root.

## The system

The agent is one node process.  A callback runs to its end before another
starts; concurrency is between requests that wait for something outside: a
child process (plugins, `ntpq`, `zfs`), an HTTP answer (vminfod, metric ports),
`vmadm`, files on disk.  `mod_vasync` pipelines return to the event loop
between their functions, so other requests and timers run in between.

| Component | State | Operations | Talks to |
|---|---|---|---|
| Cache, `lib/cache.js` | `_items`, `_recentlyUsedKeys` | `insert`, `get`, `remove`, the sweep every 5 minutes | called by the master collector and Triton metadata |
| Master collector, `lib/instrumenter/collector.js` | `collectors`, `collectorFailures`, `running`, the reload timer, the cache | `start`, `stop`, `reloadCollectors`, `getMetrics` | collectors by `getMetrics`/`cacheTTL`/`getSubCollectors`, kstat for zones |
| Endpoint and App, `lib/endpoints/metrics.js`, `lib/app.js` | the server | `start`, `close`, `GET /v1/:container/metrics` | master collector, Triton metadata |
| Plugin collector, `collectors-common/plugin.js`, `lib/plugin-*.js` | `lastReload`, `plugins` per directory, `runningPlugins` | `getSubCollectors`, `getMetrics`, `cacheTTL` | plugin directories, child processes |
| Triton metadata, `lib/instrumenter/lib/triton-metrics.js`, `collectors-vm/triton_core.js` | entries in the cache | `getTritonMetadata`, `getTritonMetrics` | `vmadm`, the cache, the zones' metric ports |
| NTP, `lib/instrumenter/lib/ntp.js`, `collectors-gz/ntp.js` | none between calls | `get`: `ntpq` calls in sequence | `ntpd` |
| Link, `collectors-vm/link.js` | none between calls; a late answer may still hold a closure of the last one | `getMetrics`: vminfod query with a timeout, then kstats | vminfod, kstat |
| kstat readers, `lib/kstat-common.js` with `cpucap`, `memcap`, `tcp`, `zone_misc`, `zone_vfs`, `arcstats`, `cpu_info`, `cpu_util` | none | one synchronous read each | kstat |
| `zpool`, `zfs` | none | a command each, `zpool` after a kstat read | `zpool`, `zfs` |
| Exposition parser, `lib/parse-common.js` | the local variables of one loop | text to metrics, for the metric ports and (through `plugin-output-parser.js`) plugins | |

What is hard in each, and what makes it correct:

- **Cache.** Each method runs to its end, but a long sequence of them has to
  keep two structures in step: the entries, and for each TTL the list of keys
  in order of insertion, in which the sweep stops early.  `get` changes one of
  them and not the other, the sweep computes indices in one loop and uses them
  in the next bucket, and the clock is one that an operator may set back.
  Correct: `get` never answers with expired data and never misses live data;
  every entry can be found by the sweep; the sweep takes only what has expired,
  and in the end everything that has; it does not throw.
- **Master collector.** Requests overlap with one another, with reloads that
  replace the table of collectors, and with zones that stop and start.  One
  collector may fail, be unavailable, answer nothing, or be served from the
  cache.  Correct: a reply has one result for each collector that applies, all
  of this zone and (what was read, not cached) of this instance of it; failures
  are counted so that a broken collector is left alone; every request ends.
- **Plugin collector.** One list per directory, reread in the background while
  calls use the old one; a limit on children.  Correct: the list is there when
  it is looked at and follows the directory, and no slot is lost.
- **Triton metadata.** One cache entry for two callers that know different
  things about a zone.  Correct: only core zones are treated as such.
- **NTP.** Several external answers that must belong together.
- **Link.** A timeout that races an answer, either of which may come when the
  request has moved on, and kstats read after the wait.  Correct: one callback,
  and labels that belong to the instance the reply is about.
- **kstat readers.** Assertions that end the process: two kstats where one is
  expected, a key met twice.  Correct: no state of a zone meets one.
- **Parser.** A loop with several flags over lines in any order, on
  several ports' answers put one after another.  Correct: every value belongs
  to the HELP and TYPE before it, and one port's output does not spoil another's.

`PROJECT.json` lists the hazards one by one with their lines and the property
that covers each, or the reason why none does.

## The modules

| Module | Models | Extends / composes |
|---|---|---|
| `TtlStore` | the abstract specification of the cache: a map whose values disappear at their expiry | |
| `Cache` | `lib/cache.js` | `INSTANCE TtlStore WITH store <- HeldLive...` |
| `CacheProofs`, `CacheOrderProofs` | theorems about `Cache`, the second about the order in the buckets | `Cache`, TLAPS |
| `Collector` | `lib/instrumenter/collector.js`, with the parts of `metrics.js` and `app.js` around it | the cache as it appears to a caller: an entry may be gone at any time, which is what `TtlStore` promises |
| `PluginCollector` | `collectors-common/plugin.js`, loader, executor, parser | the request as `collector.js` makes it |
| `TritonMetadata` | `triton-metrics.js`, `triton_core.js`, `getCoreZoneStatus` | the cache as `TtlStore` promises it |
| `NtpGetter` | `lib/instrumenter/lib/ntp.js`, `collectors-gz/ntp.js` | `ntpd` and what `ntpq` prints of it |
| `PromParser` | `lib/parse-common.js`, one step a line, and the reading of a text by its blocks it is compared with | |
| `KstatCommon` | `lib/kstat-common.js` and what each kstat collector gives it, as operators | |
| `ZoneReply` | one request through the built-in collectors: `link.js`, `triton_core.js` with its ports, `zfs.js`, `zpool.js` and the kstat readers | extends `PromParser` and `KstatCommon`; the pipeline of `collector.js` around them |
| `PromParserProofs`, `ZoneReplyProofs` | lemmas about `PromParser` and about texts put one after another; theorems about `ZoneReply` | those modules, TLAPS |
| `CollectorProofs`, `PluginProofs`, `TritonProofs`, `NtpProofs` | theorems about `Collector`, `PluginCollector`, `TritonMetadata` and `NtpGetter` | those modules, TLAPS |
| `MC*` | small instances for TLC | |

Definitions marked `slip` are not used by any specification.  Each is a
definition of the module with a plausible programming mistake; put in place of
the right one it breaks the property named in `PROJECT.json` under `mutants`,
which shows that the property says something about the code.

### Cache and TtlStore

`items` and `recentlyUsedKeys` are `_items` and `_recentlyUsedKeys`; a bucket
is the sequence of the keys stored with one TTL.  `Insert`, `Get` and `Remove`
are the three methods.  `_sweep` is synchronous; it is cut into steps, one per
bucket and loop (`SweepStart`, `SweepBucket`, `SweepScanned`, `SweepConfirm`),
and every other action waits until it is over (`Idle`).  `sweep` holds its
local variables, among them `deleteTo`, which the code sets to 0 once and then
keeps from one bucket to the next.  `Tick` and
`StepBack` are the wall clock, `Date.now()`.  `reply` is what `get` has just
handed to its callback.  `Restart` is the service manager.

`clockRan` remembers whether the clock has stepped back since
the process started: the order in a bucket is that of its dates only if it has not.

`TtlStore` promises a caller that a lookup returns the value put last until its
TTL has passed, and afterwards nothing, and knows no sweeps.
`Cache!ImplementsStore` is the refinement, with the live entries for the store.
It holds with any clock: `TtlStore!SetBack` allows a store to answer again with
what was gone when the clock is set back, since no store can do better with a
wall clock, and forbids it to lose or change anything that is live.

A key in a bucket is *stray* when its entry is gone (`get` dropped it) or filed
under another TTL by now.  A sweep stops at a key without an entry, and at one whose new entry
is live; `SweptUnlessBehindStray`
says that nothing else stops it too early: as long as the clock has only
advanced, an expired entry that a sweep has left lies behind a stray key.

### Collector

The table of `collectors` (by directory, then name), the failure counts, the
requests under way, the reload under way if any, the cache, and around the
agent the collector files on disk and the `instanceId` of each zone.  A request
(`req[r]`) goes through the functions of the pipeline in `getMetrics` in order:
`GetMetrics` (the applicable collectors are listed), `GetZoneInfo`,
`FilterCollectors`, then for each collector `RunCollector`, for one with
subCollectors `GotSubCollectors`, `CachedMetricGet` and `GotMetrics`, and in
the end `ConfirmSanity`.  Between any two other requests, reloads and zones may
step.  An exception that nothing catches is `Abort`: the service manager then starts the
process again (`Restart`) with nothing in memory.  A datum is not text but
where it comes from: the zone, its instance, the collector.  Whether a result is
cached is `cacheTTL`'s to say, but for the metrics of plugins and of the metric
ports (`PromText`), which may bring a `ttl` option along (`Stores`).

`req[r].named` is what `cachedMetricGet` has been asked for: the collector, or
each of the subCollectors its `getSubCollectors` named.  `ReplyIsComplete` compares
a reply with that record, and not with its results, so that a subCollector whose
answer is lost on the way is missed.

### PluginCollector

`plugins`, `runningPlugins` and `due` (whether `lastReload` is an interval
ago) are the fields; `loads` are the calls of `pluginDirLoader.load` under way,
each with what it has found once it has read the directory (`LoadReads`) and
until its callback runs (`LoadReturns`).  `disk` may change at any time and may
be missing (`NoDir`), unreadable (`BadDir`) or hold a `plugin.json` that fails
an assertion (`BadInfo`), which ends the process (`Crash`).  A request asks for
the subCollectors and then calls `getMetrics` for those that the cache has no
answer for, all in one turn (`pc = "starting"`, in which nobody else steps).

The documentation says that plugins are reloaded "for each non-cached plugin
metric collection" (`docs/README.md:418-421`); the code reloads at most once
per interval, and the model follows the code.

### TritonMetadata

`cache[vm]` is the entry `triton-metrics/<uuid>`.  A request comes with a
header that says whether the zone is a core zone (from cmon 1.6.0 on; it is
then right, which is an assumption about cmon), one that cannot be parsed, or
none.  Without one `Endpoint` looks the zone up in the cache or in `vmadm`
(`EndpointGotVm`); `TritonCore` looks the ports of a core zone up in the same
entry, or loads them with `coreZoneConfirmed` (`CollectorGotVm`), and scrapes
them in parallel (`PortAnswers`, `GotAllMetrics`).

The manual check (`triton-metrics.js:66-68`) yields what `&&` yields: a bool, or
`undefined` for a zone without the tag, which `getMetrics` takes for false; but
an empty string for an empty tag (`EmptyRoleZones`), which fails the assertion at
`collector.js:906`.  Nothing catches that, so the process ends
(`EmptyRoleAborts`), although `metrics.js:91` says that `getCoreZoneStatus` returns a bool.

### NtpGetter

One call of the NTP collector: `pc` is the run of `ntpq` it waits for (`peers`,
then `extended`) and then its outcome, `ntpData` the object of that name.
`GetNtpPeers` parses the list of peers, `AddExtendedData` the second run, whose
output is reduced to the sections of it that arrived: one per command, and one
about the syspeer of the list, asked for by association id.  `PipelineCb` is
the pipeline's callback and the collector's, which run in one turn.  `ntpd`
may stop, start and change its peers at any moment; while one process runs, an
association id stays one peer's (an assumption about `ntpd`), and a new process
numbers anew.  Of a line only what tells those apart is kept, and whether it passes the
assertions about it alone: `addPeer`, `addStatLine`, `addProperty` and
`translateTime` refuse unknown keys, values that are no numbers and keys met
twice, and what `ntpq` prints there is a choice (`understood`).

Three things in this code deserve a reader's attention.  `PEER_REGEXP`
(`lib/ntp.js:62-74`) accepts four of the eight state characters that
`translateFlash` decodes, so a peer marked as a falseticker fails an assertion
and ends the process.  The check for `processed for time`, "the last metric we
should have read" (`:708`), is followed by one more section, that of the
syspeer; without it, or without any earlier one, `pushMetric` throws.  And
`ntpd_available` is set to 0 but never delivered: whichever run is refused,
`pipelineCb` makes an error of it.  `SurvivesUnavailable` states what it takes to end
the process: a line that fails an assertion about it alone, a peer in such a state, or
an answer that has the sysstats section and lacks another; the absence of `ntpd`
is none of these.

### ZoneReply, with PromParser and KstatCommon

`Collector` leaves open what a collector calls back with; here each built-in
collector does what its file says, with no metrics in the cache and no failures counted
from before.  `request` is `zInfo`, the position in the pipeline and the
collectors to come; `results` is what has been called back, in order; `zone` is
the kernel's zone, which stops and starts around the request.

- *link* (`AskVminfod`, `TimerFires`, `VminfodReads`, `VminfodAnswers`,
  `VminfodFails`).  `query.timedout` is the variable of that name, and `Done`
  is `done`, which whichever comes first runs to the end and the other finds
  used up, in the middle of a later collector perhaps.  The kstats are read then
  and not when the query was made.
- *triton_core* (`AskVmadm`, `ScrapePorts`, `NothingToScrape`, `PortAnswers`, `PortFails`,
  `NoneAnswered`, `ParseAnswers`, `ParserStep`, `AnswersParsed`).  The ports come
  from the cache at once or from `vmadm` when it answers.  The answers are
  joined in the order in which they come and parsed as one text.
- *kstat readers* (`OnlyKstats`).  `KstatCommon` says for each which kstats it
  asks for and by what, whether it labels them, and which keys may be missing
  or unset; `KstatsToMetrics` gives the outcome: metrics, empty, not found, a
  failure, or an exception.
- *zfs, zpool* (`ForkZfs`, `ForkZpool`, `CommandEnds`).

`PromParser` keeps of a line its kind and the name it is about, and of a value the
numbers of its lines; `text`, `pos` and `parser` are `opts.output`, `idx` and the other local
variables.  `MetricsOf` is the reference: a text is cut into blocks, each of
metadata and then values, and each block with a TYPE line is one metric.  A block
without one is refused, with one exception: the help text of a HELP line may be empty, which
`parse-common.js:142` takes for no help at all, so a text may end in HELP lines of
which the last is empty (`Vacuous`).

What the model assumes: the links of a zone share one name prefix, so that
their numbers (PPAs) tell them apart; a zone's NICs change only while it is
stopped; there is always a pool; a loaded collector stays loaded (for reloads see
`Collector`); one request at a time, since these collectors share no
state.  The `ntp` and plugin collectors have modules of their own, and `time` only
reads the clock; none of them is in the pipeline here.

What the model shows of the code beyond its properties, for a reader who
maintains it:

- `memLimit` returns `undefined` for a limit that is 0 or 2^64
  (`lib/common.js:99`), and `kstatValue.toString()` (`lib/kstat-common.js:86`)
  then throws in the middle of a request; nothing catches it, so the process
  ends, although `kstat-common.js:103` promises that an error is passed to the callback.
  `AbortsOnlyUnlimited` says that this is the only `TypeError` of a kstat reader, and that
  none of their assertions about kstats ever fails.
- `link` has no `EMPTY_OK`: a zone without NICs has no link kstats and the
  whole request, not only `link`, is answered ENOTFOUND.
- A line that begins with `# ` and is neither HELP, TYPE nor an option is a
  value line, but ends a metric like a metadata line, so that
  a comment between values starts a block that has no TYPE, and the whole text is
  refused.  `docs/README.md:362-363` refers plugins to a format that allows
  comments.
- Two runs of metadata with no value in between make one metric: the later TYPE
  takes over, and if it came without a HELP, so does the help text of the
  earlier name, where `docs/README.md:475` says that the metric's name is used.
- Answers of ports are parsed as one text.  Values without a TYPE at the
  start of a later answer go to the last metric of the one before, an OPTION
  there is taken for a value, and one refused line loses every port's
  metrics.  `AnswersAreServed` is therefore about answers that could be served
  alone, and says that these do not disturb each other.

## What is checked

| Run | Expect | What it asks |
|---|---|---|
| `MCCache` | pass | Two keys of one TTL, one whose TTL changes, `remove` and a clock that steps back: the cache answers exactly as `TtlStore`, its structure is intact, each bucket is in order while the clock advances, and what has expired is swept unless it lies behind a stray key |
| `MCCacheThrow` | violation | A sweep never throws.  It does (finding) |
| `MCCacheLeak` | violation | Every expired entry is swept in the end.  Not so (finding) |
| `MCCollectorZones` | pass | Two requests, two zones that restart, failures: no data crosses zones or instances, failures disable a collector, for good, at the limit, and a reply is complete |
| `MCCollectorReload` | pass | With subCollectors, a collector for core zones, reloads and upgrades: a reply has exactly one result of each collector chosen or of every subCollector it named, no step sets a request back, and every request is answered or the process ends |
| `MCCollectorRemoved` | violation | A reload never ends the process.  It does (finding) |
| `MCPlugins` | pass | Overlapping calls over one list and one slot: no slot is lost, the list is there, a change reaches it |
| `MCPluginsTTL` | violation | The TTL is that of the plugin that ran.  Not always (finding) |
| `MCZoneReply` | pass | One request at a time through the built-in collectors while the zone stops and starts: each calls back once, links are labelled soundly, texts are read by their blocks, ports do not disturb each other, only `memcap` can end the process, and a reply is held up by nothing but a silent port or a command that never ends |
| `MCNtp` | pass | `ntpd` in motion around one call: its absence ends no process, and the syspeer described is the listed one |
| `MCTriton` | pass | Four zones, two requests: only core zones are scraped |
| `MCTritonManta` | violation | Without the header a Manta zone is not a core zone.  After a request with it, it is (finding) |

The `findings` in `PROJECT.json` quote the comment or document each violation
run contradicts.

**Bounds, and why they are enough.**

- *Cache.* Three keys, two TTLs, a clock of a few ticks, one value (which value an entry
  has changes nothing, and the theorem `CacheImplementsStore` covers any number of them).  A
  throw needs two buckets (one whose `deleteTo` is left over, one that
  is cut down by it) and a leak needs two keys in a bucket (one in front without its
  entry).  Three keys give a bucket a middle, and one whose TTL changes makes a stray key that
  still has an entry.  The clock's maximum stops new expiries and not
  sweeps: at its end everything that has expired must still go.
- *Collector.* Two requests are what it takes for one to see the other's
  effects; a restart is a bound on `instanceId`.  `MAX_FAILURES` is scaled down so that the limit
  is reached by two requests; the code compares counts only with it.  The two
  passing runs divide what may happen (two requests, zones and failures; kinds of
  collectors and reloads) since all of it at once is out of TLC's reach.
- *Plugins.* One directory, two plugins, two requests, one slot: overlapping
  loads need two requests, since one starts the next load only after the
  interval; the limit is reached by the second.
- *ZoneReply.* `MaxInstance` 2 lets the zone be started once around or within a
  request; `MaxTrouble` 1 is one collector without data in a request, since
  failures of different collectors do not meet anywhere.  The zone has two NICs, whose
  networks change with the restart, and another zone has links with the same
  numbers.  One port prints any text of up to two lines of seven kinds, the other
  longer texts that are nearly well-behaved: a block has at most
  three lines that differ in what they do (HELP, TYPE, value), and blocks of both ports meet in
  either order.  For texts of every length there is the proof.
- *NTP.* Two associations, so that the syspeer can change to another, and two
  remotes, so that a restart can exchange their numbers; of the states one that
  the expression does not match.  Calls share nothing, so one is enough.
- *Triton.* One zone of each kind (Triton's, Manta's, a customer's with the tag, one with
  an empty tag) and two requests, one port.  More ports only
  repeat `PortAnswers`.

**Fairness.** `Cache!FairSpec` asks for weak fairness of the sweep's steps, each
of which sets the timer of the next (`_doSweep`), and of the clock; nothing
obliges a caller to do anything.
`Collector!FairSpec` asks for weak fairness of each request's next step and of the reload: node's event
loop runs every callback that is due.  That collectors call back *is an
assumption*: the HTTP requests to the metric ports and the `ntpq`, `vmadm`, `zfs`
and `zpool` processes have no timeout in this code, so a port that accepts and never
answers, or a command that does not end, holds its request.
`ZoneReply!FairSpec` asks for weak fairness of `Due` only, what the event loop has
or will have to do: the request's own steps, the timer of `link`, which node sets off
when it is due, and the answers of ports that are not silent.  It obliges neither vminfod
to answer nor a command to end.  `AnsweredUnlessHeldUp` therefore says in its premise that no request
waits for a command for ever, and excepts silent ports in its conclusion;
vminfod needs no exception, since `link` has a timeout.
`PluginCollector!FairSpec` asks for it of the file system (`Load`), of each
request and of the interval timer; a plugin that does not end is killed at its
timeout (`plugin-executor.js:42`), so there it is justified by the code.  The
liveness property assumes in its statement that a directory stops changing and
that somebody keeps asking.  `vasync` runs the functions of a pipeline one after
another and calls the final callback once; that is external and assumed.

## What is proved

`CacheProofs`, for any sets of keys, TTLs and values and any bounds on the clock, from
`CacheAssumption` alone:

- `TypeCorrect`, `EveryKeyIsFiled`, `BucketsHaveNoDuplicates`: the inductive
  invariant is `IInv == TypeOK /\ KeyFiled /\ NoDuplicates`.  `KeyFiled` alone
  is not inductive: a sweep takes out of a bucket a prefix of it (`Splice`), and
  that this prefix holds no live key is preserved only as long as no key is in
  the bucket twice; `NoDuplicates` in turn needs the types of the sweep's
  indices.
- `SweepsKeepLiveEntries`: a step of the sweep removes or changes no entry that
  has not expired, from the same invariant.
- `CacheImplementsStore`: the refinement, with any clock.  Each step of `Cache`
  is a step of `TtlStore` or a stutter; a sweep is a stutter since it takes
  nothing live.

`CacheOrderProofs`, from `CacheAssumption` and the invariant of `CacheProofs`:

- `BucketsInOrder`: the entries filed under a TTL are in the order of their
  dates.  A bucket after a step is a subsequence of the bucket before it, with
  at most the inserted key appended (lemmas `WithoutOrder`, `CutOrder`,
  `InsertOrder`), and the inserted entry has the latest date of all because no
  date is in the future (`DatesPast`).
- `SweepsTakeTheRest`: what a sweep has scanned holds an expired entry only
  behind a stray key.  The inductive invariant adds `ScannedSoFar`, the same
  for the buckets scanned so far.  The key the scan stops at is not expired;
  if it were not stray either, its entry would be a live one of the same TTL,
  and by the order nothing behind it could have expired.

`CollectorProofs`, from `CollectorAssumption` alone:

- `TypeCorrect`, `ZonesAreIsolated`, `RepliesAreOfOneInstance`: the inductive
  invariant is `IInv == TypeOK /\ CacheKeepsZones /\ RequestsSound`.  What a
  reply holds came from the cache or from a call made earlier, so the invariant
  has to speak of both: an entry is about the zone in its key, and the calls and
  data of a request lie between the instance the zone had when the request
  looked it up and the one it has now.  Instances only grow, so if the two are
  equal at `_confirmSanity`, everything in between is equal too.
- `DisabledStaysDisabled`: the action property that a collector at its limit is
  not called and not reset.  The count is only changed by a call that comes
  back, and `CachedMetricGet` makes none for an ignored collector; so with none
  under way (`Quiet`) none ever will be.
- `RepliesAreComplete`: the inductive invariant is `TypeOK /\ RequestsWhole`,
  which says of a request what it still owes.  Once the collectors have been filtered, each that
  applies has been served, is being asked or is to come, and in only one of
  these ways (`Accounted`); a call under way is for a subCollector that the request is
  waiting for and has no result of yet (`CallsFit`); and what has been named is what
  it has a result of or a call under way for, unless the request has failed.  A reload replaces the
  table, but a request goes on with the collectors it took from it.
- `FailuresAreBounded`: `FailuresBounded` is inductive given `RequestsWhole`.  A call that
  comes back is one less under way and at most one failure more; a collector
  at its limit is not called, and while it is below, the calls under way
  are at most one for each request and subCollector (`InFlightFits`, from `CallsFit`, by an
  injection into `Requests \X SubsOf(c)`).
- `RequestsAreNeverSetBack`: whatever happens leaves a request under way as it is or
  brings it nearer its answer, in a lexicographic order in which nothing can
  go down for ever: the parts of the pipeline, the collectors to come, the
  subCollectors of this one, its calls (`Nearer`).  With finitely many files a request so takes finitely many steps,
  which is the half of `EveryRequestAnswered` that is about safety.  The other, that there
  is always a step to take and that it is taken, is about `ENABLED` and
  fairness.  `RequestsWhole` is needed where `getSubCollectors` answers: the
  collector it answers for is still to come.

`PluginProofs`, from `PluginAssumption` alone; the inductive invariant is
`IInv == TypeOK /\ RequestsOK /\ LoadsMatch /\ RunsCounted /\ ListIsThere`:

- `EveryRunIsCounted`: `runningPlugins` is the number of children.  A run becomes
  a child and takes a slot in one step, and gives it back in the step in which the
  child's callback runs, whether it has ended, timed out or printed
  what cannot be parsed.  That these sets are finite, so that
  one more and one less mean something, is half of `RunsCounted`.
- `ListStaysThere`: a call relies on a list that another call's load may have
  brought, or failed to bring.  `LoadsMatch` says that a load under way belongs
  to one call, which waits for it and for no other; a list that is
  there is replaced and never taken away.
- `TypeCorrect`.

`TritonProofs`, from `TritonAssumption` alone:

- `TypeCorrect`, `CoreZonesScraped`, `CoreZonesPorts`, `ContextsDoAgree`: the
  inductive invariant is `IInv == TypeOK /\ CacheSound /\ RequestsSound`: an entry
  is right about its zone whichever context stored it, and a request that believes its zone to be a
  core zone is right.  A request stores what it believes and believes what is stored,
  so neither half is inductive alone.

`NtpProofs`, from `NtpAssumption` alone:

- `TypeCorrect`, `UnavailableSurvived`, `SyspeerIsListed`: the inductive
  invariant adds `DataSound` to the three properties: between the two runs the
  ids in the list are still the same peers' as long as `ntpd` has not been
  started anew, which is what makes asking by id sound.

`ZoneReplyProofs`, with the lemmas of `PromParserProofs`, from
`ZoneReplyAssumption` and `NameAssumption`; the inductive invariant is
`Inv == RequestInv /\ PortsTypeOK /\ ParserInv`, and `Scraped` besides for the last:

- `TextsParsedByBlocks`: for every text.  `ParserInv` says of the local
  variables what they mean for the lines read: `optionsChecked` that not all of
  them were options, `metrics` the metrics of the blocks that are closed,
  `current` what the open block has so far.  One lemma for each way a line is
  read (`OptionRead`, `LineRead`, `TextEnds`) shows that it stays so.
- `CollectorsCallBackOnce`: `InTurn` strengthens it with what the request waits for:
  while a query is open and not `timedout` the request stands at `link`, so
  that `done` calls back for no other.
- `LinksLabelledSoundly`: `LinksKnown` says that what vminfod has read, and
  what `link` has made of it, are about the instance the request began with for
  as long as the zone is that instance.  Instances only grow, so if it is that
  one at `_confirmSanity` it has been ever since.
- `OnlyMemcapAborts`: a collector without `kstatLabeler` reads at most one
  kstat of a zone (`ReadsOneZone`), and those with one read kstats with
  different labels, so that no assertion fails (`OnlyLimitsThrow`).
- `TypeCorrect`.
- `TritonAnswersAreServed`: the action property that answers which could be
  served alone do not disturb each other, for any number of ports, texts of any
  length and any order.  The blocks of the joined text are not those of its
  parts: metadata without values at the end of one answer and those at the
  start of the next make one block.  So the proof goes by lines and not by
  blocks.  In an accepted text without options the TYPE lines of a block come before its
  values (`TypesComeFirst`), and so a value is under the name on the last TYPE line before
  it (`KeyIsAbove`, `ValuesAreUnderNames`); and that line is the same in a part and in the whole
  (`UnderInside`), because every value of a part has one there.  `Scraped` says that
  the text that is parsed consists of the answers and nothing else.

The order of numbers is all that these proofs need where one expects an
induction: the first or last line with some property is had from `LeastNumber`
and `GreatestNumber`, which follow from the well-foundedness of strict inclusion
on finite sets (`FS_StrictSubsetOrderingWellFounded` of the library).

**Only model-checked:** the liveness properties `LeakedOnlyBehindStray`,
`EveryRequestAnswered`, `ChangeReachesList` and `AnsweredUnlessHeldUp`, which
are out of this prover's reach.  Every invariant and every action
property of the passing runs is a theorem.

## What is not modelled

The text of metrics, log records, histograms and the agent's own metrics; the
wording of errors.  `restify`, `vasync`, `kstat`, `vmadm` and `ntpd` appear as the outcomes this code
distinguishes.  Configuration, command-line tools and packaging have no
behaviour of their own (see `components` in `PROJECT.json`).  In particular the names and values of counters are left out (so a kstat key read
twice, such as `wlentime` in `zone_vfs.js:66`, does not show), and so are the fields of the
output of `zpool` and `zfs`, the prefix of plugin metrics and the
grouping of samples in `stringifyMetrics` (`collector.js:400-440`), where a key that
recurs after others gets no second HELP and TYPE.  `time` reads the clock and does nothing else.
Three simplifications narrow what the runs cover: a load of a plugin directory
reads it in one step, where the code reads one file after another; the owner
and tags of a zone do not change; and `ZoneReply` has one request at a time,
a cache without metrics and no earlier failures, which `Collector` has.

## Plan

Done, in this order because the cache is below everything and the
collector above everything: `TtlStore`, `Cache`, `CacheProofs`; `Collector`,
`CollectorProofs`; `PluginCollector`; `TritonMetadata`, `TritonProofs`;
`NtpGetter`, `NtpProofs`; the refinement of `TtlStore` with any clock and
`CacheOrderProofs`; `PromParser`, `KstatCommon`, `ZoneReply` and their proofs;
`PluginProofs`, and the proofs of what else the runs check but liveness.

Next:

1. `Agent`: the cache of `Collector` replaced by `Cache` itself, and its
   collectors by `ZoneReply`'s, to show that what `Collector` assumes of either is what
   they provide.
2. What `NeverSetBack` says of a request of `Collector`, for a request of `ZoneReply` and
   for a plugin's run.
3. The fields of the output of `zpool` and `zfs`, with what a short line does.
