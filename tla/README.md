# A TLA+ development of asic-rs

asic-rs discovers ASIC miners on a network, builds a handle for the firmware each
one runs, collects their data and controls them. This directory models the parts
of it where order, failure and concurrency decide whether it is right, checks
them with TLC and proves the most important results with TLAPS.

Paths in this file are relative to the repository (`src/factory.rs`,
`asic-rs-core/src/...`).

## The system

| Component | State it keeps | Operations | What is hard about it |
|---|---|---|---|
| Firmware registry (`src/factory.rs`, `asic-rs-firmwares/*/src/firmware.rs`) | none: an ordered list of thirteen entries | which commands to send, whether a reply identifies the firmware, `build_miner` | a reply can satisfy several entries; only their order decides |
| Identification, `get_miner` (`src/factory.rs`) | the running tasks, what was found, two timers | one call per address | replies in any order, timers racing replies, stock firmware superseded by a later reply, panics |
| Construction, `build_miner` | none between calls | model, version and hardware questions, then the choice of a backend | answers lost or out of date between two questions, no timeout on one HTTP client |
| Scan (`src/factory.rs`) | the queue of addresses, those in flight | `scan`, `scan_stream`, `scan_stream_with_ip` | concurrency limit, results in completion order, a caller that polls slowly, addresses that hang |
| Scan inputs (`src/factory.rs`) | addresses, limits | `with_subnet`, `with_octets`, `with_range`, `with_*_limit` | range arithmetic, stale derived concurrency |
| Python streams (`src/python/factory.rs`, `src/python/typing.rs`) | `StreamState` behind a mutex, a cancellation guard per call | `__anext__` | overlapping calls, cancellation from another thread |
| Python handle (`src/python/miner.rs`) | the miner behind an `RwLock` | awaitables, getters, `set_auth`, `change_password` | exclusion, a getter that blocks the event loop, a password change whose answer is lost |
| Token sessions (the `web.rs` of Proto, VNish, Braiins, Auradine) | the cached token | `send_command`, login | concurrent cold callers, expiry between read and use, resent commands |
| Collectors (`asic-rs-core/src/data/collector.rs`, `config/collector.rs`) | cache of answers | `collect` | partial failure, stale answers, merge of several locations |
| WhatsMiner RPC sessions, LuxMiner sessions | unlocked write API, session id | privileged commands | a command sent again after an error, nested token requests, a session that is opened or ends between question and command |
| Control operations of the backends (`asic-rs-firmwares/*/src/backends/*/mod.rs`) | none of their own: the settings are the device's | light, pools, power, modes, fans, pause and resume, restart, upgrade, reset | several commands per operation, an error between two of them, objects that are read, changed and written back whole, calls side by side |
| Telemetry of the backends (the same files) | none | `get_locations`, the parsers, the getters | a value put together from several answers, some lost, some of another moment; boards joined by number here and by place there |
| Listener (`src/listener.rs`) | two UDP sockets | two merged streams | one slow address holds up the announcements behind it |
| Model tables, pydantic bridge | none | conversions | nothing a state machine shows |

How they interact: a **scan** runs `scan_miner` for many addresses, each of which
calls **identification**, which uses the **registry** and ends in
**construction**. The result is a handle. A handle's `get_data` runs a
**collector**, which sends many commands at once through one API client and so
through one **token session**. Python reaches a scan through **streams** and a
handle through the **Python handle**; its futures are polled by Rust threads and
cancelled by the event loop's. A handle's control operations go through the same
clients to the same device as its reads, and the **listener** calls
identification for every packet it receives.

What makes each of them correct is stated next to the properties of its module
and summarised below; `PROJECT.json` lists the hazards line by line.

## Modules

| Module | Models | Kind |
|---|---|---|
| `Identification` | what `get_miner` promises, without tasks and timers | abstract specification |
| `Registry` | `default_firmware_registry` and its thirteen entries | data, shared by the next three |
| `Discovery` | `get_miner_inner` | detailed specification, refines `Identification` |
| `MCDiscovery` | `Discovery` over `Registry` with mixed replies | for TLC |
| `Construction` | `build_miner` of every entry, over `Registry` | detailed specification of the step `Discovery!Build` |
| `DiscoveryProofs` | | proofs about `Discovery` and `Construction` |
| `Scan` | `scan*` and `scan_miner`, with `get_miner` reduced to what `Discovery` shows of it | specification |
| `StreamLease` | the Python streams | specification |
| `ScanProofs` | | proofs about `Scan` and `StreamLease` |
| `TokenSession`, `MCTokenSession`, `TokenSessionProofs` | the token-caching web clients | specification, for TLC, proofs |
| `WhatsMinerSession`, `WhatsMinerProofs` | the RPC clients of the WhatsMiner backends V2 and V3 | specification, proofs |
| `Collector`, `MCCollector`, `CollectorProofs` | the collectors, over `JsonMerge` | specification, for TLC, proofs |
| `JsonMerge` | `merge_values` and the loop of `extract_field`, against a path-by-path definition | pure algorithm |
| `MinerHandle`, `MinerHandleProofs` | the Python handle and `change_password` | specification, proofs |
| `Listener` | `MinerListener` and its two streams | specification |
| `Tables`, `ControlSteps`, `TelemetryTables` | how tables are joined; their vocabulary: the requests of an operation, where a field is found | data |
| `WhatsMinerBackends`, `AntMinerBackends`, `BraiinsBackends`, `AxeBackends`, `AvalonBackends`, `ThirdPartyBackends`, `VendorBackends` | the `mod.rs` of the twenty-two backends | data |
| `Backends` | each backend put together as the `Miner` trait does | data |
| `Telemetry` | the getters and the collection of what they ask for | operators over the tables |
| `Control` | control operations, request by request, on one device | specification over the tables |
| `Operation` | `Control` and reads of `Telemetry` side by side | composed specification |
| `EpicSplit` | how `set_pools_config` of ePIC splits the hashrate by quotas | pure algorithm |
| `OperationProperties`, `MCOperation` | what the backends promise; the quotas of a run | properties, for TLC |
| `OperationProofs` | | proofs about `Operation` over any table that meets a condition |
| `BackendProofs` | | proofs that the tables of the backends meet the conditions |

Definitions whose comment says what they leave out or do wrong
(`FindStockAtOnce`, `EnterUnchecked`, ...) are not part of a specification. They
are plausible mistakes in the code: replacing the definition below them by one
must violate a property, and `PROJECT.json` says which.

### Discovery

`phase` is the place in `get_miner_inner`: "collecting" is the first `select!`
loop, "upgrading" the second one, "building" the await of `build_miner`.
`answer[c]` records how the task of a command ended, `found` is the local of
that name, and `now` and `foundAt` are the two timers. A task that completes is
consumed in the same poll, so completion and the loop's reaction are one action:
`Miss`, `FindStock`, `FindNonStock` in the first loop, `Ignore`, `Upgrade` in the
second. `GiveUp` and `CloseWindow` are the timers and the exhausted task list;
`tokio::select!` chooses at random among ready branches, hence no priority
between a reply and an elapsed timer, but time does not pass over an elapsed
timer. A failed, unparsable or panicking command is `NoReply`.

The constants are arbitrary: any registry, any replies, any timers.
`MCDiscovery` instantiates them with the real registry, and replies that several
entries accept.

### Construction

A version is reduced to the interval of versions of its backend. Every question
may go unanswered; SealMiner's have a fallback, WhatsMiner asks for the version
once more before the model, Proto asks for its hardware at the end. The device
may be flashed meanwhile (`Reflash`, at most `MaxReflashes` times). A panic on
the text of a version ends in the `catch_unwind` of `get_miner`.

### Scan

`started`, `stage`, `probed` and `got` are `buffer_unordered` and the futures in
it. Nothing runs between polls, so every action of an address requires the
caller to be polling, and every poll first fills the free slots (`Filled`).
`Stall` is a caller who keeps an item for so long that the identification timer
of an address in flight elapses. `Hung` addresses never return from
`build_miner`, the case `Discovery` leaves open. The addresses in `Supported`
are those that would be identified in time if polled; what a stream makes of
them is the question. `kind` says which of the three operations it is, and never
changes.

### StreamLease

`state` is the `StreamState` in the mutex. Each call has a Rust `task`, a Python
`fut` and a `guard` (`RustFutureCancellationGuard`). Every critical section of
the mutex is an action. Aborting a task takes effect when it is next polled and
never between the answer of the stream and `store`, which has no await.
Dropping an uncalled guard (a future whose registration failed) does what
`CancelCallback` does and is not modelled separately.

### TokenSession

One client, concurrent calls, a device that issues tokens and forgets them.
`web` says which client it is: its `ensuring` calls log in first, the `renewing`
ones among them also renew after a 401. Proto has only these; VNish has a log read
that only ensures and a `find_miner` that does neither; Braiins 25.07 and Auradine
renew, Braiins 26.04 and 21.09 only ensure. `singleFlight` is Proto's login under
the write lock. `Abandon` drops a call at
any await; the lock guard is dropped with it.

### WhatsMinerSession

`version` is the backend, `auth` and `secret` the password of its handle. Every
call of `send_command` has a place `pc`, a `round` (the command is sent again
once after unlocking) and `tries` (V2 asks for the salt by `send_command` too, so
that request is repeated by itself inside each round). `reasons` records why the
device refused. `AfterRefusal` is where V2 and V3 differ: V2 unlocks for every
refused command, reads included, V3 for writes only. The device is external: it
carries out a write only with the write API open, the right password and a token
it has not forgotten, and a request it answers with a bad status has not been
carried out. This last point is an assumption about the device. The result of the
unlocking is read and ignored, as in the code.

### Collector and JsonMerge

An answer is the state of the device when it answered, a number that grows. What
a location of a field finds in an answer (its JSON pointer, its tag) is the
parameter `Finds`, any function into JSON values or nothing; the locations, in
their order, are the parameter `Locations`. What `Extract` makes of what they find
is the code's: values are merged one after another into an empty object.

A JSON value is an object (a map of the keys, some absent), an array, a scalar or
null, and `Json[depth]` are those with at most `depth` objects inside each other.
`MergeTo[depth]` is `merge_values` on these, a recursive function of the depth, and
`MergeValues` its value at `MaxDepth`. The reference definition `Laid` does not
recurse: it follows the keys of a path through both values and says which of the
two decides what is found there. `FieldsSayTheLast` says the same of a returned
field: at every path below which no array is met, it says what the last location
says that speaks of that path.

### MinerHandle

`queue` is the waiting list of tokio's fair `RwLock`. Reading awaitables enter
together, `change_password` alone. A getter (`Get`, `Got`) waits on the thread
of the event loop, which does nothing else meanwhile, so every action of the
event loop requires `loop = "free"`. `verifies` chooses between the two policies
of the backends: take the answer's word (Braiins, VNish, Proto, ePIC, ...), or
try the new credentials and go back (AntMiner). `late` holds requests whose
caller has given up but which the device may still execute.

### Listener

A poll of the merged stream polls the two sockets' streams in turn, the second
only when the first has nothing to hand out, and begins with the other one next
time. A stream receives a packet, identifies its sender and receives no other
until it has yielded the result; an error of receiving is passed over; a socket
that cannot be bound yields one error and ends its own stream. `Hung` senders are
those for which `get_miner` does not return, the case `Discovery` leaves open.
Two packets of one socket are marked and watched; all others only fill queues.

### Control, Telemetry and Operation

The backends differ in their tables, not in their control, and so do these
modules. A backend is a record:

* `operations`: for every control operation it implements the sequence of its
  requests (`ControlSteps`). A request reads cells of the device, writes them,
  or writes some and writes others back as they were read (`Rewrite`). Each
  says where a refusal and a lost answer lead: to an error (`?`), to `Ok(false)`,
  or on to the next request (an ignored result). Steps without a request look at
  what was read: whether the device has the setting at all, whether there is
  anything left to do. The three loops of LuxMiner's `set_pools_config` are steps of
  their own kinds: a group is removed (`Erase`), added (`Add`) or filled (`Fill`), each
  by its own request with its own `?`.
* `located`: the pairs of field and command of `get_locations` and
  `get_configs_locations`.
* `readers` and `rows`: what the `parse_*` functions make of them: alternatives
  in the order they are tried and what is returned without any; for boards and
  fans, which part of a row comes from which source and by which key.

A cell is a setting as a whole: which pools, which target, which mode; the value
is that of the first call, of the second, of somebody else, or the old one. Only
the groups of pools of a LuxMiner are told in parts: some of the old groups are left,
one or two groups are there without pools, one of a call's groups is filled
(`Half`), groups of several callers stand beside each other. Two groups stand for any
number: the first request of a loop, one in the middle and the last are all there.
`touched` are the settings that were changed on the page of the miner.
`Control` runs a call of each of `Callers`, each at any point of the others, lets
up to `MaxTroubles` things go wrong at any request (refused, lost with or without
effect, future dropped, a setting changed on the page of the miner), and keeps what
every call has read.
`Operation` adds a read: of one field while a call is under way, its commands in
any order between the call's requests, or of many fields at once with one
answer lost, or all but one, and a board that is off or missing.

What is assumed of the devices, which are not in this repository: a request is
carried out as a whole or not at all, one that is refused does nothing, a device
put to sleep remembers the mode it had, and pools that are stored are in use once
it has been told to switch over. A LuxMiner fills the groups that are there, whosever
they are, and may say yes to the removal of a group that another call has removed.

VNish looks at the light before it sends anything, sends the state it wants, and
returns Ok(false) when the answer tells another (`ResultFlag`).

Where a backend does not keep what the others keep, the property says what it keeps
instead, no more than its code loses. These are results of the model, found by
checking the property without each of them:

* Ok(true) without certainty: restarts of WhatsMiner and LuxMiner and WhatsMiner's
  changes of mode, whose answer may be cut off; Avalon's resume, which takes silence
  for success; Proto's `set_fault_light(false)`, which sends nothing; LuxMiner's
  `set_pools_config` after a lost list of groups, or beside another call that adds and
  removes groups, fills groups that are not its own (`MayJoin`).
* A `set_pools_config` of several requests (`ManyStepPools`) that is refused, lost or
  dropped on the way leaves its work half done. What is promised, and checked with
  troubles and other calls about, is that the next one that succeeds clears it all
  away: the pools are its own and no others, and the miner mines on them
  (`PoolsAreWhole`). It does not when it is a LuxMiner that could not read the groups.
* Whole objects written back (`Rewriters`): AntMiner 2020, VNish and Marathon. A
  setting that somebody changed in between is put back, as it was read; nothing else
  is written, and nothing that nobody changed (`NothingElseIsWritten`).
* AntMiner's resume always asks for the normal mode; Marathon finds the one before
  in its history.
* The target reported may be one that was not in force: on WhatsMiner V3, which takes
  mode and limit from two commands, only when a mode came or went between the two
  answers; on Marathon, which reports the power target also in a mode that does not use
  it, only in a mode all the while (`ReadingIsOfOneMoment`). A WhatsMiner stays in its
  mode when its power limit is set (`ModeStays`).
* Getters that look at fields they do not ask for (`AlsoNeeds`, with the fields):
  `get_is_mining` of the axes and SealMiner (a finding, below), `get_messages` and
  `get_expected_hashrate` of the axes, the boards of VNish. Once those fields are
  collected too they agree with `get_data` (`FieldsStandAlone`).
* A lost answer changes a value instead of removing it (`Instead`, with what is then
  said): a miner counts as not mining, for WhatsMiner as mining; WhatsMiner V3 and
  Auradine report the other target; some hashrates are zero.
* Rows that may join two boards when one is off or missing (`MixesBoards`): WhatsMiner
  V3, both Avalons, LuxMiner, ePIC, Marathon, Auradine. As far as all boards before
  are there and on, theirs are right too (`AllThere`).

## Runs

All runs allow deadlock: the calls they model end, and nothing happens after.

| Run | Module, configuration | States | Question |
|---|---|---|---|
| `discovery` | `MCDiscovery` | 18 148 | is the right firmware chosen, in time, in every order of replies, and the promise implemented? |
| `construction` | `Construction` | 361 | is the backend one that the device had, whatever is lost? |
| `scan` | `Scan` | 24 292 | do the three operations show every address once, end only when complete, and spend one slot on a hung address? |
| `lease` | `StreamLease` | 17 765 | exclusive lease, no lost item, release after cancellation, no call waits for another |
| `session` | `MCTokenSession`, `TokenSession` | 112 715 | shared login, at most one execution, why a call may end unauthorized; every call ends |
| `whatsminer` | `WhatsMinerSession` | 59 498 | is a write carried out at most once, why may it be rejected, who opens the write API; every call ends |
| `collector` | `MCCollector`, `Collector` | 138 383 | freshness, a monotone cache that only complete collections change; the recursive merge is an overlay |
| `handle` | `MinerHandle` | 20 712 | does the handle keep up with the device's password, and does nobody starve? |
| `operation` | `MCOperation`, `Operation` | 368 859 | what do the answers of a control operation mean, what else is written, are the pools whole, does a reading agree with itself and with one moment of the device? |
| `listener` | `Listener` | 216 516 | are packets told in order and once, whatever happens at the other socket? |

The type invariants, and `NonStockWins`, `OnlyUpgrades` and `CancelCloses`, which
are steps on the way to deeper properties of the same modules, are in no run:
most of them are proved for every value of the constants (below).

Two runs show where the code disagrees with what is said of it; each is a finding
in `PROJECT.json`:

* `discovery_unbounded`: the identification timeout is documented as the maximum
  time spent identifying a miner, yet `build_miner` comes after it and may wait
  for ever on a client without timeout (AntMiner, SealMiner, ePIC).
* `is_mining_alone` (`IsMiningAlone.cfg`): `get_is_mining` of the axes (and, in the
  same way, of SealMiner) collects the field IsMining only, while the parser looks
  at the hashrate: a mining miner is reported as idle.

Met while modelling, and stated by the modules without a run of their own: a
stream reports a miner as none when its caller keeps an item longer than the
identification timeout (`FoundUnlessStalled` allows it, factory.rs:331); and
`connectivity_retries` is not a number of attempts: 0 and 1 make none, everything
else makes one round (`Attempts` in `Scan`, factory.rs:266 against :502).

### Bounds, and why they are enough

* `discovery`: all thirteen entries, all three commands of the registry, seventeen
  replies that tell the entries apart, identification timeout of 4 units and a
  window of 2, so that each timer can elapse first and replies fall on either
  side of both. The proofs remove every one of these bounds.
* `construction`: every entry, one flash: two questions suffice to see two
  versions. The proofs allow any number of flashes.
* `scan`: four addresses and limits of up to two, zero included: the window slides
  twice; two ports, so that one of them can fail; one hung address among the first
  two leaves one slot for all others; all three operations. The proofs remove the
  bounds for the safety properties.
* `lease`: three calls and two items: one call holds, one is busy or cancelled,
  one comes later; the stream ends with a call left.
* `session`: two Proto calls, three of VNish (one of each kind) and two expiries:
  a call that has renewed meets a second expiry while another one renews. Three
  Proto calls (334 325 states up to symmetry) show nothing more for the safety
  properties, which are proved for any number, and are too many for liveness.
* `whatsminer`: a read and a write, one closing of the write API and two expiries:
  one more of each than a single repetition can mend for the token, and enough to
  refuse both attempts for different reasons. The proofs remove the bounds.
* `collector`: three fields sharing commands in pairs, the device in three states:
  before, between and after two collections. The merge is checked on values two
  levels deep over two keys, of every JSON type: every pair of types meets at every
  level. The proofs remove all of these bounds, the depth included.
* `handle`: two readers, two password changes, one getter at a time, and both
  kinds of backend. The proofs allow any number.
* `operation`: all backends; two calls are what it takes to overtake one another,
  to pause and resume, and to set and set again; one trouble at every request, since
  the tables have no operation that repeats a request: enough to leave one
  `set_pools_config` half done before another. The proofs remove both bounds. A read of
  one field is made while a call is under way; of many fields on a device left alone,
  since only the answers that are lost matter there. Three boards, the middle one off
  or missing:
  that moves the place of the third. Where calls are made the miner is not stopped
  at first, so that it is a call that stops it; one that is stopped is read. The ePIC
  ratios are computed for two and three groups and a few quotas around the places where
  rounding turns, with a u32 of 256 values, so that the sum of the quotas wraps around
  as it does in a release build, to zero among others (a debug build panics there); the
  proof is for every quota and every width. There are no more than three groups: with
  more rounding may leave the last one further from its share than one hundredth.
* `listener`: two packets kept per socket, of which errors and unwatched packets
  take the places; two watched packets, so that one can overtake the other; one
  sender that hangs and one that answers.

### Fairness, and what justifies it

* Discovery: timers elapse and the loops are polled; nothing makes a host answer,
  and `Build` is fair only for entries whose requests all have timeouts.
* Construction: weak fairness of the step whose request has a timeout.
* Scan: a poll continues while something it holds can progress; probes have
  timeouts; a caller owes nothing, and the properties that need its polling say
  so (`[]<>(caller # "busy")`).
* StreamLease: the event loop runs its callbacks and the runtime its woken tasks;
  the stream itself may stay pending for ever.
* TokenSession: requests have timeouts (weak fairness); the tokio lock is fair, so
  a call that waits for it gets it (strong fairness of the steps that wait).
* WhatsMinerSession: connections, writes and reads have timeouts, so every call
  goes on; the device owes nothing but an answer or silence.
* Collector: none; only safety is stated of it.
* Listener: the runtime polls a stream that is awaited, the caller comes back, and a
  sender that is not hung is identified within the timeouts; packets are never owed.
* Operation: none; only safety is stated of it.
* MinerHandle: the lock is fair by its queue, so weak fairness suffices; the
  runtime's threads run while the event loop is blocked; no call is owed.

## Proofs

Every theorem is of the form `Spec => ...` for all values of the constants that
satisfy the named assumptions of the module. Each rests on an invariant that TLC
has also checked.

* **`DiscoveryProofs`** (discovery), from `RegistryAssumption`, `ReplyAssumption` and
  `TimeAssumption`. The safety properties are not inductive: whether a stock
  firmware was rightly kept depends on what earlier replies showed.
  The invariant adds that while collecting no consumed reply has identified
  anything, that while upgrading all that were consumed identified stock firmwares
  only, and that the window was opened no later than now and before the timeout.
  `NoHiddenFirmware` needs the lemma that the
  first acceptor in registry order exists and is unique (a least natural number).
  `PromiseKept` maps each step to one of `Identification` or a stutter:
  `FindStock` and a reply that is ignored learn, `FindNonStock`, `Upgrade` and
  `CloseWindow` choose, `Build` delivers.
  Two theorems say what the timers are good for, under an assumption on the replies
  only: a host one of whose commands identifies it before the identification timeout
  is never given up (`PromptHostIsFound`), which is what `Scan!Identified` takes for
  granted of a supported address that is polled; and a custom firmware that tells itself within the
  length of the window is never taken for the stock one it is built on, however early
  the stock marks arrive (`PromptCustomIsKnown`, the purpose stated at factory.rs:350).
* **`ScanProofs`** (streams), from `LeaseAssumption`. The invariant ties the four
  views of a call together: who is holding, which item belongs to whom, and that
  a state closed early has a cancelled call or a panic behind it.
* **`CollectorProofs`**, from the assumptions on the locations and what they find, on
  the depth of values and on the samples. The invariant says that answers are at least
  as recent as the collection that asked for them, the cache no more recent than the
  device, and, once a collection has ended, that the cache has its answers and the
  results are extracted from that cache. `CacheIsMonotone` is read off the actions,
  dropped collections included.
  * `MergeIsAnOverlay`, for values of any depth and paths of any length. The induction
    theorems of the library are out of the prover's reach, so the inductions are made
    by hand: `Counting` takes a set of numbers in place of a predicate and rests on the
    least number outside it, and that a recursive function has the value its equation
    says follows from its beginnings (`Unrolled`) existing and agreeing. With these,
    `JsonLevels` and `MergeLevels` unfold the
    values and the merge by one level, `MergeStep` says how the walks along a path
    through `a`, `b` and the merged value are related after a key if they were before
    it, and `StandAlong` carries this to the end of the path.
  * `FieldsAreOverlaid` is that every returned field says at a path what the last of
    its locations says that speaks of it: `LastLocationDecides` is the same argument
    over the locations, with the overlay as its step. The merge yields a value again
    (`MergeTyped`), which the type invariant needs too.
* **`WhatsMinerProofs`**, from `CallAssumption`. `ExecutedOnce` becomes inductive
  when it says that the step that carries out a write is the last of its call.
  `RejectedWhy` counts: a second attempt comes after an unlocking, so a closed API
  means another lock (`UnlockedSince`); a token is issued anew for every attempt,
  so two stale ones mean two expiries (`StaleSince`); and a call has met a refusal
  before it repeats anything (`RefusedBefore`).
* **`DiscoveryProofs`** (construction), from the registry as it is. What is needed beside
  `BackendFitsDevice` is that an interval that was learnt was one of the device's
  (`Learning`), and that without a flash the gate and the version question of
  WhatsMiner speak of the same interval (`Steady`); that this firmware does ask for
  its version is read off the registry.
* **`ScanProofs`** (scan), from `ScanAssumption`. `ItemsOnce` becomes inductive when the
  order in which addresses are taken is added (`TakenInOrder`), that only finished
  addresses have a result, and that a scan that ended has finished them all;
  `FoundUnlessStalled` needs that a supported address never runs out of ports.
* **`TokenSessionProofs`**, from `SessionAssumption`. Six invariants carry it: the
  lock belongs to who logs in (`LockOK`); before the first expiry nothing is ever
  cleared (`NothingCleared`); until something goes wrong the first login is the only
  one (`FirstLoginOnly`); and what the cache gets after a renewal was issued after
  the first expiry, because with the lock free nobody can still be storing an
  older token (`SinceRenewal`). Where the calls log in side by side (VNish, Braiins,
  Auradine) an old token may be stored over a new one, but not by the call that has
  renewed its own: tokens of different logins differ (`TokensDiffer`), and the one it
  has got since is valid (`OwnIsNew`). `UnauthorizedWhy` follows from these.
* **`MinerHandleProofs`**, from `OpAssumption`. `Exclusion` of the writer gives that
  a change under way knows what it found and what it has set (`Underway`); from these
  `KnowsThePassword` and the two action properties. The queue plays no part in
  safety and is left out of the invariant.
* **`OperationProofs`**, from `CallerAssumption`, for any set of backends that meets a
  condition, any number of callers, any number of troubles, and no bound on how the
  calls overlap. The conditions speak of the tables only, the sequences of requests and
  the lists of alternatives, and never of a state; each is what the code of a backend
  has to look like for the property to hold:
  * what is written back was read before, for sure, and not written since (`Fresh`),
    only `Rewriters` write anything back, and what is written otherwise belongs to the
    operation (`WritesItsOwn`);
  * Ok(true) comes behind a write whose failure ends the call, or what was looked for
    was found (`SucceedsWhenDone`); what is verified was written before and read after
    (`VerifiesItsOwn`);
  * pools are written as one, or stored and then switched over, for sure, or removed,
    added and filled group by group (`PoolsInOrder`);
  * a parser looks at what its getter collects and what `AlsoNeeds` names
    (`KeepsToItsFields`), and makes of some of its sources what it makes of all, or what
    `Instead` names (`OnlyLoses`); the limit is reported only where the mode was looked
    at, in the same answer or, on WhatsMiner V3, in another, or where no operation
    touches the mode (`TellsTheTarget`); the parts of a board are found in one way, or in
    ways that agree as long as all boards are there (`FindsBoards`);
  * a resume that writes a mode has looked whether the device sleeps and has read which
    mode it had (`Looked`, `LooksBack`, `ReturnsToMode`);
  * a call that tunes writes what it sets before it can say Ok(true), writes nothing of
    the tuning back and leaves no mode that would override the limit (`TunesAsFit`); the
    parser of the target has an alternative that is always usable, and looks at a mode
    before the limit where the mode can be set (`FindsTarget`, together `ReadsItBack`).

  None of the properties is inductive, since they speak of calls that are over and
  of what was true in between. The invariants that carry them: a call that comes
  after others found them over (`AfterOver`), from which follows that two calls that
  overlap go on to overlap; while nobody overlaps it, what a call has read for sure is
  what the device has, but for what was touched on its page (`ReadsHold`), and what it
  has written is there (`WrittenHolds`); a call past a write that had to succeed has done
  it (`SureDone`, `TrueIsDone`). For the pools: which values they can have at all
  (`PoolsKnown`, `NoneSet`), and how far the last call on them has come
  (`PoolCallsHold`): past its store they are its own, past its switch they are in use
  (`StoredSoFar`); of the groups the old ones go one by one until none is left, then its
  own come one by one and are filled one by one (`GroupsSoFar`). Every target a read has
  seen was recorded, and where there are two answers, whether a mode came or went
  between them (`TargetTold`); without trouble what was asked for is what the device has
  (`LooksHold`), after a pause and before the resume the device remembers the mode,
  and a resume past its look has found it asleep (`RemembersWhat`, `FoundAsleep`,
  together `PauseInvariant`); what a call that tunes alone has written is there and all
  else of the tuning is as it was (`TunedSo`), a call says Ok(true) only at a step that
  can (`EndsTrue`), and what is read after it is the device as it is (`ReadAfter`,
  together `TuneInvariant`).

  `EpicSplitsByQuota`, from `QuotaAssumption`: for any two or three quotas the ratios add
  up to a hundred, also when the sum of the quotas wraps around, and if it does not each
  is within one hundredth of its share. Rounding errors are at
  most a half each, so the last group, which takes the rest, is off by at most two halves;
  and the first two never take more than there is, because the third has a share too
  (`SplitIsFair`).
* **`BackendProofs`**: the tables of all twenty-two backends meet these conditions
  (`TablesAreSound`, `ReadersAreSound`, `RowsAreSound`, `PausesAreSound`,
  `TargetsAreSound`). The tables are told in parts that are joined with `++`; every
  condition is proved for the parts and shown to survive the joining. The corollaries
  put both modules together: for any of the backends the properties hold, with the
  exceptions they state, with any number of callers and troubles.

Only model-checked: liveness everywhere (fairness and ENABLED are out of the
prover's reach), `Listener` among it, whose one property joins order and progress.

## Not modelled

* Text formats, units, framing and encryption of the protocols, message texts and
  the keys inside an answer; model tables; the pydantic bridge: conversions without
  control.
* The inputs of a scan (subnets, octets, ranges) and the adaptive limit: computed
  once, before a scan begins; `Scan` takes any limit, zero included.
* LuxMiner's sessions: every privileged command asks the device for its session, or
  logs on, and keeps nothing of it; one that is missing or dead makes the command a
  refused request, which `Control` has everywhere.
* `read_logs`, which changes nothing, and the `get_pools_config` of SealMiner, Braiins,
  Avalon and WhatsMiner V3, which is not a collection but a request of its own.
* Operating system limits (`maybe_adjust_nofile_limit`). Feature flags: all firmwares
  are enabled, as by default.

## What was done in which order, and what is left

1. Identification, registry, construction, with the abstract promise.
2. Scan; Python streams; token sessions; collectors; Python handle.
3. WhatsMiner sessions.
4. The tables of all backends, `Control`, `Telemetry` and their composition
   `Operation`; the listener.
5. Proofs of the safety of every specification, the tables of the backends included.
6. Proofs about the data: the merge of values of any depth, the split of ePIC, and what
   `Scan` takes for granted of `Discovery`.

Left, in this order: a composition of `Scan` with `Discovery`, timers included, in place
of the summary that `PromptHostIsFound` backs; the sessions of LuxMiner; the range
arithmetic of the scan inputs against a set-valued definition.
