# Verification of nadi-agent

`nadi-agent` is a monitoring agent: every interval it runs a set of collectors,
builds a heartbeat (one JSON payload) and POSTs it to a server. A heartbeat that
cannot be sent is appended to a disk-backed buffer and sent later. These TLA+
modules model the parts of it where order, failure and time matter; TLC checks
them on small instances, and TLAPS proves all the safety properties for every value of
the constants, among them that the buffer, the agent and the registry implement
abstract specifications of what they promise.

## The system

| component | source | state | operations | what makes it hard |
|---|---|---|---|---|
| agent loop | `internal/agent/agent.go`, `cmd/nadi-agent/main.go` | tick timer, retrier (backoff, one-shot timer) | the three cases of a `select`: shutdown, tick, retry; `flushBuffer` | timers and a signal that become ready during long calls; crash between POST, Pop and Persist |
| buffer | `internal/buffer/buffer.go` | entries in memory, running size, a JSONL file | New/load, Append, Peek, Pop, Persist, dropping to fit | every system call can fail or be the last one; two copies of the queue |
| backoff | `internal/backoff/backoff.go` | min, max, current | New, Next, Reset | doubling in a fixed width |
| registry | `internal/collector/registry.go` | the collectors; per run: context, goroutine, channel | NewRegistry, Collect, runCollector | goroutines abandoned at a deadline, shutdown in the middle of a run |
| sender | `internal/sender/sender.go` | none | Build, SendRaw | a lost reply, truncation |
| network collector | `internal/collector/network.go` | the last counters, their time, the last public address | Collect, rate, publicIPChanged | no lock, and a goroutine that was given up may still be running |
| coturn collector | `internal/collector/turn.go`, `turn_stats.go` | none | Collect, readCoturnStats | a reply parsed while it arrives; one deadline within another |
| energy collector | `internal/collector/energy*.go` | a baseline, under a lock | Collect | the reading is taken outside the lock |
| disk collector | `internal/collector/disk.go` | none | Collect, sanitize | volumes that come and go while it asks for them; names made of paths |
| battery collector | `internal/collector/battery*.go` | none | Collect | several readings of one thing that changes; words that contain one another |
| other sensors | `internal/collector/*.go` | none | Collect | text of other programs, with parts missing |
| configuration | `internal/config/config.go` | none | Load, defaults, Validate | ranges |
| mock server | `cmd/mockserver/main.go` | list of heartbeats received | handleHeartbeat | stands for the server; a handler outlives its client's patience |
| deployment | `deploy/` | none | restart on every exit | |

How they interact: `main` opens the buffer (a failure ends the process, which the
service manager starts again) and enters `agent.Run`. On a tick the loop calls
the registry, builds a heartbeat, flushes the buffer oldest first (`Peek`,
`SendRaw`, `Pop` for each entry, then `Persist`), sends the heartbeat, and
appends it if that fails; then it arms or resets the retrier and sets the tick
timer again. A retry flushes only. Everything is one goroutine except the
collectors' own and the signal, so the mutex of the buffer is never contended,
and what can go wrong lies between calls, not in them.

What each component must get right:

- loop: no heartbeat lost unaccounted; no second delivery without a cause;
  collection never starved by retries; a backlog drains; shutdown ends the process;
- buffer: size exact, cap kept, order kept, file never behind what is owed;
- backoff: within its limits, never negative;
- registry: a cycle always ends, only its own results count, each failure once;
- sender: the heartbeat has the cycle's valid metrics, in order, up to the cap;
- network collector: no byte counted twice, no change of address missed;
- energy collector: no energy counted twice, whenever the counter wraps around;
- disk and battery collectors: what is reported was so at some moment of the call,
  and what was so throughout is reported;
- other sensors: a number is told of the thing its name says, in its unit, or not at all;
- server: what SendRaw reports as sent is recorded, once per request;
- coturn collector: the numbers of the whole reply, a reader that ends, and
  best-effort parts that do not cost the rest;
- configuration: whatever is accepted lets the other parts keep their assumptions.

`PROJECT.json` lists the hazards line by line, with the properties that would
catch each one.

## Modules

| module | models |
|---|---|
| `Backoff` | the backoff as operators on a record, durations wrapping around like Go's |
| `BackoffUse` | one generator under any sequence of Next and Reset |
| `Buffer` | the disk-backed queue, one action per system call |
| `DurableQueue`, `BufferRefinement` | what the buffer promises, as an abstract queue; the mapping under which `Buffer` implements it |
| `BufferProps`, `MCBuffer`, `BufferProofs` | its properties, its instance for TLC, its proofs, the refinement's among them |
| `Agent` | the loop and the retrier, extending `Buffer` and `Backoff`, with the server and the process's life |
| `AtLeastOnce` | what the agent promises of the heartbeats it builds, as an abstract service; the mapping is in `AgentProps` |
| `AgentProps`, `MCAgent`, `AgentProofs`, `DeliveryProofs` | its properties and instances; its proofs, on top of the buffer's: contract, types and loss, then what is delivered and how often |
| `Registry`, `RegistryProps` | the making of the registry and its collection cycles, with their goroutines |
| `Collection` | what the registry promises of its cycles, as an abstract service; the mapping is in `RegistryProps` |
| `Heartbeat`, `HeartbeatProps` | what Collect returns of a cycle and Build makes of it, extending `Registry`; `MCRegistry` instantiates both, `RegistryProofs` proves about both |
| `StatefulCollector` | what the two collectors below share, extending `Registry`: a call whose steps interleave with the registry's and with other calls' |
| `Network`, `NetworkProps`, `MCNetworkSlow` | the network collector: its Collect step by step |
| `Energy`, `EnergyProps` | the energy collector on Linux, likewise; `MCNetwork` instantiates both, `MeterProofs` proves about both |
| `Disk`, `DiskProps` | the disk collector, among volumes that come and go |
| `Battery`, `BatteryProps` | the battery collector of Linux and of macOS, with a battery that changes |
| `Readings`, `ReadingsProps` | the other sensors, each as an operator from what it is told to what it returns |
| `Server`, `ServerProps` | SendRaw, request by request, and the mock server's handlers and records |
| `CoturnParse`, `Turn`, `TurnProps`, `MCTurn`, `TurnProofs` | the parser of coturn's statistics as operators on token sequences; one run of the collector around it; proofs about both |
| `Config` | Load, defaults, validation, conversion; checked on small files in `MCParts` |
| `MCParts` | instantiates `BackoffUse`, `Disk`, `Battery`, `Readings` and `Server`, one of them in each behaviour |
| `PartsProofs` | proofs about each of those, on its own specification, about `Config`, and about all of them side by side |
| `Induction` | lemmas of all the proofs: least and greatest numbers, induction as a statement about a set of numbers, tables made step by step, folds, flattening, finite sums |

Operators whose comment begins with "Mutant" are deliberately wrong versions of
the definition that follows them. No specification uses them; each property of a
passing run has one that breaks it (`PROJECT.json`, "mutants").

### Buffer

`entries` and `size` are the fields of the Go struct; `lines` and `tail` are the
file: its complete lines and what follows the last newline. `bpc` says which call
is in progress and how far it is: `load`, `trim` (dropOldestToFit), `rewrite`
(writeAll), `append` (before the write), `close` (after it), `idle`, and `down`
when there is no process. Content is abstracted to fragments: the first n bytes
of heartbeat h's payload. A write that stops early leaves a shorter fragment and
no newline, and the next write continues that line, which is all that matters of
torn lines. `Faults` names the calls that may fail: `load`, `open`, `short` (a
write that stores part of the line), `close`, `rewrite` (anything in writeAll
before the rename, which is atomic) and `crash` (the process dies; the file
stays). A power loss is not modelled.

`owed` and `evicted` are history: the heartbeats whose Append has added them to
the queue and that were neither popped nor dropped, and those dropped to fit;
and so is `torn`: a write has stopped in the middle of a line. What the buffer
promises holds until then (`Durable`, `Recovered`); `BytesKept` holds for ever.

`AppendOversized` is the silent return for a payload that can never fit; on its
own it changes nothing, so `BufferNext` leaves it out and only `Agent` uses it.

`DurableQueue` is the buffer without its file, its calls and its accounting: a
process that is down, busy or ready, a queue, what is stored, an item stored and
not yet queued, and whether the storage is broken. Its steps say what may be
relied on: an item is stored before it is queued, the oldest go first and only as
many as must, the storage holds at every moment what a restart should find, and
the process may end between any two of them. `BufferRefinement` maps a buffer
whose `bpc` is `load` or `down` to a process that is down, since no caller has it
yet; one whose `bpc` is `trim` to the queue that trimming will leave
(`NewestWithinCap`), since it is part of the step that made the queue too long;
`stored` to the lines a load would find; and `broken` to `torn`.

### Agent

`pc` is the point the loop has reached: `select`, then `collect`, `flush`, `pop`,
`flushed`, `persist`, `send`, `append`, `arm` or `drain`; `boot` while the buffer
is opened and `off` when there is no process. `branch` is the case being
executed, since both call `flushBuffer`. A timer is the number of time units
until it fires: 0 is a ready channel, `Off` a stopped or nil timer. Time passes
in `Elapse`, when nothing in the select is ready, and during a collection or a
POST, which take a duration from `CallTimes`; with a cancelled context they
return at once. Heartbeats 1 .. MaxHeartbeat - 1 are told apart; the last number
stands for all later ones, so the loop runs for ever in a finite state space.

The server's `up` flips at any time. A POST is recorded and answered, refused, or
recorded with the reply lost (at most `MaxLost` times). The server accepts a
text that starts with a whole payload, like the mock server's JSON decoder,
which does not look behind the first value.

`AtLeastOnce` is the agent without its file, its queue, its timers and its calls: the
heartbeats that wait to be delivered, how often each has been, and a count of mishaps.
A heartbeat stops waiting because the server has it, because it is the oldest and there
is no room for it and all that came after it, or because it is the newest and a mishap
takes it; nothing else is delivered than the oldest and the newest. `AgentProps` maps
to `waiting` what the buffer owes with what is in the loop's hands (`ToDeliver`), to
`mishaps` the lost replies, crashes and failures, and the graceful shutdowns after a failure
(`MishapCount`), to `RoomFor` the cap (`Together`), and to `broken` `torn`. It says
what may happen to a heartbeat, not that it must: that is `Drains`.

### Registry

A run <<c, k>> is collector c's call of cycle k: it has a context, a goroutine and
a channel of capacity one of its own, as in `runCollector`. Its Collect method
may return anything at any time, or never; `context.Canceled` too, which the registry
passes over whether or not a context was cancelled (registry.go:97, as registry_test.go:84-95
expects), while `context.DeadlineExceeded` is to it an error like any other. `failed` is the set of collectors that
`errorsCount` counts, `all` the runs whose metrics the cycle has gathered.

`NewRegistry` comes first: `enabled` is any of the sets in `Configs`, and one with a
name that no factory has leaves `pc` at `refused`, which ends the process.

`Collection` is the registry without contexts, channels and goroutines: in each cycle the
collectors asked, what each has answered, whose time is up, and what has been decided
of each. The next is asked when those before it have been decided of, a decision is
made once and for good, and on grounds of this cycle: an answer, the time, the shutdown. Answers
may come after the decision, and change nothing. `RegistryProps` maps to these the
runs of the current cycle only, so every step of a goroutine from an earlier one has to be a
stutter.

`Heartbeat` adds no variables: what Collect returns (`CycleMetrics`) and the
heartbeat (`Built`) are functions of `all` and `failed`. A metric is the number it
has among its collector's and whether its name is valid. `HeartbeatProps` says
what must be in the heartbeat from the other side, the goroutines' results.

### StatefulCollector, Network and Energy

`StatefulCollector` keeps all of `Registry`'s variables and actions and replaces
"Collect returns anything at any time" by the steps of a method: a run's `at` is the
point its goroutine has reached. A step ends at each read of a device or of the clock,
at each lock and at each wait, so two calls interleave there. Fields that no lock
protects are read in one step where the code reads them in a row, and so they are
written (network.go:53-54, 57-58, 110-113): how two calls interleave within such a row is
left out, and no property depends on it.
`overlapped` says whether two Collect calls ever ran at once.

In `Network`, `prevBytes`, `prevTime` and `lastPublicIP` are the collector's fields; one
counter stands for the two that are treated alike. A rate is kept as a pair of
bytes and time, so a division by zero would show in the type invariant
(`NetworkTypeOK`, a part of `MetersTypeOK`), and the subtraction is modulo `Word`. `traffic` is what was
really carried. In `Energy` the reading and the time are taken before the lock, and
everything after it is one step, as the code's deferred Unlock makes it. The
power is kept as the energy it is computed from; `consumed` is what the package has
consumed, of which the counter shows the remainder by `CounterRange`.

### Disk

A mount point is the sequence of its parts and a part a sequence of characters, because
names are what `sanitize` makes of them. Volumes are mounted and unmounted, and become
unreadable, at any moment of a call. A volume is known by its mount point;
`VolumeAt` is what the system answers when a path is no longer a mount point: the
volume that the path is then a directory of. `steady` is history: the volumes that were
there and readable ever since Collect was called.

### Battery

`step` is the file or command that comes next; the battery changes between any two.
`Batteries` are the states that a kernel reports. Linux names the state; pmset's
text is the set of those words in it that the code looks for (`Words`), so that one
word's being part of another is kept. `during` is history: what the battery was
since Collect was called.

### Readings

These sensors run a command, or ask a library, and parse what comes back; nothing
that they depend on changes during the call, so a call is one step. A source is a
record of what the parser looks for: for the temperatures of Linux, a sequence of
lines, each of the CPU or not, with the temperatures on it, a reading or a limit.
`ran` is FALSE for a missing command, a bad exit status and a kill at the deadline,
which exec.go reports alike. A disk that fails its check may come with either: its text
is parsed when smartctl's exit status is 0, and dropped when it is not. Of what a
command prints only this is assumed: sensors prints a reading before its limits.

### Server

Requests are numbered. SendRaw sends one when the one before has returned; it arrives or
not. Handlers are goroutines: one may run long after SendRaw has given the
request up, so `received` need not be in order, and a retry is a request of its
own. `Agent` has the same exchange as one step; here it is taken apart. `left` is the timer
that net/http starts with a request for a client with a timeout, and that `Wait` counts
down; a request ends with its reply, when the timer has run down (`GiveUp`), or with its
connection or context at any moment (`Fail`).

### Turn

One run of the collector, from runCollector's call to its return and beyond:
`elapsed` is the time since the call, `deadline` the end of the wait the method is
in, `outcome` what runCollector has returned. Computing takes no time. coturn's
answer is a sequence of tokens (the two words looked for, digits, the decimal
point, the end of a line, anything else); `arrived` of them have come, `scanned`
of them have been yielded as whole lines. coturn may write on, stay silent or die
at any token. The scanner's limit of 1 MiB for a line is left out.
`CoturnParse!FirstNumber` and `NumberWith` say in set terms what the two loops of
turn_stats.go compute: the first number of a line, and that of the first line
with the word.

### Config

A file is a record of what the program asks of each field; `NoConfig` stands both
for a file that cannot be read or parsed and for the error that `Load` returns.
`IntervalOf`, `JitterOf` and `MaxBytesOf` convert with the width of the type.

## What TLC checks

| run | question | instance |
|---|---|---|
| `parts` | types; backoff: closed form | every pair of limits up to 31 with a largest duration of 63; 8 calls, more than it takes to reach any cap |
| | disk: every volume told, under a name of its own, with its own usage | 9 mount points, among them "/", nested ones, one that only begins like an excluded one, and two that share a name; at most two besides "/" at a time |
| | battery: power neither invented nor denied | both systems, every state of the battery, at most two changes during a call |
| | readings: the right number, in its unit, or none | every source of up to two lines or rows of a small alphabet |
| | server: what is reported as sent is recorded; SendRaw returns | 4 requests of any of 5 kinds, each given up after 2 units of time |
| `buffer` | types, exact size, cap, durability, recovery, order; what is left after a torn write; it implements `DurableQueue` | 4 heartbeats, one longer; a cap of 9 holds two or three; every fault, any number of times |
| `agent` | types, no loss, file equals queue at select, duplicates have a cause, nothing is appended that is there already; it implements `AtLeastOnce` | 4 heartbeats (three tracked, one of them too long ever to fit, and the later ones); a cap that holds two; one each of a lost reply, failing operation (a torn write included), crash, shutdown; calls of length 1 |
| `agent_live` | collection goes on, the backlog drains, shutdown ends | one tracked heartbeat, jitter, calls of length 0 or 2 |
| `registry` | only fresh results, the heartbeat tells the cycle, a cycle ends, goroutines end; it implements `Collection`, failures counted once included | 2 collectors, a configuration with both, with none and with a misspelt name, 2 cycles, any outcome at any time or none; five valid metrics against a cap of 4, and one invalid name |
| `network` | no byte and no energy counted twice, a change of address reported | 3 cycles, 3 time units, given-up runs; 2 bytes, interface restarts, 2 addresses, any outcome of the check; 3 units of energy, a counter that wraps around at 3 |
| `turn` | numbers of the whole reply, at worst a cut last line, the reader ends | 5 replies of up to 17 tokens, every point at which coturn stops or dies; a window of 1 and timeouts of 10, as 200 ms to 2 s |

`DelaysInRange` and `FailuresCounted` are proved and in no run of their own: `ClosedForm` gives
the very delay to come, and `ImplementsCollection` each decision with its grounds.

Bounds and why they are enough. The buffer's behaviour depends on an entry only
through its length and its place, so a cap that holds two or three entries of two
lengths has every case: nothing fits, one goes, several go, the newest fits exactly.
While compacting keeps failing the file grows without limit; `MCBuffer` stops its
client at `MaxFragments` (`MCNext`), which is more than the cap holds, so the file
can be over the cap when it is read; once a write is torn, `MaxTorn` leaves room for
a line made of two or three payloads, or of two and another line. In `Agent` one
failure of each kind, at any point, combined with a crash, a restart and outages
without limit, reaches every pair of neighbouring mishaps; the liveness run uses the
same budget (with clean faults: torn lines do block, see `agent_blocked`) because
what is to be shown is that the system recovers when mishaps end. `Interval` 2 and
`MinDelay` 1 let the backoff grow to its cap; a call of length 2 is longer than
either retry delay, so a timer can become ready during a call. Two cycles show
whatever a late goroutine can do to the cycle after its own. In `Network` three
cycles give two rates, which can then count the same byte twice, and two changes of
address; nothing but the wait for the check concerns both the rates and the address,
so `MCNext` follows either of them in a behaviour, the rates until two calls
overlap; the energy likewise. In `parts` nothing is shared, so a behaviour is that of
one part, the others standing still: the run checks each by itself and costs the
sum of them, not the product. Two volumes besides "/" are a volume and the one it is
mounted in, or two of the same name; two changes of the battery are one between
each two of the three readings. The replies of `MCTurn` have the two values in either order, repeated, on
one line, without a number, with a malformed number, and missing; each ends in
coturn's prompt, which no newline follows.

Fairness. `FairSpec` of `Agent` assumes only weak fairness of `Process`: a process
that can take a step takes one, and the service manager (Restart=always) starts it
again. It is justified because the loop blocks in nothing but its select, a
POST (the HTTP client has a timeout) and a collection (which `CycleCompletes`
shows to end). The server, signals, crashes and failures have no fairness. That
the two timers share one select needs none either: after a case has run its
timer is at least one unit away, so the other's turn comes. `FairSpec` of
`Registry` assumes that the loop runs, that deadlines pass and that a goroutine
that can send does, and nothing of collectors. `TurnFairSpec` assumes that the
method and runCollector take the steps they can (they wait for nothing but what
the model shows) and that time passes while they wait; nothing of coturn. `Server` assumes
that time passes while SendRaw waits and that a timer that has run down fires, and nothing
of the server or the connection: with a client that has no timeout SendRaw may wait for ever,
which is the mutant of `SendRawReturnsAlways`.

`CHECK_DEADLOCK FALSE` is set for `MCParts`, `Registry`, `Network` with `Energy`, and
`Turn` only, where the bounded number of calls, requests or cycles, or the one run,
really ends.

### Where the code differs from what it says

Five runs check a sentence of the source and find a counterexample.

- `buffer_glued` (buffer.go:13-14, "unsent heartbeats survive a restart"): after a
  write that stored part of a line, the next Append succeeds on the same line,
  and no restart recovers that heartbeat. `BytesKept` (run `buffer`) shows what is
  left: its bytes are in the file, framed wrongly.
- `agent_blocked` (agent.go:20-21, "a downed server costs no data"): such a line,
  once loaded, is refused by the server for ever, and nothing behind it is sent.
- `agent_retry` (agent.go:20-21, "retried on an exponential-backoff timer"): when the
  flush fails but the current heartbeat is then sent, the retrier is reset and
  what is buffered waits for the next tick.
- `network_slow` (network.go:60-61, "a slow response simply omits the metric rather than
  failing the collector"): the HTTP client's timeout is 2 s (network.go:38) and so
  is the deadline of the whole collector (registry.go:17), which begins first; a
  check without an answer makes the registry give the run up, rates and all.
- `turn_silent` (turn.go:58-59, "Best-effort: if the CLI is unreachable or the output
  is unrecognized, omit"): likewise the read deadline of 2 s (turn_stats.go:31) begins
  after the CPU window, so a coturn that accepts and does not answer costs
  process_up, CPU and memory too.

Others were met while modelling, and no run asks about them: a line of two
whole payloads, which a torn write and the next Append make, is accepted by a
server that decodes the first value only, and the second heartbeat is popped
unrecorded, which is why `NoLoss` says nothing once a write is torn; a full heartbeat
loses the count of failures, which is appended last (registry.go:110, sender.go:108);
and a collector given up at its deadline may still be in Collect when the next
cycle calls it (registry.go:83-86), which is why `NoByteCountedTwice` excludes
overlapping calls of the network collector, while `ChangeReported` does not; the same
holds for `EnergyCountedOnce`, the energy's lock notwithstanding. A plugged-in battery
that is "not charging" is reported as charging on macOS and as unplugged on Linux
(`PowerNotInvented`, `PowerNotDenied`); and mount points that differ in a character such as
"/" and "_" share a name (`PlainNamesDistinct`). These properties, parts of
`BatteryTold` and `VolumesTold`, state what does hold.

Two more are in the models and in no property. A temperature below zero loses its sign
(temperature_linux.go:25); `TemperatureTold` is about the others. And a disk
that fails its check is told with a 0 when smartctl exits with 0 (`FailedDiskTold`, as
disk_smart_test.go:55-63 expects of its text), but not at all when the exit status is any
other (disk_smart.go:50-53), and smartctl sets a bit of it for a failing disk.

## What is proved

For every value of the constants that satisfies the named assumptions. Most of these say
only of what kind a constant is; those that say more say it of the code's surroundings:

| assumption | what it says beyond the types |
|---|---|
| `LimitsAssumption`, `AgentAssumption` | the backoff's limits are in the lower half of the durations, which `AcceptedIsUsable` shows of every configuration accepted |
| `RegistryAssumption`, `HeartbeatAssumption` | there are finitely many factories, and none of them is named "agent" (the calls of `Register`), as which the registry counts its failures (registry.go:110) |
| `DiskAssumption` | "/" is a mount point and not virtual; lower-casing gives a character a name may have itself |
| `IdleAssumption`, of `PartsTypesCorrect` only | the values that the parts not in use have in a behaviour of `MCParts` are among those they may have |
| `SourcesAssumption` | what the commands print: sensors prints a reading before its limits |
| `CollectorTimeout < CPUWindow + ReadTimeout`, of `WholeReplyTold` only | 2 s < 200 ms + 2 s (registry.go:17, turn.go:19, turn_stats.go:31) |
| `Factories = {network}`, of `ChangesAreReported` only | the registry runs one network collector and, as every collector of `Network` is one, no other; the code's others share no field with it |

The buffer:

- `BufferTypeCorrect`, `BufferCapRespected`, `BufferSizeAccurate`: the inductive invariant is
  `SizeInv`. Neither the type nor the cap is inductive alone: that size does not go below
  zero, and that an empty queue is within the cap, both need size to be the sum of the
  weights. The sum is stated without recursion, as the existence of a function of
  suffix sums (`IsSuffixSum`); `SizeAppend` and `SizeTail` say what Append and Tail
  do to it, and that function gives the sum by which `SizeAccurate` is stated.
- `BufferDurable`, `BufferRecovered`: for all faults, until a write is torn. The
  invariant is `torn \/ DurInv`; `TornStays` says that no step takes the first back,
  `DurInvStep` that only a torn write leaves the second. `DurInv` adds what the
  queue holds (the file is rewritten from it), that a queue being loaded is the part
  of the file read so far, and that an Append that has written has its line in the
  file. Without `torn` both are false, as `buffer_glued` shows.
- `BufferBytesKept`: torn writes included, and so about bytes within lines. `BytesInv` holds
  what is owed in the file, in the queue unless the queue is being loaded, and, of
  an Append that has written, in the file before it is owed (`ReadSoFar`, `Holds`).
- `BufferKeepsOrder`: torn writes included. The queue's order comes from the file's
  when it is loaded, and the file's from the queue's when it is rewritten, so neither is
  inductive alone; `OrderInv` holds both, with what has been read so far, and with
  the fact that while a heartbeat is appended no line begins with a later one.
- `BufferImplementsQueue`: the buffer implements `DurableQueue` under the mapping of
  `BufferRefinement`, until a write is torn. `QueueStep` maps each action to a step of
  the queue or a stutter, from `DurInv`. The hard steps are those of trimming,
  where the queue is mapped to its longest suffix within the cap: what Append and each drop
  leave must be the same suffix, by the suffix sums of `SizeInv`.

The agent:

- `AgentKeepsBufferContract`: every behaviour of the agent is one of the buffer under
  the client that `BufferSpec` describes. What has to be shown is that the loop appends
  only what is newer than everything there: `AgentInv` says that no line, in memory or in
  the file, whole or torn, holds a byte of a heartbeat built after `cur`, nor, until the loop
  has appended it (`Appended`), of `cur` itself. `AgentDurable` follows
  from it and `BufferDurable`, and `AgentImplementsQueue` from it and `BufferImplementsQueue`;
  the other theorems about the buffer hold of the agent in the same way.
- `AgentTypeCorrect`: by `AgentInv` again; that the delays stay within the interval
  takes `AgentBackoff`, where the bound on the interval keeps the doubling exact.
- `AgentLosesNothing`: until a write is torn. `NoLoss` is far from inductive. `AllInv`
  adds where the loop stands while a call of the buffer is under way (`CallMatches`),
  that each line is one whole payload that fits (`WholeLines`), that what is about to be popped
  has been recorded by the server (`PopIsSafe`, which needs `WholeLines`: of a line with
  two payloads the server may record the first and the second would go with it), and from
  when to when the current heartbeat is known to nobody but the loop (`Working`). That
  no more is lost than there were crashes and failures is `FewCasualties`.
- `AgentSettled`: while nothing has failed the file holds exactly the queue whenever the
  loop is back in its select, for any number of crashes. `SettledInv` follows the one
  stretch where it does not: from the first Pop of a flush to the end of its Persist
  (`FileIsQueue`, `Flushing`).
- `AgentDuplicatesExplained`: a heartbeat is recorded at most once, and once more for each
  lost reply, each crash, and, if an operation has failed, each shutdown; torn writes
  included. The invariant bounds the records of a heartbeat by where it is: `Bounds` allows
  as many as `Over` while it waits to be sent, one more when it merely lingers in the file.
  For that it must wait in one place only (`LinesInv`: the lines are of different
  heartbeats, and the current one is in none), and a shutdown that has been asked for must
  not count before it has happened (`OverOf`, `StopAsked`). `NoneMoreWait` says of each
  call of the buffer that it makes nothing wait that did not.
- `AgentImplementsDelivery`: the agent implements `AtLeastOnce`, until a write is torn, for any
  intervals, lengths, caps and mishaps. Nearly everything above meets here: `StepIsDelivery`
  maps each action to a step of the service or a stutter from `AllInv`, `OrderInv`, `DurInv`,
  `BytesInv` and `DeliveryInv`. That the entry sent, popped or dropped is the oldest heartbeat
  that waits is `HeadIsOldest`, from the order of the queue and because what waits is queued
  (`DurInv`). The hard step is dropping to fit: that the
  head and all the heartbeats after it do not fit together has to be concluded from a
  running size over the cap, though some between them may have been sent, dropped or never
  queued. `QueueTakes` says that a queue in order takes no more than the heartbeats from its
  first to the newest do together; both sums are tables (`IsSuffixSum`, `IsRoomFrom`), so
  it is an induction over the queue, with `RoomFromFalls` for those left out. `MishapsCounted`
  says that a step's mishaps cover the deliveries it adds (`Bounds`).

The registry and the heartbeat:

- `RegistryTypeCorrect`, `OnlyFreshMetrics`, `FailuresAreCounted`: for any collectors,
  any configuration and any number of cycles. `FreshMetrics` is not inductive: that
  nothing late gets in needs `Unbegun` (a run of a cycle to come has no goroutine) and
  `Channels` (a channel holds what its own run returned). `FailuresCounted` needs
  `WaitedFor` besides: the context of the run that is waited for is cancelled only by a
  shutdown. What a collector returns is not restricted. An abandoned goroutine can still change its `result`, so `Counted` speaks of a result
  only where the goroutine has ended. All of it together is `RegistryInv`.
- `HeartbeatsAreFilled`: about the loop of buildHeartbeat, which is a fold. `FoldsExist`
  turns the fold into a table of the loop's iterations; `TakeKeeps` and `FoldKeeps` show that
  after each of them the payload holds the valid metrics passed, by their `Rank`, up to
  the cap (`Kept`).
- `HeartbeatsTellTheCycle`: below the cap the heartbeat has the valid metrics of exactly the
  collectors whose results were received. The property speaks of channels and goroutines,
  so `RegistryInv` is joined by `Received`: the channel of a run that was gathered has been
  read, and a run of this cycle whose channel has been read was gathered.
- `RegistryImplementsCollection`: the registry implements `Collection`, whoever returns when. By
  `RegistryInv` and `Contexts` (a run that has not begun has no context, and a run that has is of
  an enabled collector). `ReturnDecides` shows of a result and of a run given up alike
  that the decision is justified; `AnswerDecides` tells a goroutine of this cycle, whose return is
  an answer even when it is late, from one of an earlier cycle, whose return is a stutter.

The collectors that keep state, on top of `RegistryInv` (`CallInv` places each call
where its goroutine is):

- `NetworkTypeCorrect`, `EnergyTypeCorrect`: the types, and with them that no rate is over a
  time of zero and no draw is negative; `MetersTypeCorrect` for a registry with either.
- `BytesCountedOnce`: for any width of the counter and any restarts of it, unless two calls
  overlapped. `Budget` says what has been reported *and what can still be*: of the bytes
  between the stored reading and the counter, the call under way can report those up to its
  own reading, and the next call the rest.
- `ChangesAreReported`: overlapping calls included. `Compared` says that the address compared
  with is the one each earlier run saw, unless a later one has reported a change, and
  is inductive only with the property itself.
- `DrawsCountedOnce`: the energies reported are remainders, so `Drawn` gives the baseline and
  each reading the consumed energy that it is the remainder of, in order;
  `RemaindersApart` makes what a draw reports no more than the difference.
- `TurnTypeCorrect`, `LastLineCut`, `WholeReplyTold`: for any replies, any split of them and any
  timeouts in the relation above. `TurnInv` says what has been parsed is whole lines or
  all that arrived, and by `Timed` that a run with the CPU's metrics that parses at the
  read deadline has been given up. The lemma about the parser is `PrefixTells`: if a
  prefix of whole lines gives a number, the whole reply gives the same.

The others:

- `BackoffTypeCorrect`, `BackoffDelaysInRange`, `BackoffNeverJumps`: with limits in the lower half of the
  durations the doubling never wraps around, the delay stays between the limits,
  never shrinks between Resets and at most doubles. `BackoffInv` is `InRange` with
  the types and the bound on max that makes the doubling exact.
- `BackoffClosedForm`: after n calls the delay is min * 2^n up to max, for any n;
  powers are a table, and a delay at the cap stays there (`CappedDoubling`).
- `AcceptedIsUsable`: every file that `Load` accepts, and whose numbers fit their
  types (`Representable`; the code does not check it, and only an interval of
  centuries fails it), gives an interval of at least a second whose double does not
  wrap around, which is `LimitsAssumption` for the backoff that `agent.Run`
  makes; a jitter that can be added to it; and a cap of at least a megabyte.
- `SentIsRecorded`, `OnlyGivenUpComeLate`: for any number and any kinds of requests.
  The invariant adds to the two properties that SendRaw has one request out at a time
  (`OneAtATime`), that a reply which counts as success was sent for a recorded request
  (`RepliesAreTrue`), and that what is recorded was asked for, once (`RecordsAreSound`).
- `VolumesAreTold`: for any mount points and characters. `DiskInv` adds the volumes
  that are told and those still to be (`Telling`). The lemma it rests on is about
  names: two plain mount points never share one, "/" and "/root" excepted
  (`PlainNamesApart`), because the parts can be read off a name again, from its last
  underscore backwards (`SplitAtUnderscore`).
- `BatteryIsTold`: whatever the battery does between two readings; `BatteryInv` says how far a
  call is and that what the battery is was seen since the call began.
- `ReadingsTypeCorrect`, `ReadingsAreTold`: for any text of the commands that
  `SourcesAssumption` allows, a failed disk with any exit status of smartctl among them.
  What remains to be shown of one step is about the loops of the parsers, which take the
  first or the last of some places in a sequence (`FirstPlace`).

- `PartsTypesCorrect`: all the parts side by side, whichever is in use. `PartsInv` conjoins their
  invariants: a step is one of a part and leaves the others alone, and `IdleParts` says that the
  values of those not in use satisfy theirs.

`Induction` states what these proofs share. The provers cannot instantiate the library's
induction theorems, which take an operator, so induction is stated there about a set of
numbers (a set that has 0 and is closed under successor has them all, from `LeastNumber`), and
a recursive function, a fold or a sum over a set is shown to exist and to satisfy its
equations by a table that is built from that.

Only model-checked:

- all liveness (`SendRawReturnsAlways`, `CollectionNotStarved`, `Drains`, `ShutdownCompletes`,
  `CycleCompletes`, `NoGoroutineLeak`, `ReaderEnds`), which is out of the proof
  system's reach, as is everything with ENABLED;
- the counterexamples of the runs that expect one, which are behaviours and need no proof.

## Plan

Done: every component that is listed as modelled, a theorem for each safety property, and a
refinement of an abstract specification for the buffer, the agent and the registry. What
could follow:

1. That `Agent`'s POST and `Server`'s requests agree, so that `SentIsRecorded` and
   `AgentImplementsDelivery` meet in one theorem. `Agent` records a heartbeat whose reply is lost
   in the same step, while a handler of `Server` may record it long after SendRaw has given it up;
   a mapping has to foresee that, which takes a prophecy variable.
2. Abstract specifications of the network and the energy collector: the counters they promise
   to report, without the goroutines they must not share them with.

## Not modelled

- `self.go`, the agent's uptime, and the `*_other.go` files, which always fail: no state
  and nothing to go wrong.
- The length of a metric's name and, outside the disk collector, its characters:
  `Heartbeat` takes a name's validity as given.
- The battery's cycle count, which is read like its health.
- What gopsutil keeps between two readings of the CPU, and everything else that is
  a library's.
- Logging, the wording of payloads, TLS and HTTP details, the mock server's debug
  endpoint, the installation scripts and unit files, except that the service is
  always started again.
- Power loss: the model's crash is the death of the process.
