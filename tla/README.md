# A TLA+ development of the water-quality gateway

The gateway is one C process on an i.MX6ULL board. It reads a water sensor over
Modbus RTU, raises an alarm LED, keeps the samples in SQLite and uploads them
over TCP. This directory holds TLA+ models of its core, the TLC configurations
that check them on small instances, and proofs that TLAPS checks. Paths such as
`main.c` are relative to `app/src/` of the repository.

## 1. Inventory

```
 sensor --tty--> collect --raw_queue--> processor --store_queue--> store --+
                 thread                 thread --> LED             thread  |
                                                                      samples table
 receiver <--------------TCP-------------- upload thread <----------------+
 main(): creates the threads, waits for a signal, sets flags, shuts queues, joins
```

| component | state | operations | interacts through |
|---|---|---|---|
| sample queue (`sample_queue.c`) | ring, head, tail, count, shutdown, three counters, one mutex, two condition variables | create, push (drops the oldest when full), pop, shutdown, counts | called by all stages and by main() |
| samples table (`sqlite_store.c`) | rows with `uploaded` and `upload_retry`, AUTOINCREMENT | insert, mark, inc_retry, trim, counts | one connection shared by store and upload thread |
| store thread (`sqlite_store.c:272`) | sample_counter, shutdown flag | pop, insert, trim every 100, drain, final trim | store queue, table |
| uploader (`uploader.c`) | socket, cursor of its query, shutdown flag | connect, query, send, mark, retry, drain | table, TCP |
| pipeline (`main.c`) | threads, flags, what is open | start with clean-up per failure, stop; `--test` variant | everything |
| processor and alarm (`processor.c`, `alarm_client.c`) | debounce counters, led_on | compute alarm, debounce, write LED, forward | both queues, LED device |
| LED driver (`driver/water_alarm`) | the GPIO, which outlives every process | load (switches off), open, write, release, unload | alarm client |
| serial link (`serial_port.c`, `modbus_rtu.c`) | tty buffers | open (flushes), write request, wait, read, check frame | collect thread, sensor |
| sample conversion (`sample.c`) | the mock generator's sequence | convert registers, make a mock | collect thread |
| configuration, logger | settings; log level and file | load once; print, without a lock | main(), every thread |
| init script (`system/water-gateway.sh`) | pid file | start, stop (SIGTERM, kill -9 after ten tries), restart, status | the process, other runs of itself |
| receiver script, installer, Makefile, vendored SQLite, sensor firmware | - | - | outside the gateway proper |

What is hard about it, and what makes each part correct:

* **Queue.** Several threads sleep on two condition variables with deadlines
  that are re-armed on every wake-up. Correct means: first in first out with
  the *oldest* sample given up on overflow, every loss counted, no lost
  wake-up, and a shutdown that releases everybody.
* **Table and uploader.** Two threads share a table with no transaction over
  more than one statement; the uploader steps through a live cursor, sends, and
  marks afterwards; either may die in between; the network swallows what it has
  accepted. Correct means: a row is sent again only after a fault, is never
  marked without having been handed to the kernel, arrives in order, and is
  settled in the end; the cache stays near its limit and the trim removes no
  more than it must.
* **Start and stop.** Flags, queue shutdowns and joins are a fixed sequence
  that races with four threads; seven failure paths repeat parts of it by hand.
  Correct means: nothing is used after it is closed, samples in flight are
  accounted for, and the process ends.
* **Serial link.** A request and its response are paired by order and a
  deadline only: nothing in a response names its request, and the input buffer
  is not flushed between rounds. Answers may come late, twice, in pieces,
  damaged or not at all. Correct means: only what the slave sent becomes a
  sample, no answer is used twice or after a younger one, a fault costs no more
  than the rounds it touches, and a silent slave does not hold up a stop.
* **Alarm.** The verdict on a sample is debounced by two counters that start
  anew with each process, while the light keeps its level. Correct means: the
  alarm is a function of the last samples alone, an alarm is shown, and a light
  that is on has a reason.
* **Init script.** Runs of it share a pid file with no lock, and gateways end
  when they like. Correct means: orderly use leaves one gateway at most and the
  file naming it, every disorder costs one gateway at most, and a stop ends what
  it signalled.

`PROJECT.json` lists the hazards at their lines, each with the properties that
would catch it or the reason why none does yet.

## 2. Modules

| module | models | proofs |
|---|---|---|
| `BoundedFifo` | what the queue promises: the abstract specification | |
| `SampleQueue` | `sample_queue.c` in detail; implements `BoundedFifo` | `SampleQueueProofs` |
| `Gateway` | `main.c` and the loops of the threads, on two instances of `BoundedFifo` | `GatewayProofs` |
| `SampleTable` | the SQL statements as operators on a table | |
| `UploadLedger` | what store thread and uploader promise together: the abstract specification | |
| `StoreUpload` | store thread, upload thread, TCP, outages, crashes, restarts, on `SampleTable`; implements `UploadLedger` | `StoreUploadProofs`, `StoreCacheProofs` |
| `ModbusFrame` | bytes, CRC, frames and the parser of `modbus_rtu.c`, as operators | `FrameProofs` |
| `SerialLink` | the collect thread's exchange with the slave, the tty, the line and its faults, on `ModbusFrame` | `SerialLinkProofs` |
| `Alarm` | conversion, mock samples, thresholds and debouncer, as operators | |
| `Hysteresis` | what the alarm promises: the abstract specification | |
| `AlarmLed` | processes, samples, alarm client and LED driver, on `Alarm`; implements `Hysteresis` | `AlarmLedProofs` |
| `InitScript` | `water-gateway.sh` run from several shells | `InitScriptProofs` |
| `MC*` | instances for TLC; bounds are in the `.cfg` files | |

No module declares a recursive operator; all can be proved about.

**SampleQueue.** A critical section is one step, for the mutex is held from
entry to return or to `pthread_cond_timedwait`. `pc[t]` says where a thread is:
`idle`, `waiting` inside that call, `signalled`, or `timedout` and on its way
back to the mutex. `PushCall`/`PopCall` are entries (`timed` says whether
`timeout_ms > 0`), `PushResume`/`PopResume` a return from the wait,
`PushTimedOut`/`PopTimedOut` the ETIMEDOUT branch - which for pop fails even if
a sample has come. `Signal` wakes at most one waiter of the right kind,
`Broadcast` all. A thread that has timed out is no longer among the waiters, so
that a signal is never spent on it, as POSIX has it. The push, pop and overflow counters are state. Time-outs come
at any moment, for the code re-arms the deadline on every turn, and
`SpuriousWakeup` is what POSIX allows. `Contents` maps the ring to the abstract
buffer; the refinement is `ImplementsFifo`.

**Gateway.** main()'s sequence is data: `todo` is a list of commands (create,
await, tell, shut, join, close, destroy), `ServiceStop` and `TestStop` the two
ends, `ServiceUndo` and `TestUndo` what follows a `pthread_create` that failed.
A thread is between two looks at its own flag, a call of its queue and the
database. `mode` chooses main() or run_test(); the latter joins an upload
thread it may not have created, through an uninitialised id, so that `MainJoin`
may return or be `Lost`. An INSERT may fail, in the loop and in the drain; its
sample is gone and counted in `failed` (`write_fail_count`). The trim and the
uploads of the rows are left to `StoreUpload`. Values of samples are left out; a sample is its number.

**SampleTable and StoreUpload.** A table maps ids to `[uploaded, retry]`; one
SQL statement is one operator and one step. The uploader's SELECT uses
`idx_samples_uploaded` with the rowid as its second key, so it needs no sorter
and every `sqlite3_step` reads the table as it is then; `NextRow` says so, and
`budget` is the LIMIT. (`EXPLAIN QUERY PLAN` on the vendored SQLite gives
`SEARCH samples USING INDEX idx_samples_uploaded (uploaded=?)`.) SQLite is built
thread safe, so statements are atomic. `conn` is `none`, `up` or `broken`; on a
broken connection a send may succeed (its row is lost) or fail. `wire` is what
the kernel has taken. `Crash` is kill -9, `StopStore` SIGTERM and what main()
does with it, `Restart` the init script. The store queue is a producer of
samples that may or may not come, and of up to `QueueLeft` at shutdown.

**UploadLedger.** It knows rows stored, rows still owed (`open`), one in hand,
the wire, and what the receiver got; no SQL, cursor, retry count, socket state
or shutdown. `Settle` closes a row that is on its way or was met by an outage;
`Discard` gives up the oldest rows of a limited cache; `Send` asks for an excuse
for a second copy and for the order of first ones; `Fault` is a crash or a
failed statement and gives one excuse. `StoreUpload` maps `open` to the rows the
query may still return (`Pending`), `hand` to the cursor's row between its read
and its send, and `excuses` to crashes and failed statements together.

**ModbusFrame and SerialLink.** A byte is the set of the positions of its 1
bits, which makes `^` a symmetric difference and lets a property ask for every
one- and two-bit error. `modbus_run_sensor_tests` states the eight tests the
file carries. In `SerialLink` one round is `Ask` (the whole request is written)
followed by `Receive`, `TimeOut`, `Interrupt` or `ReadFails`, the ways out of
`serial_read`: bytes, the deadline, EINTR, and a `select` or `read` that fails
otherwise; `Sampled` is what `collect_thread` makes of the result. `line`
holds chunks, `rx` what has reached the tty: `select` wakes for any byte and one
`read` takes what is there, so `Split` is a pause inside a response. A restart
loses what was being awaited and flushes. The slave numbers its answers in their
registers, so that a sample can be traced to the answer (`taken`) and the answer
to its round (`answers`). The slave and the line are external; the shape of an
exception and of a doubled answer is from the file's tests and
`docs/test-log.md:584-596`.

**Alarm, Hysteresis and AlarmLed.** Quantities are integers in units of their
register; that `(float)r * 0.01f` compares with `6.5f`, `8.5f`, `45.0f` and
`5.0f` as `r` with 650, 850, 4500 and 500 was confirmed by computing all 65536
values in single precision. `Process` is one turn of `processor_thread` with the
LED write in it; `Load` is `insmod` and switches the light off, `Unload` is not
possible while the device is open, `Exit` is any end of the process. `led` is
the light, not the pin, which is low when it is on. `Hysteresis` knows only the
window of the last verdicts; `recent` is a ghost that judges each sample by the
documents' table (`InRange`), independently of `processor_compute_alarm`.
Readings below zero are excluded by the assumption `NoneBelowZero`: the table
raises an alarm for them and the code does not (section 6), so that the
refinement is false of them. `MaxRun` stops the
run counters, which the code lets grow, once no comparison can change.

**InitScript.** One action per command of the script, since runs of it may
interleave anywhere: test, launch, write, test, kill, each turn of the loop, kill
-9, remove. `PID` is the shell's variable, `life[p]` a gateway. `overlaps` counts
runs begun during another and `aborts` runs broken off; the properties measure
the damage in these.

## 3. Runs

| run | instance | what it shows |
|---|---|---|
| `queue` | 2 producers, 2 consumers, 2 samples, capacity 2, 4 pushes | type, conservation of samples, no lost wake-up, nobody asleep after shutdown, refinement of `BoundedFifo`, shutdown releases every caller for good |
| `upload` | 3 rows, batch 2, 2 retries; one outage, kill -9, failed statement and SIGTERM each | refinement of `UploadLedger`, duplicates are bounded by faults, uploaded rows were delivered unless an outage swallowed them, one retry per outage, a complete drain whatever became of the connection, first copies in order, every row settles, the uploader stops |
| `cache` | 6 rows, limit 1, trim every 2, at most 2 left at shutdown; kill -9, failed statement, SIGTERM | the table's growth beyond its limit, and that a trim stops at the limit |
| `gateway` | capacity 2, 5 samples, both modes | samples stored in order, nobody uses what is closed, samples accounted for when any INSERT may fail, at most two refused and one left behind at shutdown, shutdown ends |
| `link` | 1 register, 6 rounds, any 2 faults, at most one of them damage | `modbus_run_sensor_tests` and error detection, only true readings become samples, in order, behind and replaced by mocks no more than the faults explain (two mocks per fault, three per cut), SIGTERM gets through |
| `alarm` | 48 register sets, on both sides of every limit the code compares and none below zero, 600 mock samples, debounce 3 and 2 as in the code | the alarm is `Hysteresis`, it is shown, the light is on for a reason, a lasting condition lights it |
| `script` | 2 shells, 4 runs of the script, 2 overlaps, 1 broken off, 4 gateways, 2 polls | gateways at once, truth of the pid file, a stop ends its gateway |
| `led_restart` | as `alarm` | section 6 |
| `up_burn`, `up_lost`, `up_trim`, `gw_drain` | smallest instance that shows it | statements of the documents that the code does not keep: section 6 |

Why the bounds are enough. In the queue, two threads of each kind are the least
for which one signal can go to the wrong one and capacity 2 the least where the
ring has both an inside and a wrap; four pushes fill it, overflow it and wrap
it twice. Uploads need a batch that ends before the table does (batch 2, 3
rows) and a retry that is left after the first failure (2); faults are allowed
one of each kind, so that any two of different kinds meet in any order. The
cache run lets 6 rows meet a limit of 1 with a trim every second sample, so that
a crash or a failed statement makes the table exceed what it reaches without
one: leaving any term out of the bound of `CacheBounded` makes it fail. It has no
outages, for which rows are trimmed does not depend on why they were not
uploaded. `ImplementsLedger` is checked by `upload`, where the cache has no limit
and `Discard` may not occur, so that nothing may be lost silently; it was also
found true on the instance of `cache`. Five samples overfill both queues of two
in `gateway`.
`TrimEvery` is 100 and the queue capacity 64 in the code; both are constants of
the modules. Nothing in the code depends on their size.
In `link` the frame has one register instead of seven: lengths that differ by a
constant are told apart the same way, and 7 bytes keep every place of a split
and every bit of a damage within reach; `ReadSize` is the code's 256. Two faults
are the least that can compound (a late answer, then a lost one that pairs the
line again), and six rounds leave two clean ones after them. With three faults
and no damage the same properties hold (1 167 000 states). `alarm` takes all
readings from zero up and all mock phases there are, up to the integers between
the limits;
600 is the common period of the generator's four remainders. In `script` two
shells are the least that can interleave; four runs allow a start, two that
collide and one that meets what they left.
`gateway` does not check for deadlock, as main() returns; the other passing
runs do. Every property of a passing run has a mutant in `PROJECT.json`: a
plausible error in the code under which that property fails in the same run.

## 4. Fairness

* `SampleQueue.FairSpec`: a thread that was signalled or timed out gets the
  mutex in the end, while a thread that waits on an open queue may wait for
  ever: nothing is assumed about time-outs being short, calls being made, or
  shutdown.
* `StoreUpload.FairSpec`: each thread is scheduled, the kernel delivers what it
  took while the network is up, main() tells the uploader to stop after it
  joined the store thread, and an outage ends. That outages end is an
  assumption on the environment, needed by `RowsSettle`, which says the
  uploader catches up. Faults, samples and restarts are never forced.
* `Gateway.FairSpec`: each thread and main() are scheduled. A push or pop
  returns, which `SampleQueue` and its time-outs justify. No signal is forced.
* `SerialLink.FairSpec`: `select` returns at its deadline and the thread is
  scheduled (`Receive` or `TimeOut`, and `Stop`). A slave that is on time serves
  and the line delivers; both are assumptions on the environment. No fault is
  forced. The next request is not forced either.
* `AlarmLed.FairSpec`: a process that is up goes on processing samples, of
  whichever kind: the collect thread makes one every period, with or without a
  slave. `made` changes with every sample, so that one which changes nothing
  else still counts as a step. Nothing forces readings, starts or loads;
  `AlarmComes` has the lasting condition as its premise.
* `InitScript.FairSpec`: a shell goes on with its script. A gateway never has to
  end, for `uploader.c:57` may block; `StopEndsGateway` rests on the kill -9.

## 5. Proofs

A theorem holds for every value of the constants the named assumption of its
module allows; the runs check the same definition on one instance. The
invariants below are inductive; TLC finds them true on the instances of the
runs. The end of this section names what has no theorem.

| module | theorems | what they state |
|---|---|---|
| `SampleQueueProofs` | `TypeCorrect`, `RingCorrect`, `ConservationCorrect`, `ShutdownWakes`, `NoWakeupLost`, `RingIsFifo` | all safety of the queue, and the refinement of `BoundedFifo` |
| `GatewayProofs` | `TypeCorrect`, `NothingUsedAfterItsEnd`, `FewRefusals`, `NoSampleGoesMissing`, `RowsInOrder`, `OneSampleLate` | database and queues outlive their users; a shutdown refuses two samples at most; samples are accounted for, stored in order, and one at most is left behind |
| `StoreUploadProofs` | `TypeCorrect`, `OneRetryPerOutage`, `NoSilentLoss`, `OnceUnlessAFault`, `RowsArriveInOrder`, `DrainIsComplete`, `KeepsTheLedger` | all that `upload` checks of safety, and the refinement of `UploadLedger` |
| `StoreCacheProofs` | `TrimmingStopsAtLimit`, `CacheLimitHolds` | all that `cache` checks |
| `AlarmLedProofs` | `TypeCorrect`, `AlarmIsHysteresis`, `AlarmIsShown`, `LitOnlyForAReason` | all safety of the alarm, and the refinement of `Hysteresis` |
| `InitScriptProofs` | `TypeCorrect`, `FewGateways`, `PidfileIsTrue` | all safety of the init script |
| `FrameProofs` | `RoundTrip`, `DamagedByteRefused`, `DamagedPairRefused`, `TwoBitsRefused`, `LostByteRefused`, `SensorTestsHold` | frames, parser and CRC for all registers and bytes |
| `SerialLinkProofs` | `ResponsesProtected`, `TypeCorrect`, `DamagedReadingsRefused`, `QuietReadingsAdvance`, `QuietLag`, `QuietMocks` | the frames of the link; no reading comes of damage; pairing, lag and mocks on a line that loses, delays and repeats, but does not cut or change |

**Queue.** `QueueAssumption`: the capacity is positive (`sample_queue_create`
refuses others), a thread pushes or pops but not both, there are finitely many.
`IInv` is `TypeOK`, `RingConsistent`, `Conservation`, `NoSleepAfterShutdown` and
`ArgHeld` (a producer inside the wait still holds a proper sample). `TypeOK`
alone is not inductive: that a resumed push stores a sample needs `ArgHeld`, and
that head and tail stay in range needs the arithmetic of `After`. The refinement
needs `RingConsistent`: a push writes the slot at `head`, which is the end of
`Contents` only because head is count slots after tail. `NoLostWakeup` counts
threads, so its proof adds lemmas on the cardinality of the sets of sleeping and
signalled threads when one moves.

**Pipeline, order of events.** `GatewayAssumption`: the queues have room, the
modes are those of main(). Whether something is used after its end depends on
what main() has *yet* to do, so `Control` speaks about the list `todo`: each
thread that lives has its join in it (`JoinsLeft`), the ends of database and
queues come after everything else (`EndsLast`), threads are created in order and
only from a list that creates (`CreatesLeft`), and each writer of a queue is
told before its queue is shut (`Told`, `FlagsInOrder`). The lemmas on
`ServiceStop`, `TestStop` and `Undo` show these of each list the code can
follow, the seven failure paths included. `RefusalsBounded` needs one thing
more: what each writer may still have refused (`RawRefusals`, `StoreRefusals`).

**Pipeline, samples.** `Flow` adds to `Control` the six stages a sample passes
(database, hand of the store thread, store queue, hand of the processor, raw
queue, hand of the collector): the numbers in an earlier stage are below those
in a later one, and the queues increase. `StoredInOrder` alone says nothing of
the samples about to be stored. `LateSampleBounded` comes from `LeftBehind`: once
the store thread has ended, only the sample in the processor's hands can follow,
and that the processor was told first is part of `Control`.

**Uploads.** `StoreAssumption`: batch, retries and trim interval are positive.
Five invariants on top of the types:

* `Ordinary`, `Retries`: a broken connection stands for an outage no row has
  paid for yet. The bound is for the ordinary loops only (`Ordinary`): in the
  drain loop `up_burn` shows it to be false.
* `Delivered`: without an outage the row under the cursor is known to the
  receiver before it is marked, and every uploaded row is.
* `FewCopies`: copies are counted in the network and at the receiver together;
  a row that may still be sent (new, unmarked, or under the cursor and not yet
  sent) has one copy less than others. The bound itself does not say which rows
  may get another.
* `InOrder`: the cursor has not passed a row the receiver knows nothing of
  (`CursorAhead`), sendable rows nobody knows are newer than the known ones
  (`KnownOlder`), and the wire is sorted up to repetitions (`WireNewer`,
  `WireOrdered`).
* `Drain`: main() tells the uploader only after the store thread has stopped,
  and a cursor that found nothing saw the whole table, whatever became of the
  connection.

`KeepsTheLedger` puts them together, for a cache with or without a limit: a row
in hand has copies to spare (`FewCopies`) and is newer than all that is known
(`InOrder`), a row marked is known unless there was an outage (`Delivered`), a
send fails only after one (`Retries`), and what `ORDER BY id ASC LIMIT n` deletes
is older than what it leaves (`OldestFirst`). `Limited`: the store thread trims
only if there is a limit.

**Cache.** The set that `ORDER BY id ASC LIMIT n` selects has n members, or all:
`Rank` is a bijection, and the sizes of the trims follow. `Cached` bounds the
table at every point of the store thread by the limit, what it may have added
since the last trim (`Slack`) and what crashes, failed statements and shutdowns
have cost (`Allowance`), with room kept for the samples a shutdown has still to
drain (`Owed`). `CacheBounded` gives every state the slack of the worst one,
which a further insert would exceed.

**Alarm.** `AlarmAssumption` and `LedAssumption`: confirmations are positive, the
cap on the counters is no less, readings are sets of four registers.
`NoneBelowZero`: code and table agree about these readings only, and
`ImplementsHysteresis` and `AlarmShown` are proved for them. The counters of the
debouncer are the runs at the end of the window of verdicts (`CountersAreRuns`),
a run that is long enough has raised or cleared the alarm (`RunsRaise`), a device
that is open is loaded, and `LitForAReason`. The refinement maps each sample to
one step of `Hysteresis`.

**Init script.** `ScriptAssumption`: finitely many shells, and no more commands
than pids. The invariant keeps accounts: due are the gateways that run, and one
for each run of the script that has not launched one yet (`Due`); overlaps,
broken-off runs and the first run of those under way pay (`Paid`). One more may
be due only while the pid file names a gateway and every run under way is one
that leaves it there (`Accounted`, `Guarded`). With no overlap and nothing broken
off this comes to `PidfileNamesGateway`. `WritersApart`: no two shells are about
to write the pid of the same gateway, so that the one that writes settles its own
debt only.

**Frames.** A word is a polynomial over two elements and a step of the CRC
multiplies it by x modulo x^16 + x^15 + x^2 + 1; no step loses anything
(`StepInjective`) and steps respect `^` (`StepLinear`). `Apart`, the difference
of the words of two buffers, therefore travels on by itself between the places
where the buffers differ, and is 0 at the end of two accepted frames of one
length, since a frame with its CRC leaves 0 (`Residue`).

* Neighbouring bytes: the first one's difference comes out of its eight steps
  with something in the high byte (`ByteMoves`), which no difference of the next
  byte takes back. One damaged byte is the special case.
* Two bits in different bytes: the first would have to become the second, so
  that some power of x below 2^15 - 1 would be 1. It is not (`NoShortPeriod`):
  x^32767 = 1, and 32767 = 7 * 31 * 151, so a smaller period would divide one of
  its three largest divisors (`PrimeDividesPeriods`); the powers with these exponents are
  computed by squaring, fifteen or fewer squarings each (`SquareOfPower`).
* A lost byte: without the first or second, the length stands where the function
  should; without a later one the length is wrong. Only if the length itself is
  lost can the first register's high byte pass for it. Then the shortened frame
  and the response end alike, so that the CRC's words after what comes before
  that common end would have to be the same (`TailsAgree`); the header determines
  them (`HeaderTurns`, `HeaderWord`), and they differ.

`SensorTestsHold` needs all of this but the two bits: the frame whose CRC was
wiped out differs in two neighbouring bytes, once `NormalCrc` has computed that
the CRC of that frame is not 0. Inductions are by least counterexample
(`LeastNat`), since induction theorems that take a predicate as parameter are out
of the provers' reach.

**Serial link.** `LinkAssumption`: one to 125 registers, some read size, at least
one round and fewer than 2^15, since the slave numbers its responses in a 16-bit register and
answers a request twice at most; beyond that the ghost, not the code, would
repeat. `TypeCorrect` and `ResponsesProtected` hold whatever the faults.

`DamagedReadingsRefused` is about noise: a bit flipped in, or a byte eaten of,
any number of responses and exceptions, in any order with the other faults. Its
hypotheses are that nothing is cut and one read takes what has come (`Uncut`;
`ReadSize` is 256, a frame 19 bytes), that no chunk is hit twice (`HitOnce`), and
that nothing joins on to a frame in the buffer that passes for a response with a
length byte of its own (`LengthKept`): such a frame, longer than it claims or
shorter, could become acceptable by what joins it. `Frames` says that what is in
the buffer and each chunk on the line is a response or refused, alone and with
whatever joins it: by the theorems on frames if it was hit, by its length or
function if it was joined.

The other three have `[]Quiet` as hypothesis: nothing was cut or changed so far,
and one read takes what has come. Late, lost, doubled and exceptional answers,
failed writes and reads, interrupts and restarts remain, in any number and order.
`Pairing` says that what is received is one response or junk that no frame check
accepts, that responses are in order, and that the age of each, with all that is
ahead of it, is explained by late answers, failed reads and echoes;
`QuietReadingsAdvance` and `QuietLag` follow. `Balance` says that the mock
samples made, the exceptions on the line, the junk in the buffer and the distance
of what is under way from what was asked are together at most two per fault.

**Only model-checked.**

* Liveness, which is beyond the prover: `ShutdownReleasesAll`, `RowsSettle`,
  `UploaderStops`, `ShutdownTerminates`, `CollectStops`, `AlarmComes`,
  `StopEndsGateway`.
* `DamageRefused` on a line that cuts, hits a frame twice or joins on to a frame
  with a wrong length; `ReadingsAdvance`, `LagWithinFaults` and
  `MocksWithinFaults` on one that cuts or changes what is sent. No theorem for
  every constant can be expected of these: with enough registers a cut or joined
  frame meets its CRC by chance.

## 6. Where the documents say more than the code does

* `up_burn`: a send that fails while draining at exit keeps the dead socket and
  queries again (`uploader.c:247`), so that a single outage uses up all retries
  of the remaining rows; `docs/test-log.md:1645` says nothing is lost.
* `up_lost`: a row sent into a dead connection is marked uploaded
  (`uploader.c:191-201`), against the same line.
* `up_trim`: a row marked between the two DELETEs of `sqlite_store_trim_cache`
  outlives rows never uploaded; `README.md:51` says uploaded ones go first.
* `gw_drain`: the store thread may drain its queue before the processor has
  pushed its last sample; `README.md:53` says the queue is drained before the
  database is closed. `LateSampleBounded` shows the damage is one sample.
* `led_restart`: a light left on by a process that ended is not switched off by
  the next one's samples in range (`processor.c:65,101`); `docs/test-log.md:2355`
  says two of them do. `LitForAReason` shows this is the only way.

Met while modelling, without a run of their own: the comment above `led_switch`
(`newchrled.c:59`) gives LEDON as 0 and LEDOFF as 1, the other way round from
the definitions at lines 28-29, which the alarm client follows; the table at
`docs/test-log.md:957-960` has a lower limit of 0 degrees for the temperature,
which `temp_min` holds (`processor.c:27`) and nothing compares, so that readings
below zero, which the code converts as signed (`sample.c:72`), raise no alarm;
the models exclude them. A single answer that comes after its
deadline leaves every later reading one round behind for as long as no other
fault pairs the line again; no document says otherwise, and `LagWithinFaults`
says that it never gets worse by itself.

## 7. Plan

Done, in this order: `BoundedFifo`, `SampleQueue`, its proofs; `SampleTable`,
`StoreUpload`; `Gateway`; `ModbusFrame`, `SerialLink`; `Alarm`, `Hysteresis`,
`AlarmLed`; `InitScript`; `UploadLedger`.

The proofs followed in the order `SampleQueue`, `Gateway`, `StoreUpload`,
`AlarmLed`, `InitScript`, `SerialLink`, `ModbusFrame`.

To come: the other theorems on readings with damaged frames, as far as
`DamagedReadingsRefused` goes, and `SerialLink` with cuts: a prefix or a suffix of
a response is not a response of the wanted length, so that only joined pieces
stand in the way.

## 8. Not modelled

Durations (a time-out may come at any moment), the text of JSON, log lines and
`sample_to_string`, time stamps and status words of samples, the values of
samples outside `Alarm`, the command line, the heartbeat, the final statistics,
opening the database and the creation of the table (initial state), vendored
SQLite (through what its statements do), build and installation, the sensor's
firmware (an archive). A queue is destroyed only in `Gateway`. A failing
`malloc` or database at start ends main() before any thread runs and is left
out. SQLite's WAL with `synchronous=NORMAL` keeps committed statements over kill
-9; over a power cut it may lose the newest ones, and power cuts are not
modelled.

`config.c` reads settings once, before there is a thread, into a structure
nobody changes: it has no state to interleave with, and its values are constants
here. `logger.c` is output nobody reads back; it has no lock, so that lines of
two threads may mix. Terminal settings, the hex dump and the one-shot
`modbus_test_serial_read` are left out of the serial link, the pin's
multiplexing and the registration of the device (with its failures) out of the
driver, and `ledApp`, which may write the device behind the gateway's back, is
left out too. `InitScript` does not reuse pids, has no moment between the
truncation of the pid file and its writing, and finds the daemon installed. Two
gateways that share a serial line, a database and a light are counted there, and
what they do to each other is not modelled.
