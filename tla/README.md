# Formal models of ev3dev-swb

`lego_fw` is a small C++ framework for robots built with LEGO EV3 bricks. A
program describes its behaviour as a state machine; one thread polls all
sensors, another runs the machine, and a vendored binding (`ev3dev.cpp`,
`ev3dev.h`) turns sensors and motors into files under `/sys/class`. This
directory holds TLA+ models of the framework and of the binding, configurations
to model-check them with TLC, and proofs checked by TLAPS. Line references are to
`src/lego_fw/src/` unless another path is given.

## 1. Inventory

| Component | State | Operations | Interacts with |
|---|---|---|---|
| `Poller<Data>` (`Poller.hpp`) | two buffers, `shadow_idx_`, `new_data_`, `working_`, `period_`, a mutex, a condition variable | `work` (loop of `readSensors`, `swap`, sleep), `copyTo` with or without timeout, `end`, `setPeriod` | reads devices through `Data::update`; consumers call `copyTo` |
| `State` (`State.hpp`) | actions, transitions, timeout, time of entrance | `enter`, `next`, `addAction`, `addTransition`, `setTimeout`, `getTimeout` | callbacks of the application |
| `EventLoop` (`EventLoop.hpp`) | `running_`, current and previous state | `run`, `stop` | calls `State` and `Poller::copyTo`; `stop` comes from another thread |
| `CraneData` (`CraneData.hpp`) | motor positions, colour, touch | `update`, `==`, `=` | devices through `CraneControl` |
| `CraneControl`, `Safe` (`CraneControl.hpp`, `Safe.hpp`) | devices, one mutex each | `motor`, `touch_sensor`, `color_sensor`: a handle that holds the mutex while it lives | poller thread and loop thread |
| Applications (`draft.cpp`, `demo.cpp`, `pidtest.cpp`) | the machines, the gain of a motor | actions, conditions, `main` (thread start, `run`, `end`, `join`) | all of the above |
| Stream cache (`ev3dev.cpp:82-190`) | two LRU lists of open streams | lookup, open, eviction | all threads; references are used after the cache's mutex is released |
| Device attributes (`ev3dev.cpp:279-603`, `ev3dev.h`) | cached, possibly stale streams; the mode of a sensor | get and set of integers, strings, lines, sets, with retries; values of sensors | kernel files that come and go |
| Device connection (`ev3dev.cpp:196-275, 481-513, 607-794, 1310-1331`) | `_path`, `_device_index` | `connect`, `device_index`, constructors | directory listing, attributes |
| Buttons, remote control (`ev3dev.cpp:973-1031, 1191-1306`) | last state or value | `process`, `process_all`, callbacks | user callbacks, which may throw |
| LEDs (`ev3dev.cpp:852-942`) | attributes in the kernel | `flash` with retries, `set_color`, `all_off` | kernel files |
| Sound (`ev3dev.cpp:1035-1112`) | programs that play | `beep`, `tone`, `play`, `speak` | processes |
| Display, power supply, `Logger` | a mapped block; none; none | output, attributes, output | frame buffer, files, `stderr` |
| `pidtest/`, templates, scripts, tests | copies, generators | | not part of the framework |

What is hard, and what makes each part correct:

- **Poller.** Two kinds of threads share buffers, and one of them writes outside
  the mutex on purpose. Correct means: no torn and no racing copies, no reading
  announced and then forgotten, each reading given out as new only once, timed
  calls return, `end` works, a stable reading gets through.
- **EventLoop and State.** A loop controlled by a flag that other threads
  reset, blocking calls, user callbacks that may throw, a clock that may be
  set. Correct means: the actions of a state happen once per visit, `stop`
  stops, and a condition that is satisfied is followed.
- **CraneControl and the applications.** Devices shared by two threads, several
  file accesses per logical one, start-up and shut-down of threads. Correct
  means: a value belongs to the mode it was asked for in, no decision is made on
  data that was never read, motors stop when the machine moves on, `main` gets
  to its end.
- **The ev3dev binding.** References into a shared cache, stale streams,
  retries, devices that come and go during a search, callbacks in the middle of
  a state change. Correct means: no stream is used after its destruction, a
  failure has a reason, an object is connected to what it asked for, callbacks
  are told every change.

`PROJECT.json` lists under `hazards` the lines at which each of these bites.

## 2. Modules

| Module | What it is |
|---|---|
| `SnapshotChannel` | Abstract specification of the poller: one slot, one flag, calls that return at once or wait. |
| `Poller` | `Poller.hpp`, one action per step between two points where another thread can run. |
| `EventLoop` | `EventLoop.hpp` and `State.hpp` over an instance of `SnapshotChannel`. |
| `CraneMachines` | The machines of `draft.cpp` and `demo.cpp` as the calls that build them, and what these calls leave in the `State` objects. |
| `Application` | `main` of such a program with the poller's thread, the motors and a `stop` from elsewhere. Extends `EventLoop`. |
| `Program` | The same program with `Poller` in place of the channel: the steps of `Poller`, of `EventLoop` and of `main` together. Extends `Poller`, uses an instance of `Application`. |
| `CraneControl` | Handles on shared devices (`CraneControl.hpp`, `Safe.hpp`) and the accesses made through them. |
| `LruCache` | `lru_cache` of `ev3dev.cpp` as operators on the list of keys. |
| `DeviceAttr` | Threads that read and write attributes through the two stream caches. Extends `LruCache`. |
| `DeviceConnect` | The search for a device in a directory that changes. |
| `SensorValue` | Methods of the sensor classes: mode, number of values, value, decimals; `bin_data`. |
| `RemoteControl`, `Buttons` | `process` and its callbacks. |
| `Leds` | `flash`, `set_color`, `all_off` over attributes that come and go. |
| `Accessors` | The get and set methods of `ev3dev.h`, and attributes that are lists. |
| `Sound` | Command lines and the programs they start. |
| `PidTest` | The program `pidtest.cpp`. |
| `Brick` | The modules from `DeviceConnect` to `PidTest`, and `CraneControl`, side by side. |
| `PollerProofs`, `EventLoopProofs`, `ApplicationProofs`, `ProgramProofs`, `CraneControlProofs`, `DeviceAttrProofs` | TLAPS proofs about the module that each names. |
| `DeviceProofs` | TLAPS proofs about `DeviceConnect`, `SensorValue`, `RemoteControl` and `Buttons`. |
| `BrickProofs` | TLAPS proofs about `Leds`, `Accessors`, `PidTest` and `Sound`, and that `Brick` keeps what its parts promise. |
| `MCPoller`, `MCEventLoop`, `MCApplication`, `MCProgram`, `MCDeviceAttr`, `MCBrick` | Instances: comparisons, machines, symmetry, statements. |

Operators marked "Seeded fault" stand before the definition they vary. No
specification uses them; substituted for that definition they show that the
property named in `PROJECT.json` notices the fault.

### SnapshotChannel and Poller

`Poller` follows the code statement by statement. The worker's place `wpc` runs
through `work` ("enter", "loop", "sleep"), `readSensors` ("update", "notify")
and `swap` ("lock", "flip", "raise"); "off" and "failed" are outside `work`,
the latter after an exception. A consumer's place `cpc[c]` is in `copyTo`:
"lock" before the mutex is acquired, "test" at the predicate, "waiting" in the
condition variable, "woken" and "expired" out of it but without the mutex,
"copy" at line 40. What the code keeps in locals and references is kept too:
`wref` is the index that the reference `shadow` denotes, `src[c]` the index
that the right-hand side of line 40 denotes, `wfield` and `cfield[c]` the next
field that `update` reads and that `operator=` copies. When `readSensors` and
`copyTo` return these are put back to their initial values (`Unbind`, `Leave`).

- A reading is a function on `1 .. NumFields`; every field is read, and copied,
  in a step of its own, and sensors change between any two steps.
- `Same` is `Data::operator==`. It may be any relation: `CraneData` ignores the
  motors' positions.
- `notify_one` moves one waiting consumer, chosen arbitrarily; spurious wake-ups
  happen. Leaving the wait set and getting the mutex back are two steps.
- Time is abstract: sleeps end and timeouts fire at any moment, so that the
  model covers every period and every timeout.
- Accesses to the atomic flags are single steps. `shadow_idx_` is a plain byte,
  written only by the worker under the mutex and read by consumers under it.

`SnapshotChannel` has `Publish`, `Call` and `Return`. The refinement mapping
lets a swap take effect in `Raise` (between `Flip` and `Raise` the slot is still
the old buffer) and a call in `FinishCopy`.

### EventLoop and CraneMachines

The channel's variables are the poller. `lpc` is the place in `run`: "called"
before line 20, "check" at line 24, "enter" in `State::enter` with the next
action `act`, "call" and "wait" around `copyTo`, "next" at line 34, "exit" at
line 36. States, actions, transitions and timeouts are constants: all programs
of the repository build the machine before they run it, and `CraneMachines`
computes the constants from the list of those calls. A condition is the set of
pairs of reading and elapsed time for which it holds, so that any condition that
is a function of its arguments is covered; `Successor` is `State::next`, the
first condition in order that holds, else the state itself. `Clock` sets the
elapsed time to any value, negative ones included, because it is measured with
the system clock (`State.hpp:31`); durations beyond `MaxElapsed` are identified
with it. `running_` and the loop's `data` are not initialised in the code and
arbitrary in the model. Callbacks may throw in `Throw`. `performed` and `asked`
are history variables: the actions since the current state was reached, and
whether `stop` was called during this call of `run`.

### Application

The steps of `EventLoop` in their place in `main`. `main` is before the thread
is started, before `run`, in `run`, at `end`, at `join`, or out; an exception
that leaves a callback ends the process ("terminated"). The poller's thread is
`Poller` reduced to what the channel shows of it: `StartWork` sets `working_`,
`TestWorking` is the loop's condition, `PublishReading` or `NothingNew` an
update, `PollerFails` an exception. `motor` is the last command of each motor,
given by `Perform`; that a motor stops by itself in its target position is not
visible. `taken` is a history variable: a reading has been published.

### Program

`Application` says what a program does if the poller is a channel; `Program` puts
the poller there. Its variables are those of `Poller`, which are the poller, its
mutex and its condition variable, and those of `EventLoop` and `Application`
that are not the channel's. There is one consumer, `Runner`, the thread of `main`
and `run`.

- `PollerRuns` is one step of `work`, `InCopyTo` and `WakesUp` one step inside
  `copyTo`, with the machine at "wait". `CallPoller` calls `copyTo` with a timeout
  if the current state has one, `PollerReturns` is its last step. `StartThread`
  and `EndPoller` are `CallWork` and `End`; `Prepare` is the beginning of `run`,
  whose local `data` is uninitialised and is what `copyTo` will overwrite.
- `MachineRuns` and `MachineDisturbed` are the steps that do not touch the poller:
  those of `Application`, through the instance `App`.
- `App` is also the refinement mapping. The channel is what `Slot`, `new_data`,
  `Mode` and `Got` show of the buffers, and `Place` reduces the worker's place to
  what `Application` tells apart: the reading is published by `Raise`, so that
  `Notify` and `Sleep` already belong to the loop.
- `ImplementsApplication` is the specification of `Application` seen through that
  mapping.

### CraneControl

A thread asks for a handle, waits for the mutex (`Handle`), makes the accesses of
its statement, and gives the handle up, after the last access or because one has
thrown. `Statements` are sequences of accesses to one device: those of
`CraneData::update`, of the actions and of the methods of sensors that set the
mode and then read. `wanted` and `seen` record the mode that the thread has set
and the one its value was measured in.

### LruCache and DeviceAttr

`DeviceAttr` follows one call of `get_attr_int`, `get_attr_string`,
`get_attr_line`, `set_attr_int` or `set_attr_string`: "lookup" before the
cache's function, "open" with the reference it returned, "use" with an open
stream, "close" between a write that failed and the second attempt. Reading a
string and reading a line are one operation, `get_text`. `_path` is empty in
`Refuse` and not in `Call`.

- The lookup is one step because the cache's mutex is held during all of it;
  every other access to the stream is a step without the mutex. A lookup that
  drops an item destroys the stream in it; a thread that has a reference to it
  is `dangling`, and "undefined" when it uses it next.
- `Remove` and `Create` are the kernel: devices are unplugged, and attributes of
  LEDs come and go with the trigger (`ev3dev.cpp:866-868`). A stream opened before
  is stale for good: reads fail, writes fail with `ENODEV`. A `good` stream may
  still have a value refused.
- A failed read does not throw, since no exception mask is ever set; the handler
  in `get_attr_int` is therefore not an action.
- Two threads are never at the same file, because every device has a mutex
  (`CraneControl.hpp:40-50`) that `Safe` holds for the whole call: this is
  `ExclusiveAccess` of `CraneControl`.
- `gap` and `since` are history variables: whether the file was absent during
  the call, and the files others looked up since the thread did.

### Parts of Brick

The other parts of the binding share no state with each other. `Brick` puts them
into one specification whose variable `part`, fixed by the initial state, says
which of them the behaviour is about: the state space is the sum of theirs, not
the product, and one run checks them all.

- `DeviceConnect`. `Connect` opens the directory; `NextEntry` is the entry that
  `readdir` returns next, in any order. Its attributes are compared one by one, in
  the order of the map: `OpenAttribute` and `CompareAttribute` are the two halves
  of `get_attr_string`, and the kernel may act before, between and after them.
  `Reject` is the first that cannot be opened or does not match, `Found` the
  return after the last, `NotFound` the end of the directory. `LoadSoundDriver` is
  the rest of the constructor of `sound_sensor`. Attributes are read through
  cached streams, which are stale after a device was plugged out. `new`, `kept`
  and `steady` are history variables: whether the object had a path before, that
  no device was pulled at the entry since the search came to it, and the nodes
  that were there all the time.
- `SensorValue`. Each class with its methods, each method with the mode it sets,
  the index and whether it reads decimals; the drivers' tables (values and
  format per mode) are external. The accesses of a call are steps between which
  somebody else may set the mode; `quiet` says that nobody did.
- `RemoteControl`. `Process` reads the value, `Tell` handles one button after the
  other as `on_value_changed` does, `Told` is its end and the assignment of
  `_value`. Any callback may throw. The sensor may be lent: `Proximity` is the
  program using it for something else.
- `Buttons`. `ProcessButton` is `process` of one button within `process_all`; a
  failing `ioctl` leaves the bits, and the size given to it is in words.
- `Leds`. Setting the trigger makes the kernel remove the attributes of the old
  one and add those of the new one, one by one and late (`Appear`). `OpenDelay`
  and `WriteDelay` are the two tries of `set_attr_int`, seen from one thread:
  a stream that is open is used again, good or not; a write to a stale one closes
  it and goes round once more (`tries`). Attributes may appear, and others may set
  the trigger (`MeddleTrigger`), between any two of these. Brightness has three
  levels.
- `Accessors`. A table of the methods of each class, the attribute that each
  names (`OtherNames` where it is not the method's own name), and operators for
  the line of a list (`GetAttrSet`, `GetAttrFromSet`), in which `NoText` is the
  empty word after the last space.
- `Sound`. `tone` turns a list of tones into the arguments of `beep`; `Heard` is
  what that program makes of them. `System` waits or does not. The sounds that
  play are in slots; one that is over leaves its slot to the next.
- `PidTest`. Keys, the end of the input, and devices that fail.

## 3. Runs

| Run | Configuration | Shows |
|---|---|---|
| `poller_crane` | 1 consumer, 2 fields, `==` ignores field 1, fair | `TypeOK`, `NoRace`, `CopyIntact`, `NoLostWakeup`, `ImplementsChannel`, `WaitersServed`, `TimedCallReturns`, `EndStopsWorker`, `StableReadingPublished` |
| `poller_newest` | 1 consumer, 2 fields, fair | `NewestReadingPublished` fails |
| `loop_machines` | the machine of `draft.cpp` and one with timeouts everywhere, fair | `ActionsOncePerVisit`, `StopTerminatesUnlessBlocked`, `TimedConditionTaken` |
| `loop_stop` | the machine with timeouts everywhere | `StopTerminates` fails |
| `loop_missed` | the machine of `draft.cpp` | `SatisfiedConditionTaken` fails |
| `application` | `draft.cpp`, `demo.cpp`, a program that ends | `AppTypeOK`, `DecidesOnReadings`, `EndPersists`, `ForeverOnlyWhereStarted` |
| `program` | the program that ends, with `Poller`, 1 field, fair | `ImplementsApplication`, `JoinReturns`, `StopTerminatesUnlessBlocked` |
| `attr_fits` | 2 threads, 2 files, size 2, all operations, symmetric | `TypeOK`, `NoUseAfterEviction`, `AbsentExplainsFailure` |
| `attr_evict` | 2 threads, 3 files, size 2, fair | `StreamOutlivesUse`, `CallsReturn` |
| `attr_stale` | 1 thread, 1 file | `ReadRecovers` fails |
| `devices` | `Brick`, all parts | `BrickTypeOK` and, per part: `ConnectedAsAnswered`, `NoDeviceMissed`, `ConnectsToMatch`; `ExclusiveAccess`, `ValueOfMode`; `MethodsDeliver`; `StateOfValue`, `ToldWhatIsHeld`; `StatesUpToDate`, `StateIsTold`; `LedsAsAsked`, `GivesUpOnlyWithout`; `ReadsBack`; `TonesAsAsked`; `GainFollowsKeys` |
| `bin_stale` | `SensorValue` alone | `BinDataIsValues` fails |

**Bounds.**

- *Poller.* Fields have two values: enough to tell two readings apart in each
  field, which is all that a torn copy or a lost update needs, and with one value
  ignored by `==` enough for a change that is not published. Two fields allow a
  copy that is half done. No counter or queue is bounded. There is one consumer,
  as in the programs. With two consumers and one field all of these properties,
  liveness included, were checked once (226,080 states, about five minutes, too
  long for a regular run); the safety properties and the refinement are proved
  for any number.
- *EventLoop, Application, Program.* There is one consumer. Readings are one for each
  field that a condition looks at and one at rest. Durations are -1 to
  `MaxElapsed`: limits lie at 0, so that 1 would do, and with 2 there is one more
  beyond. The second machine of `loop_machines` contains overlapping conditions
  whose order matters, a transition to the same state, a state whose transitions
  lead to `nullptr`, and two actions in a state. `application` starts each of
  three programs; the third (`P`, `Q`) ends by itself, which neither program of
  the repository does, so that `end` and `join` are reached without `stop`.
  It alone is in `program`, started in `P`, which waits for a reading, or in `Q`,
  which has a timeout; it is small, but it has an end, a state of each kind, and
  conditions on readings and on the time (`MaxElapsed = 0`: set back, or not). A
  reading has one field: torn copies are the subject of `poller_crane`.
- *DeviceAttr.* The caches hold 2 streams where the program has 16: what matters
  is whether the files in use fit, which `attr_fits` and `attr_evict` vary, and
  the theorems hold for any size. `attr_evict` calls `set_attr_int` only, the
  operation with two attempts, in which lookups of a call can follow each other;
  each cache is used by one kind of operation.
- *devices.* Two nodes of sensors and `Replugs = 3` changes of the hardware: a
  device is plugged in before a search, and can go and be replaced under the same
  name between two accesses of it.
  Two threads and two devices, one of which is used in two modes. All classes of
  sensors with all their modes. `Codes` of the remote are none, one button, two
  and the beacon. Two of six buttons are pressed by somebody. LEDs have two
  delays, 0 among them, and the six attempts of the code. `writes <= 2`: a fault
  in the table shows with two attributes. Tones of none to four numbers, in lists
  of up to two, with `MaxSounds = 2` programs playing at a time. The gain of
  `PidTest` moves by `MaxStep = 3`. `LongBytes = 4` is `sizeof(long)` on the
  brick: the `ioctl`, which is given the number of words, then fills 24 bytes, and
  all buttons lie in them (with 8 it would fill 12, too few for four of the six).

`CHECK_DEADLOCK FALSE` is in `MCApplication.cfg` only: `main` returns, or an
exception ends the process. In all other runs deadlock is checked.

A configuration that needs a definition in place of a constant names one of the
`MC` module that is only another definition's name (`MCActions == AllActions`):
TLC evaluates the latter once, but the former whenever it is used.

**Fairness.** In `Poller`, weak fairness of the worker and of each consumer says
that threads are scheduled. Strong fairness of the two steps that acquire the
mutex says that a thread that keeps trying gets it: owners keep it for a few
instructions, then sleep or wait for milliseconds. Strong fairness of `Timeout`
says that the deadline, which is absolute, is reached in spite of spurious
wake-ups. Nothing is assumed of the sensors, of exceptions, or of the callers
of `work`, `copyTo` and `end`. In `EventLoop`, weak fairness of the loop's steps
says that the thread is scheduled, that actions and conditions terminate, and
that `copyTo` returns when it can, which is `TimedCallReturns` and
`WaitersServed` of `Poller` (with one consumer, a flag that is up stays up until
it returns). Publishing, the clock, `stop` and exceptions are not fair.
`Application` states no fairness, since `Program` does: that of `Poller` for the
two steps that acquire the mutex and for the timeout, and weak fairness of
`main`'s thread and of the poller's, each as a whole: the sensors may never
change, and the poller may fail. That `copyTo` returns, an assumption in
`EventLoop`, is a consequence there, and `StopTerminatesUnlessBlocked` is
checked again without it. In `DeviceAttr`, weak
fairness of each thread's steps; the kernel may remove and create files for
ever. `Brick` states no fairness.

**What failed.** Five statements of the documentation or of comments do not hold
of the code; each has a run with a counterexample and an entry under `findings`:

1. `poller_newest`: changes that `operator==` ignores are never published.
2. `loop_stop`: a `stop` that comes just before line 20 of `run` is overwritten.
   `StopTerminatesUnlessBlocked` shows what remains true: a `stop` that is not
   overwritten works, unless the loop waits in a state without timeout for a
   change that does not come (the FIXME at `EventLoop.hpp:29-33`).
3. `loop_missed`: a state without timeout does not look at a reading that the
   previous state has already received. In `draft.cpp`, if the touch sensor is
   pressed during state D, state A does not notice until another change.
   `TimedConditionTaken` shows that states with a timeout do not suffer.
4. `attr_stale`: `get_attr_int` does not notice a stale stream, although it has
   a handler for that case; it returns 0, and will do so again.
5. `bin_stale`: the array of `bin_data` keeps the size of the mode of its first
   call.

Properties that hold under a condition name it, and the condition is where the
code stops helping: `DecidesOnReadings`, `EndPersists` and `JoinReturns` need a
start state without timeout, because nothing in `main` waits for the first
reading; `EndPersists` and `JoinReturns` also need that nobody called `stop`, or
an `end` can come before the `work` that overwrites it. `ConnectedAsAnswered` is
about objects without a path, because `connect` leaves the path of an earlier
connection when the directory has no entry to reject. `ConnectsToMatch` needs that
nobody pulls the device of an entry while its attributes are compared (`kept`):
without that condition TLC finds an object that is connected to the device that
replaced the one whose address was compared. `GivesUpOnlyWithout` and `LedsAsAsked` are about
calls during which nobody else changes LEDs. `ToldWhatIsHeld` excepts
functions that throw and a sensor that was lent and used in another mode.
`AbsentExplainsFailure` excepts `set_attr_string`. `JoinReturns` covers a poller
that has failed, but a machine that waits in a state without timeout is then
stuck: nobody tells it, and `main` never gets to `end`.

## 4. Proofs

All constants are arbitrary: any set of consumers, any number of fields and set
of values, any comparison; any machine, start states and commands; any threads,
devices and statements; any files and size of the cache. The assumptions are
`ThreadsAssumption` (worker, consumers and the value for "no owner" differ),
`RunnerAssumption` (in a program, the event loop is the only consumer),
`DataAssumption` (at least one field, `Same` is Boolean), `MachineAssumption` and
`ProgramAssumption` (the constants of a machine and of a program have their
types; for the instance in `Program` this is `ConstantsAssumption`), `ControlAssumption` (statements are sequences of accesses),
`CacheSizeAssumption` (not 0), `AttributesAssumption` (finitely many files), and
for the parts of `Brick`:

- `ConnectAssumption`: `Absent` is not the number of a node, `Replugs` is a number.
- `SensorAssumption`: the values for "no class" and "no access" are no others.
- `RemoteAssumption`: 0, nothing held, is a code that the sensor can return on
  another channel.
- `ButtonAssumption`: only buttons are pressed, and `sizeof(long)` is 1 to 4, as
  it is on the brick. This one is necessary: with longs of 8 bytes the `ioctl`
  would be told the size of a part of the buffer only (see the bounds), and
  `StatesUpToDate` would not hold of the buttons beyond it.
- `LedAssumption`: delays are numbers, 0 is one, `Unset` is none.
- `AccessorAssumption`: what attributes hold before is not a trigger of the list;
  "no object" is not a class.
- `PidAssumption`, `SoundAssumption`: the bounds are numbers, `MaxSounds` not 0.

Every instance above satisfies them, and TLC evaluates them in its runs.
`ControlAssumption` also says that there is a statement.

`PollerProofs`. None of the safety properties is inductive alone, except
`NoLostWakeup` (with types). The invariant `IInv` adds to `TypeOK`:
`MutexInv`, the owner of the mutex follows from the threads' places; `RefInv`,
the worker's reference still denotes the shadow buffer; `CopyInv`, a copy in
progress is of the visible buffer and intact so far; `DiffInv`, the buffers
differ from the comparison to the announcement; `TimeoutInv`, only timed calls
expire and an untimed copy implies the flag. The interesting steps are
`ReadField`, harmless for a copy because of `RefInv`, and `Flip`, which by
`MutexInv` happens while nobody copies. Theorems: `TypeCorrect`, `NoRaceHolds`,
`CopyIntactHolds`, `UntimedGetsFreshHolds`, `NoLostWakeupHolds`, and
`Refinement`: every step of `Poller` is a step of `SnapshotChannel` or leaves
its variables unchanged. The lemmas of the latter, one for each kind of step
(`SilentStutters`, `RaisePublishes`, `CallCopyToCalls`, `FinishCopyReturns`), are
used again for `Program`. `UntimedGetsFresh`, which says something of its own only
with more than one consumer, is not in a run: with one, `ImplementsChannel` implies
it.

`EventLoopProofs`. `IInv` adds to `TypeOK`: the current state is not `nullptr`
where it is dereferenced, the actions performed so far are a prefix of those of
the state while it is entered and all of them afterwards, and at the loop's
condition they are all or none according to whether `previous_state` equals
`current_state`. Theorems: `TypeCorrect`, `ActionsOncePerVisitHolds`.

`ApplicationProofs`. `StepRefines`: every step of `Application` is one of
`EventLoop` or leaves its variables alone, hence `RunsEventLoop`, and `IInv` of
`EventLoopProofs` holds in programs too. `AppInv` adds: readings come from a
poller whose `work` has begun (`Begun`); before the first reading a machine that
waits for one is still in its start state (`Waiting`); when `run` has returned
unasked, there has been a reading (`Ending`). So `work` had set `working_` before
`main` resets it, and the `end` is not overwritten. Theorems: `AppTypeCorrect`,
`RunsEventLoop`, `DecidesOnReadingsHolds`, `EndPersistsHolds`.

`ForeverOnlyWhereStarted` is not a property of every program: it needs one whose
states stop the motors that other states have left running. That is the
hypothesis `StopsWhatRuns` of the theorem `ForeverOnlyWhereStartedHolds`, a
formula about the constants only: whenever a transition leads from `s` to another
state `t` (`Follows`), the actions of `t` give a command to each motor that those
of `s` leave running for ever (`RunsOn`). `MCApplication` contains it as an
`ASSUME`, so that TLC evaluates it for `draft.cpp`, `demo.cpp` and the third
program. `MotorInv` says where each motor stands when the actions of a state are
performed one by one: as the previous state left it until the first action that
commands it (`AsLeft`), then as that action said (`AsCommanded`).

`ProgramProofs`. `ProgInv` is the invariant of `Poller` and `Link`: the machine is
at "wait" exactly while its thread is in `copyTo`, and the poller's thread is in
`work` only after it was started. All steps of `Program` are steps of `Poller`
(`PollerSteps`) except `Prepare`, which overwrites a `Data` object outside
`copyTo` and so harms no copy (`PrepareInv`); hence `ProgramKeepsPoller`. The
refinement goes by kind of step: those of `work` (`WorkRefines`), of `copyTo`
(`CopyRefines`), of `main` where they use the poller (`MainRefines`) and where they
do not (`MachineRefines`). Steps of two threads that the channel does not show are
stutters (`Unseen`); the others become steps of the channel by the lemmas of
`PollerProofs`, and steps of the machine together with what happens to `lpc` and
`taken`. With `ProgramRefinement` the theorems of `ApplicationProofs` and
`EventLoopProofs` are cited, not proved again: `AP` is a second instance of
`Application`, the one that comes with the proofs, and `SameSpec` says that the
two are the same. This gives `ProgramKeepsPromises` and
`ProgramForeverOnlyWhereStarted` for programs with the real poller.
`CallbacksUnlockedHolds`: the machine's thread owns the mutex only inside `copyTo`,
so that neither a slow action nor one that throws keeps the poller from swapping.

`CraneControlProofs`. The invariant says that a thread with a handle owns the
mutex of the device, and that the device is still in the mode the thread has set:
an access of another thread to the same device contradicts the first part.
Theorems: `ExclusiveAccessHolds`, `ValueOfModeHolds`.

`DeviceAttrProofs`. The lemmas about `LruCache` say that `operator[]` keeps the
list within its size and without repetitions (`AccessSound`) and destroys nothing
while the files fit (`NothingEvicted`, by counting: a list without repetitions
that lacks a file is shorter than the set of files). With `CachesSound` as
invariant this gives `NoUseAfterEvictionHolds`. For `AbsentExplainsFailureHolds`
the invariant `IInv` adds `Exclusive`, `GapInv` and `RetryInv`: the second
attempt starts with a closed stream that nobody else opens, so that if it is
stale again the file was absent in between.

The last section is about more files than fit. `UseInv`: the items ahead of a stream
in use are files that others have looked up since (`InUse`). A lookup moves a
stream back by at most one place, behind the file looked up (`AccessAhead`), and
destroys only the last of a full list, ahead of which are `CacheSize` - 1
different files, all looked up by others, as is the new one
(`StreamOutlivesUseHolds`).

`DeviceProofs`, one section for each of four parts.

- `DeviceConnect` (`ConnectedAsAnsweredHolds`, `NoDeviceMissedHolds`,
  `ConnectsToMatchHolds`). `ConnectInv` adds: a stream that works belongs to a
  node that is there (`GoodStreams`), the attribute that is about to be read is
  open (`OpenForReading`), what has been compared at an entry matches the device
  there now, or any value was asked for (`ComparedMatch`), an object without a
  path has none between two entries (`NoPathYet`), a port is asked for after a
  success only (`PortOfNode`), and what has been there since the search began is
  there (`SteadyPresent`). `ComparedMatch` is what makes attributes that were read
  at different times those of one device: a device that stays keeps its
  attributes, one that comes changes nothing about an entry that has passed
  without a device, and one that goes ends `kept` (`ComparedStep`). `PassedOver` is
  the reason why no device is missed: unless its stream was stale, the attribute
  that an entry is rejected for is the one that the node has.
- `SensorValue` (`MethodsDeliverHolds`). `CalledMode`: while a method is executed
  the mode is its own; `GotInMode`: what it has read so far was read in that mode;
  `NotThrown`. That the number of values exceeds the index of each method is a
  lemma about the tables of classes and modes (`MethodInRange`).
- `RemoteControl` (`StateOfValueHolds`, `ToldWhatIsHeldHolds`). `RemoteInv` says
  what has been told while `on_value_changed` is half done: the buttons before
  `next` of the new value, the others of the old state.
- `Buttons` (`StateIsToldHolds`, `StatesUpToDateHolds`). `ButtonInv` says of the
  buttons that `process_all` has looked at that their state is what is in the
  buffer; `AllFilled` that every button lies in what the `ioctl` fills.

`BrickProofs`, in the same way, and then the composition.

- `Leds` (`LedsAsAskedHolds`, `GivesUpOnlyWithoutHolds`). `FlashInv`: after
  `delay_on` was written it stays as written until `delay_off` is, because the
  kernel only adds what is missing while the trigger stays. `OffInv`: the LEDs
  that `all_off` has passed are off, and the first has disabled the timer.
  `FileInv`, for `GivesUpOnlyWithout`: a stream that works has its file, and the
  second try of `set_attr_int` opens a closed stream and so writes to one that
  works, unless others have set the trigger in between (`TriesInv`).
- `Accessors` (`ReadsBackHolds`). `Corresponds`: the attributes that were written
  are those of the methods used, with their values. It is inductive because no
  two methods of a class share an attribute (`AttributesDiffer`), except the one
  that lists the triggers, which cannot be written. `TriggerList`: the line of
  triggers is read as all of them, and as the one in brackets.
- `PidTest` (`GainFollowsKeysHolds`). The gain is one key behind what was typed
  while the key is acted on.
- `Sound`: the types only.
- `Brick`. A step of `Brick` is a step of one part and leaves the others alone,
  so that a behaviour of `Brick` is one of each part (`BrickIsItsParts`), and it
  keeps all that is proved of them (`BrickTypeOKHolds`, `BrickKeepsPromises`).

The invariants from `ConnectInv` to `PidInv` were also model-checked on the instance
of `devices`.

Only model-checked: all liveness (`WaitersServed`, `TimedCallReturns`,
`EndStopsWorker`, `StableReadingPublished`, `StopTerminatesUnlessBlocked`,
`TimedConditionTaken`, `JoinReturns`, `CallsReturn`), since the prover does not
handle fairness; and `TonesAsAsked`, which is about sequences that are flattened
and searched recursively.

## 5. What is left

1. Two consumers in a regular run of the poller, with liveness.
2. The liveness properties of `Program` for the machine of `draft.cpp`; only the
   program that ends is in a run.
3. Several threads in `SensorValue`, now one object and an environment.

## 6. Not modelled

- `lcd`: it maps the frame buffer and fills memory that nothing else reads.
- `Logger`: text that is written and never read; `localtime`'s buffer, shared by
  all threads, is a hazard for that text only.
- `type_name`, the tables of LEDs and ports of other platforms (BrickPi),
  and the values of speeds, positions and periods.
- `setPeriod`: durations are abstract, so that it has no effect in the model.
- Copies of a `remote_control` that owns its sensor, `operator*` of `Safe` and
  `lru_cache::clear`, which nothing in the repository calls.
- `src/pidtest/ev3dev.cpp` and `ev3dev.h` are byte for byte the files of
  `lego_fw/src`, and `src/pidtest/pidtest.cpp` is the program of `PidTest` without
  handles; the models refer to the files of `lego_fw/src`.
- The code generator's templates and the scripts, which run on the developer's
  machine; the unit tests, which were read for what they expect.
- The C++ memory model beyond what `NoRace` states.
