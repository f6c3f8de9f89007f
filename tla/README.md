# Moberg, in TLA+

Moberg is a C library through which control programs read and write analog,
digital and encoder channels of I/O hardware. A configuration file says which
channel of which device is `analog_in[0]`, `digital_out[3]` and so on; drivers
are plugins; Java, Python, Julia and Simulink have bindings.

This directory holds TLA+ modules for the parts of it that keep state and can
get it wrong, TLC configurations that check them on small instances, and proofs,
checked by TLAPS, that hold for any number of devices, channels and clients.
References like `moberg.c:198` are to the repository's source.

## The system

| part | state it keeps | operations | hard because |
|---|---|---|---|
| configuration loading: `moberg.c` (`moberg_new`), `moberg_config.c`, `moberg_device.c` | the list of devices per file and of all files, per device the list of mapped channels, the table `index -> channel` of each kind, the pending `dlclose` calls | parse a file, join configurations, install the channels, prune the devices nobody uses, run the deferred actions | use counts of two kinds of objects go up and down while four lists change; files, blocks, opens of libraries and allocations fail in the middle; later mappings replace earlier ones |
| runtime handle: `moberg.c` | `open_channels`, `should_free` | open and close of five kinds of channels, `moberg_free` | the struct is freed by whoever comes last, through objects whose code is in libraries that have to be closed after them |
| parser: `moberg_parser.c` | token, position in the file | `acceptsym`, `acceptkeyword`, driver and map blocks | driver plugins parse parts of the file themselves |
| libtest plugin: `plugins/libtest` | use counts; constant values | the lifetime functions of a driver | a template of the two others |
| serial2002 plugin: `plugins/serial2002` | the port (descriptor, count, remap tables), read and write buffers, the batch of samples with its expiry | open the port and read the device's configuration, poll and read inputs, one by one or batched, write outputs | a serial line loses, delays and cuts messages; a timeout does not stop the answer; the port is closed and opened again |
| comedi plugin: `plugins/comedi` | the device file with its count, use counts | open a channel (file, range, direction, route), close, read, write | an open has four steps after the first count was taken |
| Java binding: `adaptors/java` | counted lists of open channels, the counted struct, the allocation map of `IOChannel` | open, close, read, write, garbage collection | the finalizer thread closes channels beside the program |
| Simulink blocks: `adaptors/matlab` | the same lists for the blocks of a model; the timer of `realtimer.c` | the phases of an S-function | initial conditions may be set again without an end |
| Python and Julia bindings | an object per struct and per channel | construction, call, collection by the garbage collector | order of destruction; a second initialisation |
| command line tool, start and stop scripts | none | shell commands for the devices in use | - |

The library calls a plugin through the functions in `moberg_device.h` and
`moberg_channel.h`; a plugin calls back `moberg_deferred_action`. Bindings call
`moberg_new`, `moberg_..._open`, the `read` or `write` of the handle, and
`moberg_..._close`. Nothing in the library takes a lock: it serves one call at
a time, and what runs beside it are the device, the clock and, under Java, a
second thread.

What makes each part correct:

- loading: counts are exact at every step, the table never dangles, the last
  mapping wins, the devices that are kept are those that are used, loading ends;
- handle: a close finds the channel that was opened, `open_channels` is exact,
  the struct goes when it is unused and asked for, then nothing is left, and
  nothing freed is touched;
- serial2002: what is read is what was written, a timeout costs one message,
  samples are fresh and never returned twice, the port is open while it is
  used, every call returns, the configuration does not depend on its order;
- comedi: the file is open while it is used, counts are uses, open channels are
  usable, what is unused is freed;
- parser: it accepts the language of configuration files, says what it would
  have accepted, and ends;
- bindings: a channel is closed as often as it was opened, through a struct
  that is still there.

`PROJECT.json` lists the hazards behind these, each at its line.

## Modules

| module | models | state and actions |
|---|---|---|
| `Plugin` | lifetime functions of the plugins, `moberg_deferred_action` | operators on a heap: `new_context`, `device_up`, `device_down`, `init_channel`, `channel_up`, `channel_down` carry the names of the C functions |
| `MobergLoad` | `moberg_new`: parsing, joining, installing, pruning | `pc` is where the thread is; one action per step of the C code; every list allocation may fail where `AllocMayFail` |
| `Moberg` | the handle: open, close, `moberg_free`, teardown; composes `MobergLoad` with clients | `open_channels`, `should_free`, per client what it has open |
| `MobergHandle` | the abstract handle: what clients are promised | slots become available, are kept until closed, are reclaimed |
| `MobergInductive` | the inductive invariant `IInv` of `Moberg` | - |
| `PluginProofs`, `MobergProofs` | lemmas about lists and the heap operators; the theorems about `Moberg`: those that follow from `IInv` alone, and those about steps and about what a completed load holds | - |
| `SerialCodec` | `serial2002_write` and `serial2002_read` byte by byte | operators without state, nothing recursive |
| `SerialLine` | `tty_write`, `serial2002_flush`, `tty_read` around the codec: a writer, a line and a reader | buffers, positions, timeouts anywhere; a byte carries the number of its message, which no step looks at |
| `SerialConfig` | `do_read_config`, `check_config`, the remap tables | which entries came; their values are data |
| `Serial2002` | the driver: port, reads, batch sampling, writes; beside it the device, the line, the clock | a message of the protocol is one step, `SerialLine` has its bytes; time counts samples, so a sample is known by when it was taken; `world` says how the line may behave |
| `Comedi` | the comedi driver under a loaded handle; uses `Plugin` | `comedi.count`, the file, clients |
| `MobergParser` | `moberg_parser.c` and the `parse_config` and `parse_map` of the drivers | the functions are data: blocks of code that accept symbols and test for alternatives; `accept` and `refuse` are the two outcomes of `acceptsym` and `acceptkeyword`; a token is chosen where the scanner is called |
| `MobergGrammar` | no code: the reference grammar, and what it allows after a sequence of tokens | - |
| `Library` | the library as bindings see it: one step for each call; `Moberg` implements it (`CallsAsInLibrary`) | operators on structs, named after the C functions |
| `Binding` | what the Java and the Simulink binding share: the counted struct (`up`, `down`) above `Library` | the variable `g`, of which each program has its own; operators on a record |
| `JavaMoberg` | constructor and `finalize` of `IOChannel` above the native opens and closes; a program thread and the collector | the lists and bits, per object where it is in its life; the step of a thread is one native function or one operation on a bit set |
| `Allocation` | the abstract promise of `IOChannel`: a channel has one holder | `Allocate`, `Deallocate` |
| `FoldProofs` | no code: induction over finite sets, and what the folds of the community modules compute | - |
| `ComediProofs` | the theorems about `Comedi` | - |
| `BindingProofs` | the theorems about `JavaMoberg` and `SimulinkMoberg`, with one account of the struct they share | - |
| `SerialProofs` | the theorems about `Serial2002` | - |
| `SerialLibProofs` | the theorems about `SerialCodec`, `SerialLine` and `SerialConfig` | - |
| `ScriptProofs` | the theorems about `PythonMoberg` and `JuliaMoberg` | - |
| `SimulinkMoberg` | the S-functions and `libmoberg4simulink`, one handler per step, under the phases of the engine | the lists, the work vectors of the blocks |
| `ScriptMoberg` | what the Python and the Julia binding share: an object per struct, an object per channel | `state` of each object; `stray`: the library was called with NULL or a struct that is gone; the properties |
| `PythonMoberg` | objects under reference counts; `python2` and `python3` differ in the module's initialisation only | one action per constructor and deallocation; the last reference takes the `Moberg` object with it |
| `JuliaMoberg` | objects under finalizers, and `close` by hand | `drop`, `close_by_hand`, `finalize` of any object in any order |
| `MCMoberg`, `MCSerialLine`, `MCSerial2002`, `MCScripts`, `MCJavaMoberg`, `MCSimulinkMoberg` | instances for TLC | symmetry sets, messages, the device of two inputs, addresses |

How the abstraction goes, where it is not obvious:

- A device or channel in `Moberg` stands for an address, allocated at most once:
  a use after free is visible as a use of something `"freed"`.
- A configuration file is what it makes the parser do: any sequence of blocks
  and map statements, with a failure anywhere. The text is not there.
- The five lists of channels are walked in any order in the teardown; the code's
  order is one of these.
- In `Serial2002` the configuration of the device is one message; a sample read
  in its place is an entry, an end of configuration or an error, depending on
  its value, so all three are possible.
- In `Serial2002` a timeout may fall inside an answer (`serial2002_lib.c:84`, `:152`; `Cut` in
  `TimedOut`): what came of it is thrown away, but stays behind in the read buffer
  (`BEGINNING`), and what is still to come is a message of its own (`REST`), which
  is taken for a sample of any input, for an error or for nothing (`ReadAs`, `read_rest`). A
  value that was read from one is `GARBLED`. An answer of a sample is taken to be two
  bytes or more, and its rest to be short enough to be a message; the answer with the
  configuration is cut as one.
- In `Serial2002` a write() that stops inside the bytes of a value leaves `TORN` on
  the line. What the device makes of it and of the next message is not in this
  repository: any output may get a value nobody wrote, or none.
- In `MobergParser` the blocks of the parsing functions have the names of what they
  parse; the grammar that judges them is written from the statements, not from
  the control flow. It compares identifiers with keywords as the parser does, and
  orders its keywords (`KeywordOrder`): an identifier that abbreviates several of those
  that may come stands for the first. The names in `Productions` and that order
  are the reference; no document of the repository has them.
- In `ScriptMoberg` addresses of structs are not used again, so that a late call
  is seen for what it is.
- In `Comedi` loading is over and the teardown is one step: `Moberg` has both in
  detail. What `comedi_close` returns is left out: a close that fails there returns its
  error, but the count and `open_channels` went down all the same (`comedi.c:280`,
  `moberg.c:350`).
- Lines that start with *Seeded fault* define variants of an action with a
  plausible bug. No specification uses them; each of them breaks a property
  when it is put in the place of the action, which shows that the property can
  be broken.

## Runs

`tlc -config <cfg> <module>`; the runs are listed in `PROJECT.json`. The type
invariant of `Moberg` is part of `IInv`; elsewhere `TypeOK` says what the
variables hold.

| configuration | shows |
|---|---|
| `MCMoberg_faults` | list allocations may fail anywhere: use counts are exact at every step, the table never dangles, code outlives its contexts, a close finds its channel, `open_channels` is exact, also when opens are refused; the inductive invariant `IInv` of the proofs holds |
| `MCMoberg_promise` | without failing allocations the last mapping wins, the devices kept are those in use, nothing freed is touched, nothing is held when the struct is gone, freeing ends, and `Moberg` implements `MobergHandle`, its liveness included (that loading ends is part of it), and the calls of `Library` |
| `MCSerialLine` | values on both sides of every length boundary are read as they were written and in order, wherever the buffers end; a timeout costs one message; everything gets through |
| `MCSerial2002` | in four worlds: without faults a read, single or batched, returns a sample of its input that is as new as its mode promises; with answers that are late, lost or cut by a timeout inside them, writes that fail half-way and opens that fail, the port is open and locked exactly while it is used, no sample is returned twice or out of order, OK means sampled unless an answer got lost or cut, every call returns, and when all is sent the outputs have what was written last |
| `SerialConfig` | inputs that are offered are complete; numbering does not depend on the order of the entries |
| `MobergParser` | texts of any length: what is accepted is the language of `MobergGrammar` for the driver of each block, no alternative is missing from an error message and none is left over in it, every loop takes a token each time round |
| `Comedi` | open channels stay usable when other opens fail; until an open fails, file and counts are exact and everything is freed |
| `MCScripts` | Python and Julia programs: whatever objects go in whatever order, a channel that is held is open in a live struct, no finalizer calls the library with a struct that is gone, and what is collected is freed |
| `MCJavaMoberg` | however the collector cuts into constructors: channels are allocated exclusively (`JavaMoberg` implements `Allocation`), lists and struct count what is open, also for subclasses that share a channel and for objects whose constructor threw |
| `MCSimulinkMoberg` | however opens fail: the library is used exactly as the lists say and through one struct, blocks hold pointers of their own, a simulation that ended or failed to start gives everything back |

Two runs end in a counterexample: the code does otherwise than what is stated
of it.

| configuration | what happens |
|---|---|
| `MCSerial2002_replay` | a port that is opened again keeps `read.count` (`serial2002.c:473`): the configuration answer the last session left in the buffer is taken for the new one, and the new one, which comes later, is what the first read finds in the place of its sample: it returns `ECHRNG`, without any fault of the line |
| `Comedi_leak` | an open that fails after `device_open` keeps the uses it took (`comedi.c:325-379`) |

More that the code does and the models show, without a run of their own (each
is found by checking the named formula in the named configuration):

- `OkMeansSampled` fails in `MCSerial2002`: a batch counts answers, not inputs
  (`serial2002.c:186-226`), so that a late answer and a lost one, or the rest of a
  late answer that a timeout cut, make a read return OK with nothing read.
  `SampledUnlessLost` is what is left of it.
- `FreshRead` without its condition `Faultless` fails there too: a read that
  follows one that timed out returns the sample of the one before
  (`serial2002.c:247`), and so does every later read of the input.
- `LastWriteWins` without `~misunderstood` fails: when a write() stops inside a
  value (`serial2002_lib.c:35`), its first bytes are sent again with the rest of
  the buffer, and the device may be left with a value nobody wrote.
- Closing a Julia channel by hand and letting its finalizer close it again
  (`AnalogIn.jl:18`) gives back the use of another object with the same channel,
  or calls the library with a struct that is gone: `NoStrayCall` and `LiveIsOpen`
  name it as an exception. Using a `Moberg` object after its `close` is the other.
- A second `__init__` of a Python `Moberg` (`python-moberg.c:77`) leaks the first
  struct with the channels that are open in it: `replaced` in `GoneWhenCollected`.
- An abbreviation of a keyword is taken for the first one tested that it begins
  (`moberg_parser.c:245`): `map analog[0] = ...` maps `analog_in`, and in the
  configuration of serial2002 `b;` is a syntax error, although `batch_sampling;`
  is not, for `b` is `baud`.
- The repository's `README.md:19-43` documents a syntax the parser does not take:
  `comedi {` without `driver(...)`, a device path without quotes, `subdevice[4][0:7]` without
  braces. `MobergGrammar` is the language of the parsers.
- The check of analog outputs in `check_config` cannot be reached
  (`serial2002_lib.c:343-362`): `check_fails` in `SerialConfig` has the switch as
  it is, and incomplete outputs are offered.
- `nativeClose` gives the struct up before it closes the channel through it
  (`Moberg.c:203-210` of the Java binding). When the last channel of the process
  is closed, `moberg_analog_in_close` gets NULL: `crashed` in `JavaMoberg`, and
  `StructIsUsed` says that the struct is there for every other close.
- With two program threads in `MCJavaMoberg` (`Thread = {t1, t2}`)
  `BitsAreHolders` and `AllocationPromise` fail: both find a bit clear and both
  set it, for `allocate` is synchronized on the new object (`IOChannel.java:53`).

## Bounds

- `Moberg`: two devices, three channels, two clients, `MaxIndex` 2, `MaxText` 6;
  two kinds in `MCMoberg_faults`, one in `MCMoberg_promise`. Two devices compete
  for a slot and one of them is pruned; with index 2 an array grows from 2 to 4;
  three channels give one device several. Six pieces of text are two files with
  two blocks, or one file with two blocks of map statements. Devices, channels
  and clients are symmetric where no liveness is checked. The theorems do not
  have these bounds.
- `SerialLine`: buffers of 3 bytes (128 in the code) are shorter than the longest
  message of six, so that messages are cut by both buffers; two messages and one
  timeout, for a timeout concerns the message it hits and the one after it. The
  values are the two neighbours at each boundary where the number of bytes
  changes, and 2147483646, near the largest integer TLC has (five continuation
  bytes carry 32 bits). Index 30 makes messages end in the byte that is also the
  adapter's event character.
- `Serial2002`: two inputs, an output, two clients, `MaxPending` polls the device has
  not seen. A world bounds the faults (answers that get lost or cut and writes
  that fail), the clock in samples and the sessions of the port. `Calm`: no faults, 8
  samples, two batches and more. `Faulty`: an answer lost or cut or a write failed while
  others are late, 5 samples: an unsampled batch takes that. `Retrying`: the port
  is opened twice. `Writing`: reads and writes of one output, two failures, so that
  a value that was sent late is late again. `Reopened`, for the replay: two sessions
  without faults.
- `MobergParser`: no bound; the state of the parser and of the grammar is finite
  (maps do not nest). Words are all keywords, the drivers' names, abbreviations
  of one keyword, of several that go on alike (`analog`, `digital_`) and of two that go on
  differently (`b` and `ba`), and one that is none of these.
- `MCScripts`: two `Moberg` objects, three channel objects on two channels (two of
  them share one), three structs, for one `Moberg` object is initialised again.
- `SerialConfig`: two channel numbers, six entries: all there is to say of two
  analog inputs, contradicting entries for one number, properties that a kind has
  not got (command 3 of an analog channel, 1 to 3 of a counter) and kinds that do
  not exist, in every order. Which kind a contradicted number has does depend on the
  order: `OrderIrrelevant` is about the other devices.
- `Comedi`: three clients, three channels, two devices, two failing opens.
- `JavaMoberg`: four objects of two classes on two channels, one failing open;
  two objects contend, a third of the other class shares the channel, a fourth
  keeps the struct in use. Objects, classes and channels are symmetric.
- `SimulinkMoberg`: two blocks of one or two channels, which may be the same, two
  simulations, initial conditions set again once. Three structs where one can be
  in use, six elements where six can be.

`CHECK_DEADLOCK FALSE` is in every configuration: the library stops when it is
freed, and a bound stops the others.

## Fairness

- `Moberg`: `WF(LibraryStep)`. The library is single threaded and does not wait
  for anybody inside `moberg_new` or a close: a call that was entered is run to
  its end. Nothing makes a client call.
- `SerialLine`: `WF` of the writer's and of the reader's own steps, which are
  loops that only wait for bytes that are there.
- `Serial2002`: `WF(HostStep)`: a waiting call goes on when an answer is there
  or the time of `poll` is out (`serial2002_lib.c:84`). The device is under no
  fairness: it may stay silent for ever.
- `MobergParser`: `WF(Next)`: it is a function that runs. That it ends is not
  claimed, for the text may have no end; that it takes tokens is.

## Proofs

All the theorems are checked by TLAPS, to the last leaf. `MobergProofs` is about
`Moberg` for any finite set of channels, any sets of devices, clients and kinds, any `MaxIndex` and `MaxText`, with and
without failing allocations. The assumptions are the named `ASSUME`s of `Plugin`,
`MobergLoad` and `Moberg`, which TLC evaluates in every run.

`Invariance` is the core: `Spec => []IInv`. None of the safety properties is
inductive alone. That a use count is exact (`Counted`) is kept by `device_down`
only if the device was not freed before, which follows from who owns it; who
owns it depends on the lists being disjoint and without repetition
(`ListsSound`); installing is sound if what is still to be installed was never
up (`PendingUnused`), which needs the cursor; replacing a channel is sound if the
table holds channels that are up exactly once and at their own slot
(`TableSound`). `IInv` is the conjunction of these.

The argument has three layers:

1. The first part of `PluginProofs`: tails, appends and concatenations of sequences
   without repetition, and the cardinality of a set that gains or loses an
   element.
2. The rest of `PluginProofs`: each operator of `Plugin` preserves `HeapSound` for the set of
   owners it leaves, under a precondition on who holds a use.
3. `MobergProofs`: one lemma per action shows `IInv'`, from layer 2 for the heap
   and layer 1 for the lists.

From it follow `TypeCorrect`, `CountsCorrect`, `TableCorrect`, `LibrariesCorrect`,
`CloseCorrect` and `OpenCorrect`: the properties `TypeOK`, `UseCountsExact`,
`NoDanglingChannel`, `LibraryOutlivesContext`, `CloseFindsItsChannel` and
`OpenChannelsExact`.

The second half of `MobergProofs` builds on it. `FreedIsGone` is the action property
`NoUseAfterFree`: `IInv` says who holds a use of a device or channel, so what an
operation touches is live. `PromiseKept` is the refinement of `MobergHandle`, step by step: a
completed `moberg_new` makes slots available, `moberg_open` and `moberg_close` are the
abstract steps of the same name, the end of the teardown reclaims what is left,
every other step is a stutter; that the slots of the abstract state are those of
the table again needs `IInv`. The liveness of `HandlePromise` stays with TLC.
`CallsKept` is `CallsAsInLibrary`, for finitely many kinds of channels: it joins the models of the
language bindings to that of the library. A binding is verified above `Library`,
where a call is one step on a record; the theorem says that each call of `Moberg`
takes the struct (`Structs`: there is none unless `pc` is `"ready"`) where the operator of
the same name says, and that no other step shows. The crux is that the code asks
`open_channels` and `Library` the sum of the opens of all slots: `IInv` makes the one the number of
clients that have something open, and a sum of naturals is zero only if each of them
is (`OpensSum`).

The other three hold only where no allocation fails (`~AllocMayFail`, a hypothesis;
`MCMoberg_promise` is such an instance), and `IInv`, which holds in both cases, cannot tell. `NothingLost` is
what it lacks: a library that is open is pending or has a context
(`LibrariesPending`), a live channel has a use that the table or a client holds
(`HeldSound`), what is empty is empty (`EmptySound`), a device that survived the pruning has a channel in the table
(`PrunedSound`), and of the mappings installed so far each slot has the last
(`LaterWins`). TLC found it invariant in the instance of `MCMoberg_promise`; `NothingIsLost` proves it, and
`LastMappingCorrect`, `ConfigCorrect` and `TeardownCorrect` follow. `TeardownCorrect` is about what ever
got a use: channels of files that were discarded, or that `map()` refused, are
never freed (`moberg_device.c:103-114`, `libtest.c:308`).

`BindingProofs` is about `JavaMoberg` for any sets of objects, classes, channels and
structs. For `AllocationCorrect` and `AllocationRefined` there is one program thread (`Thread = {t}`, a
hypothesis; with two, the property fails, see Runs). `AllocationCorrect` is `BitsAreHolders`. It is not
inductive alone: that the set of a bit adds no second holder follows from a test
the constructor made two steps before, so `AllocationInv` adds that the bit is
still clear (`FreeIsClear`), which is kept because no other constructor is on its
way (`OneMaker`) and the finalizer only clears bits of objects that hold them
(`HeldIsSet`, `HeldOnce`). `AllocationRefined` is the refinement of `Allocation`: the
set of a bit is `Allocate`, its clear by the holder is `Deallocate`, every other step
leaves the holders alone. `CountsCorrect` is `CountsAreUsers` for any number of
threads: the users of a channel change by one object exactly where its list does.
`StructCorrect` is `StructIsUsed`, for any number of threads, if there is an address
for a struct at all (`Struct # {}`, a hypothesis; without one no open can succeed). `StructInv` adds to
the counts what is open through the struct: `Serves(g, n, o)` says that a struct
counted `n` times is the only one alive, that `n` is zero exactly if there is none,
and that each channel is open in it as often as `o` says. `up`, `down`, the opens and closes each
take one `Serves` to the next, also the last `down`, which frees the struct
because no channel is open any more. `JavaTypeCorrect` is `TypeOK` of `JavaMoberg`: that
every close finds what its open counted keeps the counts natural, and a list that counts
something has room for it (`RoomOK`).

The second half of `BindingProofs` is about `SimulinkMoberg`, for any blocks, any
channel vectors (also vectors that name a channel twice), any addresses and any
number of failures, sessions and resets; again under `Struct # {}`. `ElementsCorrect`
is `ElementsAreOpens`, `PointersCorrect` is `PointersAreOwn`, `ReleaseCorrect` is
`ReleasedWhenStopped`. The elements of the lists stand for the uses `Serves` counts
(`Uses`). `Owned` says that the pointers of the blocks are elements of their
channels and different from each other, so that a close takes out an element that is there and that no
other block points to; `Kept` says that without a reset there are no other
elements, so that nothing is left when the last block has ended. A handler is a
fold over the channels of its block: the lemmas `OpensFolded` and `ClosesFolded` give
the state after each prefix, by induction over an interval. What an open finds
there may be an allocation that fails, which ends the handler with an error.
`SimulinkTypeCorrect` is `SimulinkTypeOK`.

`SerialProofs` is about `Serial2002` for any finite set of clients, any inputs
without repetition, any outputs and any worlds, also those whose line loses and
delays everything. `PortCorrect` is `PortOpenWhileUsed`. It does not say that a call
that opens the port is the first one: without `OpeningAlone` its failure would
close the port under channels that are open. `NewerCorrect` is `NewerEachTime`.
The property is about the last read; `NewerInv` says why the next one is newer
too: what is not read yet stands in the order it was taken, first in the
buffer and then in the kernel (`InOrder`), all of it is newer than what was read
(`UnreadAreNewer`), and so is what a batch keeps than what was returned
(`KeptAreNewer`). The order is lost where the port is opened again with answers
in the buffer, which is why all this is under `sessions <= 1`. `LastWriteCorrect` is
`LastWriteWins`: the last message on its way to an output carries the value asked
for, and without one the output has it. `FreshCorrect` is `FreshUntilReopened`: without faults a call
finds neither buffer nor line with an answer to somebody else. `SampledCorrect` is
`SampledUnlessLost`: what is on the way are answers in the order of the requests, so
that a batch that saw its last input saw the others. Timeouts may fall anywhere, also
inside an answer; that counts as a fault, and `WholeInv` says that without one every message is
whole and read as what it is. `BatchCorrect` is `BatchFresh`: a batch that ended well began when its first request
was sent, and its values are answers to requests of its own. Beyond the first session
it is false, which TLC shows in a world with reopening, and for the reason of
`MCSerial2002_replay`: answers left in the buffer are taken for those of the next batch.
That is why the property is about the first session. They rest on the
assumptions of `Serial2002` that messages of the protocol are told apart: inputs,
outputs, `CONFIG`, `TORN`, `REST`, `BEGINNING` and `NULL` are different. `SerialTypeCorrect` is `TypeOK` of `Serial2002`,
for any number of sessions: what is sent is what one of the writes was given or a torn value,
also where a write fails and is repeated (`FlushTypes`), and a sample carries a time
the device has reached.

`SerialLibProofs` is first about `SerialCodec` and `SerialLine` for any set of messages,
any size of the buffers and any way `write()` and `read()` divide the bytes, with
any number of event characters and timeouts. The hypothesis is `ValuesFit`: channel values are below
2^32, which is what the five continuation bytes have room for (`serial2002_write`
masks the rest). `CodecInverts` says that reading the bytes of a message one by one gives the
message, with its last byte and not before: the conditional bytes of `serial2002_write` are
the digits of the value from the first that is not zero (`Written`), and after
each of them the read has the value without the digits to come (`Value`). The invariant `LineInv` is about the concatenation of the four
buffers (`Pending`), so that moving a byte from one to the next changes nothing:
for some `k`, the messages the reader has passed, it holds the rest of one
message and the later ones whole and in order (`Stream`); the reader has what the
codec makes of the bytes before, or a timeout has taken some of it
(`ReaderAt`); and the reads so far are those of the first `k` messages in order, correct where they are clean, with no
more missed than there were timeouts, the one that is torn at the moment included (`Account`). `CleanReadsCorrect` is
`CleanReadsExact`, `TimeoutsCorrect` is `TimeoutCostsOneMessage`. `BuffersCorrect` is `TypeOK` of
`SerialLine`, without `ValuesFit`: no byte is put beyond a buffer. That needs
`BuffersInv`: a byte is put only while no flush is due, when the buffer is not full.
(It is the sane side of a failed flush, see below: in this model the flush goes on.)

Its last part is about `SerialConfig` for any set of channels and any number of
entries. `ConfigInv` says that what is valid of a channel is what was told of the
kind it has (`Known`), and that an accepted configuration passed the check and is what
the tables are made of. `InputsCorrect` is `InputsComplete`, `OrderCorrect` is
`OrderIrrelevant`. That a table has channels of its kind and nothing else rests on `IndexTaken`: each index of a
finite set of numbers is the number of elements below one of them, by induction
over its subsets.

`ComediProofs` is about `Comedi` for any finite sets of devices and clients and any
number of failures. An open that fails leaves its count behind, so the invariant
says `Covers`: a count is at least its users, and exactly their number if no open
has failed. The first half gives `OpenUsable` (`OpenIsUsable`), the second `UsesExact`
(`UsesExactUntilFailure`). For the teardown, a fold over the devices and one over the
channels, the lemmas `DevicesFolded` and `ChannelsFolded` say what is left after each
subset of them, by induction: when every device has lost its owner and every
channel its entry in the table, no use is left. `ComediTypeCorrect` is `TypeOK`, also after
failures, when the teardown leaves a heap with uses (`TornHeap`).

`ScriptProofs` is first about `PythonMoberg` alone (`PythonSpec`), for any finite set of
objects, any managers, channels and structs. `PythonNeverStrays` and
`PythonLiveIsOpen` are `NoStrayCall` and `LiveIsOpen`. The invariant is why the counts
suffice: a Moberg object has a struct of its own that was not freed
(`HandlesAlive`), its count is the program's reference and those of its channel
objects (`RefsExact`), so that the struct goes with the last of them; a struct that
`__init__` replaced is never freed, so a pointer stays good (`PointersAlive`). `PythonTypeCorrect`
is the types of its variables. `PythonGoneWhenCollected` is `GoneWhenCollected`: besides that invariant, a struct nobody replaced
is alive only while a Moberg object has it (`Attended`), and its channels are open as
often as live objects have them, so that the last deallocation finds nothing
open and the struct goes with it.

Its second half is about `JuliaMoberg` alone (`JuliaSpec`), for the same parameters:
`JuliaNeverStrays`, `JuliaLiveIsOpen` and `JuliaGoneWhenCollected` are the same three
properties. They do not cover every Julia program: `NoStrayCall` excuses those that close a
`Moberg` object by hand (`close(m)` followed by `AnalogIn(m, 0)` calls the library with NULL), and
both `NoStrayCall` and `LiveIsOpen` those that close a channel twice. Here nothing counts references: finalizers run in any order, that of a
Moberg object before those of its channels too. What takes the place of the counts is
in the library. A struct is alive while its Moberg object has it (`HandlesOwn`)
or, once that was closed, while it has channels open: `moberg_free` only asks for
it and the last close frees it. So the opens of each channel of a struct are the
objects that have it, and the struct is there exactly while one of the two needs
it (`Cared`). A close by hand followed by the finalizer takes an open that is somebody
else's: nothing is claimed of a struct after that (`ClosedTwice`), and nothing of
objects after a call of a struct that is gone, but the types of all variables hold
to the end (`JuliaTypeCorrect`).

`FoldProofs` is what the proofs about folds and sums rest on. The induction theorems of the library take the
predicate as a parameter, which the provers cannot instantiate; `FiniteInduction` has a
set in its place, the subsets that have the property, and follows from the strict
subsets of a finite set being well founded; `UpTo` is the same for an interval of numbers. With them, a fold of the community
modules is the one solution of its equation (`SolutionsAgree`, `SumSolves`), and a sum over a
function changes by what one of its terms does (`SumChange`).

Model-checked only: `UnusedIsFreed`, `CallReturns`, `EverythingIsPassed`,
`HandlePromise` as far as it is liveness, `EveryTokenTaken` (liveness, which TLAPS cannot prove);
`AcceptsLanguage` and `ErrorNamesAlternatives` of the parser and its grammar (recursive
operators, on which the prover loses its SMT backend; the states are finitely many,
so TLC checks texts of any length, over the identifiers of `OtherWords`).

## What is not modelled

- Values: scaling of analog values, `interpret_value`, the constants of libtest.
- Writing past a buffer after a failed flush (`serial2002_lib.c:55`), reading
  past it after many timeouts (`:115`), channel 31 of arrays of 31 (`:332`), a clock
  that is set back (`serial2002.c:147`), and `timespec_add`, which carries above a
  second but not at one (`:127`): the models assume the sane side of each.
- `NewerEachTime`, `SampledUnlessLost` and `BatchFresh` are about the first session of the port:
  `MCSerial2002_replay` is what happens beyond. `UsesExactUntilFailure` of `Comedi`
  holds until an open fails:
  `Comedi_leak` is what happens then.
- Two native functions of Java at the same moment: the lists, the count and the
  bit sets have no lock, a step of `JavaMoberg` is one function. Memory for
  elements and structs of the bindings is found except where an open fails.
- A Simulink block whose channel vector is changed while it runs
  (`ssGetSFcnParam` is read again by `mdlTerminate`).
- A Python `Moberg` that was made by `__new__` without `__init__`, whose struct is NULL.
- Start and stop scripts and the tool: shell output for the devices in use.
- The scanner: characters, the digits of integers, strings and comments without
  an end. Also what a statement does beyond being accepted: a `timeout` without
  unit is zero (`serial2002.c:618`), a `route` holds for the rest of its map
  statement (`comedi.c:514`). The syntax in `README.md:22` of the repository
  (`comedi {`, paths without quotes) is not what the parser takes.
- Python's reads set an exception when they fail and return a value nevertheless
  (`python-moberg.c:276`): reads are not in the models of the bindings.
- The realtime block (`realtimer.c`): the arithmetic of one block with the clock.

## Plan

Done: `Plugin`, `MobergLoad`, `Moberg`, `MobergHandle` with their proofs; the
serial2002 modules; the parser; `Comedi`; `JavaMoberg` with the proof that it
implements `Allocation`; `SimulinkMoberg`; `PythonMoberg` and `JuliaMoberg`.

1. The scaling of values in serial2002 and comedi, as operators with bounds.
2. Native functions of Java in steps, for two threads inside them.
