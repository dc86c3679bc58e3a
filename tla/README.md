# A formal model of MEEN

MEEN (`src/`) is a library that emulates an Intel 8080 machine: a user attaches a memory
controller and an io controller to a `meen::Machine`, registers handlers, and calls
`Run`, which executes the cpu at a given speed, services the interrupts the io
controller generates, and loads and saves the state of the machine while it runs. This
directory holds TLA+ modules for its parts, configurations with which TLC checks small
instances of them, and theorems about them that TLAPS checks.

Everything is modelled for the default build: `std::async` (not the Raspberry Pi Pico),
ArduinoJson, base64, zlib, `ENABLE_MEEN_SAVE`, the `switch` instead of the opcode table,
assertions off.

## 1. The system

| Part | State | Operations |
| --- | --- | --- |
| **Machine** (`source/machine/Machine.cpp`) | the two controllers, the handlers, `opt_`, `running_`, `quit_`, `initOnceFlag_` | `Attach`/`Detach...Controller`, `On...`, `SetOptions`, `Run` |
| **RunMachine** (same file, a function of the thread `Run` starts or calls) | the two futures `onLoad`, `onSave`, `totalTicks`, `lastTicks` | `cpu_->Execute`, `serviceInterrupts`, `checkHandler`, the end of the Run |
| **The load and save tasks** (lambdas of RunMachine) | the string of the load, the snapshot of the save | `onLoad_`; `onSaveBegin_`, writing a file, `onSave_` |
| **loadMachineState** (a lambda of RunMachine) and the snapshot of `ISR::Save` | memory, `romMetadata_`, `ramMetadata_`, the registers | load a program or a saved state; save |
| **Intel8080** (`source/cpu/8080.cpp`) | registers, flags, `pc_`, `sp_`, `iff_`, `hlt_` | `Execute` (256 opcodes), `Interrupt`, `Reset`, `Load`, `Save` |
| **CpuClock** (`source/clock/CpuClock.cpp`) | `totalTicks_`, `tickCount_`, `error_`, `epoch_`, `lastTime_`, `time_` | `SetSamplingFrequency`, `Reset`, `Tick` |
| **Opt** (`source/opt/Opt.cpp`) | `json_`, a json document of options | `SetOptions`, accessors |
| **Utils** (`source/utils/Utils.cpp`) | none | `BinToTxt`, `TxtToBin`, `Md5` |
| **ErrorCode, factories, bindings** | none of their own | messages, constructors, adapters |

How they interact:

- The user's thread configures the machine and calls `Run`. With `runAsync` `Run` starts
  RunMachine by `std::async` and runs the idle loop itself; without it, it calls
  RunMachine on its own thread, which asks `onIdle` from `serviceInterrupts`.
- RunMachine alternates between `cpu_->Execute`, `clock_->Tick` (which sleeps) and,
  every `ticksPerIsr` ticks or when the cpu is halted,
  `ioController_->GenerateInterrupt`.
- `ISR::Load` and `ISR::Save` make a future each, on a thread of its own (`loadAsync`,
  `saveAsync`) or deferred until it is waited for. The result of a load is given to
  `loadMachineState` on the thread of RunMachine, by the service that finds it ready.
- The cpu keeps raw pointers to controllers that the machine owns.
- Handlers and controllers may call the machine back, during a Run too.

What is hard, and what makes each part correct:

- *Machine*: four threads, two futures, a `quit_` that outlives a Run, and an interface
  that can be called from a handler. Loads and saves must exclude each other; nothing
  may outlive `Run`; the configuration must not change under a running thread;
  `ISR::Quit` must complete what is outstanding; `Run` must return; errors must be
  reported; interrupts must be serviced in time.
- *State*: a load consists of many steps any of which may fail, and blocks of rom may
  touch, overlap or begin at one offset. Rom and ram must together be the memory, and
  apart; the rom must be what the program gives; what was saved must come back, and must
  be loadable with every codec.
- *Opt*: the text of a user is checked on its own and then merged into a document that
  other texts made.
- *Intel8080*: the carry and half carry of every operation, DAA, words that wrap, stacks
  that wrap, interrupts between any two instructions.
- *CpuClock*: the host oversleeps, the sampling frequency changes between Runs, and the
  error of one sample is corrected by the next. No tick may be lost or paid twice.

`PROJECT.json` lists, under "hazards", each of these at its line with the properties
that would notice it going wrong, or why there is none.

## 2. The modules

A definition named `D_Something` is `D` with a plausible bug (a dropped guard, a missing
reset, a swapped order). Nothing uses it: it shows that some property can tell it from
`D`.

**`MachineSession`** is the promise of an `IMachine`, without threads: configured only
while stopped, at most one transfer at a time, none queued, stopped only when none is
left.

**`Machine`** is the code. `api` says where the thread that calls `Run` is, `pc` where
RunMachine is, `onLoad` and `onSave` the stage of each future with its task. One action
is a stretch of code between two points at which another thread, or a handler, can come
in between: an interface method, `Service(i)` (a call of `serviceInterrupts` that got
interrupt `i`, up to its first wait), `PollLoad`, `WaitLoad`, `PollSave`, `WaitSave`
(`checkHandler`, as it is reached by polling or by a wait), `Execute` with its `Tick`,
`LoadTask`, `SaveBegin`, `SaveComplete`, `IdleTest`, `IdleCall`, `DropSave`, `DropLoad`
(the destructors of the futures, which wait) and `WaitForCompletion`. Interface methods
are enabled in every state, as handlers may call them. `cause` and `fault` are history:
why this Run stops, and what became of the last error. The options are the document
`opts`, and `SetOptions` sets any of `Texts`. Restart interrupts act alike here and are
one value `Rst`; what a load does to the cpu is its three ways of ending.

Two ways of stopping differ, and the model keeps the difference: `ISR::Quit` waits for
both futures and applies the load; a quit that `onIdle` asks for leaves the loop and the
destructors drop the load's result.

**`Opt`** is the document of the options and what `SetOptions` does to it: a text does
not parse, is refused (a negative `isrFreq`), or is merged. A document is an object,
null or a scalar; the values of its members are the classes that the code tells apart.
`Machine` extends it.

**`MachineState`** is `loadMachineState` and the snapshot of `ISR::Save`, each one
action: both are executed by RunMachine between two instructions. A program is a list of
blocks of rom, each with the error it may end in (refused before anything is written,
torn after a file was partly read), an optional ram and a cpu. Addresses are `0..Top`,
where `Top` stands for `0xFFFF`. The loop over the blocks is written without iteration:
a cell is what the last block that writes it gives, an offset has the size of the first
block that starts there (`std::map::emplace`), and the loop ends at the first block that
fails. `Gaps` computes the ram from the rom as the loop at Machine.cpp:634-652 does:
behind the block that precedes in the map, wherever blocks before that end. Json and md5
are their effect on the bytes, and the rom checksum is the comparison of the bytes. The
loops that read the blocks of a map for a save and fill them by a load are written
without iteration too: the byte of a cell is at the number of bytes that the blocks
below its own have (`Before`) and its place in that block. A saved state is a program
whose ram is a uri; the model keeps with it, as history, the memory and the rom map it
was saved from. `Restart` is the `Reset` at the start of a Run. `loaded`, `outcome` and
`sound` are history: what was loaded last and how that ended, and whether the maps are
those of a load that succeeded (a load that failed before it changed a map leaves them
so).

**`Utils`** is `BinToTxt` and `TxtToBin`: every choice of the code, over encodings that
are what was done to the bytes. It also has the uri of a saved ram, and what a load
takes off its front. `NoneDecoded` is what base64 makes of the letters of `none://`, in
the instances a sequence longer than any ram, and any sequence of bytes in the proofs.
In the program it is three bytes, which only a machine with exactly three bytes of ram
takes for its ram; `RoundTrip` excepts that case (`Misread`).

**`Intel8080`** is the cpu. An opcode is taken apart as the octal number `xyz`, which is
how the switch and the table are laid out, so that one action models all opcodes of an
instruction. `status_` is the set of the flags that are set. `Unmapped` is what an
address without a cell reads; writes to it are ignored. `NotImplemented` returns 0
ticks, which RunMachine takes for a halted cpu. `image` is history.

**`InterruptedCpu`** puts a cpu that is interrupted between any two instructions next to
one that executes the same program undisturbed. `Ei` takes effect at once in this code,
not after the following instruction as in an 8080, so the handlers of the instance nest
between their `EI` and `RET`.

**`CpuClock`** is the clock with the host's `steady_clock` as the variable `now`. `Over`
and `Gap` are how much the host adds to a sleep or spin and between two readings. A
sampling frequency enters as the interval in nanoseconds; the cast to `int` is `Narrow`.

The modules `MC...` hold the values of the constants for TLC. `MachineProofs`,
`MachineRefinement`, `MetadataProofs`, `MachineStateProofs`, `CpuClockProofs`,
`Intel8080Proofs`, `ProgramProofs` and `InterruptProofs` hold the theorems.

## 3. The runs

| Run | What it shows | Bounds |
| --- | --- | --- |
| `machine_threads` | safety of the threads, the inductive invariant, refinement of `MachineSession` | texts that reach the eight settings of the flags, a malformed and a refused one; every handler but `onLoadComplete`, which is one more way for a load to fail silently; `ticksPerIsr` 2, ticks 0 and 1 |
| `machine_quit` | no dangling pointer, frozen configuration; `ISR::Quit` ends the Run; `onIdle`'s quit ends it and loads and saves are collected, given a lull | two controllers (replaced, and one object for both roles), texts for the asynchronous options and two that wipe the options, three handlers |
| `machine_errors` | *violated*: errors of `cpu_->Load` never reach `onError` | the three handlers involved |
| `machine_init_fails` | *violated*: a Run whose `onInit` failed never returns | two handlers |
| `state_round_trip` | every cell is known, the rom is as given, a saved state comes back, is refused only for its rom, and changes nothing when refused | four addresses of which the program writes two, bits as bytes, one register, seven programs that cover each layout and each failure, four codecs of which two fail |
| `state_uncompressed` | *violated*: a state saved with the compressor "none" cannot be loaded | as above, two programs |
| `state_cleared` | *violated*: the byte at `0xFFFF` is never cleared | as above, two programs |
| `state_registers` | *violated*: a saved zero is not loaded | as above, two programs |
| `cpu_programs` | known programs compute what they should; every opcode is executed; what is put on the stack comes off it | decimal and binary sums and differences, a product, a recursive sum, a bit count; one instruction of each opcode from several flags and registers |
| `cpu_interrupts` | a program does not notice its interrupts | subtraction of two words, two handlers, two frames |
| `clock_pace` | accounting, speed and sampling | host clock to 12, a tick of 2, four intervals and both special ones |
| `clock_forward` | *violated*: in a second Run the clock jumps back | as above |

Why the bounds are enough. The threads of `Machine` share Booleans and stages, so its
only number is `since`: with `ticksPerIsr` 2 the loop services after one, after two and
after zero ticks. One controller of each kind suffices for the threads, two for
identity. In `MachineState` four addresses leave room for a block in front of, between
and after others, for blocks that touch, lie in one another or share an offset, and for
the last address. In `state_round_trip` the cpu writes the addresses 0 and 2, each of
which is rom after one program and ram after another (and 0 is rom, 2 both rom and ram,
after the nested one); the other addresses are written by loads alone. The sample
programs of the cpu put code, operands and stack where an address or its low byte wraps,
and choose operands at the carries. `HostMax` 12 is six ticks, enough for several
samples with errors, for a change of frequency and for two Runs; 12 is also an interval
that `Narrow` makes negative. The bounds of the model itself are `HostMax` and
`MaxFrames`; none of them is a variable of the program. `cpu_programs` and
`cpu_interrupts` explore the states their images reach; the theorems of
`Intel8080Proofs` are about every image.

Fairness. `Fairness` is weak fairness of each thread of a Run: the host schedules it,
and the handlers it calls return. The user's calls have none. `machine_quit` needs no
more: the delivery of the quit is `QuitReturns`' hypothesis. `IdleReturns`,
`LoadCollected` and `SaveCollected` have `Lull` as theirs: when RunMachine can service
again and again, the io controller infinitely often has no interrupt. This is an
assumption about the user's io controller, not about the code, and it is needed: only
`NoInterrupt` asks `onIdle` and polls the futures, so an io controller that always has
an interrupt pending starves both.

## 4. The proofs

Every theorem holds for all values of the constants under the assumptions each module
names. There is no other assumption, except in `ProgramProofs` and `InterruptProofs`,
whose theorems say which machines they are about.

*`MachineProofs`.* `IInv` is inductive. None of its parts is on its own: mutual
exclusion needs `Deferred` (a transfer without a thread is found only where it is waited
for) and `RunPhases` (a Run is in progress exactly while its threads are in it, and no
future exists before the loop and after the destructors); `QuitDrains` and
`StopsForAReason` need `Stopping`, which ties `quit`, a `quit_` left by an earlier Run
and the interrupt being serviced to `cause`; `IsrLatency` bounds `since` at the one
place where the cpu executes. Each action preserves each part, and the safety properties
of `machine_threads` and `machine_quit` follow, with the two action properties
`ConfigFrozen` and `LoadNeverReplaced`. The module begins with the options, about
`Merge` for all documents and texts: legal options stay legal (`MergeKeepsLegal`, which
the type invariant of `Machine` needs), the last text that names an option decides it,
`nullptr` restores the defaults unless a scalar was set, and texts compose.

*`MachineRefinement`.* The initial states of `Machine` are initial states of
`MachineSession`, and under `IInv` every step is a step of the session or a stutter. The
mapping forgets the threads: a Run is in progress while `running_`, a transfer is
outstanding while its future is not empty. A second request maps to a stutter, which is
what "not queued" means.

*`MetadataProofs`.* What a save reads of the blocks of a map and what a load fills into
them, for every map in range. The sums `Size` and `Before` are folds, so the module
first shows what a sum over a finite set is, and does without an induction theorem: a
set for which it failed would have a smallest one (`SmallestOf`), and that contradicts
the one an element smaller (`FoldExists`, `FoldsAgree`, `SumWithout`). `Before` grows by
the size of each block passed (`BeforeStep`, `BeforeGrows`), hence every byte belongs to
one block (`BlockOfByte`), and `ReadCell` and `FillCell` say where a cell is read and
written. `FillRestores` joins them.

*`MachineStateProofs`.* `MapsInv` is inductive for every memory, program and codec: both
maps stay in range, after a sound load the ram is `Gaps` of the rom, the memory has a
byte at each address, and what is saved has the checksum of a rom, a ram and all
registers. Hence `RefusedHarmless`: checksums write nothing, and the ram is decoded and
measured before it is written. The rest is about `Gaps` for any map in range: the gaps
are in order (`GapsInOrder`, hence no two start at one address), with the blocks they
leave no cell out (`GapsFill`, nested blocks or not), and they miss the blocks if none
lies in another (`GapsMissBlocks`). `EveryCellKnown` and `RomAndRamPartition` follow.
`RomAsGiven` needs `ApartMaps` besides: blocks that lie apart make a map without
nesting, so what a load clears or fills afterwards is none of their cells. The least and
the greatest address of a set, on which `Gaps` rests, exist by well-founded induction
(`MinOf`, `MaxOf`).

`TypesHold` follows from `MapsInv`, which has the types of what a saved state holds.
`RoundTripHolds` needs of the state before the load that what is saved is what was read
of the memory kept with it (`IsSaved`). The load succeeded, so its checksum was that of
the rom and vouches for the rom's cells (`SameRead`); the ram came back byte for byte
through encoder and compressor, or the load would have been refused but for `Misread`;
both maps are those of the save, and by `EveryCellKnown` they leave no cell out. Nothing
is assumed of the layout: where blocks nest and a cell is rom and ram, both give the
same byte. A step that is no load falsifies the left side. `OnlyAlienRomIsRefused` is
the converse: when the rom is the one that was saved, every stage of the load of a
compressed state succeeds, as the ram that is decoded is as long as the ram there is.

*`CpuClockProofs`.* `Accounting` with the order of the readings and the sign of `error_`
is inductive for every period, interval and host; `NeverFast` follows as `error_ <= 0`,
and `SampledInTime` from the guard of the branch that does not sample.

*`Intel8080Proofs`.* `Sound` (types and the shape of the status byte) is inductive for
every memory and program: every instruction keeps every register within its width.
`FlagsKept` says of each instruction which flags it leaves alone. `AddIsSum`,
`SubIsDifference` and `AdjustIsDecimal` are about the operators for all bytes: carry and
half carry are those of the sum, the carry of a difference is the borrow, DAA gives
decimal digits. `ComplementSubtracts` is one round of the subtraction of decimal numbers
that 8080 programs use, whose complement may have a half of ten: `AdjustDigits` says
what DAA does with it. `Bits` and `Value` are inverse (`BitsOfValue`, `ValueOfBits`), so
that the logical instructions act on each bit (`LogicIsBitwise`) and a status byte
survives a push and a pop (`PswReturns`). `StackIsReturned` is the action property
`StackReturns` for every memory that has cells where the stack is: pushes, calls,
restarts and interrupts leave what a pop or a return takes off again, at address 0 too.
The status bits that are no flags have constant values and are not in the model; `Load`
of the cpu (8080.cpp:421) does not mask them, and images are assumed to have them right.
The module ends with what the proofs about programs need: `Decoded` says that an opcode
is one instruction and no other, and a lemma for each instruction (`LxiGoes` to
`HltGoes`) what the step is then.

*`ProgramProofs`.* What the programs of `MCIntel8080` compute, for all operands: any two
words for `DifferenceOfWords`, any two numbers of four decimal digits for
`DecimalSumOfNumbers` and `DecimalDifferenceOfNumbers`, any two bytes and any flags for
`ProductOfBytes`, any byte and any flags for `ParityOfAnyByte` and `BitsAreCounted`, any
byte and any stack for `SumOfNumbers`. Each but the last assumes the cells of the
instance, and that a machine of its kind starts with the program of that kind and some
operands; what else is in `Images`, what an input gives, what an address without a cell
reads and which restarts are tried is arbitrary. `RunsAreCovered` shows that the images
of `cpu_programs` are such machines. The invariants `Looping`, `DecimalLooping`,
`Multiplying`, `Counting` and `Recursing` say for each place of a program what the
pointers, the counter, the carry and the cells hold there. No interrupt is enabled while
a program runs (`QuietSteps`), and no store reaches the program (`ByteStored`).

- For the loops over two bytes that is said with the bytes and the carries that the two
  rounds make of the operands (`IsRound`, `IsDecimalRound`), and it is arithmetic that
  there are such bytes and that they are the result (`DifferenceRounds`,
  `DecimalRounds`, `DecimalDifferenceRounds`, from `SubIsDifference`, `AdjustIsDecimal`
  and `ComplementSubtracts`).
- For the product it is `Partial`: with e rotations left, the bits of the multiplier
  that have left c have been multiplied, those that have not and the carry of the
  beginning are still in c.
- For the bits it is `Rolled`: after n rotations the byte is split into the bits that
  have come round and those that have not, and c is the number of ones (`Ones`) of the
  former. After eight all have (`RollsRound`), and the parity flag, which the model
  takes from the bits of the byte, agrees with that count (`ParityTold`).
- For the recursive procedure it is the stack. `Slot(k)` is the byte k below the stack
  the machine began with, modulo 65536, and `Content(k)` what the calls leave there:
  return addresses, and the b of each caller. `Descending(d)`, `Returned(d)` and
  `Ascending(d)` are the places of the dth call, with 4 d + 2 bytes stacked. A push adds
  two slots and changes no other (`StackGrows`, `SlotsApart`), a return and a POP find
  what was pushed (`ReturnAddress`, `SavedByte`), and `HL` is the sum up to the byte of
  the call that returns. `IsSum` asks for cells where the stack will be and for code
  that is elsewhere: a stack that grows into the code is the guest's mistake.
  `SumsHaveRoom` shows that the stack of the instance, which wraps at address 0, is room
  enough to sum up to 4.

*`InterruptProofs`.* `InterruptsUnnoticed`, for handlers and programs of the guest, so
it is an implication. `GivesBack(plan)` is about the handlers alone: a plan names their
code and, for each place in it, the register pairs that are on the stack there; each
place is a PUSH or POP of the pair that comes next, an instruction that changes only
pairs that are saved, an `EI` with nothing saved before a `RET`, or that `RET`.
`Disciplined(plan)` and `Grows(plan)` are about the program when it is not interrupted:
its stack stays in the region of the plan with room for the nested handlers below it, it
does not overwrite them, and it reads no port and nothing below its stack.
`DisciplineIsEnough` says that then no interruption is noticed.

The invariant `Unnoticed` has the two cpus agree on all cells that are not below the
stack of the quiet one (`Agreed`); `Nested` says of the return addresses that the
outermost is the quiet cpu's `pc_` and every other one the place between an `EI` and its
`RET`; `InHandler` says which pairs are saved, in which order, and that the others are
still the program's. A step of both cpus keeps them alike if it fetches and reads alike
(`InstructionTogether`, one case per instruction); an interrupt adds a frame below all
that matters; a handler's step moves along the plan. `Nested` is needed because this
code enables interrupts at once: a handler may be interrupted between its `EI` and its
`RET`, by another or by itself.

`SubtractionIsUndisturbed` drops the hypotheses: `SomePlan` is the plan of the two
handlers of `cpu_interrupts` (`PlanGivesBack`), and the invariant `QuietRuns` shows that
the program is disciplined for any two words (`ProgramIsDisciplined`), so the property
holds of it for every `MaxFrames` up to nine, which is what fits into the cells below
its stack; the run has two.

Only model-checked: liveness, as neither fairness nor ENABLED is within the provers'
reach. Every invariant and every action property of the passing runs is stated by a
theorem. The refinement is proved and checked.

## 5. What the code does that its documentation does not say

Six disagreements are shown by runs (the ones marked *violated*) and recorded under
"findings". Further ones were met while modelling and follow from the code:

- A program loaded into a halted cpu stays halted: `Load` keeps `hlt_` and `iff_`.
- `ISR::Save` before any load yields a state without ram (Machine.cpp:705), which a load
  refuses; README.md:343-344 does not restrict when a state may be saved.
- "Omitting the 'registers' object will reset all registers to zero" (IMachine.h:374);
  the ArduinoJson branch (8080.cpp:409-422) leaves them unchanged.
- "When no protocol is specified in the uri, file:// will be used" (IMachine.h:241); a
  save to such a uri is a `uri_scheme` error (Machine.cpp:989-1003).
- "Passing in a json string of nullptr will set all options to their defaults"
  (Opt.h:88): it merges the defaults, and after a text like `5` or `[]`, which passes
  the checks and replaces the document, no text has an effect any more (Opt.cpp:50,
  `ResetRestores`). After `null` the options read as false and empty until they are set
  again.
- `maxLoadStateLen` is not checked. A negative one makes the string of the load throw,
  as does a handler that throws; the exception leaves `Run` through the future or
  directly, and `running_` stays set, so that the machine can neither be configured nor
  run again. The model's handlers return.
- Offset and size of a block of rom are ints whose sum is compared with 0xFFFF; the
  model's are natural numbers and do not overflow.
- The comment of `DetachMemoryController` (IMachine.h:108) names the io controller.
- The checksum of the rom is over its bytes, not over its map (Machine.cpp:903-906).
  Blocks that overlap are read twice, so a state saved from one layout may have the
  checksum of another layout that covers other cells or has other bytes there; it is
  then loaded, if the ram has the same size. `RoundTrip` and `SavedStateLoads` therefore
  speak of the rom with the same blocks.
- A state saved without a compressor is taken by a machine with exactly three bytes of
  ram, which get what base64 makes of the letters `none://`.
- The error that `onSave` returns for a state that was written is discarded
  (Machine.cpp:958-962); it is reported only for a state that was not (`SaveComplete`).
- The uuid of a cpu is compared only when the state has a ram (Machine.cpp:767-773):
  without one the registers of another cpu are loaded (`LoadCpu`). With one the cpu is
  refused after rom and ram have been written.
- What the machine is ahead or behind at the end of a Run, and the ticks it had not
  sampled, are carried into the next Run (`carried` in `CpuClock`).

Blocks of rom may overlap: the code keeps them in a map sorted by offset but does not
compare them. When one lies in another, the cells of the outer one behind the inner are
ram as well, and are cleared by the load that wrote them. `RomAndRamPartition` and
`RomAsGiven` therefore speak of blocks that do not nest; `EveryCellKnown` holds for all.

## 6. What is not modelled

- The Pico build, which replaces the threads by a second core and loads on the thread of
  RunMachine, and the Windows branch of the clock: other programs under the same
  interface.
- base64, zlib, md5 and json: pure functions of third-party libraries. Their errors are
  modelled where they change the control (`Utils`); md5 is taken to tell roms apart.
- The builds with nlohmann's json, without base64 or without zlib. The first merges with
  `json::update` and throws where ArduinoJson returns a default.
- `ErrorCode`, a table of messages, and the factories, each of which returns a new
  object.
- The Python bindings: what they add is whether the lock of the interpreter is held
  while a handler runs, and that is decided by the interpreter and the binding library.
- Exceptions that leave a handler (see section 5).
- The test controllers, `Intel8080::Adi`, which nothing calls, and the debugging output.
- The timing of an instruction relative to a controller that reads the clock.

## 7. How the development is laid out

The threads of `Machine` with their invariant and refinement came first, then the state,
the clock, the cpu and their proofs, then the options, the codecs and the proofs about
the metadata maps, then those about what is saved and loaded, about the stack, about
whole programs of the guest and last about interrupts. What remains to be done:

1. Composition of `Machine` with `MachineState`: a load applied at the points where
   `loadMachineState` is called, with a save requested meanwhile. Both are
   atomic between two instructions, so the two modules already meet at `LoadMachineState`
   and `ServiceSave`; a composition would carry the memory through the threads.
2. Drift of the clock over several Runs.
