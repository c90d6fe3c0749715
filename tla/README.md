# Verification of the NC2000 emulator

This directory holds TLA+ models of the emulator in `src/`: the machine (a
6502 with memory banks, NOR and NAND flash, interrupts, timers, a real-time
clock, an LCD and a key matrix), the programs that run it (an SDL program and
`nc2000_fb`, the one the device runs) and what connects the host to the guest
(keys, commands, file transfers, saved states, the host's clock). The models are
checked with TLC on small instances, and the properties that matter most are
proved with TLAPS for every value of the constants.

Paths are relative to the repository. The configuration modelled is the one
the program starts with: model nc2000, CPU `handypsp`, main loop 3
(`cpu_run3`), I/O version 2. The memory map is modelled for all five models,
and the instructions for both CPUs.
`packaging/build_deb.sh` builds with `NDEBUG`, so where an `assert` matters
the models have both builds.

## 1. The system

| component | state | operations | where it is hard |
|---|---|---|---|
| bank switching (`mem.cpp`, `rom.cpp`, `ram.cpp`) | eight page pointers `memmap`, 64 bytes of zero page swapped in from `ram_40` | writes of registers `00`, `0a`, `0d`, `0f`; resets; save and load | each handler rebuilds part of the table; a bank beyond the image is refused and the old window stays |
| NOR flash (`nor.cpp`) | array, information block, `fp_step`, `fp_type` | stores and loads through the map | a protocol of up to six stores which a bank switch, an interrupt or a reset may cut; a warm reset leaves it where it is |
| NAND flash (`nand.cpp`) | array, queues `nand_cmd`, `nand_addr`, `nand_data`, `nand_read_cnt` | command, address, data, read cycles | the queues are static and outlive resets |
| main loop (`cpu_loop_new.cpp`, `cpu.cpp`, `ansi/`) | the I flag, `g_irq`, `g_nmi`, vectors `iv_set`, `RCR0`, `do_warm_reset`, `udp_msgs` | one iteration: command, batch of instructions, timers, RTC ticks | nested interrupts, clock off, a wake-up carried out an iteration later |
| file transfer (`cmd.cpp`, `cmd.h`) | two queues behind address `0x3fff`, a program poked into the guest | `put`, `get` | a command cuts another one short; ordinary accesses of `0x3fff` |
| SDL keyboard (`main.cpp`, `key_new.cpp`) | SDL's queue, modifiers, `keypadmatrix`, `pro_key`, `fast_forward` | events of a slice | consolidation; the console takes keys away |
| console (`console.cpp`) | line, cursor, history | keys, text | indices into strings and a deque that get shorter |
| keyboard of the device (`port_fb/input_fb.cpp`) | `keypadmatrix`, the key table and its flag `yx_map_inited` | two threads write, the guest reads | no lock, no wake-up; the first event builds the table, in either thread or in both |
| key matrix scan (`NekoDriverIO.cpp`) | directions, latches and input registers of two ports | seven registers | inputs keep what an output left; ghosts |
| clock and alarm (`cpu_loop_new.cpp`, `io_new.cpp`) | time and alarm registers `rtc_reg`, protection | a 1/256 s step, writes of the guest, the host's time | any byte may be written as a time; carries compare with `==`; the alarm is looked for once a second |
| timers 0 and 1 (`cpu_loop.cpp`, `NekoDriverIO.cpp`) | two bytes, two prescalers' rests, four modes | `KeepTimer01` per batch, six registers | carries between prescaler, low and high byte, mode by mode; several overflows in a batch |
| time base (`cpu_loop_new.cpp`) | `cycles`, `last_cycles` | per batch | rates by truncating division; the clock turned off |
| save and restore (`nc2000.cpp`, `state.h`, `nor.cpp`, `nand.cpp`, `cmd.cpp`) | image files and a state file | `save_flash`, `save_all`, `delete_state`, `LoadNC2k` | a crash between two files, writes that fail unnoticed; what the state omits |
| pacing (`main.cpp`, `main_fb.cpp`) | `expected_tick`, `last_time_rtc`, `power_save` | one turn of `main_loop` | clamps, jumps of the wall clock, unsigned differences |
| LCD (`io_new.cpp`, `display.cpp`, `display_fb.cpp`) | address, mask and enable put together from four registers; buffers; the screen | register writes, resets, `Render` | an address in two registers, one shared with the timers; values derived from registers and not saved with them |
| sound (`sound.cpp`), speech (`NekoDriverIO.cpp`) | queues | main thread fills, audio thread drains | no lock, drops |
| UART (`iv_uart.cpp`) | four banks of registers at `3a`..`3d` | reads and writes | one address selects the bank, holds control bits and reports the vector; an interrupt handler shares it |
| CPU instructions (`ansi/w65c02op.cpp`; `compare/c6502.cpp` with `--cpu emux`) | registers, flags, stack | 256 opcodes, IRQ, NMI | two implementations, decimal mode, ends of pages, stack and address space |
| settings, icons and fonts, disassemblers, LVGL port, packaging | none that the models tell apart | | |

How they interact. The front end calls `RunTimeSlice`, which calls `cpu_run3`;
that executes instructions, whose loads and stores go through `memmap` (to RAM,
ROM or NOR), to registers (`io_v2_read`, `io_v2_write`: banks, NAND, ports,
interrupts, RTC, timers, LCD, UART) or to `0x3fff` (file transfer). `SetKeyWayback` changes
`keypadmatrix`, which the guest reads through the ports, and calls
`warm_reset_if_clkoff`. A UDP thread and the console push commands that
`cpu_run3` takes. On the device, two threads write `keypadmatrix`. After each
batch `cpu_run3` gives the cycles it took to the timers and takes from them the
steps of the clock, the time base and the samples; the main loop gives out
slices by the host's clock, sets the guest's clock when the host's has jumped,
and renders what the LCD's registers point at.

What makes each component correct is under "What is checked"; what could go
wrong, line by line, is the list `hazards` of `PROJECT.json`.

## 2. The modules

| module | models | uses |
|---|---|---|
| `FlashArray` | what a flash chip promises: programs clear bits of one unit, erases set a whole unit | |
| `MemoryMap` | the page table and the registers that drive it | |
| `NorFlash` | `write_nor0`, `read_nor`, resets | `MemoryMap`; implements `FlashArray` |
| `NorProtocol` | `NorFlash` with an observer of the unlock sequences, and of the selection of any command, among the stores | `NorFlash` |
| `NandFlash` | `nand_write`, `read_nand` | implements `FlashArray` |
| `NandDriver` | the guest's routines for the NAND, resets between bus cycles | `NandFlash` |
| `CpuLoop` | `cpu_run3`, `CPUInterface::execute`, interrupts, resets | |
| `CpuState` | registers, flags and memory that both CPUs share, the table of skipped opcodes | |
| `HandyCpu` | the default CPU: each opcode, IRQ, NMI, `CPUInterface::execute` | `CpuState` |
| `EmuxCpu` | the other CPU and `emux_exec_helper` | `CpuState` |
| `CpuCores` | both CPUs on the same program and interrupts | `HandyCpu`, `EmuxCpu` |
| `FileTransfer` | `put` and `get` and the programs they poke | |
| `Console` | `handle_console`, `input_text` | |
| `SdlKeys` | `main_loop`'s events and `handle_key_wayback` | `Console` |
| `FbKeys` | `evdev_thread`, `tcp_server_thread` | |
| `SaveRestore` | saving, loading, deleting; crashes, failed writes, restarts | |
| `Clock` | the time, its steps, the alarm, protection, `sync_time_2000` | |
| `Timers` | `KeepTimer01` and the registers of timers 0 and 1 | |
| `TimeBase` | how `cpu_run3` turns cycles into events | |
| `Uart` | the banked registers and the interrupt handler that shares them | |
| `Display` | the LCD's registers, `Render` of both builds | |
| `Pacing` | `main_loop` of both builds against the host's clock | |
| `Keypad` | `UpdateKeypadRegisters` and the registers of the ports | |
| `KeypadScan` | a guest that scans | `Keypad` |
| `*Proofs` | theorems: `MemoryProofs` about `MemoryMap`, `NorFlash` and `NorProtocol`, `NandProofs` about `NandFlash` and `NandDriver`, `CommandProofs` about `Console`, `FileTransfer` and `SaveRestore`, `SdlKeyProofs` about `SdlKeys`, `DeviceKeyProofs` about `FbKeys` and `KeypadScan`, `DeviceProofs` about `Clock`, `Timers`, `TimeBase` and `Uart`, `HostProofs` about `Pacing` and `Display`, `CpuLoopProofs` about `CpuLoop` | `TLAPS` |
| `MC*` | constants for TLC. `MCCommands`, `MCDeviceKeys`, `MCDevices` and `MCHostLoop` check several modules, one to a behaviour | |

An action of a model is one handler or one step of a loop of the code, whole,
with what it calls; the code's names are kept, and `map` in `PROJECT.json` has
the lines of each definition. Variables described as "history" in a module are
not in the code: they remember what a property compares.

Some correspondences that are not obvious:

- *One bit per byte.* Flash content is a set of cells whose observed bit reads
  0. Programming and erasing act on all bits of a byte alike, so one bit shows
  what any does. `BitWeight` says which bit of a store's data it is.
- *CpuLoop.* An iteration of `cpu_run3` is `StartLoop` (resets, commands),
  `StartBatch` or `SkipBatch` (clock off), at most `MaxBatch` instructions, IRQ
  entries, `RaiseTimers`, and at most `MaxTicks` ticks of the 1/256 s
  counter. Only instructions that concern interrupts are told apart; any other
  is `"other"`. A stack of frames stands for the guest's stack.
  `Disciplined = FALSE` is any guest at all, `TRUE` an orderly one, whose
  handlers keep I set, acknowledge what they find and return. Such a guest's
  NMI handler is over before the next tick (`TicksDue`), 1/256 s later. WAI and
  STP are not there: `illegal_op_byte` has them skipped before the switch that
  would execute them.
- *CPUs.* A machine is a record. `HandyCpu` has a row for each row of the switch
  of `CpuExecuteOP`, with the macro, the operand macro and the cycles of every
  opcode; the macros are operators. `EmuxCpu` names an opcode's functions by the
  instruction. Memory is plain: what addresses do is in the other modules.
- *NandDriver.* The byte sequences are those without which nand.cpp's own
  assertions fail; the guest's system software is not part of the repository
  and is marked external.
- *FileTransfer.* The program that `handle_cmd` pokes into RAM is a small state
  machine whose places are the calls and the accesses of `0x3fff`. The process
  may end at the 0 that closes a `get`, when the host's file cannot be opened,
  and in a Debug build at a byte that is neither 0 nor 1 (`Crash`). A file of the
  guest's that is missing is opened all the same and reads as an empty one:
  `handle_cmd` does not look, and what the guest's own services then say is
  external.
- *SdlKeys.* `main_loop` keeps the last event of each key of a slice in a map
  and walks the whole map again for each event it takes; `TakeKey` starts a
  walk and `Handle` does one key of it. Power save, which stops the guest after
  20 minutes without a key, is `Pacing`'s and `Display`'s.
- *FbKeys.* A thread takes an event, looks at the flag of the key table
  (`Takes`), builds the table if the flag is not set (`SetsFlag`,
  `init_yx_map`), looks its cell up (`LooksUp`) and writes it (`evdev_thread`,
  `process_remote_byte`); the other thread may do anything between two of these.
  Nothing orders the stores of `init_yx_map` for the other thread, so while one
  is at them the other finds for row and column each the right number, the -1 of
  the `memset` or the 0 of a fresh process (`Seen`), and may drop its event or
  write another cell. A matrix cell is an `unsigned`, written and read whole.
- *Keypad.* The bits of a port are a set of lines, so that the two loops over
  rows and columns become set expressions; the row a pulled-up column meets
  last decides, as in the loop's order. `pressed` is the matrix as a set of cells;
  `KeypadScan` changes it at will, whichever program runs.
- *SaveRestore.* An image is the number of the guest's step that last changed
  it, with the order of its halves; the state file holds a step and the images
  as that step knew them. A file is `Torn` from the moment it is opened for
  writing. Opening, writing and the end of a save are steps of their own, and
  the program may be killed before each of them. `adjusted` says what
  `LoadNC2k` has changed of the machine since its last step: with `load-state` the
  clock is set unless `no-sync` was given, and with `load-state-reset` the
  machine is warm reset. A state saved before the next step has it too.
- *Clock.* `rtc_reg` is a function of the registers' names. A step is the
  256th of a second; `bumpRTC` compares for equality, so a byte the guest has set
  beyond its range runs on to the end of the byte. `settled` says that the
  guest leaves the clock alone from now on.
- *Timers, TimeBase.* `KeepTimer01(d)` is given the cycles of a batch; `TimeBase`
  says which cycles these are, and how often the clock steps. The two histories
  `steps` and `bases` count events.
- *Uart.* A byte is the set of its bits. The main program and the handler are
  guests; `handler` says how far the handler has got.
- *Display.* A picture is a value, and one pixel is followed through the slow
  crystal. `RenderStep` is what `main_loop` does about the screen in a turn:
  nothing while it saves power (`asleep`), nor until the tick has reached another
  interval (`another`). When power is saved is `Pacing`'s; here it may begin at
  any time, and a key ends it.
- *Pacing.* Times are in slices and relative to now, so that the model has no
  clock that grows. The main loop's parts are steps, and time may pass, and the
  wall clock may jump, between any two.

## 3. What is checked

Every run passes, and TLC explores the whole state space of each.

| run | question and properties |
|---|---|
| `map_banks` | Through any sequence of register writes, resets, saves and restarts: every page exists and the first are RAM (`PagesSound`), the table is the one the registers ask for, or the window a refused switch left (`MapCoherent`), and a state that is loaded brings back the map the guest saw when it was saved, which no page pointer of the file tells, but for a window that waited for a bank (`RestoreSameMap`). |
| `nor_commands` | Stores of the command protocol among bank switches and resets: no assertion of a store fires, and where a bank is selected that lets stores reach the chip two reset commands make it idle (`NeverStuck`); a read is answered by anything but the array only after the three stores that select a command, with no reset command and no cold reset since, so a boot vector is one of the array's unless a warm reset hit there (`AnswersAreAskedFor`); the array changes as `FlashArray` says (`FlashPromise`), and no cell changes but by the last store of the whole unlock sequence of its own command since the last reset (`ModificationsAreUnlocked`). |
| `nand_checked` | A Debug build implements `FlashArray` whatever bytes a guest sends. |
| `nand_operations` | Both builds. Whole operations, after wild bus cycles in a Release build and with resets between any two cycles (`OperationsWork`): they change their own page or block, all of it and nothing else, and read what they ask for, nothing a reset left behind ends up in the array or makes a Release build, which goes on where a Debug build stops, ignore a confirm byte; and no assertion fires unless a reset disturbed an operation. |
| `cpu_any_guest` | Whatever the guest executes: a wake-up never throws a running program away (`WakeIsSafe`), and no vector is lost (`VectorsKept`). |
| `cpu_sleeping` | An orderly guest that turns its clock off: a timer status nobody has read is always signalled, with interrupts two deep (`StatusSignalled`); every vector is served, through clock off and wake-ups (`VectorsServed`); and a file transfer, which redirects the CPU and looks at nothing but the I flag, never does so inside a handler or a system call, nor before the first instruction after a reset (`TransfersInterruptNothing`). |
| `cpu_cores` | Each opcode with operands and registers at the ends of their ranges, followed by another instruction, with IRQ and NMI before either. Both CPUs come to the same registers, flags and memory in the same time (`CoresAgree`), but for named differences (section 5). ADC and SBC are right as numbers, with a sign and in decimal (`ArithmeticRight`). RTS, RTI after BRK and interrupts return to where and what they left (`ReturnsRestore`). |
| `commands` | The console: the cursor and the history index, used unchecked, stay in range, and the line being typed survives a walk through the history (`ConsoleInRange`, `SavedLineKept`). Transfers that cut each other short: `put` copies exactly, `get` appends to what earlier gets left (`TransfersDeliver`), nothing is swallowed but after a cut transfer (`LeftoversOwed`), and each transfer ends, with the process if the host's file cannot be opened (`TransferEnds`). Saves with crashes, failed writes and restarts: the state file is never newer than the flash images (`StateNotAhead`), and a program that loads the files of a save that went well goes on from there, with another clock or a reset CPU only if its options say so (`ResumesAsSaved`). |
| `sdl_events` | The matrix is what the user holds, but for keys whose last event the console or the reset button took or whose layout has changed (`MatrixFollowsKeys`); the reset button needs its three keys (`ResetNeedsChord`). |
| `device_keys` | With both queues read, the matrix is what is held on the device or by a TCP client, one that has gone included; but for the cells of events that one thread looked up while the other built the key table, until their keys' next event (`FbMatrixFollowsKeys`). A scan finds each key held throughout and none that never was, in each of the three ways to scan, after whatever was done to the ports before (`ScanIsHonest`). |
| `devices` | The clock counts the seconds of a legal time (`SecondsCounted`); from any bytes at all it comes back to a legal time, and then alarms ring (`ClockRecovers`), at their second and at no other (`AlarmOnTime`). No cycle is lost inside the timers, and interrupts come when a count starts anew (`NoTickLost`); a running timer goes on raising its interrupt (`TimerFires`). Clock, timers and time base get every cycle once (`RatesHeld`), and no sample is missed up to 256 per second (`SampleNotMissed`). An interrupt handler leaves the banked registers as it found them (`HandlerLeavesNoTrace`). |
| `host_loop` | The LCD's address, mask and the CPU's speed are what the registers say, whatever writes and resets came before (`RegistersObeyed`); the screen comes to show the last picture, or nothing, or the console, unless the SDL build saves power for ever (`ScreenFollows`). A stalled host is not made up for by a burst (`BurstBounded`), and the guest runs at most one slice on a clock that has become wrong (`ResumeSyncs`). |

### Bounds

- `map_banks`: every bit the switch code looks at takes both values; the bank
  numbers are the first and last of the image, the first beyond it, and both
  ends of the upper half. All five models. The theorems need no bound.
- `nor_commands`: all addresses of the protocol, one data address, all command
  bytes, data that clears or leaves the observed bit. Two pages of the map with
  different fates under a bank switch; models nc2000 and pc1000, whose windows
  differ. At most one byte is programmed beyond those of the image
  (`FewPrograms`), which is what an erase takes away and what a program in the
  next command may collide with.
- `nand_checked`: 32 pages of 4 bytes and one spare byte, blocks of 4, any
  bytes on the port. Row numbers need every address byte; areas, page ends and
  block ends occur within a few cycles. `nand_operations`: 8 pages of 2 bytes and one spare byte,
  blocks of 2, with the erase before a program that the code forces.
  `MaxCmd`, `MaxData` and `MaxReads` bound what wild cycles pile up; a whole
  operation after them goes beyond what they leave.
- `cpu_any_guest`, `cpu_sleeping`: a second has four ticks, so that NMI and
  vectors of different rates occur. Two vectors and one status bit: one comes
  while another is served. Frames nest twice, which is as deep as an orderly
  guest's do (proved). A batch has at most two instructions: resets and timers
  fall anywhere between two.
- `cpu_cores`: all 256 opcodes. Operands: zero page offsets of 7f, 80, fe and ff
  with index registers of 0, 1 and ff cross pages, or do not, in each mode, and
  branches go both ways over a page's end; the program starts 16 bytes
  before one. The stack pointer is ff, 2 or 1. ADC and SBC take 14 values each
  way. One more instruction follows (`MaxSteps`), which is what a return from a
  call needs; memory holds all opcodes.
- `commands`: three parts that share no state are checked one to a behaviour, so
  the run's size is the sum of theirs. Transfers: two names, an empty file and
  one with the bytes that `0x3fff` gives a meaning, three commands: one to leave
  something, one to be cut short, one to end; two bytes at most are left by
  ordinary stores. Console: lines of three characters, two lines of history;
  texts of one and two characters reach both sides of a limit. Saving: two steps
  of the guest, so that a file can be from before, between and after; two of the
  three images change; starts without the state, with another order of the NOR's
  halves and the host's time, and with a reset.
- `sdl_events`: two events per slice, as the user acts only while the guest
  runs: enough for a press and its release, or two keys of one cell, to meet in
  one walk. Each keyboard has two to four keys chosen by role: two keys of one
  cell, console, layout, chord, fast forward.
- `device_keys`: two events and two bytes wait at a time, and the threads begin
  without a table; a cell reached from both sides, one from each side alone (Tab,
  which has no id, only in the theorem). All three are in the first row, one of them in the
  place of the zeros of a table that is not filled yet. A scan of two rows of
  different halves, one hot column that is pulled up and one that is not, three
  keys: a rectangle less one corner.
- `devices`: a byte has 4 values and each unit of time 2, so a time beyond its
  range and its way round the byte take few steps; timers have 3 values, the
  prescalers 2 and 4, and a batch adds less or more than a prescaler. A second of
  the time base has 32 cycles, the base rate does not divide it (3), and sample
  rates lie below, at and above the clock's. `MaxCycles` is two seconds and more.
  The proofs need none of these.
- `host_loop`: the allowance is three slices, a stall may be longer; wall clock
  jumps are longer than anything the loop's own steps add, which is what tells
  one from time that passes. Two pictures, two buffers, four shades; registers
  that select either buffer, and a mask that cuts the address or does not.

### Fairness

- `cpu_sleeping`: `LoopFairness` says that `RunTimeSlice` calls `cpu_run3` for
  ever and that RTC ticks keep falling due, as each iteration adds cycles even
  with the clock off. `GuestFairness` says of the guest, which is external,
  that it gets to the end of its handlers.
- `commands` (`TransferSpec`): the emulated CPU goes on executing the poked
  program. Whether a file transfer is ever taken from the queue is another
  matter: the gate of `cpu_loop_new.cpp:258` may block it for ever if the guest
  is never found with I clear, and nothing here promises otherwise.
- `devices` (`ClockSpec`, `TimersSpec`): `cpu_run3` goes on, and each iteration
  adds cycles, with the clock off too (`TimeBase`), so that the clock steps and
  the timers are given cycles for ever. Weak fairness is enough: both are always
  enabled.
- `host_loop` (`DisplaySpec`): `main_loop` goes round for ever, and renders in
  each turn that finds it awake (`main.cpp:159`). A key keeps it awake for many
  turns, so if power is not saved for ever rendering happens again and again:
  strong fairness of `RenderStep` outside power save. `ScreenFollows` has that
  as its premise.

No fairness is assumed of users, clients or resets.

## 4. What is proved

Proofs are in the modules `*Proofs` (section 2). They need only the named
assumptions next to the constants, and what a theorem's own `ASSUME` says.

- *Memory map.* `MapTypeCorrect` and `MapAlwaysCoherent`, for all models, bank
  values and sequences of operations. `MapCoherent` is inductive with the type:
  each action leaves either the table that `super_switch` builds from the
  registers or the one before a refused switch. `PagesAlwaysSound`: a switch
  keeps a sound window or puts one of an existing bank in its place
  (`WindowUsable`), and makes the other pages from the registers alone; the
  first switch of a process, which finds NULL pointers, is to bank 0.
  `RestoreBringsMapBack` needs to know, of a state file whenever it was
  written, that the map shown then was the one of the registers in it, page by
  page except a window that no bank was there for; a load builds that page from a
  machine just turned on, whose own window is one of bank 0.
- *NOR flash.* `NorDrivesMap`: each step of the NOR's specification is a step or
  a stutter of the map's, so the theorems above hold of it. `NorTypeCorrect`
  and `NorNeverStuck` rest on an invariant that ties the
  type of a command to its step (`StepMatchesType`): the step alone says nothing
  about which command the last store of a sequence belongs to.
  `NorImplementsFlash` shows that initial states and steps map to `FlashArray`:
  a program changes one byte and only clears, an erase empties one sector, a
  bank or the chip, or nothing happens to the array. `AnswersAlwaysAskedFor`:
  the observer counts the stores of a selection up to the third, so the
  invariant says that the chip's step, up to 3, is not ahead of the count,
  whatever it ignores; a reset command that is the data of a program ends the
  command but not the selection it came with.
- *NOR unlock sequences.* `NorModifiesUnlocked`, for any set of stores. The
  chip keeps one step for all commands while the observer keeps one count per
  command, so the invariant (`Observed`) says for each step and type which
  sequences the observer must have seen that far; a store that the chip ignores
  never takes the observer back.
- *NAND.* `NandTypeCorrect`: three address bytes make a row of the array
  (`RowInRange`), and what a column shifts beyond a page's end still lies in the
  array (`InArray`, which is why `ExtraPages` has a lower bound).
  `CheckedBuildIsFlash`: in a build whose assertions end it, a program that has
  an effect begins at column 0, hence covers one unit of `FlashArray`.
- *NAND operations.* `OperationsAlwaysWork` needs to know the queues after each
  cycle of each operation (`InStep`): they hold as much of the address and the
  data as the bus has carried, and the first command byte has dropped what was
  there before, so that a confirm byte is never one that a Release build
  ignores (`ProgramUnexpected`). `RowNumber` shows that the three bytes of a row number make the
  row, `ReadStep`, `ProgramStep`, `EraseStep` and `IdStep` carry one cycle on,
  `ConfirmTaken` and `RowTaken` compare the effect with that on page numbers.
  `Completed`: a finished operation leaves nothing an assertion would find half
  done, so only one that was cut short can make a later one fail.
- *Main loop.* `LoopTypeCorrect`; `WakeAlwaysSafe` and `PendingVectorsKept` for
  any guest; `TimersStaySignalled` and `TransfersStartInMain` for one that keeps
  to `Disciplined`, if two frames fit. These need an invariant (`Nesting`): handlers run
  with I set, so only an NMI finds a frame on the stack; it is the innermost
  one, and while it runs no other NMI is pending. Hence the stack never needs
  more than two frames and no RTI returns to a handler that was forgotten; an
  IRQ that is taken leaves the frame that still owes a read of the status. For
  transfers it gives that I clear means an empty stack, and a machine that has
  just been reset has I set (`FreshMaskedKept`).
- *File transfer.* `TransfersAlwaysDeliver` and `LeftoversAreOwed` rest on
  `TransferInv`: what has been copied and what is still in the queue, or to be
  read, make the file at each place of the poked program; and a queue that holds
  something outside a transfer is owed by one that was cut short.
- *SDL keyboard.* `MatrixAlwaysFollowsKeys`, for any keys, cells and lengths of
  the queue. An event that does not tell how its key is now is followed by one
  that does (`EventsSettle`), and the map holds the last event taken of each of
  its keys (`MapIsLast`), so that handling a key once more only repeats what is
  known. `CellsFollow` is the property with the keys down as of the last event
  for those the user holds, and excepts the keys of the walk in progress.
  `ResetAlwaysNeedsChord` needs that a modifier left set by an earlier walk is
  down (`ModifiersKnown`): only the event being handled may have released it.
- *Keyboard of the device.* `FbMatrixAlwaysFollowsKeys`, for any tables and ids,
  from the flag unset on. A thread that looked its key up in a finished table has
  the cell of that key (`Aimed`); a cell written otherwise is `astray`, and stays
  so until an event that was looked up properly has written it.
  The threads share cells and not queues: what one clears the other may have
  set, so the property promises a pressed cell only to a key that has it alone,
  and a released one when no key is held. A cell that is down is held by a key,
  here or there, or its release still waits (`CellsHeld`), and the last event in
  the queue of each key tells how it is (`QueueSettles`).
- *Key matrix scan.* `ScanIsAlwaysHonest`, for any rows, columns and keys at a
  time, with no assumption about them: the theorem also covers the three keys of
  a rectangle of any size. `RegistersSet` says which registers the scan has set so far,
  whatever they held before; `ReadFinds` that a read then finds the pressed
  cells of the selected line and of no other; and `SeenSoFar` that a key held
  throughout has been seen or is on a line still to be read.
- *Console.* `ConsoleAlwaysInRange` and `ConsoleKeepsLine`, for lines, texts and
  histories of any length. The second needs that outside the history the line
  shown is the line being typed.

- *Clock.* `ClockCountsSeconds`: day, hour, minute and second are a number in
  mixed radix, and `bumpRTC` adds one to it, modulo a byte of days, if the time
  is legal (`BumpCounts`, by the four places a carry can stop). `AlarmIsOnTime`
  adds that a field of a legal time is below its mask, so that `chk_ar`'s masks
  drop nothing of it. Both hold for a byte, units and masks of any size.
- *Timers.* `TimersCountEveryCycle`: prescaler, low byte and high byte are the
  digits of one number. `LowDigit` says what adding to the lowest does to the
  number, and to its overflow; the cascaded modes use it twice (`LowDigits`).
- *Time base.* `NoCycleLost` and `NoSampleLost` rest on `BaseInv`: the events
  counted so far are those of a single batch of all cycles, as each batch
  begins where the last one ended. The time base needs that a batch is shorter
  than its period, and whole seconds that the clock's rate divides
  `CYCLES_SECOND`, which `TimeBaseAssumption` says. A sample is looked for only
  when the clock steps: a multiple of its period is one of the steps' period.
- *UART.* `HandlersLeaveNoTrace`: a control register holds the bits of its bank
  only (`OnlyKept`), so that what is read from `0x3d` tells all of it, and the
  vector lies above the bits bank 0 keeps. Writing back what was read, with
  another bank in the low bits, changes no register (`WritesBack`).
- *LCD.* `RegistersAreObeyed`: the address is two digits and zeros at all times
  (`AddressMade`), each digit that of its register from its first write on, so
  that a write takes away exactly the digit it replaces.
- *Pacing.* `BurstIsBounded` needs that slices run beyond the time that passed
  and the delay still to be made up for share one allowance (`BurstAndLag`):
  running a slice moves one from the second to the first. `ResumeAlwaysSyncs`
  needs that a jump stays visible until it is looked for (`JumpKnown`), which
  holds because a jump is assumed longer than what the loop's steps add.
- *Saving.* `StateIsNeverAhead`: the images in memory are never older than
  what either state knows of them (`MemoryAhead`), and a save has written or
  torn every image before it comes to the state (`ImagesFirst`). It holds for any
  number of steps, any images changed and any crash, failure and restart.
  `LoadResumes`: as long as nothing has touched the files of a complete save,
  they hold what it saved, in the order of halves it was written in
  (`FilesHold`), and a program that has loaded them and has not gone on is where
  the save was, adjusted only as its own options or those before the save ask
  (`MemoryHolds`).

Only model-checked: liveness (`VectorsServed`, `TransferEnds`,
`ClockRecovers`, `TimerFires`, `ScreenFollows`), which is beyond this prover, and
what `cpu_cores` checks: `CpuCores` rests on bitwise operations, which the
provers do not know. Every other property of the runs is a theorem.

## 5. Observations

Places where the code and what is said of it differ, met while modelling. None
breaks a property above; the models follow the code.

1. `nand.cpp:14-18`: the NAND's queues are static and survive resets of the
   machine, so after a reset inside an operation the assertion at
   `nand.cpp:297` may end a Debug build at the guest's next command. `NoAbort`
   therefore speaks of undisturbed operations only. A Release build recovers,
   which `ArrayAsExpected` and `ReadsBack` show (all in `OperationsWork`).
2. `cmd.cpp:416`: the program for `get` on the nc2000 closes its file with
   `$0516`, which `cmd.h:191` names as the call that reads; the file stays open.
3. `main.cpp:125`: the comment says that several shoots of a key become one; in
   fact each further event of a slice handles all the keys of the slice again,
   which undoes a toggle. `MatrixFollowsKeys` holds nevertheless.
4. `port_fb/input_fb.cpp:395`: a comment says that the thread calls `SetKey`; it
   writes the matrix only, so on/off does not wake a device whose clock is off.
5. `port_fb/main_fb.cpp:71`: the key table has Alt as infrared; Alt's id has no
   cell in `init_yx_map`.
6. `ansi/w65c02op.cpp:1497`: an NMI decrements `mSP`, an `int` that
   `ansi/w65c02cpu.cpp:26` says has 8 bits, without the mask of `PUSH`. With the
   stack pointer at 2 or less it is left negative; the handler's next push goes
   to page 0. `CoresAgree` and `ReturnsRestore` except this (`NmiPushes`).
7. `cpu.cpp:115-276`: the table of skipped opcodes has `cb` (WAI) and `db` (STP),
   so that the 65C02 instructions of the switch, `g_wai` and `g_wai_saved` are
   never used with `enable_illegal_op_fix`.
8. The two CPUs, of which `--cpu emux` is for comparing, differ by design of one
   or the other (`Different`, `ClockOff` in `CpuCores`). Decimal mode and the
   clearing of D in interrupts are the default CPU's only. A pointer at the end
   of a page wraps in the other one only. The other one takes an IRQ at the end
   of CLI and RTI, not before the next instruction, and has no B flag. It adds a
   skipped opcode's cycles where it counts twelfths of cycles
   (`c6502.cpp:144`), so that these take no time; BVS starts with 48 where
   the other branches have 24; and a store through `(zp),Y` pays for a page
   twice.
9. `cpu_loop.cpp:149`: in mode 0 timer 1 is, by the comment, the value to reload;
   it is added in each call, whether the timer overflows or not. `NoTickLost`
   speaks of mode 0 only when that value is 0.
10. `nc2000.cpp:203`, `io_new.cpp:437`: a reset sets the speed to the full one while
    the clock selection becomes 0, which stands for an eighth; the speed stays
    until another selection is written. `SpeedHonest` therefore allows the full
    speed beside the selected one.
11. `port_fb/main_fb.cpp`: the loop of the device has no counterpart of
    `main.cpp:76`, so a device that was suspended goes on with the time it had;
    `ResumeSyncs` is about the SDL build.
12. `main.cpp:83`: a wall clock set back by less than the time that has passed
    since it was last read is not noticed; the model's jumps are longer.
13. `nc2000.cpp:40`, `nand.cpp:90`, `nor.cpp:90`: the result of `fwrite` is not looked at, so that a full disk
    leaves a torn image and the save is reported all the same. `StateNotAhead`
    and `ResumesAsSaved` hold of what can be told from the files.
14. `port_fb/input_fb.cpp:225, 263`: each input thread builds the key table if
    it finds `yx_map_inited` unset, without a lock. If the first keys come from
    two sides at once, one thread clears and fills the table while the other
    reads it: a press may be dropped, or go to another cell, and stay there until
    a key of that cell is released. `FbMatrixFollowsKeys` excepts these cells
    (`astray`); in `port_fb` nothing builds the table before the threads start.
15. `main.cpp:159`: nothing is rendered while power is saved, which begins 20
    minutes after the last key: the picture of the last slice before it may not
    have been drawn, or have faded half way, and stays so.
16. `nand.cpp:369`: a Release build ignores an unexpected confirm byte and keeps
    the queues; the program is lost without a sign. With the guest's whole
    operations this does not happen, as their first command byte clears the
    queues (`OperationsWork`).
17. `cmd.cpp:137`: the result of `fopen` is used unchecked, so a `get` to a path
    that cannot be written ends the emulator; `cmd.cpp:387`: nor does anything
    check that the guest's file exists. `cmd.cpp:414`: on the nc2000 the program
    for `get` sets the third byte of the count at `$09f9`, where the others use
    `$08f9`.

## 6. Not modelled

Left out of the modelled components: the bytes of image files (`try_fix_dump`)
and the fields of the saved state; the calendar above the day, which is the
guest's; the nc1020's and pc1000's special cases in the loop, the clock and the
ports; programs of `put` and `get` for the other ROMs; the speed factors
(`enable_emulate_cks`, `rtc_speed`), off by default; the layout of the LCD's
pixels; the UART of a build with a serial port. In `CpuCores` a guest's handlers
and subroutines only return. `Pacing` takes a slice as a step that takes its
time: `RunTimeSlice` may overshoot by a batch, which it does not make up for
(its target is relative to the cycles reached). The status of each component is
in `PROJECT.json`.

Never: icons and fonts, disassemblers, settings, packaging, the LVGL port (not
built by default), the bus of the pc1000 emulator under `compare/` and the older
loops (only with switches), sockets and audio devices of the host. The beeper's
queue is a `std::deque` used by two threads without a lock: what that does is
undefined, so a model of interleaved operations would promise too much. The
speech DSP is a stub.

## 7. What could follow

- The `nc1020`'s clock and the other ROMs' transfer programs, which differ from
  those modelled in addresses and formats.
- The aliases `f`, `cf` and `create_folder`, which pass the gate of
  `cpu_loop_new.cpp:258`, with the programs they poke.
- `Clock` and `TimeBase` put in the place of `CpuLoop`'s ticks, by refinement.
