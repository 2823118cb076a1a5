# A verification project for sick-os-64

sick-os-64 is a small 64-bit kernel: `boot.S` enters long mode and calls
`kernelMain` (`src/src/kernel.cpp`), which builds a heap, a pager and an
interrupt manager, loads a keyboard and a mouse driver, and brings up a VMware
SVGA II device whose commands go through a shared-memory FIFO. One thread runs;
what makes it hard is everything that runs beside that thread: interrupts, the
PS/2 controller, a device that reads the FIFO whenever it likes, and the MMU.

This directory holds TLA+ modules translated from the code, TLC configurations
that check them on small instances, and TLAPS proofs about most of the modules. `PROJECT.json`
lists the runs, the source lines behind each definition, the hazards, the
findings and the theorems.

## 1. The system

| component | state | operations | beside it runs |
|---|---|---|---|
| `MemoryManager` (`modules/memory.cpp`) | list of chunk headers inside the heap | constructor, destructor, `malloc`, `free` | nothing; callers are `new`/`delete`, PCI, the driver list |
| `Paging` (`modules/paging.cpp`) | table pool counter, page tables | `Init`, `Map` | the MMU reads the tables at any step |
| SVGA FIFO (`drivers/svga/svga.cpp`) | FIFO registers, `reservedSize`, bounce buffer | `FIFO_Reserve`, `FIFO_Commit`, `FIFO_CommitAll`, `FIFO_Full`, `InsertFence` | the device moves STOP; the machine is checkpointed |
| SVGA bring-up and IRQ | index and value ports, `irq.pending`, `irq.switchContext`, version and capabilities | `Init`, `Enable`, `Disable`, `SetMode`, `ClearIRQ`, `WaitForIRQ`, `RingDoorbell`, `FIFO_Full`, `HandleInterrupt` | the card takes commands and raises flags; interrupts |
| `InterruptManager`, stubs | active manager, handler table, one global byte | `Activate`, `Deactivate`, `RequestIRQ`, `SetMask`, `HandleInterrupt` | devices, two 8259 controllers |
| `KeyboardDriver` | modifiers | `Load`, `HandleInterrupt` | the 8042 controller, the mouse, interrupts |
| `MouseDriver` | packet buffer, offset, buttons | `Load`, `HandleInterrupt` | the same |
| PCI (`hardware/pci.cpp`) | device list, a function's command register | `ScanBus`, `FindDevice`, `SetDeviceEnabled`, `GetDeviceBAR`, configuration access | nothing |
| `DriverManager` | array of drivers | `RegisterDriver`, `LoadAll` | interrupts during `LoadAll` |
| console (`modules/lib.cpp`) | cursor `x`, `y`, video memory | `printf`, `printc`, `erase`, `clear` | the keyboard interrupt prints too |
| `MultibootLoader` | copies of boot tags | `Parse`, getters | nothing |
| boot code, CPU, ports, ctors | page tables, GDT, stack | straight-line assembly | nothing |

How they meet: SVGA's `Enable` calls `Paging::Map` (and ignores its result) and
then the FIFO; drivers ask `InterruptManager::RequestIRQ` for their line and are
called back from `HandleInterrupt` with interrupts off; keyboard and mouse share
the controller's one output buffer; PCI and the driver list call `malloc`. In
`kernelMain`, `Activate` turns interrupts on before `LoadAll`, so both `Load`
sequences run with interrupts arriving.

What makes each part correct:

* heap: the headers between the payloads tile the heap after any mix of calls;
  a held block is never touched; a null answer is honest; `malloc` returns;
* paging: no table is ever shared, a call maps exactly its pages, and no page
  is disturbed at any moment of a walk;
* FIFO: a reservation never reaches words the device has still to read, what
  the client wrote is what the device reads, the registers never make a full
  FIFO look empty, a reservation is granted in the end;
* interrupts: every end of interrupt releases the line being handled, the
  number in the global byte is the right one, a granted line keeps its owner,
  the highest lines are always served;
* SVGA bring-up: no interrupt flag is lost between card, handler and driver, the
  frame of `WaitForIRQ` is never left with the context switch armed, nor halted in with
  a flag recorded, the card is configured only when its FIFO registers lie in its own memory;
* PS/2: keys and clicks are reported once and in order, with the right modifiers, no byte
  is left in the shared buffer, two read-modify-writes of one command byte merge;
* boot: `kernelMain` loads both drivers whatever it is given, and gets to its last loop
  unless the card it brings up keeps it.

## 2. Modules

| module | models | status |
|---|---|---|
| `Allocator` | what a heap promises its callers (abstract) | done |
| `Heap` | `MemoryManager`; refines `Allocator` | done |
| `HeapProofs` | TLAPS proofs about `Heap` | done |
| `CommandStream` | a bounded queue of words (abstract) | done |
| `SvgaFifo` | the command FIFO; refines `CommandStream` | done |
| `FifoProofs` | TLAPS proofs about `SvgaFifo` | done |
| `Bars` | `SetDeviceEnabled` and `GetDeviceBAR`, as operators | done |
| `SvgaDevice`, `MCSvga` | bring-up, modes and interrupts of the card, on `Bars`; machines for TLC | done |
| `SvgaDeviceProofs` | TLAPS proofs about `SvgaDevice` | done |
| `AddressSpace` | what a pager promises its callers (abstract) | done |
| `Paging`, `MCPaging` | `Paging::Map`; refines `AddressSpace`; boot tables for TLC | done |
| `PagingProofs` | TLAPS proofs about `Paging` | done |
| `LineService` | what a driver may rely on when it owns a line (abstract) | done |
| `Interrupts` | manager, stubs, 8259 acknowledgement; refines `LineService` | done |
| `InterruptsProofs` | TLAPS proofs about `Interrupts` | done |
| `Ps2` | both drivers' `Load` and handlers on the 8042 | done |
| `Ps2Proofs` | TLAPS proofs about `Ps2` | done |
| `Console` | cursor of `printf`, `printc`, `erase`, `clear` | done |
| `Pci` | `ScanBus`, `FindDevice` | done |
| `Multiboot` | `MultibootLoader::Parse` | done |
| `MultibootProofs` | TLAPS proof about `Parse`, under `Boot`; extended by `BootProofs` | done |
| `Boot`, `MCBoot` | `kernelMain`, `DriverManager`; composes the three above | done |
| `BootProofs` | TLAPS proofs about `Boot` | done |

**Heap.** Addresses are offsets from `heapStart`; `hdr` maps the address of each
linked chunk to its header, `held` the payloads callers own to the size they
asked for. `MallocCall` is the entry, `MallocNext`/`MallocFail`/`MallocWhole`/
`MallocSplit` are one iteration of the `do while` loop each, `Free` is `free` with
both merges. `split` updates no `prev` pointer of the chunk behind, as in the
code. `KeepsPromises` maps `held` to the blocks of `Allocator`.

**SvgaFifo.** Lengths are dwords. Every step of the driver touches at most one
register the device shares, so `DeviceRead` and `Checkpoint` (both external) run
in between: `Look` reads STOP, `ReserveInPlace`/`ReserveBounce`/`Full` are the
outcomes of the three space tests, `Announce`, `BulkCopy`, `Publish`,
`ClearReservation` are the bulk commit, `CopyWord`/`Advance` the dword-wise one.
`stream` is a history of the words published and not read; `Contents` maps the
FIFO to the queue of `CommandStream`. A `Checkpoint` keeps what a device keeps:
unread words and what RESERVED announces. `reservedSize` and `usingBounceBuffer`
start arbitrary since `SVGA svga` in `kernelMain` initialises neither: any number of dwords,
the size of the FIFO and more included, or one that is no whole number of them (`RAGGED`).
The first `InsertFence` commits such a size without having reserved it. Where it does not fit,
the next step of the commit is `RunOff`: NEXT_CMD passes words the device has to read, leaves the ring
or its dwords, or the copy leaves the bounce buffer. Nothing can be said of memory after that, so
`overrun` remembers the size and the behaviour ends there (`Lost`); `CommandStream` calls the queue
`broken`. The properties say that nothing else leads there.

**SvgaDevice, Bars.** `pc` is the driver's control. A register is reached through
two ports, so `ReadRegister` and `WriteRegister` are two steps: `Access` writes the
index port and remembers in `io` what is to be done and where control goes next;
`WriteValue` and `ReadValue` use the register the index port names *at that moment*.
`FindDevice` reads the base address registers as `Bars` translates `GetDeviceBAR`,
into one object as the code does, so a register that is not there repeats the one before.
`OfferVersion`, `AskVersion` and `MatchVersion` are the negotiation loop, down to the
version below `SVGA_ID_0`. `Arm`, `TestPending`, `Halt` and `Disarm` are one iteration of
`WaitForIRQ`: between the exchange of `TestPending` and the `hlt` of `Halt` the driver is at
"decided", where an interrupt comes too early to end the `hlt`, which is the case the comment at
`svga.cpp:32-36` is about. `ReadStatus`, `Acknowledge`, `Record` and `Switch` are the handler; the driver
does not run in between, the card does. `switchContext` starts as anything (`svga.h:49`). The handler runs for every timer tick if
the card's line is 0, and never on another line, none of which has both a free entry
in the handler table and a stub; any interrupt ends a `hlt`. When the handler finds
`switchContext` set, control is `lost` (see section 4). `InsertFence` and `Reserve` put
whole commands into a FIFO that `SvgaFifo` models word by word. `owed` is a history of
flags raised and not yet taken by `Atomic_Exchange`. The card (external) takes commands
only when enabled, configured and allowed on the bus, and raises what is unmasked.

**Paging.** A step is one iteration of the inner loop of `Map`: `Descend`,
`CreateTable`, `OutOfSpace`, `SetPage`. Tables and pages are numbers; the tables
`boot.S` leaves behind are the initial ones. `Wrap` is the number of pages after
which the 32-bit product `p * PAGE_SIZE` wraps. `before` remembers the translation
when `Map` was called. `ImplementsAddressSpace` maps the tables to the translation they
amount to, so a step that links a table is a stutter of `AddressSpace`.

**Interrupts.** `frames` is the stack of interrupts in progress; `StubStore`,
`StubLoad`, `Dispatch`, `MasterEoi`, `SlaveEoi`, `Iret` are the path of one, with
the number passing through `interruptNumber`. The controllers (external) are fully
nested with edge-triggered inputs and a cascade on line 2. The main program calls
`Construct`, `Activate`, `Deactivate`, `RequestIRQ`, `SetMask`; `Activate` and
`Deactivate` take several steps (`Cli`, `Install`, `Sti`) because an interrupt can
come between them. `dropped` records what returned without any manager seeing it.
The body of a handler is in `Ps2`. `ImplementsService` maps the frame in progress to the
interrupt `LineService` serves, and the in-service bits, less the cascade's, to its open lines.

**Ps2.** `Load` is one step per port access of both drivers in the order `LoadAll`
runs them; `Interrupt` takes a latched line and runs the whole handler, which has
interrupts off. The controller, the two devices and the user are external. The
alternate modifier is left out, being the same code as control, and so is the
table from scan codes to virtual keys. The history variables `typed`, `clicks`,
`moves` hold what the user did. The user may hold both shift keys: `bothShifts` remembers it
until both are up, and `sure` the modifiers the driver has to report for a key.

**Console, Pci, Multiboot, Boot.** Each of the first three holds the state and the
steps of one file; `Boot` runs them in the order of `kernelMain` and lets `Key` (the
keyboard interrupt calling `onKeyDown`) happen at any step once the keyboard driver
is loaded. `printf` is split at its loads and stores of `x` and `y`; the value it
compares stays in a register `r`, as in the build with `-O1`. Cells have no contents, only the index
written last. A device slot of `Pci` stands for a bus and a device number. The
multifunction flag is read from an array entry nothing has written, so `ScanDevice`
takes any value for it. A boot tag is its type, size and contents.
`RegisterDriver` appends to `drivers`, `Announce` makes the three calls of `printf`,
`LoadDriver` stands for a driver's `Load`, which is `Ps2`. `SvgaInit` is `FindDevice`; with a device
found, `kernelMain` stays in "bringUp", which is `SvgaDevice`, until `SvgaReturns`, and need not leave it:
`returns` says whether the card is one on which `SvgaDevice` shows that `Init` ends (`InitReturns`).

## 3. Runs

| run | bounds | shows |
|---|---|---|
| `heap_pass` | 16 units, header 2, requests 0, 1, 3, 4 | tiling, held blocks, honest null, return, refinement of `Allocator` |
| `heap_reuse` | same | finding: freed chunks are never reusable |
| `fifo_pass` | FIFO of 3 dwords, commands of 1 to 3, two commands told apart, `reservedSize` 0, 1, 3, 5 or ragged at start | reservations are free, words delivered, queue refinement, granted in the end, only a stale size overruns |
| `fifo_bulk` | same | finding: swapped `memcpy` |
| `svga_pass` | nine machines, FIFO of 2 commands, 4 calls after `Init`, one mode, stale `reservedSize`, `switchContext` and capability bit of either value | no flag lost, frame left disarmed, no sleep on a recorded flag, safe configuration, `Init` returns |
| `paging_pass` | 3 entries per table, 27 pages, 3 spare tables, 2 calls of up to 3 pages, wrap after 2 | tree of tables, exact effect, honest result, refinement of `AddressSpace` |
| `irq_pass` | 2 managers, 2 handlers, lines 1, 9, 12 (not the timer's), two interrupts each, 4 calls | acknowledgement accounting, number byte, refinement of `LineService`, keyboard always served |
| `irq_ack` | 1 manager | finding: a line without a stub is never acknowledged |
| `ps2_pass` | 3 keys pressed or packets sent, one leftover byte, two boot command bytes | keys and clicks in order, command byte merged, nothing left unread |
| `ps2_motion` | same | finding: motions reported from partial packets |
| `boot_pass` | screen of 3 by 2, two drivers, texts of 2, 2 and 1 characters, 3 keys, 3 slots of 2 functions, list of 3, 5 machines, 5 boot informations | cursor and writes of the console, faithful device list, tags followed, last loop or bring-up reached |
| `boot_scan` | 1 key | finding: functions of a multifunction device are missed |

Why the bounds are enough to be interesting:

* 16 units with a header of 2 hold up to five chunks: exact fits, splits that leave
  a remainder of one unit, freeing next to the tail and exhaustion all occur. The
  proofs remove the bound.
* A FIFO of three dwords wraps within two commands, and commands of one to three
  dwords take every branch of the space tests, including both edge cases at `MAX`. A stale
  `reservedSize` of 1 fits it, 3 fills it and 5 is larger than FIFO and bounce buffer.
* The nine machines have FIFO registers of 32 and of 64 bits, know all versions, some or
  none, have interrupts, fences and spare page tables or lack them, and sit on the timer's
  line, a taken one or one without a stub. Two commands fill the FIFO, so four calls
  sleep in `FIFO_Full` and poll in it.
* Three spare tables run out in the middle of a request. Requests of three pages
  exceed `Wrap`; for these `MapEffect` says nothing, `TablesFormTree` and
  `ImplementsAddressSpace` still hold.
* Line 1 outranks the cascade, line 9 has no stub and outranks 12, which has one. Line 0 is not
  in the run: `TopLinesServed` is checked of the keyboard only, the proofs are about both lines.
  Four calls allow two managers to be built and hand over, or one manager and two
  requests for a line.
* Three key presses, with their releases, or packets interleave in the shared buffer in
  every way: both shift keys may be held when a third key comes or one of them is released,
  and a key may come between the bytes of a packet.

* Two announcements of five characters wrap the line and clear the screen while
  keys arrive; the machines include an empty bus, one with more functions than the
  list holds, and a function without its function 0. The proofs remove these bounds.

Several runs disable deadlock checking, because bounded callers, devices and
users stop once their bound is reached, a destroyed heap accepts no more calls, and a driver
without its card, or one whose frame was overwritten, stays where it is;
`fifo_*` runs check it.

### Fairness

* `Heap`: weak fairness of the steps of a call in progress. There is one thread and
  `malloc` waits for nobody.
* `SvgaFifo`: weak fairness of the driver, and strong fairness of the device reading
  *while the driver is in `FIFO_Full`*. The fallback path writes `SVGA_REG_SYNC` and
  reads `SVGA_REG_BUSY`, which makes the device process commands before it answers;
  elsewhere the device owes nothing, and none is assumed.
* `SvgaDevice`: strong fairness of the driver, because a timer that ticks for ever
  disables it again and again and yet leaves it time; weak fairness of the handler,
  which runs with interrupts off, of some other interrupt ending a `hlt` (the timer
  is unmasked and has a stub), and of a card at work, which takes what there is and falls asleep. That a
  card *starts* on its own is not assumed.
* `Interrupts`: the CPU executes handlers and takes interrupts that reach it. Each
  line interrupts finitely often (`MaxRaises`), so a timer that fires faster than it
  is served is excluded.
* `Boot`: the main program goes on; interrupts return, and keys are finitely many
  (`MaxKeys`). `SVGA::Init` comes back only where `returns` says so, which `InitReturns` in
  `SvgaDevice` justifies; nothing is assumed of the other cards.
* `Ps2`: the controller hands out bytes, `Load` goes on, interrupts are taken.
  An interrupt may be taken arbitrarily late. Load's reads wait for the controller
  (`Prompt`): the code polls nothing, so it relies on an emulated controller that
  answers at once; on slower hardware the acknowledge byte would become part of a
  packet. In `ps2_pass` the user starts only after `Load` (`EarlyInput = FALSE`):
  a key pressed during `Load` is taken for the command byte.

## 4. Findings

1. `free` never clears `allocated` (`memory.cpp:71`); freeing the chunk before the
   tail turns the whole rest of the heap into allocated memory.
2. `FIFO_Commit` calls `memcpy` with source and destination swapped (`svga.cpp:301`).
3. `ScanBus` reads the multifunction flag from the entry behind the one it just
   filled (`pci.cpp:99`), so whether other functions are scanned depends on what was on the stack.
4. `IgnoreInterrupt` acknowledges nothing, while every line is unmasked: one
   interrupt of line 8 to 11 silences the mouse for good.
5. The mouse handler's completeness test is inverted (`mouse.cpp:49`).

Seen while reading, in the models but with no run of their own:

* a FIFO command of exactly `max - min` bytes passes the size check (`svga.cpp:139`) and then
  calls `FIFO_Full` for ever, which is why `ReserveReturns` excludes it;
* `reservedSize` and `usingBounceBuffer` are never initialised, and `InsertFence` ignores a
  refused reserve: its commit then publishes what nobody reserved, of whatever size memory held. If that
  fits, `fifo_pass` shows that later commands do not suffer; if not, the FIFO is lost (`RunOff`);
* `switchContext` is not initialised either: a value that is not 0 makes the first interrupt of the
  card's line, from `RequestIRQ` on, take the switch outside `WaitForIRQ`. `svga_pass` starts from both values;
* `HandleInterrupt` swaps the arguments of its two `memcpy` calls (`svga.cpp:388-389`): instead
  of switching to `newContext` it copies over its own frame, and the driver is `lost`;
* `WaitForIRQ` waits for ever on a line without a stub or one that was taken, and
  `Enable` calls it on every card with interrupts, so `kernelMain` does not get past `SVGA::Init`
  there. A card on line 0 gets the timer's ticks instead;
* releasing one of two held shift keys clears the modifier (`keyboard.cpp:50-51`), so keys typed with the
  other one still held are reported without shift. `KeysInOrder` allows for that and no more;
* `capabilities` is only read from `SVGA_ID_1` on (`svga.cpp:436`) and tested always;
* `FIFO_Full` clears `pending` after it has unmasked the interrupt (`svga.cpp:102-103`), so a
  progress flag that comes in between is thrown away;
* `Paging::Map` overwrites a mapping that its comment (`paging.cpp:70`) says makes it fail, and
  flushes no translation of it (the TLB is not modelled);
* `keyboard.cpp:20` clears bit 4 of the command byte where its comment names bit 3; the branch on
  `SC_ESCAPE_CODE` (`keyboard.cpp:68`) can never be taken;
* `Deactivate` clears `activeManager` before it disables interrupts, so an interrupt
  in between leaves its line in service (`dropped` in `Interrupts`).

Seen while reading and outside the models: `kernelMain` registers no callbacks with the mouse, whose pointers
to them nothing initialises (`Ps2` takes them as registered); the guard of the 3D version register compares
an `SVGA_CAP` bit with the FIFO's capabilities (`svga.cpp:486`); `SVGA svga` in `kernelMain` holds a bounce
buffer of a megabyte on a boot stack of 16 KiB (`boot.S:103`), so the frame reaches into what lies
beside the stack, the paging space among it; the exception stubs do not pop the error code;
`RegisterDriver` does not check its array and its constructor does not check `malloc`
(`drivers.cpp:19`), which two drivers do not notice.

## 5. Proofs

Every safety property of a passing run is a theorem. Two more kinds of theorem go with them.

*Safety halves of liveness.* The prover has no fairness, so that something happens in the end stays
with TLC. What can be proved, for every value of the constants, is what it rests on: that no state
the property could get stuck in is reachable, or that every step makes a measure go one way, or both.
The step from there to the liveness property, by the fairness of section 3, is not proved.

| liveness property | theorems | argument |
|---|---|---|
| `MallocReturns` | `MallocMovesForward` | the cursor of a call only moves up the heap |
| `ReserveReturns` | `ReserveGetsOn` | `FIFO_Full` has words to wait for, and none are added meanwhile |
| `TopLinesServed` | `TopLinesGetThrough` | between interrupts the CPU listens and the line is deliverable |
| `EverythingRead` | `BytesAreFetched`, `ReadingGetsOn` | a byte in the buffer has its interrupt; each step leaves fewer to read |
| `BootFinishes` | `BootGetsOn`, `BootEndsWithAll` | each step goes forward in a bounded order; the bring-up and the last loop have everything |

`MapGetsOn` says the same of `Map`, which has no liveness property: a request of `n` pages takes at most `3n` steps.

*Cause and extent of findings.* A finding's run shows one state that breaks what the code says. These say how far
it goes, or what exactly is at fault:

* `RoomIsGoneForGood`: once `malloc` has no room for `n` bytes, it never has again, whatever is freed.
* `OneManagerLeavesStubless`, `StubsAcknowledgeAll`: under one manager only lines without a
  stub are left in service, so with a stub per line `AllAcknowledged` would hold. `LeftLinesBlock`: a
  line left there is not let go of, and blocks itself and those below.
* `MotionsMixNeighbours`: a motion takes its halves from one packet or from two
  neighbouring ones, or a half from the buffer at the start; nothing else.
* `FlagFindsFunctions`: if the flag `ScanDevice` reads were that of the device it just found
  (`ReadsOwnFlag`), the list would hold every function up to the first silent one.
* `OnlyStaleSizeOverruns`, `InitialisedSendsNothingStray`: if `reservedSize` started with a size that fits, no
  commit would ever overrun the FIFO; if it started at 0, no word would be published that
  no client wrote. `OnlyStaleSwitchEscapes`: if `switchContext` started false, the handler would switch only
  while the frame it switches to is alive. `ReserveGetsOn` also says that a command as large as the FIFO is never granted.

`HeapProofs` proves, for every `HeapSize`, `HDR` and set of `Requests` allowed by
`HeapAssumption` (the heap has room for one header; header sizes are positive):

* `HeapInvariance`: the inductive invariant `IInv`, the conjunction of `TypeOK`,
  `ListTilesHeap`, `HeldIsAllocated`, `OnlyTailFree` and `WalkedPast`;
* `HeapTypeCorrect`, `HeapListCorrect`, `HeldStaysAllocated`, `OnlyTailIsFree`;
* `MallocFailsOnlyWhenFull`, an action property;
* `HeapKeepsPromises`: `Heap` implements `Allocator` through `blocks <- held`.

None of the parts is inductive alone. `split` leaves the `prev` pointer of the
following chunk stale, which breaks the list unless there is no following chunk:
that is `OnlyTailFree`. `OnlyTailFree` survives `malloc` only because the list tiles
the heap, so that the chunk split off ends where the tail ended. `free` reads its
neighbours through `next` and `prev`, so it needs `ListTilesHeap`, and `HeldIsAllocated`
needs `OnlyTailFree` to know that a merge only removes the tail. `WalkedPast`
carries the first-fit search over the iterations to the point where `malloc` gives
up. The proof has a lemma per action, each with a step per conjunct. For `RoomIsGoneForGood` the
tail is the only room there is (`OnlyTailFree`), and no step makes it longer.

`BootProofs` proves, for every screen, text, bus, list size and number of keys that
`ConsoleAssumption`, `PciAssumption` and `BootAssumption` allow:

* `BootInvariance`: `ConsoleInv`, `MainInv` and `ScanInv` hold in every reachable state;
* `CursorAlwaysSettles`, `WritesStayInBounds`, `ScanStaysFaithful`, `BootTypeCorrect`.

`CursorSettles` says nothing of the middle of a character, where keys arrive.
`CursorInv` does: the cursor may be past the line only where `Wrap` is about to see it
in the register, and below the screen only where `Bottom` is, or `ClearY` is
about to reset it; a key at any such point brings it back or leaves it so. `ScanInv`
relates the list to the address under examination: everything listed lies before
it, and every device before it is listed; `AdvanceKeepsList` carries that over both loops.
`FlagFindsFunctions` adds that every function before the address is listed
unless a silent one comes first; the first silent one is found as a minimal element
(`SmallestOf`), with the library's theorem on well-founded relations. `BootGetsOn` orders the points of
`kernelMain` by stage and, within one, by tag, number of drivers, address, driver and character; of the
bring-up of a card, which may never end, it knows only the return.

`SvgaDeviceProofs` proves, for every set of machines, modes and bounds that
`SvgaAssumption` allows, `DeviceInvariance` and from it `DeviceTypeCorrect`, `FlagsAreKept`
and `ConfigurationIsSafe`, under what the code takes on trust (`Trusted`): the
third base address register of the card's function names its FIFO. The property `ConfiguredSafely` speaks of one moment; to reach it the invariant
says which phase of `Init` has established what (`OrderInv`, by `Location`, where the driver is or
will be when its register access is done), and that an access goes to the register its caller
named although interrupts come between the ports (`AccessInv`). `FlagsInv` holds that the
handler carries flags only between reading and recording them. `SwitchStaysInFrame`, the action property
`FrameLeavesDisarmed`, and `NoWakeUpIsLost`, the invariant `SleepsOnNothing`, assume nothing of `Trusted` and start from any
`switchContext`. The second rests on the switch being armed from `Arm` to `Disarm`: an interrupt that records a flag
after the test finds it so and leaves the frame, and never comes back to the `hlt`.

`FifoProofs` proves, for every `MIN`, `MAX`, bounce buffer, command length, tag and word that
`FifoAssumption` allows, and for every stale `reservedSize`:
`FifoInvariance`, `FifoTypeCorrect`, `PointersAlwaysMatch`, `ReservationStaysFree`,
`CommittedWordsArrive`, the refinement `FifoImplementsStream`, and the three theorems named above. The argument is that only the
driver moves NEXT_CMD and the device only moves STOP *towards* it: what was free when STOP was
read still is when the reservation is used (`SpaceInv`). `DataInv` follows the words of a command
through the bounce buffer, into the FIFO and past a checkpoint. A ring without one free dword
would be read as empty; `bytes <= Free` at every commit is what excludes that, but for the commit that
nobody reserved and that does not fit, which is where `RunOff` is (`OverrunInv`).

`InterruptsProofs` proves, for every set of managers, handlers and raised lines,
`InterruptInvariance`, `InterruptsTypeCorrect`, `NumbersMatchLines`, `InServiceAccounted` and the refinement
`InterruptsImplementService`. Gates clear the interrupt flag, so there is one frame at a time (`OneFrame`),
and the global byte is its number from the store to the load (`Carries`). A line is delivered only if it outranks
everything in service, what was left there included (`Outranks`), so a non-specific end of
interrupt releases the frame's own bit, on the master and on the slave. `Grants` ties the
handler tables to what `RequestIRQ` answered. The refinement adds that a line is taken only when it is not
in service, so that what its end of interrupt releases was not left by an earlier one (`NotLeft`).

`PagingProofs` proves, for every number of entries, paging space and set of requests, and
every set of boot tables that forms a tree (`PagingAssumption`, `BootIsTree`; `boot.S:109-127` links each of its
tables once): `PagingInvariance`, `PagingTypeCorrect`, `TablesStayTree`, `MapDoesItsWork`,
`ResultsAreHonest`, `MapGetsOn` and the refinement `PagingImplementsAddressSpace`. The digits of a page identify it; in a tree two
pages with different digits end in different entries. The invariant adds that
unused tables are empty, so linking one translates nothing new, and that the walk is
at the table the digits of its page lead to.

`Ps2Proofs` proves, for every command byte at boot, every leftover byte and any number of keys
and packets: `Ps2TypeCorrect`, and with a user who starts after `Load` (`EarlyInput = FALSE`)
`CommandByteIsMerged`, `KeysAreInOrder` and `ButtonsAreInOrder`. `LoadInv` names the command byte at
every point of the two `Load`s and says that the byte they read is that one even when the keyboard's
handler has read it first: reading clears the buffer's full flag and not its value. A handler
that Load's own bytes wake late finds no key, because a command byte with its interrupt
enabled is odd and has bit 4 clear, as no key in the model is (`CommandIsNoKey`). From then on a
full buffer has exactly its owner's interrupt (`LineRaised`), and the bytes still to be read
lead from what the driver has reported to what the user did: `KeysFollow` by way of the keys
held after each byte and of whether both shifts were among them since shift was last up, `ButtonsFollow` by way of the buttons down, which only a byte at offset 0 changes.
`NothingIsLost` is the converse of the two order properties, once no byte is on its way.

`MultibootProofs` proves `ParseIsFaithful` for every set of boot informations that are `WellLaid`: the
first tag behind the header, each with a size, the next one right behind its padding or the end
there. Without that, `Parse` would follow sizes into the middle of a tag; it is what the
boot protocol promises and the code trusts.

What stays with TLC: the liveness properties of the table above themselves, and `InitReturns`, since the
prover has no fairness: `Init` alternates between the driver, the card and interrupts, and its end depends on all three.

## 6. Not modelled

* PCI configuration ports: `ReadConfig` and `WriteConfig` are one access each in `Bars` and `Pci`; no
  interrupt handler touches their ports. The conversion of a BAR's sizes and the list printed are data.
* Number formatting (`printb` and its relatives) and `hexdump`, which nothing calls; the getters
  of `MultibootLoader`; `RestoreContext`, which nothing calls.
* What `SVGA::Init` only stores: sizes, the framebuffer's address, the interrupt count.
* `boot.S`, constructors, `ports.cpp`, `cpu.cpp`: straight-line code or single
  instructions. The boot page tables are the initial state of `Paging`.
* The TLB: `Paging` speaks of the tables, so that a mapping replaced without a flush may still be used is not caught.
* Callbacks that are not registered: keyboard and mouse are modelled with theirs.
* Processor exceptions, whose stubs return past an error code they do not pop.

## 7. Plan

Order, most important first; all of it is done.

1. `Heap` with `Allocator`, and its proofs.
2. `SvgaFifo` with `CommandStream`.
3. `Paging`.
4. `Interrupts`.
5. `Ps2`.
6. `Boot` with `Console`, `Pci` and `Multiboot`, and its proofs.
7. `Bars` and `SvgaDevice`: bring-up and interrupts of the card, and their proofs.
8. Proofs about `SvgaFifo`, `Interrupts` and `Paging`.
9. Proofs about `Ps2` and about `ParseFollowsTags`.
10. `AddressSpace` and `LineService` with their refinements; the safety halves of liveness; the causes of findings.
