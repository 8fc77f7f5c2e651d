# Formal model of the adaptive threshold accelerator

The repository is a hardware accelerator for the FPGA of a Cyclone V SoC
(VHDL, `src/hw/hdl`) and the bare-metal program for its ARM processor
(`src/sw/hps/application`). The program receives a grey-scale image of 320 x 240
pixels over a UART, has the accelerator filter it in place (a pixel turns white
if it is brighter than the mean of its 3 x 3 neighbourhood, black otherwise) and
sends it back. This directory holds TLA+ models of the accelerator, of the
program's use of it and of the drivers the program comes with, TLC configurations
that check them, and proofs checked by TLAPS.

## 1. The system

### Components

| component | source | state it keeps | operations | what makes it correct |
|---|---|---|---|---|
| `avalon_slave` | `avalon_slave.vhd` | start address, start pulse, read data | register write, register read | a poll after the start bit never sees the done of the previous image |
| `finite_state_machine` | `finite_state_machine.vhd` | 9 states, row counters, addresses, enables, `select_idx` | one transition per clock edge | drives one job per bus owner, never writes a row that is still to be read, ends |
| `burst_reader` | `burst_reader.vhd` | state, word counter, Avalon and FIFO strobes | burst, dummy read | the FIFO holds exactly the burst |
| `burst_writer` | `burst_writer.vhd` | state, word counter, Avalon and FIFO strobes | burst | every word reaches the bus once and in order |
| `adaptive_threshold` | `adaptive_threshold.vhd` | state, column counter, the two pixels and the results carried over from word to word | filter one row | one filtered word per word; the row FIFOs are as they were |
| `fifo_mult` | `fifo_mult.vhd` | none (multiplexers) | route four FIFOs to the reader and three lanes | the lanes show the rows above, at and below |
| FIFOs | `quartus/fifo.vhd`, `quartus/fifolookahead.vhd` | 128 words each | push, pop, clear | never asked for what they cannot do |
| top level | `adaptive_threshold_top_level.vhd` | none of its own | wiring | the accelerator is an in-place filter |
| program | `hps_baremetal.c` | the image, `img_offset`, `transmission_done`, `irq_hit` | receive, filter, send; interrupt handler | every image is filtered and sent back byte by byte, whatever arrives meanwhile |
| UART driver | `alt_16550_uart.c` | registers and FIFOs of the device; a handle that caches some of them | interrupt status and enables, FIFO reads and writes; setup of line, divisor, FIFOs, modem, reset | no lost update of the enable register, no FIFO overrun; the handle agrees with the device |
| software buffer | `alt_16550_buffer.c` | RX and TX ring, their levels, a line count, the first error | read, write, level, echo; interrupt handler | no byte lost or out of order, no interrupt left disabled that is needed |
| interrupt controller driver | `alt_interrupt.c` | registers of distributor and CPU interface; the table of callbacks; what it has found out about the controller | setup, one call per register, software interrupts, registration; dispatch in the handler | an interrupt finds a registered callback with its own context; setup ends |
| FPGA manager | `alt_fpga_manager.c` | control register; copies of it in a call | take and give up control, reset, configure from a buffer or a stream, with or without DMA | success means that this image runs; failure leaves the FPGA released |
| bridge manager | `alt_bridge_manager.c`, `alt_bridge_f2s_gnu.s` | resets of the bridges, ports of the SDRAM controller | init and uninit of each bridge | no bridge is open into an FPGA that is not configured |
| clock manager | `alt_clock_manager.c` | enables, bypass, VCOs, multiplexers, counters, dividers | gates, bypass, sources, dividers, VCO changes, PLL configuration | every clock is on or off as before; a clock does not change its source while it is on |
| global timer driver | `alt_globaltmr.c` | counter and comparator, of two words each | start, stop, comparator, increments, interrupt, reads | a time is never put together from halves of two times |
| MMU support, console, test benches, project files | `alt_mmu.c`, `alt_printf.c`, `alt_16550_prompt.c`, `alt_pt.c`, `src/hw/testbench`, `src/hw/quartus` | | | not modelled, see section 6 |

### How they interact

All hardware components share one clock. At a rising edge each one samples the
registers the others had *before* the edge. `finite_state_machine` orders a job
with a one-cycle `enable` and waits for `done`; as `done` falls one edge after
`enable` rose, every order is followed by a state in which it is not looked at
(the comment at `finite_state_machine.vhd:134`). Reader and writer share one
Avalon master, whose address is multiplexed by the state of the controller.
Four row FIFOs rotate: one is being filled by the reader while the other three
feed `adaptive_threshold`, which pushes each word back into the FIFO it popped
it from because a row is used for three output rows. The filtered row goes
through a fifth FIFO (with lookahead output) to the writer, which overwrites the
row in memory. The program writes the address and the start bit, and polls the
done bit.

The program's `main` waits in an empty loop until `img_offset`, which the interrupt
handler `uart_callback` advances, reaches the size of the image; calls the
accelerator; and then sends the image by chunks: it clears `irq_hit`, enables the
transmit interrupt and waits until the handler, called with an empty transmit
FIFO, has filled it, disabled the interrupt and set `irq_hit`. The handler's call
that finds nothing left to send sets `transmission_done`. The same `img_offset` is
used for both directions, and receive interrupts are never disabled.

Before its loop, `main` opens the bridge to memory: the bridge manager asks the clock
manager whether the bridge is clocked and the FPGA manager whether the FPGA is
configured. It starts the global timer and then sets up the UART and the
interrupt controller, in sixteen calls that write registers one by one. The
hardware goes on beside them: a preloader has run before, and lines of other
devices may be high, so that an interrupt can come in as soon as the controller lets it,
and be dispatched by `alt_int_handler_irq` from a table that is being filled. The
calls of the FPGA and clock managers wait for hardware, with a limit
on the number of polls, and have to clean up behind themselves when a wait ends late.

### What is hard about it

There is no operating system and no protocol with retries; the difficulty is in
lock-step concurrency and cycle counting in the hardware, and in an interrupt
handler that shares its variables with the main loop in the program. Every hazard is listed with its line
in `PROJECT.json`; in groups:

* *done flags that lag one edge behind*, for the three jobs and for the
  program's first poll (`avalon_slave.vhd:58`);
* *the last word of a burst is still in a register when done rises*, and the
  multiplexer moves to the next FIFO at that moment
  (`finite_state_machine.vhd:169`);
* *in-place operation* while the next row is being fetched;
* *FIFOs popped and refilled at the same time*, one of them possibly empty;
* *stale contents*: the FIFOs survive a reset, and the output FIFO keeps the
  last word of every row;
* *counters*: 7-bit word counts with `=` or `>=`, 8-bit row counts, the off-by-one
  of `finite_state_machine.vhd:188`, a 12-bit sum of nine bytes;
* *reset of the fabric only*, in the middle of a run or between the program's two
  writes;
* *the bus*: a command is presented for one cycle and not held;
* *the interrupt handler*: it modifies `img_offset`, the two flags and the interrupt
  enable register between any two steps of the loop, for bytes that nobody
  expects as well;
* *interrupts during the setup*: of a device that is half configured, through a table
  entry that is half written, through a controller of which every interrupt is being
  tried out;
* *waits that end late, and failures in the middle*: a configuration has eight waits, a
  change of a VCO three; what was turned off for a change has to be on again on every way out;
* *copies of registers* that are written back later: enable registers in the clock
  manager, the control register in the FPGA manager, the FIFO control in the UART's handle;
* *values in two words*, read and written while the counter runs.

## 2. Modules

| module | models | kind |
|---|---|---|
| `Worker` | the enable/done handshake, for a job of any length | abstract |
| `FiniteStateMachine` | `finite_state_machine.vhd`, one action per branch | component |
| `ControlPath` | the state machine with three `Worker`s; the host pulses `enable` at any edge; resets at any time | composition |
| `ControlPathProofs` | theorems about `ControlPath` | proofs |
| `BurstReader`, `BurstWriter`, `AdaptiveThreshold`, `AvalonSlave`, `FifoMult` | the files of these names | components |
| `Scfifo` | the FIFO primitive as the two wrappers configure it | external library |
| `ReadPath`, `WritePath`, `FilterPath` | one component with its FIFOs, under every timing of its surroundings | composition |
| `RowPaths` | these three and `ThresholdOperator`, side by side | composition |
| `RowPathsProofs` | theorems about these four | proofs |
| `ThresholdOperator` | the arithmetic of `do_computation` and of the software filter | algorithm |
| `AvalonBus`, `HpsDriver` | memory and interconnect; `do_adaptive_threshold` seen from the bus | environment, program |
| `Uart16550` | the UART as the program uses it: `alt_16550_uart.c` and the device behind it | component, external device |
| `UartConfig` | `alt_16550_uart.c`: the setup of the UART and the driver's handle, access by access | component |
| `InterruptController` | `alt_interrupt.c` and the controller behind it, access by access | component, external device |
| `HpsSetup` | the setup in `main`, and any calls of the two drivers after it, with the handler in between | composition |
| `HpsSetupProofs` | theorems about `HpsSetup` | proofs |
| `FpgaManager` | `alt_fpga_manager.c` and the control block of the FPGA | component, external device |
| `BridgeManager` | `alt_bridge_manager.c` on top of it | composition |
| `ClockManager` | `alt_clock_manager.c` and the PLLs | component, external device |
| `ClockManagerProofs` | theorems about `ClockManager` | proofs |
| `GlobalTimer` | `alt_globaltmr.c` and the timer | component, external device |
| `Managers` | `BridgeManager` with its FPGA manager, `ClockManager` and `GlobalTimer`, side by side | composition |
| `ManagersProofs` | theorems about its `BridgeManager` and its `GlobalTimer` | proofs |
| `HpsBaremetal` | `main` and `uart_callback` of `hps_baremetal.c`, with the computer at the other end of the line | component |
| `HpsBaremetalProofs` | theorems about `HpsBaremetal` | proofs |
| `Buffer16550` | `alt_16550_buffer.c`: the rings between a program and the UART's interrupt handler | component |
| `Buffer16550Proofs` | theorems about `Buffer16550` | proofs |
| `ImageFilter` | what the accelerator promises: an in-place filter of the original image | abstract |
| `Accelerator` | the top level: everything together | composition |
| `AcceleratorProofs` | theorems about `Accelerator`: its handshakes, control path and bus, what its memory and FIFOs hold, and that it implements `ImageFilter` | proofs |
| `MC*` | values of the constants for TLC | model checking |

`RowPaths` and `Managers` put parts that share no variable next to each other, so that one
run checks them all: `part` says which one is looked at, and the others rest in one of
their initial states. They restate the assumptions on the constants of the modules
they instantiate, so that TLC evaluates them. What the parts do together is
`Accelerator` for the first; the managers share nothing but the bridge
manager's question for its clock, whose answer is left open in `BridgeManager`.

State and actions correspond to the code one to one. The registers of a VHDL
process are the fields of one record with their VHDL names; a field an action
does not mention keeps its value, as a signal does. A VHDL *variable* that
survives from edge to edge (`read_row`, `ColCounter`, `count`) is a field too. An
action is one branch of the process at a rising edge, its parameters are the
inputs sampled there, and its guard is the branch condition. `Clock(...)` of a
component is the disjunction of its actions, and the compositions conjoin the
`Clock`s of all components in one step `Tick`. Asynchronous reset is an action
`Reset`; registers without a reset keep their value in it and power up as 0, as
the registers of this FPGA do.

In `HpsBaremetal` the loop and the handler are two threads of which the second, once
entered, runs to its end while the first stands still: each action of the loop
has the guard that no handler is active. The program counter of the loop is
`main`, that of the handler `isr.at`, and an action is one access to the device or
to a shared variable, or a few that nothing can come between. What comes between
the handler's own steps is the line: bytes that arrive, and bytes that leave.

`Buffer16550` is built the same way. A call of the program reads the enable register,
writes it back with its interrupt disabled, works on the ring in one step (a level),
or two (a copy and what follows it), and enables the interrupt again in two
accesses; the handler may come in between any of these, and it does so with steps of
its own, so that what the two sides do to the register and the rings interleaves as
on one processor (`ALT_16550_BUFFER_ENABLE_SMP` is 0). The two tests for an empty or full
ring that precede a call are made when it begins. Bytes are numbered; the two that
are line ends, and those that are zero and end a search for one, are constants. The transmit
interrupt comes when the FIFO is down to its trigger, a quarter in the code, so that the handler
adds to what is still waiting there. `unread`, `unsent` and `intact` are histories.

The vendor drivers are modelled as what they do to registers. A call of `UartConfig`,
`InterruptController`, `ClockManager` or `GlobalTimer` is the sequence of its accesses:
`todo` (or `writes`) is what is left of it, one step takes one access, and in
between come the interrupt handler or the hardware. A call that is refused, for an argument out of range or
for the state the driver is in, has the empty sequence, or returns at once. Most
calls of these drivers read a register, change the copy and write it back; the copy is
part of the sequence where somebody else can write the register meanwhile, or where the call
writes it more than once. `FpgaManager` has one action per numbered step of the
configuration (the numbers are those of the source) and per poll of its waits. A register
of flags is the set of the flags that are up, a register of enables the set of what
is enabled; where the bits are is in headers that are not in this repository
and does not matter here. The loop by which `alt_int_global_init` clears the table of callbacks
(`alt_interrupt.c:234`) is one step: it takes the callback of an entry before its context, and the
handler calls nothing without one. A byte of an image is `<<image, n>>`, so that the FPGA
knows which image it has got, and which part of it.

Data is abstracted to its origin. A word is four pixels, a pixel of
`AdaptiveThreshold` is `<<lane, position>>` or `<<frame, offset>>`, and a filtered
pixel is the 3 x 3 window it was computed from: whether the right pixels meet is
what the surrounding machinery decides, and what is computed from them is the
subject of `ThresholdOperator`. In `HpsBaremetal` the bytes the computer sends are
numbered and filtering changes their sign: what matters is whether the n-th byte
sent comes back as the n-th.

Definitions whose comment begins with "Mutant" are plausible errors of the code
next to which they stand. No specification uses them; substituting one for
the definition it follows makes the property listed in `PROJECT.json` fail, which
shows that the property is not vacuous.

## 3. Runs

| run | question | instance |
|---|---|---|
| `control_path` | is the controller right whatever the components' timing? | 6 rows of 3 words, 2 addresses |
| `row_paths` | does a burst arrive word for word, is a row filtered and kept, is the fixed-width arithmetic exact, under any timing? | bursts and rows of 5 words, FIFOs of 8, any lanes empty; pixels 0, 85, 255: all 3^9 windows |
| `accelerator` | do they work together, from the program's request to its answer? | 4 rows of 3 words, FIFOs of 3, two images, one reset |
| `hps_baremetal` | does an image come back byte by byte, whatever the computer sends and whenever? | images of 5 bytes, FIFOs of 4, trigger 2, 10 bytes sent |
| `uart_buffer` | do the rings keep what was put into them, and their interrupts, whoever comes in between? | rings of 2, FIFOs of 2, transmit trigger 1, 3 bytes received, one of them zero, 2 written, no echo |
| `uart_buffer_echo` | the same for the rings alone, with echo | the same, nothing written |
| `managers` | does a driver's call report what the hardware is in, and leave nothing half done, whatever fails on its way? | 2 clock calls, 4 timer calls, any number of FPGA and bridge calls; two FPGA images of two words |
| `hps_setup` | does the setup reach the loop, safely, whatever a preloader has left enabled? | 3 interrupts, 2 processors, 2 calls after the setup |
| `reads_inside_image` | counterexample, section 5 | as `control_path` |
| `left_neighbour` | counterexample, section 5 | 4 rows of 3 words, one image |
| `buffer_read_in_order` | counterexample, section 5 | rings of 3, 5 bytes received |
| `remainder_written` | counterexample, section 5 | as `managers`, FPGA and bridges alone, a buffer of 3 bytes |

*Bounds.* Six rows make `select_idx` wrap and reach every combination of first,
middle and last row; the size of the image is a constant, and the proofs of
section 4 hold for every size. The row counters are eight bits wide as in the
code, and `RowCountAssumption` keeps the image in their range (240 rows in the
code). Five words per burst separate the first, the second, a middle, the last
but one and the last word. Rows of three words are the narrowest that
`adaptive_threshold` can filter: it has a first, a middle and a last step. In
`accelerator` four rows use each of the four FIFOs for at least one row, the row
behind the image reuses the first, FIFOs are exactly as deep as a row so that any
excess overruns them, and the second image finds whatever the first one left
behind. `MaxFrames` and `MaxResets` bound the behaviours.
In `row_paths` the pixel values are the extremes, where the sum is largest,
and a third of white, so that nine pixels of unequal values sum up to a tie.

In `hps_baremetal` an image is longer than the FIFO, so that it is received and
sent in several chunks, and not a multiple of the trigger, so that its tail comes by
timeout. Ten bytes are two images, or one and any traffic during its filtering
and its way back.

In `uart_buffer` two bytes fill a ring, so that three received and two written ones fill
and wrap it and find it full; a read or write takes one byte or two, and two received
bytes are needed for a receive interrupt, one for a timeout. With a transmit trigger of one
byte the handler comes in with a byte left in the FIFO, which then takes one more. The zero
byte may be the line end's neighbour, in the same part of a wrapped search or in the other.

In `managers` a buffer for the FPGA is shorter than the image, as long as it, or longer than
what the FPGA may be given; a stream's callback delivers nothing, a word, more than
it was asked for, or an error. Every wait is polled twice, so that it can end early, at the last poll, or
late; the power of the FPGA may go at any moment. Two calls of the clock manager are
enough for one to disturb what another has set up (a bypass, a source, a gate). A PLL may get
or lose its lock at any moment, whatever is written to it. Two settings of the multiplexers
are taken, which differ in the source of the slow clocks. The
changes of the VCOs lie inside and outside of the guard band and the limits, and `Word`
is so small that a product wraps. The timer's words have three values, and its counter runs
far enough for the high word to change four times during a read. The state spaces
of the three parts add up and do not multiply, as the others rest.

In `hps_setup` there is the interrupt of the UART, one of the fabric and a software interrupt,
the latter two enabled by the preloader. `Priorities`, `Targets` and the like hold a legal
and an illegal argument each. Two calls after the setup, of the whole interface of
both drivers, let one undo what the other relies on.

*What the properties say* is stated above each of them. The central ones:
`WriteBehindReads` (in-place operation), `DoneBelongsToJob`, `RowsIntact` (no FIFO
ever holds words of two rows, of two images, or a hole, or is overrun), and the refinements:
`ReadPath` and `WritePath` implement `Worker` (`ImplementsWorker`); `Accelerator`
implements `ControlPath` (so that its theorems carry over) and `ImageFilter`.

The program cannot keep apart what arrives out of its time: a byte that comes
before the buffer is allocated, while an image is filtered or while it is sent
back is stored at the wrong place, or dropped, and moves `img_offset`. The history
variable `clean` of `HpsBaremetal` becomes false when that happens, or when the
receive FIFO overruns. `ImageIntact` and `ReplyIntact`, which say that images arrive
and come back intact, hold as long as it is true. All other properties hold in
any case: the handler's copies stay in the buffer and within the FIFOs
(`CopyInBounds`), and every transmission ends. `Handshake` and `SentBeforeNext` are about
loop and handler: no wake-up is lost, no update of the enable register is torn, the next
image is awaited only when this one is on the line.

Of the drivers, `SuccessMeansLoaded`, `SuccessMeansRunning` and `ControlReleased` relate what a call
returns to the state of the hardware, `GatesRestored` the clocks after a call to those before it;
`BridgeGuarded`, `NandAfterX` and `GlitchFree` order what two calls do, or two steps of one.
`SetupSafe`, `ContextMatches` and `SetupEnds` are about interrupts during the setup. Some of them name
exceptions, because the code does not keep them there: `GatesRestored` (NAND after C4 of
the main PLL or C3 of the peripheral PLL; the slow clocks after C4 of the peripheral PLL),
`GlitchFree` (the same counter; `alt_clk_source_set` by its interface), `SuccessMeansRunning`
(the PLLs whose lock or bypass bit is not the one looked at; and, of the main PLL, a lock that a change of its VCO
has waited for and that is lost before the bypass is left), `HandleMatches` (after a
reset of the UART), `ContextMatches` (between the two assignments), `BridgeGuarded` (the FPGA's power
fails between the look and the release, or the program itself has started its reset) and
`HalvesTogether` (the fourth change of the high word). Section 5 says where these are in the code. An
exception is as narrow as the behaviour, and outside of it the property is checked.

*Fairness.* The clock ticks: weak fairness of `Tick`. Of the surroundings it is
assumed that the bus answers a burst and does not ask to wait for ever (`Answer`,
`Served`, and `JobsEnd` in `ControlPath`, where the jobs are abstract), and that
the processor goes on with its polling loop. Nothing is assumed of the
components; `JobEnds` shows that the fairness `ControlPath` assumes of
its workers is provided by the real ones.

In `hps_baremetal` the processor goes on in the loop and in the handler, takes
interrupts that are pending, and the line transmits: weak fairness of `Main`,
`Handler`, `uart_callback`, `ShiftNext` and `PcReceives`. The empty loops (`Spin`) and the
computer's bytes are under no fairness.

In `uart_buffer` a pending interrupt is taken between two calls, however many calls
there are: strong fairness of `RxInt`, `TxInt` and `LineInt`, since a level that is high
again after each call interrupts as soon as the call has enabled it. A call gets its
turn between two interrupts (`SF_vars(Program)`), because the driver leaves the transmit
interrupt enabled when it has nothing left to send. `Drained` claims nothing for a
TX buffer as long as the RX buffer is full: a program that polls the level of the TX
buffer and never reads can enable the receive interrupt, from a stale copy of the
register, each time the handler has disabled it, and the receive interrupt, which has
the higher priority, then always comes first.

In `hps_setup` the handler goes on once it has been entered (`WF_vars(Handler)`), and the program gets
its turn between interrupts (`SF_vars(MainCall)`, `SF_vars(Access)`). The calls after the
setup, the lines and the bytes that arrive are under no fairness. `SetupEnds` then says that
no interrupt is taken again and again without anybody quieting it: during the setup the
driver has turned off what the preloader left enabled before it opens the controller, and the
table has a callback before its interrupt is enabled. `managers` claims no liveness: its waits are bounded in the code,
except for the acknowledgement of a counter's reset, which is the hardware's.

The type invariant of the fabric is part of `RowsIntact`, that of the program is proved.
`ComputeWindow`, `BurstsBounded` and the inductive invariants `IInv` are proved and so
are not among the invariants of a run.

*Deadlock* is checked in every run but those of `MCManagers` and `MCHpsSetup`: a clock edge is possible in every state of the
fabric, and the program's loop and its line never stop. `managers` and `hps_setup`
come to an end when their bounds on calls are used up.

### Assumptions about the surroundings

* `AvalonBus!Polite`: the interconnect takes a command or a word in the one cycle
  in which it is presented, and delivers no read data in a cycle in which it asks
  to wait. The components neither hold their strobes nor look at the wait
  request in that cycle (`burst_reader.vhd:74`, `burst_writer.vhd:68`), so they are
  right only on such a bus. `ReadPath` drops the second half of the assumption.
* `HpsDriver!Gap`: the processor's write of the start bit and its first read of
  the done bit are not in adjacent cycles of the slave. They are separate
  transactions of the bridge; done falls two edges after the write. Without the
  gap the first poll would return the done of the previous image.
* The reset button resets the fabric, not the processor (`DE1_SoC_top_level.vhd:332`),
  and the interconnect forgets unfinished bursts. After a reset the accelerator is
  free to leave the image half done; the next request must work again.
* The lookahead FIFO shows a word in the cycle after it was pushed. The primitive
  takes longer when it was empty, but a row is complete several cycles before
  the writer is enabled.

* The UART's interrupts follow the state of its FIFOs (`Uart16550`); a receive
  timeout comes at any time while bytes below the trigger are waiting. The FIFOs
  are enabled and the device is the SoC's, so that no driver call returns an error.
* What a preloader leaves behind is in `Preloaders` and `UartInit`: the controller may be on, with
  some interrupts of the fabric enabled but without the UART's, and the UART
  may be in reset or in use.
* Registers of the clock manager, the FPGA manager and the timer are written by
  one program only, and not by its interrupt handlers.
* The FPGA's control block (`ControlBlock` in `FpgaManager`) takes bytes in configuration mode only,
  is done when an image is complete, and forgets it in a reset. A count of DCLK that was started ends
  at any time, also after its caller has given up.
* A PLL locks and loses its lock by itself, at any time (`Lock`, `Unlock`); a write to its VCO takes
  the lock away.
* Every access of the program to a variable is an access to memory. `img_offset`,
  `irq_hit` and `transmission_done` are not declared `volatile`; a compiler that keeps
  them in registers in the empty loops would break the program.

## 4. Proofs

`ControlPathProofs` proves, for every image size within the counters' range, every
word count and every set of addresses, that `IInv` is an invariant of
`ControlPath!Spec`, and from it `TypeOK`, `DoneBelongsToJob`, `BusOwner`,
`WriteBehindReads`, `ComputeWindow`, `AddressesTrackRows`, `BurstsBounded` and the
action property `DoneAfterLastRow`. None of them is inductive by itself: that the
writer has no job while the reader has one follows only from what each state of
the controller says of the enables (`EnablesFollowState`), of the jobs still going
on (`JobsFollowState`), of the row counters (`RowsFollowState`), of the address
registers (`AddressesFollowState`) and of the addresses that are on their way
from the controller to a component (`LatchedAddresses`). The proof has one step
per action of the state machine; the three handshakes are treated by lemmas.

`RowPathsProofs` proves of the arithmetic, for all windows of bytes, that the 12-bit sum and
the 16-bit product do not wrap, that the hardware therefore compares with the
exact mean (`BrighterThanMean`), and that the software filter differs from it on ties only (`DiffersOnTiesOnly`).
Of the reader and the writer it proves, for bursts of any length and FIFOs that take one, `BurstIntact` and that
each implements `Worker`. `ReadInv` says which words the bus has answered with, by the count and the state of the
reader, and that the FIFO holds them but for one that is on its way; `WriteInv` which words the bus has
taken, which one it is shown and that the FIFO holds the rest. `ReaderMoves` and `WriterMoves` say what one
clock edge does to the registers. Of the filter it proves `RowFiltered`, for rows of any length and any set of
FIFOs with a row in them. A row FIFO that is filtered is turned once, so that what it holds is a stretch of its
row taken as a ring (`Held`; `HeldEdge` is what one edge does to it). `LanesTurn` counts by the state of the filter the words taken
out and put back (`Popped`, `Pushed`); `PixelsKept` says which pixels the registers hold between two words, and
`OutputFills` that the output FIFO holds the first `Filtered` words of the row, with one more on its way while `Delivers`.
The exception is `RowFiltered`'s own: before the first row since the rows came in, the output FIFO may hold anything.

`HpsBaremetalProofs` proves, for images, FIFOs and triggers of any size and any
number of bytes, every invariant of the run `hps_baremetal`: `CopyInBounds` (of the
two parts `InsideBuffer` and `FifosRespected`), `Handshake` (`WakeUpNotLost`, `EnableNotTorn`),
`SentBeforeNext`, `ImageIntact` and `ReplyIntact`, and `TypeOK`. The inductive invariant has a part for the control and one for the
data. `Handshake` ties the enable bit to the place in the loop and to `irq_hit`;
without it the handler could be sending while the loop is elsewhere.
`TransferFits` carries the sizes the handler has computed from the step that reads
the level to the step that copies. `EndAnnounced` says what `transmission_done`
implies. While `clean` holds, `Incoming`, `Buffered` and `Outgoing` say, element by
element, what the receive FIFO, the buffer and the three parts of the way back
contain. There is one lemma per part, with one step per action.

`ManagersProofs` proves two things. Of `BridgeManager`, for images, words, chunks and waits of any size, any
setting of the mode pins and any set of bridges, the three action properties of the FPGA and bridge
managers: `SuccessMeansLoaded`, `ControlReleased` and `BridgeGuarded`. None follows from the steps it is
about alone. `Registered` says that the copy of the control register which every step writes
back is never stale, and in which steps each bit is up: `ControlReleased` needs it for every
way out. `ImageLoaded` says that only a complete image starts the FPGA and that a reset forgets it, `OwnData` that
from the step that has seen the reset on all bytes in the FPGA are this call's: together they make
success mean *this* image, though an earlier one may have been running. `BridgeHeld` carries what the
bridge manager has seen of the FPGA to the release. The lemmas about sequences
(`FirstOf`, `SentType`, `TakenType`, `StaysComplete`) are about what a writer hands over and what the FPGA keeps of it.

Of `GlobalTimer` it proves `HalvesTogether` for words of any size. The counter runs and the timer
fires between any two accesses, so the invariant is about calls that are half done. `Paired` says how the
comparator may be written: its low word only with the comparison off, the high word next; `CallsWritable`
shows that every call makes such a sequence. `HalfWritten` follows: the comparator differs from what was
asked for only between the two, when no event can come. `Seen` says that the low word in hand was read at
a time at which the high word was no smaller than the first one read, so that finding the same high word
again makes the two one time; each round that does not is a change of the high word, and four of them
are the exception `HalvesTogether` names.

`ClockManagerProofs` proves all four properties of the clock manager, for any frequencies, limits and settings and any
order of calls. What a call has left to do is known when it begins, so that each invariant is about the
steps in `todo`: it is proved of the program of every call (`Calls`, `ProgramSound`, `ProgramReady`) and of what is
left after one step of it (`Steps` lists the steps, `Taken` what one does). A program is put together from parts, and the lemmas about concatenation
(`SoundConcat`, `GuardedConcat`) say that the parts may be looked at one by one. `Sound` keeps the NAND pair
together at every write and ends, for each enable register, with a write of what was found (`Tidy`,
`Restores`); `NandAfterX` and `GatesRestored` follow. `BypassInv` says of a call in progress that a step which ends the bypass
is still to come, unless the PLL is out of it, and that giving up early excludes success: the lock was waited for, and
the time-out of that wait is not overwritten (`Waited`, `Known`). The history `seen` holds the PLLs that the waits of
this call have found locked; as a lock may be lost at any time, all that success tells at the end is that the main PLL is among them.
That is `SuccessMeansRunning`, whose exception is a PLL in `seen` that is not locked when
`alt_clk_pll_bypass_disable` looks. For `GlitchFree`, `Touches` names
the steps that change what a slow clock is made from; `Ready` says that such a step has a write before it that
turns the clock off, and none in between that turns it on, or finds it off already, which a program shown to be
`Guarded` fulfils. `alt_clk_pll_cfg_set` turns nothing off: it writes counters only while their PLL
is bypassed, and the slow clocks come from the oscillator. The exceptions are those of the properties.

`AcceleratorProofs` proves that the accelerator with its FIFOs, its bus and the program implements
`ControlPath` (`ControlRefined`: every edge is a step or a stutter of it), from what each component
promises of its registers (`Handshakes`). The prover cannot instantiate a theorem of another module, so
that the control invariant is proved once more of the accelerator (`ControlInvariant`); the proofs
below use it as `Control!IInv`. `Bursts` ties the burst the bus has under way to the states and counts
of the reader and the writer; with the control invariant, by which reader and writer never work at once, it gives
`OneBurstAtATime`.

The part about the rows proves `RowsIntact`. The invariant follows the words: `MemoryInv` says that what has
not been written back yet is the original image, up to the row and word the writer has got to; `FillInv`
that the FIFO being filled holds the words of its row that have come over the bus, but for one
that is on its way; `LanesInv` that each of the three FIFOs being filtered holds
the words of its row from the next one on, followed by those put back (`Popped` and `Pushed` count both by the
state of the filter); `OutputInv` how many filtered words wait for the writer. Each component
has a lemma saying what one edge does to it (`FsmMoves`, `ReaderMoves`, `FilterMoves`, `WriterMoves`); the
parts are preserved because the components move together, and `FetchEnds`, `FirstLanes` and `LanesShift` are the
three places where a FIFO changes hands. Nothing is said of the words of an aborted run,
only of their number: that the FIFOs are not overrun holds of such a run, too. The attempt to prove
`RowsUnmixed` showed that it had been stated too strongly: an image of two rows never uses the fourth FIFO, so
that there is no row its words could belong to. It now speaks of FIFOs that are not empty.

The last part proves that the accelerator implements `ImageFilter`: for every image size, FIFO
depth and timing of the bus, the program and the reset button, a clock edge writes the next word of the
image, filtered from the original one, or changes nothing the program could see. Three more
invariants take the filtered pixels from the lanes to memory: `FilterData` says which pixels of the row the
registers of the filter hold between two words, `OutputData` which words the output FIFO holds and which one
is being written, `MemoryData` that everything before `Progress` is filtered. `PixelsOf` is where the three
slices of hardware pixels meet the 3x3 window of `ImageFilter`, the edges of a row included. A run that was
aborted and started again without an address is harmless because its writes end below the buffer (`AbortedWrites`,
the only use of where the buffer lies).

`Buffer16550Proofs` proves `RingsIntact` and `InterruptsArmed` for rings, calls, reads and lines of any
size, with the handler between any two accesses of a call. The data part is short: the bytes on their way to the
program are the ring, as far as the reader has not taken them, and the receive FIFO behind it (`RxIntact`), and those
on their way to the line the shift register, the transmit FIFO and the ring (`TxIntact`). The transmit FIFO is never
handed more than it takes (`FifoKept`): between the look at its level and the copy it can only become emptier. That both are kept rests on
who may be where. `ProgOK` and `IsrOK` say of each place what the sizes in hand are worth there: a call that copies has
room behind what it has found, a handler that copies takes no more than there is. `Exclusive` says that the handler is
not in the section of a call of the same direction, since its interrupt is disabled there. A line
is written in chunks, of bytes that may each become two: `ChunkInItems` shows that every chunk takes at least one of
them and none that is not there. `Armed`
is about the enable register, which program and handler read, change and write back: what a call has read from it
is not less than what is in it, because the handler in between only turns off, never on, so that writing it back
enables at most too much, and the handler finds that there is nothing to do.

Both theorems have a hypothesis, which is where the code's promise ends. `RingsIntact` needs one writer to the TX ring
(`OneWriter`): the echo writes to it in the receive interrupt, which a write of the program does not
disable (section 5). `InterruptsArmed` needs the echo off (`EchoModes = {}`), because the echo's call
enables interrupts from within the handler. The run `uart_buffer` is without echo, `uart_buffer_echo`
without the program's writes; the first fulfils both, the second `OneWriter`.

`HpsSetupProofs` proves `HandleMatches`, `SetupSafe` and `ContextMatches` for any number of banks and any
interrupts in them, whatever the preloader left, and any arguments and order of the later calls. As in
the clock manager, what a call has left to do is known when it begins; but handle and register are written one after the
other, so that between two accesses they disagree. `View` is the part of handle and UART that
the calls depend on, `Effect` what one access makes of it, and `Runs(v, t, w)` that the accesses `t` lead from `v` to `w`.
The invariant `HandleInv` says where what is left of the call leads: to a view in which handle and UART agree (`Agreed`).
Then an access is one step on that way (`FirstRuns`), a call is put together from its parts (`BothRun`), and each
call of `alt_16550_uart.c` is looked at once, for the UART of the SoC and for the one in the fabric.
`Registered` does the same for the table of callbacks: callback and context belong together, or the accesses left of a
registration are about to make them so. `SetupInv` follows `main` call by call. The processor takes no interrupt before
`alt_int_global_init` has turned all of them off, bank by bank (`AllTurnedOff`); none is enabled then until
`main`'s last call; and by that time the FIFOs are on (`FifosComing`) and the callback is registered.
The attempt to prove `GicTyped` brought out a mistake in the model: the guard of `alt_int_sgi_trigger`
had been laid out so that it parsed as an equivalence of something else, and has been corrected to
`alt_interrupt.c:837`.

Assumptions: the named `ASSUME`s of the modules, and TLAPS's library. Those of `Accelerator` are the
widths of the counters (rows are counted in 8 bits, and one row more is fetched; words of a row in 7),
at least three words in a row (the filter's row ends in its last but one word), FIFOs that
take a row, and a buffer that is aligned to words and lies above the memory a start after a reset filters,
which begins at address 0.

Those of `RowPaths` are a burst of 2 to 127 words, a row of at least three words, and FIFOs that take either;
what the filter decides is proved for pixels of 8 bits.
That a multiplexer has no setting but its choices is
`MuxAssumption` of `ClockManager`. `BufferAssumption` asks for rings of at least one byte and an output
buffer of at least two, and `InterruptsAssumption` for whole banks of interrupts, of which those that the
hardware has and those a preloader enables are some; numbers from 1020 on mean no interrupt.
`SetupAssumption` says that the UART's interrupt is one of them and that priorities, divisors and baud rates are
natural numbers, `UartAssumption` the same of the clock and the default baud rate.

Every safety invariant, action property and refinement of the passing runs is stated by one of these theorems. Only
model-checked is what must eventually happen: `RunEnds`, `JobEnds`, `HostAnswered`, `TransmissionEnds`,
`ImageCompletes`, `Drained` and `SetupEnds`. Liveness and everything else that needs fairness is out of
the prover's reach. So is induction over data as a rule to apply, since its theorem takes an operator as a
parameter; where a recursive definition had to be unfolded (the banks of `alt_int_global_init`, the lines of
`FlattenSeq`), the proof takes the least counterexample instead (`LeastNat`).

## 5. Findings

1. `finite_state_machine.vhd:188` compares `read_row > row_count`. The fetch of row
   240, the first one behind the image, is not replaced by a dummy read: 320 bytes
   behind the buffer (`hps_baremetal.c:304`) are read and used as the lower
   neighbours of the last row. `BurstsBounded` shows (and the proof confirms) that
   nothing beyond that row is read and that only the image is written.
2. `adaptive_threshold.vhd:187` and `:223` take the third instead of the fourth pixel
   of the previous word as the left neighbour of the first pixel of a word. The
   models reproduce this (`LeftOf` in `ImageFilter` and `FilterPath`), so that all
   other properties are checked of the code as it is.
3. `alt_16550_buffer.c:810`, `:974` and `:1102`: a copy that wraps around the end of a ring
   advances the caller's pointer past its first part twice. The caller gets a gap and
   memory behind its own is written (reads), or bytes are skipped and memory behind is
   sent (writes). `RingsIntact` therefore starts from what was *put* into the TX buffer.

4. `alt_fpga_manager.c:210`: the last one to three bytes of a buffer that does not fill its last
   word are taken from the *start* of the buffer, because the loop before has counted the length down to
   them; with DMA they are sent twice. The proofs hold for the code as it is: such an image is
   not complete, and the FPGA does not start on it.

Of the ring buffers the following is reproduced by the model too, without a run of
its own. `alt_16550_buffer.c:842` counts the line ends of a raw read behind what was
read, so that `rx_nl_count` is wrong afterwards. Echo without injection (line 174) does
not return from the handler when the TX buffer is full: only the handler empties it,
and in that mode the echo repeats a write that takes nothing. And a call's
read-modify-write of the enable register (line 766) undoes the transmit interrupt that
an echo has enabled in between. Without echo the handler only disables the receive
interrupt, and `InterruptsArmed` holds. With echo the handler writes to the ring line
1067 writes to, too, so that `uart_buffer_echo` has a program that only reads.

The other drivers show the following, without a run of its own; where a property excepts it, section
3 says so. In `alt_clock_manager.c`: after a change of C4 of the main PLL or of C3 of the peripheral
PLL the NAND clock is lost if SDMMC, or the interface clock, was not on with it (lines 3300 and 3500); the
change of C4 of the peripheral PLL looks for the slow clocks in the wrong enable register (line 3530); `alt_clk_plls_settle_wait`
reports clocks that are seen settled at the last poll as too late (line 297); for the SDRAM PLL the bypass is left by
clearing the bit of the input multiplexer (line 640); `alt_clk_pll_vco_cfg_set` waits for the lock of the main PLL,
whichever PLL it has changed (line 2452), and drops the error by which `alt_clk_pll_bypass_disable` refuses while the PLL in
question is not locked (line 2456), so that it reports success and leaves the peripheral PLL in its bypass
when its lock is late, and the main PLL when it loses its lock between the two lines; a frequency is computed in 32 bits and may wrap into the limits (line 2272). The calls of the SDRAM PLL
that are not modelled use a wrong shift (line 3629) and let it out of its reset once more than it was
put into it (line 2065). `alt_fpga_manager.c:248`: a count that ends between the clearing of
its flag and the next count is taken for the next one. `alt_16550_uart.c:138`: the reset of an
SoC UART returns its registers to their defaults and the handle keeps what it has cached.
`alt_globaltmr.c:158`: when the high word has changed for the fourth time `cnt` wraps, and the time that is returned mixes
two of them; `alt_globaltmr_comp_get` relies on the comparator not changing, which it does with increments. In
`hps_baremetal.c` the result of `alt_bridge_init` is ignored (line 239), so that the program would wait for ever
for an accelerator behind a closed bridge.

Not a finding but worth knowing: on a tie the hardware answers black
(`adaptive_threshold.vhd:113`) and the software filter white (`hps_baremetal.c:213`).

## 6. Not modelled, and the plan

Done in this order: controller and its proofs; reader, writer, filter and FIFOs,
each with its surroundings; the top level and the refinements; the arithmetic; the
exchange of images over the UART and its proofs; the ring buffers; the setup of UART and
interrupts; the FPGA and bridge managers and their proofs; the clock manager; the global timer.

Next:

1. The SDRAM PLL: its counters and its configuration, which ramp phases step by step.
2. The ring buffers on several processors: `isr_rx` and `isr_tx`, which tell a call that
   the handler is still at work, are set after the interrupt status has been read.

Not modelled:

* of `alt_clock_manager.c`, beside the SDRAM PLL: the raw register calls and the calls that only read,
  the recalculation of the limits of the counters, the setters of
  the guard band and the interrupts on a lost lock, which no other call depends on;
* of `alt_fpga_manager.c`: the general purpose signals and the interrupts of the monitor (one
  register write each), and the steps that are not compiled (`_ALT_FPGA_USE_DCLK`);
* of `alt_interrupt.c`: the stacks of the processor modes, and the calls that only read;
* of `alt_16550_uart.c` and `alt_globaltmr.c`: the calls that only read; of `alt_16550_buffer.c`:
  `alt_16550_buffer_uninit`, the two queries of a size, the build for several processors;
* of `hps_baremetal.c`: the LEDs and the delay, which nothing reaches before the loop;
* `alt_mmu.c`: it fills translation tables in one pass, without waiting for or competing with
  anybody, and is never called;
* formatting and semihosting (`alt_printf.c`, `alt_pt.c`, `alt_16550_prompt.c`), pin assignments and generated
  project files, and the test benches, which contain stimuli but no assertions.
