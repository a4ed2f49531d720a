# Verification of the eMMC controller

TLA+ models, TLC runs and TLAPS proofs of the eMMC host controller in this
repository, the RTL under `src/rtl` and the polling driver under `src/driver`,
and of the board support code of its example design that runs concurrently: the
UART drivers and the trap, interrupt and task-switch code
(`src/example_design/soc_emmc/sge/bsp/driver`, "BSP" below).
Every definition is translated from the source; `PROJECT.json` maps each one to
its lines.

## 1. Inventory

### 1.1 The system

    caller -> driver --APB--> APB slave -> CSR block -> command processor -> serdes lanes -> pads -> card
                                               ^               |  ^
                                         INT_STS|        words |  | emmc_req_done, mem_free, mem_avail
                                               +---------  data FIFO <-> AXI4 (or AHB-Lite) manager <-> memory

All of it runs on one clock, `clk_i`; the card's clock is `clk_i` divided, seen
by the logic as an enable pulse (`ckp` in the models). Concurrency is that of the
always blocks, of the bus, of the card, and of the driver, whose register
accesses land on edges it does not choose.

The example design is a RISC-V system on chip around the controller. Its BSP is
where code runs concurrently on the processor: `uart_isr` between any two steps of
`uart_getc` and `uart_putc`, and the trap handlers between any two instructions of a task.

    task -> uart_getc/putc -> ring buffers <- uart_isr <- isr_callback <- trap_handler <- trap_entry
      ^                                                        | claim, complete             |
      +---------- mret, switch_to <----------------------------+--- PLIC, CLINT <---- devices


| Part (source) | State | Operations | Talks to |
|---|---|---|---|
| Command processor (`emmc_cmd_proc.v`) | FSMs `cmd_cs`, `rsp_cs`, `wdt_cs`, `recovery_cs`; word and block counters; one timeout timer; saved response registers; request flags | take a start pulse, send, receive, move blocks, count, time out, restart | CSR (start, busy, done, errors), lanes (word handshakes), bus manager (`wait_rd_data`/`wait_wr_data`, FIFO accesses, `emmc_req_done`) |
| Serdes lane (`emmc_serdes.v`, bundled by `emmc_serdes_top.v`) | bit counter, direction, dummy and CRC control, start-bit latch | load a word, shift, wait for a start bit, restart | command processor, pads |
| Pads (`emmc_iologic.v`) | input registers | sample, detect start bits and busy | card |
| Data FIFO (`emmc_fifo.v`) | vendor memory, its output register, two-word read-ahead, thermometer code `adv_pipe_stt` | write, read, fetch ahead | both data movers |
| AXI4 manager (`emmc_axi4_m.v`) | FSM `busreq_cs`, address, burst and block counters, write queue, word counter and the comparisons registered from it | burst per (part of a) block, count blocks, report the end | command processor, memory |
| AHB-Lite manager (`emmc_ahbl_m.v`) | the same, pipelined address and data phases | the same | the same |
| CSR block (`emmc_csr.v`) | configuration, self-clearing start and reset bits, INT_STS, block length | write, read, set on event, clear by writing 1 | APB slave, command processor |
| APB slave (`emmc_apb_s.v`) | address, data and strobe registers, `pready` | one access in three (write) or four (read) edges | processor, CSR |
| Clock generator (`emmc_clkgen.v`) | divider, enable pulses | divide | all lanes |
| Top level (`emmc_top.v`, `lscc_emmc_controller.v`) | reset synchroniser | core reset, connections | all |
| Driver (`emmc_controller.c`) | handle: block size, address, response copy | one function per command: program, start, poll busy, read responses, read and clear INT_STS | APB |
| SD initialisation (`sd_init.c`) | none | command sequence through `sd_send_cmd` | APB |
| BSP: UART driver (`uart/uart.c`) | two ring buffers with locations and counts, `ier`, line settings | init, getc, putc, config, set_rate, `uart_isr` | device, interrupt controller, program |
| BSP: local UART driver (`riscv_rtos/local_uart.c`) | line settings | the same, polled | device, program |
| BSP: traps and task switches (`riscv_rtos/entry.S`, `trap.c`, `interrupt.c`, `exception.c`) | `mscratch`, contexts, `g_trap_depth`, `mstatus`, handler tables | trap, dispatch, return, `switch_to`, `prepare_*`, `enter_*` | tasks, handlers, PLIC, CLINT |
| BSP: interrupt controller and timer drivers (`riscv_rtos/plic.c`, `clint.c`) | `plic_int_table`, enables, timer compare | register, enable, disable, claim, complete, start and stop the timer | traps, devices |

### 1.2 What is hard, and what makes each part correct

* **Command processor.** Four FSMs, a shared timer and a restart that overrides
  them all. Hard: the restart outlasts busy; a timeout meets a late answer; the
  data lane and the command lane restart separately; the response may come
  before, during or after the data. Correct if no start pulse is lost, busy
  falls once and with a done event, idle means that the lines are free, errors
  are flagged in time for who polls busy, a completed command moved all its
  words and filled its response registers, and every command ends.
* **Data FIFO.** Hard: room for a word in flight is judged by a code, not by the
  registers. Correct if it is a queue and never sleeps on a word.
* **AXI4 manager.** Hard: it decides on comparisons two edges old, and counts
  blocks after it has asked for them. Correct if every word is in one place and
  in order, bursts have the announced length and stay in the buffer, the FIFO
  neither overflows nor runs dry in a block, and every request ends.
* **Driver and CSR.** Hard: status is sticky, set by events and cleared by
  writes at any distance; nothing ties a status bit to a command but the order of
  the accesses. Correct if the engine is started only at rest, the status
  and response a call returns are its own command's, no error is lost or
  inherited, and every call returns.
* **AHB-Lite manager.** Hard: a beat's address is on the bus an edge before its data,
  and the two are counted by registers of their own. Correct if every word is
  stored at its own address, in order, none missing or too many at the end.
* **UART driver.** Hard: program and handler share a count that neither updates in one
  step, and each turns on the interrupt the other turns off. Correct if
  both directions are queues, no interrupt that is needed stays off, and a write
  returns and is sent.
* **Traps.** Hard: one context per task holds what is saved, `mscratch` is the only
  pointer to it, and a handler may cause an exception or never return. Correct if a
  task finds its registers and its place again, the depth counts the handlers under
  way, no claim is forgotten and no enabled source lacks its handler.

`PROJECT.json` lists the hazards at their lines, each with the properties that
watch it or the reason why none does.

## 2. Plan

In the order of what matters most to a user of the controller:

| | Modules | State |
|---|---|---|
| 1 | `CmdEngine` (abstract), `EmmcCmdProc` refines it; `EmmcCmdProc_proofs`, `EmmcCmdProc_lane_proofs` over it | modelled, checked, proved |
| 2 | `WordQueue` (abstract), `EmmcFifo` refines it; `EmmcFifo_proofs` | modelled, checked, proved |
| 3 | `EmmcDriver` over `CmdEngine`; `EmmcDriver_proofs` | modelled, checked, proved |
| 4 | `Axi4Manager` over `EmmcFifo`; `Axi4Manager_proofs` | modelled, checked, proved |
| 5 | `AhblManager` over `EmmcFifo`; `AhblManager_proofs` | modelled, checked, proved |
| 6 | `LocalUart`, `UartDriver` over it, against `WordQueue`; `UartDriver_proofs` | modelled, checked; core proved |
| 7 | `Plic`, `HartTraps` over it; `HartTraps_proofs` | modelled, checked, proved |

What is left: the generate block `gen_blk_gt1KB` of the AHB-Lite manager, and, should the top level ever instantiate it, the asynchronous FIFO.
Section 7 says what is left out for good and why.

The set of runs is kept small, one for each question; a new component gets one
passing run, and a variant run only for a disagreement it shows.

## 3. Modules

**`CmdEngine`.** What software may rely on: a start pulse at rest is taken
(Accept), the engine is busy until it Retires with a done event, no done event
comes alone, only a core reset (Abort) drops a command. It is used twice:
`EmmcCmdProc` implements it, and `EmmcDriver` takes it as the engine and is
checked to keep the user's side of it.

**`EmmcCmdProc`.** One step (Tick) is one edge of `clk_i`. Each always block of
the source is a conjunct, each arm of a case statement a disjunct, in the
source's order of priority; restart overrides are the `...Goto` operators. A
lane is a record of what its current word does; word length, divider and bus
width become "this edge is the last bit or not", so one model covers every
configuration of them. Data and CRC bits are not kept: a mismatch is a choice
(`bad`). Device, host, bus manager and divider are the quantifiers of Tick.
`SoftReset` is the edge of `ip_core_rst_n`; it may come at any time.

**`EmmcFifo`, `WordQueue`.** The vendor memory is a bounded queue whose read
data appear an edge later (`latch`); `pipe` and `adv` are the read-ahead and its
thermometer code. `WordQueue` is the queue the three together implement.

**`Axi4Manager`** extends `EmmcFifo` and drives its `Edge`. Words of a transfer
are named by their index, so a word is right where it is at its own
address. The card and the command processor are the `Cp...` actions, the
subordinate is `Subordinate` and `Store`.

**`EmmcDriver`.** Each driver function is the sequence of its register accesses
(`Program`); between two of them any number of edges may pass, but at least the
APB slave's. Accesses that only prepare a command land as one ("regs"): nothing reads the
prepared registers before the start. The caller calls any function at any time
after the last one returned. INT_STS is a set of bits, set wins over
clear. The engine is `CmdEngine` with the error pulses the other models show:
its own while busy, and late ones after it.

**`AhblManager`** is to AHB-Lite what `Axi4Manager` is to AXI4, and also
drives `EmmcFifo`'s `Edge`. The subordinate's data phase is `dphase`; it stores
the word that is on the bus when it is ready. `CpFinish` also stands for a
request that is withdrawn, at any time.

**`LocalUart`** has the device (two FIFOs, line control, divisor), the polled
calls and the line settings, which `local_uart.c` and `uart.c` share line by line.
**`UartDriver`** adds the ring buffers, the handler and the calls with interrupts. A call is
under way while `call # None`; a step is one look at the device or one access to shared
state, so the count's load and store are two steps, with `pic_int_disable` in the first.
With `intrAvail = FALSE` nothing but the polled branches is left.

**`Plic`** has the interrupt lines, enables, claims, the timer and the registration
of a source, in the order of its writes. **`HartTraps`** extends it with the hart: a
step is a trap (`trap_entry` up to the call of `trap_handler`), a part of
`trap_handler` between which another exception may fall, or the way back. A task's
registers and place are members of small sets, and what a task does to them
between two traps is a choice made by the trap. `Abandon` is what `switch_to` and
the `enter_*` functions have in common: they never return.

**`..._proofs`** hold the theorems of the module they are named after, and nothing else;
`EmmcCmdProc_lane_proofs` those about its lanes, its timer and its counters.
**`MC...`** hold model values.

### History variables

`EmmcCmdProc`: `gap`, `rsp_timed_out`, `dev_words`, `mem_words`, `saved_rsp`
count what happened to the current command. `Axi4Manager`: `ram`, `pos`,
`dirty` (a timeout has happened since the last reset). `AhblManager`: `ram`, `pos`,
`waited`, `dirty`. `EmmcDriver`: `errs`,
`stray`, `ended`, `in_force` (the block lengths that card and driver may be
working with). `HartTraps`: `task` (whose turn it is), `kept` (how each
task was left), `clobbered` (tasks with an exception in their handler), `launched` (a task
was entered from no trap), `orphans` (claims of handlers that did not return).
They guard no action of the controller or of the BSP; `gap`,
`rsp_timed_out`, `dirty` and `waited` guard the host, as said below, and `launched`
bounds what a task does once.

## 4. Runs

| Run | Question | Result |
|---|---|---|
| `cmd_proc_safety` | all kinds of command, any device timing, timeouts, core resets at any edge | 9 properties hold, `EngineLive` among them |
| `cmd_proc_no_reinit` | as the first, with a host that goes on after a response timeout | `AllDataMoved` violated |
| `cmd_proc_long_block` | a block larger than MIN_BLOCK_SIZE | `AllDataMoved` violated |
| `fifo` | writes, reads and fetches in every interleaving | 3 properties hold |
| `axi_safety` | reads and writes of 1 and 3 blocks, timeouts, resets | 7 properties hold |
| `axi_wlast` | a read whose next block arrives while one is being written | `BurstShape` violated |
| `axi_big_block` | a block of two bursts | `RequestEnds` violated |
| `ahbl` | reads and writes, withdrawn requests, a wait state, resets | 2 properties hold |
| `driver` | any sequence of calls, timeouts, errors, late errors, resets | 10 properties hold |
| `driver_sd` | SD card initialisation | `ResponseOwn` violated |
| `uart` | reads, writes and line settings, polled and with interrupts | 6 properties hold |
| `hart` | interrupts, exceptions, nested exceptions, task switches, registration | 3 properties hold |

Each property of a passing run has a mutant in `PROJECT.json`: a change of a
modelled definition, such as a dropped guard or an off-by-one, under which TLC finds the
property violated. The mutated operators stand beside the originals, marked.

### Bounds

* *Command processor.* `BlockWords = 4`: first word, middle, the word at which
  `wdt_last` is computed and the last are distinct; one more word repeats the
  middle. `MIN_BLOCK = MAX_BLOCK = 4` (the sizes in words), and `MIN_BLOCK = 2` for
  `cmd_proc_long_block`. `BlkMod = 4` with 1 and 2 blocks: a block that is not the last.
  `PRESCALE = 4`, `TMR_MOD = 3`, `CmdTimeout = 0`, `DatTimeout = 1`: both limits
  are reached, in both orders of the events, and the timer can pass both.
  `PRESCALE` (32 in the code) only scales the timer. `HostGap = 4`: the edges
  that two APB accesses take at the least; the restart needs all four.
* *FIFO.* `SIZE = 4`, three data values: the memory fills while the read-ahead is
  full, empty and in between.
* *AXI4.* `MAX_BURST = 8` (256), blocks of 4 and 8 words, 1 and 3 blocks,
  `SIZE = 16`: shorter than a burst and exactly one; a FIFO of two blocks, as in the
  code. `MIN_BLOCK = 4`: the burst length of both sizes is right. Blocks under four
  words would be shorter than the latency of `all_blocks_done`; the smallest that the
  IP can be configured for has 64 words.
  `SETTLE = 3`, `GAP = 4`: the edges a command takes from its programming to its
  first block, and the least between two blocks, both far longer in fact.
* *Driver.* Two block lengths, the default and another; one call of each form and
  every call that changes what a later one depends on (the other commands are `Plain`);
  `WRITE = 3`, `READ = 4` are `emmc_apb_s`'s; `SETTLE = 3` is how long `EmmcCmdProc` can hold done
  after busy fell (HostInv: `gap <= 3`). `AccessAssumption` asks for `SETTLE < READ`: with more
  the next command could be started while done still is high. With two lengths
  `BlockLenInForce` excludes one of them after a success, also when calls with that length
  then fail, until a call with the other is made or the card goes back to the default. A
  third length would exclude one then too; it costs four times the
  states, and `LengthsInForce` is proved for any number.
* *AHB-Lite.* `SIZE = 8`, blocks of 2 and 4 words, 1 to 3 blocks: the smallest request
  larger than the FIFO is one of them. Of the edges on which the bus is not ready there is
  one (`waited`), on any data phase, and after it, as after a withdrawn request or a write
  larger than the FIFO, the next request comes after a core reset: `WordsDelivered` claims
  nothing of what these break (section 6).
* *UART.* `SIZE = 2` (UART_BUFFER_SIZE), so that full, empty, wrapped and one-left
  differ; `DEPTH = 2`, so that a burst can be one character, the device's FIFO or the buffer;
  `WAITING = 1`: a second waiting character only waits. Two characters, a rate of zero, one
  line setting the driver takes and one it refuses.
* *Hart.* One source with both modes: the source's lines, enables and
  claims are per source, and `HartInv` and `TaskKept` are proved for any set.
  Two tasks, two register contents, two places. `MAX_NEST = 2`: `trap_entry` does not save `mstatus`
  (`entry.S` 158-195), so with three traps within each other the second `mret` would leave M mode
  and turn interrupts on in a handler; two, an exception in a handler, is what the code
  can bear, and `HartAssumption` says so. A source is registered once, by `main`.

### Assumptions about the surroundings

* The host waits `HostGap` edges after it saw busy = 0 (`EmmcDriver` checks that
  the driver does: `EngineUsed`), and in the passing runs resets the core after a
  response timeout, which the driver does *not* do by itself.
* A read block does not start before its response does (`DatStartOk`) and, for
  blocks longer than a response, does not end before it (`DatEndOk`). With
  `ShortBlocks = TRUE` (such as 16 bytes on eight lines, less than the IP's smallest
  MIN_BLOCK_SIZE of 256) `AllDataMoved` does not hold: `wait_rd_data` is armed
  again by the level `cmd_cs = ST_CMD_RSP`.
* `Axi4Manager`: `PATIENT` has a block's words come when the previous block's
  burst is over; this is what `axi_wlast` drops. Software programs the next
  transfer when the bus has answered, and after a timeout resets the core.
* `EmmcDriver`: one card, which obeys a command that had no error, and may or may
  not have obeyed one that had.

* `RoomAssumption`: the data FIFO holds two blocks of the largest size (`FIFO_DEPTH`,
  `emmc_axi4_m.v:28`) and two blocks are at least two edges apart, as late as `mem_free` is.
* `AhblManager`: as `Axi4Manager`, with `Spoiled` for what is said above.
* `UartDriver`: one program calls; the device's FIFO of sent characters is filled only
  when it is empty. `uart_init` only notes the line settings; the device is taken to
  come out of reset with them. `pic_int_disable`, `pic_int_enable` and
  `pic_isr_register` are not in the repository: they mask the UART's interrupt, and
  registering happens in `uart_init`.
* `HartTraps`: tasks and handlers call the drivers; a handler of the program's own sets the
  pc of the context it is given; an ISR clears its device's line, or does not,
  and may be abandoned by `switch_to`.

### Fairness

* `EmmcCmdProc!FairSpec`: WF of `Progress`, an edge on which the divided clock
  runs, words end, the bus manager serves, and a card that was sent a block
  returns its status and leaves busy. The last two are needed because the code
  has no timeout there; nothing obliges the card to send a response or a
  read block, for which it has one.
* `Axi4Manager!AxiFair`: the clock runs, the bus takes addresses and beats it is
  offered, the card goes on. No timeout or reset has to rescue a request.
* `EmmcDriver!FairSpec`: WF of the clock, of the processor's next access and of
  the end of a command (`EngineLive`); SF of a command without error (`Answers`) and of a
  "ready" (`IsReady`), because two functions repeat without limit until
  the card answers so: without a card they never return.
* `EmmcFifo!FifoFair`: the clock runs.
* `UartDriver!FairSpec`: WF of `IsrRx` and of the line (`Shift`); SF of `IsrTx` and of the call's next
  step while no interrupt is pending. Strong, because characters that keep coming could
  otherwise keep handler and call from their turn for ever; the line needs
  thousands of instructions for a character.
* `HartTraps!FairSpec`: WF of `Interrupt` and of `Handle`: the hart takes interrupts that stay
  pending, and handlers return. `Settles` assumes nothing of the tasks, and asks only
  about behaviours in which interrupts and exceptions cease to come.

## 5. What is proved

For every value of the constants that satisfies the named assumptions:

* **`TypeCorrect`** (`Spec => []TypeOK`): one lemma per always block. The
  counters' ranges are their register widths; `dev_words` and `mem_words` are
  only in `Nat`.
* **`EngineInvariant`** (`Spec => []EngineInv`). `EngineInv` is inductive together
  with `TypeOK`: where each FSM can be while another raises a flag (`BusyInv`,
  `RspInv`, `DataInv`, `DoneInv`), what a restart has reached on each of its edges
  (`RestartInv`: from the second one on everything is at rest, though the
  restart goes on), and how far the host can have counted meanwhile (`HostInv`).
  `HostInv` is the reason for `HostGap >= 4`: with less, a start pulse can fall into
  the last edge of a restart.
* **`ImplementsEngine`** (`Spec => EngineSafe`): every edge is a step of
  `CmdEngine` or leaves its variables alone. It needs the invariant because a
  restart overrides the FSM in any state.
* **`CmdLaneInvariant`** (`Spec => [](CmdLaneInv /\ SavedInv)`): in every state of the command and
  response FSMs, what the command lane shifts, what is offered to it next and how many words
  of the response it has read, are on their way or saved. From it **`ResponseIsSaved`**
  (`ResponseSaved`): done comes only when the lane is empty, and by then the response FSM has
  taken every word.
* **`DatLaneInvariant`** (`Spec => []DatLaneInv`), on the assumptions called `DataHost` below: the
  same for the data lane (`DatWordInv`, `OfferInv`, `XferInv`), the words and dummies that follow a
  block's last one (`TailInv`), which way the lane goes (`DirInv`), and that a response timeout, which leaves
  words on it, stops the host (`TimedOutInv`). From it **`LinesAreFreeAtStart`** (`LinesFreeAtStart`).
* **`TimerInvariant`** (`Spec => []TimerInv`), with `TimeoutOrder` too: the one timer is awaiting a response, a
  status token or a block (`RspTimerInv`, `WrTimerInv`, `RdTimerInv`), and what it has counted for one never
  counts for the next; that is not so of the limit comparisons, which are registered, so
  the invariant also says where each of them can be stale. From it **`DatTimeoutIsAfterRsp`**
  (`DatTimeoutAfterRsp`) and **`ErrorsInTime`** (`ErrInTime`).
* **`CountInvariant`** (`Spec => []CountInv`), with `DataHost` and `WordHost`. `CounterInv` says how the word and block
  counters follow the data FSM: which word of a block is offered, that no block begins
  beyond the last, and in which states `all_blocks_done`, which is an edge late, can be
  trusted. `MovedInv` counts the words of the device and of the bus manager with them;
  for a read they differ by the words on the data lane (`OnLane`), so that `emmc_req_done` finds that lane
  empty. `CountEndsInv` carries both from the start of a command to its done. From it
  **`AllDataIsMoved`** (`AllDataMoved`).
* **`FifoCounts`** (`FifoSpec => []FifoInv`): for every word type and memory size the
  thermometer code counts the words that left the memory, so that none is
  overwritten. `EdgeStages` says what an edge does to the stages while none
  overflows, `EdgeCounts` that none does.
* **`ImplementsQueue`** (`FifoSpec => IsQueue`): the three stages are a queue of
  `SIZE + 2` words; `EdgeQueue` relates an edge to Put, Get, PutGet or a stutter.

* **`DriverInvariant`** (`Spec => []DriverInv`). `Place` is where a call is, its last access
  and its next one. `DriverInv` says, for each place, what the engine may be doing
  (`AtPlace`), when done can be seen (`DoneInv`), which errors INT_STS holds and
  whose they are (`StatusInv`), what the response registers hold (`AnswerInv`, `Asked`) and
  that both lengths are in force (`LengthInv`: `in_force` is the length of the last
  SET_BLOCKLEN that succeeded and, since then, those of the ones that failed, and the
  default after GO_IDLE_STATE or a reset). From it follow `DriverTypes`,
  `UsesEngine` (the driver keeps the user's side of `CmdEngine`), `ReadsOwnDone`,
  `ReadsAllErrors`, `ReadsOwnErrors`, `KeepsErrors`, `StartsFresh`, `LengthsInForce` and
  `ResponsesOwn`, the last for all calls but `sd_send_op_cond`, whose command the response
  decoder does not know (section 6).
* **`AxiInvariant`** (`AxiSpec => []AxiInv`), **`AxiTypes`**, **`AxiCounts`**. `FifoCounted`
  is not inductive: that a word of a read finds room depends on what has
  been promised to its block. `RoomInv` keeps that promise: two blocks of room minus what is
  still to come while a block comes, one block when `mem_free` lets the next one start, and
  an empty write register in between. The theorems say `ASSUME Data = Nat`, which is
  how a word is named in `Axi4Manager`.
* **`WordsInvariant`** (`AxiSpec => []WordsInv`), on the assumption called `InUse` below. `WordsInv` is `AxiInv` and,
  unless a request has been withdrawn, nine parts: how far address and block counter are in
  each state of the FSM (`BusInv`) and, with the delayed block counter, which burst is not yet
  counted (`PartInv`); that registers are programmed for an empty manager (`PlanInv`); where the card is in its
  block (`BlockInv`); where each word of a read or a write is (`ReadWords`, `WriteWords`);
  that the words of a burst come before it ends and none of the next, so that its
  word counter is right (`AheadInv`); and that a block to the card finds
  its words at the FIFO's output (`BlockWordsInv`). That a burst ends as it was announced (`ShapeInv`) outlives a withdrawn
  request, because its subordinate does not know of it. From it follow **`BurstsEndInTime`** (`BurstShape`),
  **`BurstsStayInBuffer`** (`BurstInBuffer`), **`AllIsStored`** (`StoredWhenDone`) and
  **`WordsStayInOrder`** (`WordsInOrder`).
* **`AhblInvariant`** (`AhblSpec => []AhblIInv`), **`CountersAreRight`** (`AhblInv`) and
  **`WordsAreDelivered`** (`WordsDelivered`), again with `Data = Nat`. `BurstInv` says for each state of the FSM which
  addresses and data phases of a burst are out and that the address is the block counter times
  the block length plus them; `ReadWords` and `WriteWords` split the words of a request, named
  0, 1, 2 and so on, into a run in the memory, one on the bus, a run in the FIFO and one in the write register;
  `RoomInv` is `Axi4Manager`'s promise of room. What no counter says is that a word is not only in
  the FIFO but at its output in time: `AtOutput(k)` of `EmmcFifo_proofs` says that the
  next `k` reads each find one, `ReadAhead` that reading keeps it so, and `BurstWords` and
  `BlockWordsInv` carry it through a burst and through a block.
* **`UartInvariant`** (`Spec => []UartInv`): locations and counts of both buffers, and that
  an interrupt that is needed is on in the device and in the processor whenever the
  program is not between switching it off and on. **`TxImplementsQueue`** (`Spec => TxIsQueue`):
  with it, what is accepted and not yet sent is a queue. **`LineSettings`** (`LineAgrees`):
  the device works with the settings of the instance except between the bytes of a divisor.
* **`HartInvariant`** (`Spec => []HartInv`): the depth, `mscratch` and `mstatus` follow the traps
  under way; every task not on the hart is in its context as it was left; who has
  which claim; an enabled source has its handler. **`TasksKept`** (`TaskKept`) follows: each
  `mret` to a task restores what the trap saved.

The assumptions, each in the module it is about:

| Module | Assumptions |
|---|---|
| `EmmcCmdProc` | `OpsAssumption`, `SizeAssumption`, `HostAssumption`, `DeviceAssumption` |
| `EmmcFifo` | `FifoAssumption` |
| `AhblManager` | `AhblAssumption`, `RoomAssumption` |
| `Axi4Manager` | `AxiAssumption`, `RoomAssumption` |
| `EmmcDriver` | `FnsAssumption`, `LengthAssumption`, `AccessAssumption` |
| `UartDriver` | `UartAssumption`, `BufferAssumption` |
| `HartTraps` | `PlicAssumption`, `HartAssumption` |

Four more are definitions in `EmmcCmdProc_lane_proofs` and `Axi4Manager_proofs`, and hypotheses
of the theorems that need them:

* `DataHost`: the host resets the core after a response timeout, a read block does not end before
  its response (both as in section 4; `cmd_proc_no_reinit` shows what the first one excludes), a data
  command has at least one block, which is what the driver programs, and there is no
  BUSTEST_W (section 6).
* `TimeoutOrder`: if there are reads at all, `CmdTimeout < DatTimeout`, and a timer count is at least
  four edges, longer than a restart. The count has 32 edges (`rsp_tmr0`, `emmc_cmd_proc.v:552`). The driver
  programs 0 and 0xFFFE before the commands that read a block and 0 and 0 before most others
  (`emmc_controller.c:684`, `:910`). The limits are constants of the model, so the theorems are about a
  host that keeps to one pair of them.
* `WordHost`: a block is no larger than MIN_BLOCK_SIZE (`cmd_proc_long_block` shows what becomes of a larger one), and a
  data command has a response, as each one of `emmc_controller.c` has.
* `InUse`: the card does not run ahead of a burst (`PATIENT`; `axi_wlast` shows what this
  excludes); every block is one burst (`axi_big_block` shows what becomes of larger ones), of three words or more where
  the block counter is a delayed one, as late as `all_blocks_done` then is; and registers are programmed before the
  request (`SETTLE > 0`).

The proofs hold for every block size, burst length, timer width and limit, number of tasks, sources
and buffer places, restart and reset at any edge included.

Only model-checked:

* `RxIsQueue`: its abstract queue is taken from the buffer by `SelectSeq`, which is recursive.
* Liveness (`EngineLive`, `Visible`, `RequestEnds`, `CallsReturn`, `PutcReturns`, `TxDrains`, `Settles`),
  which the proof system does not cover.

## 6. Where the code and its documents disagree

Shown by runs (details in `PROJECT.json`, "findings"):

1. A response timeout of a read restarts the command lane only; the data lane
   keeps its word, which the next read takes for its own and then completes a word short
   (`cmd_proc_no_reinit`).
2. The word counter of a block larger than MIN_BLOCK_SIZE starts at zero, because
   the condition of `wdt_cntr_init` asks for MIN_BLOCK_SIZE at least as large as the block: 1024 bytes in
   the default configuration (512, 1024) become 2048 (`cmd_proc_long_block`).
3. A word of the next block that reaches the FIFO during a write burst's last
   beat is queued with the last flag (`axi_wlast`).
4. Blocks of 2048 bytes and more never end: the counter of bursts in a block is
   loaded with one instead of being incremented (`axi_big_block`).
5. The response decoder has no entry for command 41, so the SD initialisation
   reads "ready" from registers that no answer filled (`driver_sd`).

Read in the code while modelling, without a run of their own. Command processor:

* The largest command timeout never expires: the limit is compared with "greater than".
* BUSTEST_W can leave the data lane waiting for a start bit with busy = 0.
* Activity on DAT0 stops the shared timer (`emmc_cmd_proc.v:555`), also when the response
  was lost; `num_blocks = 0` meets a block counter of 0 (`:663`); `ST_CMD_BOOT` is left
  only by a restart or a reset.
* `INT_STS[0]` is also set by a timeout, though README.md:162 says "Command completed
  successfully".

Bus managers:

* The end of a read is reported before the subordinate's last write response
  (`emmc_axi4_m.v:219`), so its error may come after the driver has read INT_STS: a late
  error of `EmmcDriver`. Error responses set a flag and change nothing else.
* A request that follows a timeout without a core reset starts with the old
  words, address and block count (`emmc_cmd_proc.v:708` has a TODO), and a write
  burst whose request is withdrawn never gets its remaining beats.
* `axlen_p1_d` has the condition of `wdt_cntr_init`, so with MIN_BLOCK_SIZE below 512
  a block between the two is fetched in bursts of 1024 bytes (`emmc_axi4_m.v:239`).
* AHB-Lite: a wait state can lose a word, a write larger than the FIFO drops words,
  and with MAX_BLOCK_SIZE above 1024 the FSM asks for a burst too many.

Driver:

* A block length that `get_block_size_encoding` does not know is sent as 512.
* The comments give `SUCCESS (0)` and `FAILURE (1)`; the header defines them the other way round.
* `emmc_cmd_set_block_length` keeps the new length, and `emmc_cmd_set_relative_addr` the new
  address, even if the command failed, and
  `emmc_cmd_go_idle` does not go back to 512 bytes when the card does. So the lengths of
  driver and card agree from a successful SET_BLOCKLEN only until one with another length
  fails, GO_IDLE_STATE is sent or the core is reset, and may differ until the next success.
  `BlockLenInForce` says over which lengths. Nothing in the repository promises more.
* Error bits of the card status in an R1 response are never looked at.

BSP, UART:

* The shipped `uart.h` defines `_UART_NO_INTERRUPTS_`; the interrupt branches of `uart.c`
  are compiled only without it.
* The polled `uart_getc` returns a character that came with a line error; `uart_isr` drops it.
* `uart_set_rate` writes the divisor in two halves: the device works with a mixed one in between.
* `local_uart_init` configures 8,0,0,1 whatever width and stop bits it is given.

BSP, traps and interrupts:

* `plic_disable` writes `&= 0 << src`, which clears the enables of all sources.
* The watchdog registers source 0, which is neither enabled nor dispatched.
* An exception in a handler overwrites the one context the trapped task has (`clobbered`); a
  third trap within two leaves M mode too early, as `mstatus` is not saved (`entry.S` 158-195).
* `switch_to` and `enter_*` called from no trap take `g_trap_depth` below zero (`launched`).
* An ISR that switches tasks never completes its claim (`orphans`).
* `prepare_smode` and `enter_smode` write the old `mstatus` over the one with MPP set, so that from
  U mode they stay in U mode (`entry.S` 343-349, 390-396).

## 7. Not modelled

Below or beside the models:

* Payload bits, CRC values, packing of words for 1, 4 and 8 lines, drive modes and
  delays of the pads.
* The register file's plain configuration registers and their setters in the driver, INT_SET, the
  interrupt line (the driver polls), the APB address decoding and the read multiplexer.
* The clock generator's counter. A change of the divider to one below the running count lets the
  count run to its end before the clock goes on, because the two are compared for equality; and the
  driver's field has 16 bits where `CLKDIV_WID` is 8.
* `ip_core_rst_n` is a registered signal: the models reset on the edge of the
  write, the code one edge later, still before any other access can land.
* AXI and AHB-Lite error responses: they set a flag for one edge and change nothing else; the
  flags are `EmmcDriver`'s errors.
* `gen_blk_gt1KB` of the AHB-Lite manager.

Not reached by the design: the RTL and asynchronous FIFOs and an asynchronous clock domain
(`CLKDOMAIN` is fixed to "SYNC" by `emmc_top.v:168`), `EN_AUTO_CMD` (fixed to 0 by
`lscc_emmc_controller.v:166`).

BSP:

* `plic_enable`, `plic_disable` and `interrupt_enable` change registers by read and write back: two
  callers in different traps, or a source registered twice, are left to the caller.
* A non-maskable interrupt never returns.
* `clint.c`'s 64-bit arithmetic on two 32-bit registers, which a carry between the reads can tear.
* Physical memory protection, watchdog and cache: register accesses without a protocol.

Not a program of its own to model: the testbench, the test program and the application of the
example design, its generated wrappers, and the plug-in. The example design holds further
copies of the driver and of the UART driver; the models map the lines of one copy each. These copies are
about half of the C lines, and register definitions much of the rest, which is why the
share of mapped lines stays low.
