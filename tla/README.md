# Verification of the RISC-V accelerator and its host programs

TLA+ models, TLC runs and TLAPS proofs for this repository: a VexRiscv core in
FPGA logic that a Linux program on the same chip loads, resets and reads back,
the driver and accessor classes the programs use, and a second test program for
DMA cores and a timer.

Everything below is translated from the source. Code that is not in the
repository (kernel, AXI memory system, DMA and timer cores, the generated HLS
control block) is modelled from how the repository uses it and marked external
in `PROJECT.json`.

## 1. The system

`3_makeacc.sh` builds the kernel from `riscv_custom2.sv` and
`VexRiscvSignate.v` (`scripts/riscv_ex4.tcl`). `test5.cpp` runs against it.
The other tops (`riscv_example.sv` with `VexRiscv.v`, `riscv_custom*.sv`,
`riscv_wrapper.sv`) are alternatives that the build leaves commented out.

```
 test5.cpp main()                          test_udmabuf main.cpp
   | XRiscv_Set_reset_riscv   | IMEM/DMEM    | accessors     | WaitIrq
   v                          v stores       v               v
 xriscv.c, xriscv_linux.c   udmabuf       DMA0/1, LED     timer -> UIO gate
   | AP_CTRL, 0x10            |  memory
   v                          v
 riscv_custom2.sv ------> [ iCache ]  [ dCache -> AXI bridge ] ------> DDR
                            VexRiscvSignate.v
```

| part | state it keeps | operations | hard behaviour |
|---|---|---|---|
| accelerator run: `test5.cpp` main | operands, iteration, verdict | store operands, pulse the reset, sleep, read and compare | no handshake: everything rests on what the reset does; it may cut a run anywhere |
| data cache | tags, words, pipeline stages around it, loader, flusher | load, store (write-through), refill, flush, redo | words are read two stages ahead of their turn; a refill is cut by the reset while its beats still arrive; not coherent with main() |
| dBus AXI bridge | fork bits, pending-write counter | offer address and data, count, hold reads back | two channels accept in any order; counter at zero and at its limit; reset |
| instruction cache | tags, banks, line loader, flush counter | refill, flush, halt the fetch | counts every response word; flush, refill and reset overlap |
| HLS control: `xriscv.c`, `riscv_example.sv` | start, done, idle, auto-restart bits, interrupt enables and status | Start, IsDone, IsIdle, IsReady, auto-restart, interrupt calls, reset | done clears on every read; ready clears start, or auto-restart keeps it; the status clears on read only |
| HLS driver lifecycle: `xriscv_linux.c` | static `uio_info`, instance | Initialize, Release | failures half-way, state shared by instances |
| accessor classes | managers (descriptor, mapping), accessors (base, unit) | open by name, GetAccessor, registers, image copies, destroy | shared ownership, failed mmap, address scaling |
| udmabuf test program | buffer, DMA status, interrupt gate | poll DMA, enable, wait, clear | polling against a half-done transfer, lost or doubled interrupts |
| HLS data registers | the kernel's arguments | set and get | plain registers; not modelled |
| VexRiscv pipeline, FPU | - | - | generated; not modelled but for the stages around the data cache |
| other tops, build scripts | - | - | not modelled |

`PROJECT.json` lists each with its sources, and under `hazards` what in each is
hard to test, at its line, with the properties that would catch it.

### What makes each part correct

* **Accelerator run.** The word main() reads after a finished run is this
  iteration's sum (`FreshResult`), because refills are never mixed up
  (`AlignedRefill`), the pending counter is exact (`PendingExact`), the line
  shows what main() stored behind the cache (`CoherentLine`) and nobody else
  writes the operands (`OperandsOwnedByMain`). With sleeps long enough all
  iterations pass (`AllPassed`) and main() ends (`Finishes`).
* **Data cache.** A program's loads and stores take effect in order, each once,
  and a load returns what memory holds or what main() has overwritten since the
  word was last stored or flushed (`InProgramOrder`, a refinement). The reason is
  that lines, loader, bus and the words read ahead agree in every state
  (`CacheInv`). No wait, refill or redo lasts (`KeepsRetiring`).
* **Bridge.** Addresses and data are matched with each other (`InStep`), offers
  are stable (`Stable`), the counter is exact (`PendingExact`), a load sees the
  last store (`LoadsSeeStores`, a refinement) and no command waits for ever
  (`Accepted`).
* **Instruction cache.** Refill words land in their places (`WordsInPlace`), the
  core executes the stored program (`RunsTheProgram`) and is never left without
  an instruction (`AlwaysFetches`).
* **HLS control.** One run and one completion for each start (`OneRunPerStart`),
  reported at most once (`NoPhantomDone`), because what the client knows of the
  start bit is true (`RunInv`); a poll that ends (`PollEnds`) and an interrupt
  that comes (`InterruptEnds`).
* **Driver and accessors.** Every descriptor and page has one live owner
  (`Accounted`), both searches find the same device (`OneDevicePerName`), a
  holder keeps what it got (`HoldersKeepTheirDevice`, a refinement), because a
  manager lives exactly as long as its last accessor and one instance is in use
  (`ClientInv`). Registers
  are distinct words for callers who keep three rules about types and units
  (`RegistersAreWords`) and images are copied pixel by pixel
  (`CopiesPixels`).
* **udmabuf test.** What is printed is whole and current (`ReportsInOrder`),
  every LED phase has its own timer interrupt (`OneMatchPerPhase`), because
  main()'s position fixes buffer, copy and interrupts (`TestInv`), and the program
  ends (`BlinksToTheEnd`).

## 2. Modules

| module | models | state and actions against the code |
|---|---|---|
| `RiscvRun` | main() of test5, the seven-instruction program, data cache, counter, memory | `main` follows what `test5.cpp:89-184` does to operands, reset and verdict, in its order; left out are lines 107-121, which set plain registers and call `XRiscv_Start` and three status calls whose answers nobody uses (the built top, `riscv_custom2.sv`, does not look at start); `Flush`, `StartRefill`, `LoadHit`, `StoreWord`, `ReadBeat`, `WriteLands` are the DataCache and bridge as the program meets them; `ResetCore` is what an asserted reset does to them |
| `DBusAxiBridge` | the AW/W fork and the counter, one action per clock edge | `Tick(arwReady, wReady, acked)` computes all registers of `VexRiscvSignate.v:7942-8001` from the memory system's ready and response signals |
| `PortMemory` | abstract: a memory with one port | implemented by `DBusAxiBridge` with `shown <- Shown`, memory with the accepted writes on top |
| `DataCache` | DataCache, its loader and flusher, the execute, memory and write-back stages and the redo branch | `Clock(ready, beat, i)` is a clock edge with the bus's command ready and response and the instruction decode offers; it computes the registers of `VexRiscvSignate.v:16780-17345` and of the pipeline's wiring (5949-6058, 6410-6482, 7728-7745, 8359-8377). `stale` is a history variable of the property |
| `ProgramOrder` | abstract: instructions that take effect one by one | implemented by `DataCache` with `flight <- InFlight` |
| `ICacheFill` | InstructionCache's loader and flush, main() storing the program | registers of `VexRiscvSignate.v:17396-17618` under their own names; `Response` is one word of a burst, `FlushStep` one clock of a flush |
| `HlsRun` | `xriscv.c` on AP_CTRL, GIE, IER, ISR and 0x10, the start/done/idle logic of `riscv_example.sv` | one action per register access, `Tick` is a clock edge; `belief` and `drained` are what the client can know from its calls |
| `UserTables` | descriptor and page tables, sysfs | external, from the calls that `xriscv_linux.c` and the accessors make |
| `XRiscvLinux`, `UioAccessors` | driver and accessor lifetimes on the tables | one action per call, with each failure of open and mmap |
| `DeviceClient` | both together in one process | composes the two on one set of tables |
| `DeviceLeases` | abstract: a holder reaches its device until it lets go | implemented by `DeviceClient` with `reach <- Reach` |
| `MemAccess` | addresses of `MemAccessor_`, typed stores, the image loops | `GetAccessor_` and `GetAccessorReg_` are the templates that all forms call, with every type and every unit, given or left out; `WriteReg_` and `WriteMem_` store any type; `ruled` is a history variable of the property; an image call keeps its locals in `copy`; `CopyRow` is a pass of the loop; `Pasted` is the pixel-by-pixel definition |
| `UdmabufTest` | `test_udmabuf/main.cpp`, DMA cores, timer, interrupt gate | `pc` follows main(); hardware and kernel are actions of their own |
| `MC*` | values of the constants for TLC | |
| `*_proofs` | theorems | |

`RiscvRun` takes the bridge as a queue of accepted writes and a counter;
`DBusAxiBridge` shows what that rests on: the counter counts exactly the
accepted writes, in order, and a read waits for them. `ICacheFill` shows that
the program the core executes in `RiscvRun` is the one main() stored.
`RiscvRun` takes flush, refill and coherence as the program meets them, one
instruction at a time; `DataCache` has the pipeline in which they happen, and its
bus is `PortMemory`, which `DBusAxiBridge` implements.

Operators whose comment begins with `Mutant:` are faulty variants of the
definition that follows them. No specification uses them; they exist to show
that a property would notice such a bug.

## 3. Assumptions about the environment

* **Sleeps.** Nothing but `sleep` and `usleep` separates the steps of test5.
  `HoldDrains` says that the sleep under reset outlasts the transfers the memory
  system has accepted; `WaitCompletes` says that the sleep after it outlasts the
  program. `run_slow` and the theorems about `RiscvRun` need only the first,
  `run_timely` and `EveryIterationPasses` need both. Mutants that drop the first break `AlignedRefill`,
  `OperandsOwnedByMain` and `Finishes`: the repository's logic does depend on it.
  `ICacheFill.ReleaseReset` waits for its burst for the same reason.
* **No reset between the halves of a write** in `DBusAxiBridge`. What an AXI
  slave does with an orphan address or word is outside the repository; the
  hazard is listed without a property.
* **Uncached, ordered buffer.** The programs map the buffer with `O_SYNC` and
  write through plain pointers with no barrier. Whether that is ordered depends
  on the mapping's memory type, which a kernel driver chooses.
* **One instance of the HLS driver at a time** (`Idle` in `DeviceClient`):
  `uio_info` is static. Callers release what they hold once.
* **The unloaded core** (before the first pulse) may load and store anything,
  but only in the data area, and not in the program.
* **The flush after a reset.** The flusher's counter is 0 while the reset is
  held and the tag memory has no reset, so set 0 is invalidated on every clock of
  the pulse. The flush that follows takes its scope from the instruction left in
  execute, whose register has no reset either: if its rs1 field is not 0, one
  line is invalidated and not all. test5's operands at 0x40001000 lie in set 0,
  so `RiscvRun`'s `Flush` is what happens to them; of the other sets `ProgramOrder`
  promises nothing after a reset.
* **The data cache's surroundings.** The reset in `DataCache` is one step, long
  enough for the bus to drain (what it does otherwise is in `RiscvRun`). Words are
  written whole; the FPU's hold on write-back, and branches, which only turn
  instructions into bubbles, are left out. Inputs that no register looks at in a
  state are fixed in `Clock`.
* **A sequential client** of the HLS driver: it starts a run when the last has
  ended and it knows the start bit to be clear, and it waits for the interrupt
  only with the status read before. A start bit kept by auto-restart makes no edge
  when it is written again, hence no run, and the core's done may come several
  times; such a client has to see IsReady return 1 before it starts again.
  `XRiscv_InterruptClear` has its write commented out: only a read of the status
  clears it.
* **A caller's rules for registers** (`ruled` in `MemAccess`), which it can follow
  from its own types and arguments: a unit that is given is no smaller than the
  DataType it is for; where none is given, the new DataType is no wider than the
  parent's, and `GetAccessorReg` is always given one; a typed store is no wider
  than the DataType. The model makes every other call too; `RegistersAreWords`
  promises nothing about the registers of an accessor made or used in such a way.
* **The memory answers without error**: `riscv_custom2.sv` ties the responses to
  OKAY.
* The generated control block behaves as `xriscv_hw.h:6-13` says: done clears on
  read, start clears on handshake.

## 4. Runs

| run | instance | states | shows |
|---|---|---|---|
| `run_slow` | 2 iterations, line of 4 words, counter to 2, any speed of the program | 337,000 | safety of the run however the reset cuts it |
| `run_timely` | 2 iterations, line of 3, counter to 1, both sleeps long enough | 3,700 | ALL PASSED, and main() ends |
| `bridge` | 2 addresses, 2 values, counter to 3, resets | 8,900 | counter, matching, stability, the refinement of `PortMemory`, no command waits for ever |
| `dcache` | 2 lines of 2 words in one of 2 sets, a device word, flushes of one and all sets, host writes, resets | 155,000 | the cache as the program sees it, and progress |
| `icache` | 3 lines in 2 sets, 3 words a line, a 2-word program | 5,300 | instruction side, resets and fence.i anywhere |
| `hls_run` | 3 starts, ready is done (as in `riscv_example.sv_org`), auto-restart and interrupts | 73,000 | starts, completions, polls and interrupts pair up |
| `hls_ready` | ready tied to 1 (`riscv_example.sv`) | violation | see section 6 |
| `devices` | 3 accessors, 2 managers, 1 instance, 3 descriptors, 4 pages, 3 sysfs layouts | 59,500 | ownership and the refinement of `DeviceLeases` |
| `devices_assert` | the same | violation | see section 6 |
| `mem` | types of 1 and 2 bytes, units 0, 1, 2 and 4, two derivations, two calls | 465,000 | registers and images |
| `mem_default` | one type of 2 bytes, no unit given | violation | see section 6 |
| `udmabuf` | 3 passes, timer of any speed, fresh or left running | 600 | reports, interrupts, termination |

**Why these bounds are enough.** Two iterations make one run follow another,
with the first cut or late. A line of 3 or 4 words has a first, a middle and a
last beat, and both operands and the result. The counter is taken to its limit
and back to zero, and its wrap-around is reachable in the mutants. Three lines
in two sets give the instruction cache a conflict and a set of its own, and a
program shorter than a line leaves old words behind it. Three accessors on two
managers cover sharing and independence, three descriptors and four pages make
open and mmap fail from exhaustion, and the layouts contain duplicate names, a
gap, ids above 9 and a device without a map. Two values are enough where data is
only moved. In the data cache two lines of one set evict each other, a line of two
words has a word that has arrived and one that has not, and the empty second set
makes the flushes of one and of all sets different; the program may issue any of
its eight instructions at any time, so every overlap of three stages occurs. Both lines
lie in set 0, as test5's operands do: lines of other sets, which may survive a
reset, are covered by the theorems only. `OneMatchPerPhase` exempts runs that find
an interrupt pending before the first wait (`early`), which an earlier run may leave;
of those `BlinksToTheEnd` says that they end. In
`DeviceClient` accessors and managers are interchangeable, hence
the symmetry; the refinement it is used with is a safety property.
`CHECK_DEADLOCK FALSE` appears in the two `MemAccess` runs only: the bounds on
derivations and calls end its behaviours. Elsewhere the programs either run for
ever or stop in an action of their own (`Terminated`, `Ended`).

**Fairness.** `FairSpec` of `RiscvRun`: main() is scheduled, the core and the
memory system are clocked; a core that runs an unloaded program is promised
nothing. `DBusAxiBridge`: the slave accepts what stays offered (the AXI rule) and
answers what it accepted. `ICacheFill`: refill, flush and memory go on; the core
is not forced to execute or main() to pulse. `DataCache`: the clock runs, with a
bus that accepts and answers and a fetch that brings what was dropped; new
instructions need not come. `HlsRun`: the clock ticks, and the client that polls,
or the handler of the interrupt it waits for, gets its turn although clock edges
and accesses exclude each other (strong fairness of `Poll`, `StartWrite` and the
armed client's status read). `UdmabufTest`: main(), DMA
cores, timer and the interrupt handler run. No property relies on fairness of a
choice of data or on a particular order.

## 5. Proofs

Every safety property that a passing run checks is also a theorem. Each holds for
every value of the constants that the module's named assumption allows, and each
invariant was checked by TLC before it was proved. A proof module names at its
head the inductive invariant it works with; where a run checks an invariant of
the model by name (`IInv`, `CacheInv`, `ClientInv`, `TestInv`, `RunInv`), the
invariant is that one, or implies it.

### Assumptions

| assumption | says | why it is justified |
|---|---|---|
| `HoldDrains` (`RiscvRun`) | the sleep under reset outlasts accepted transfers | section 3; all theorems about `RiscvRun` but `TypeCorrect` |
| `WaitCompletes` (`RiscvRun`) | the sleep after it outlasts the program | section 3; `EveryIterationPasses` only |
| `ClientAssumption`, `AccessorAssumption` | different objects have different names, a size is a number | shape of the model's values |
| `AlphaAssumption` (`XRiscvLinux`) | `uio0` to `uio9` sort as they count | what `alphasort` does to one digit; nothing is assumed of longer numbers |
| `CacheAssumption`, `MemAssumption` and the others | sets and functions of the right kind; at least two sets and two words in a line; pixels and words not empty | the generated cache has 128 sets of 8 words; sizes are those of C types |

### Arguments

* **`RiscvRun_proofs`**: `Invariance` proves `IInv` from `HoldDrains`. The
  argument: an asserted reset pins core, loader and counter (`HeldInReset`), so
  they agree with the memory system when it is released drained; at most one
  burst is on its way and the loader's word counter is the burst's (`OneBurst`);
  main()'s position fixes the reset line and what memory holds of its operands
  (`HostPhase`); the program's position fixes what it has loaded
  (`RunProgress`); the result's word in the line is memory's, or the posted
  store's (`ResultInLine`). `ResultIsFresh`, `RefillsAligned`,
  `PendingCounterExact`, `LineIsCoherent` and `OperandsStay` follow.
  `FreshResult` alone is not inductive: it says nothing before the run ends.
  `EveryIterationPasses` adds `WaitCompletes`: main() compares only after a
  finished run, whose result is fresh. `TypeCorrect` needs no assumption on the
  sleeps.
* **`DBusAxiBridge_proofs`**: `BInv` relates the two fork bits to the lengths of
  the memory system's queues and the counter to matched writes and responses;
  `BridgeTypes`, `BridgeCounterExact` and `HalvesInStep` follow, for every counter
  width. `OffersAreStable` is by cases of the clock: a channel that was not taken
  keeps its fork bit, and the command leaves only when both halves have.
  `BridgeIsAPort` is the refinement of `PortMemory`: the memory shown is memory
  with the matched writes on top, the latest for an address winning. A write
  becomes the abstract store when its second half is accepted (`LastHalf`: a half
  that is ahead belongs to the command on offer); performing the oldest matched
  write leaves what is shown as it is; and a read is answered with a zero counter,
  hence from a memory that has every write in it.
* **`DataCache_proofs`**: `CacheInv` has six parts. Stages and registers of the
  stages move together (`StagesInStep`); the loader, its burst and the line it fills
  agree (`RefillInStep`); the flusher's counter and scope agree with the flush in
  write-back or with a reset (`FlushInStep`); tags read a stage ahead are those in
  the memory, or the instruction that used them is made again
  (`TagsReadAreCurrent`); a valid line shows memory's words or words overwritten
  behind it (`LinesFollowMemory`); and the word read ahead is visible when its
  instruction comes to write-back, or the redo is certain (`ReadAheadIsKnown`).
  Each part is preserved by a lemma of its own for the clock edge; reset and host
  write are simpler. `CacheIsInOrder` is the refinement of `ProgramOrder` with the
  instructions in the stages as those in flight: a clock that retires is the oldest
  one's abstract step, a redo or bubble only drops instructions that have had no
  effect, and a load returns a word that `ReadAheadIsKnown` makes an allowed one.
* **`ICacheFill_proofs`**: `FillInvariance` proves `FillInv`: at most one burst,
  which a running loader has to itself (`OneBurst`); sets a running flush has
  passed are empty, even the one a late refill writes (`Emptied`); tags the flush
  has passed tell the truth and the words filled so far are right
  (`CleanLines`). `WordsStayInPlace` and `ProgramRuns` follow, for every program
  and every size of cache.
* **`HlsRun_proofs`**: with ready wired to done, `ClientKnows` proves `RunInv`: a
  run owes one completion as long as its start bit is set, and the client's
  knowledge of start bit and interrupt status is true. `EachStartOneRun` follows.
  `ReportedAtMostOnce` holds whatever ready is wired to.
* **`UdmabufTest_proofs`**: two invariants that do not need each other.
  `OnePhasePerInterrupt`, for any number of passes, rests on `Covered`, which
  balances interrupts raised against those waited for, those counted and the
  asserted line. `ReportsAreComplete` rests on `BufferIs`, `CopyIs` and `Printed`:
  main()'s position and the state of the core it started fix each word of the
  buffer and of its copy, so a print that comes after the status is read as idle
  prints whole words. Together they are `TestInv` (`TestInvariance`).
* **`DeviceClient_proofs`**: `Accounted` speaks of the tables and of all owners at
  once. The proof keeps it as an account book (`Acct`) over a set of owners and
  needs three lemmas only: it is kept when no entry changes (`AcctKept`), when an
  owner comes with a descriptor and pages that were free (`AcctAdded`), and when
  one goes and gives back what it had (`AcctRemoved`). Each call of driver or
  accessors is one of the three, a failed mmap the first after its `close`.
  `ClientInv` adds what decides which: a manager is constructed exactly while an
  accessor points at it, so the last accessor's destructor and no other closes.
  `HoldersKeepTheirDevices` is the refinement of `DeviceLeases`: what a holder
  reaches through the page table is what its own search gave it (`ReachIsGiven`),
  and that changes only in its own calls.
* **`MemAccess_proofs`**: `RegistersKeepTheirWords` has no assumption on units and
  types: an accessor whose makers kept the rules of section 3 has a unit no smaller
  than its DataType, by a given unit or by the parent's (`RegInv`), so words of two
  registers have no byte in common (`WordsApart`); and a store that misses a
  register leaves it as it is (`OtherHolds`).
  `ImagesAreCopied`: an offset is a pixel's byte for one row, column and byte
  only (`PlacesDiffer`, a mixed-radix argument), and after each pass of the loop the
  rows above are as in the goal and everything else is as before (`CopyInv`).

### What the proofs changed in the models

* `LinesFollowMemory` was false as first stated. After a reset the flush has not
  yet reached the sets above 0, and a valid line there need not follow memory.
  TLC could not see it: its instance has all lines in set 0, which every clock of
  the pulse invalidates. `FlushAwaits` now exempts those sets until the flush has
  passed them. The theorem covers every placement of the lines.
* `CacheInv` was not inductive without `StagesInStep`, `TagsReadAreCurrent` and
  the loader's side of `RefillInStep`.
* `IInv` said nothing of the result's word in the line (`ResultInLine`), which
  `CoherentLine` needs.
* Accounts and leases need one instance in use, not one in existence: TLC checks
  one driver instance, the theorems cover any number used one after the other.

### Only model-checked

Liveness: `Finishes`, `Accepted`, `AlwaysFetches`, `KeepsRetiring`, `PollEnds`,
`InterruptEnds` and `BlinksToTheEnd`. They rest on fairness, hence on ENABLED,
which the prover does not handle.

## 6. Where the code disagrees with itself

1. `devices_assert` / `ReadyIsMapped`: `XRiscv_Initialize` reports success with
   unmapped registers when mmap fails, since `MAP_FAILED` passes
   `assert(InstancePtr->Control_BaseAddress)` (`xriscv_linux.c:134-135`).
2. `hls_ready` / `PollEnds`: `riscv_example.sv:188` ties `ap_ready` to 1 under a
   comment for the non-pipelined case; the start bit clears a clock after it is
   set, the core is put back in reset, and a client polling `XRiscv_IsDone` waits
   for ever. test5 calls `XRiscv_Start` once (`test5.cpp:117`) and
   polls nothing, and the build uses another top.
3. `mem_default` / `WordAddressing`: `GetAccessorReg` without a unit makes an
   accessor whose registers all have the same address (`MemAccessor.h:149-153`),
   against "word addressing with DataType" (line 275), where `GetAccessor_` turns
   the same 0 into the parent's unit (line 119). The run has one type and no units
   but the defaults, so nothing else can be the cause. That inherited unit has an
   edge of its own: `GetAccessor_<DT>` with a DataType wider than the parent's
   keeps the parent's spacing, and the registers overlap. It is one of the rules
   of section 3.

## 7. Not modelled, and why

* The VexRiscv pipeline outside the stages of `DataCache`, FPU, MMU and CSRs:
  generated by SpinalHDL, and in the repository only as flat Verilog. `RiscvRun`
  executes the program in order; fetch and decode are one step in `ICacheFill`
  except for the fetch behind a fence.i, whose refill races the flush.
* Floating-point rounding: `Add` is an uninterpreted operator, the same in the
  FPU and in main()'s comparison.
* The plain data registers of `xriscv.c`: each set and get is one access to a
  register of its own, which main() writes before the first pulse; the built top
  reads only `iBus[31:0]`, the reset vector.
* Byte and half-word accesses, exceptions and the MMU's refill in the data cache:
  test5's program makes aligned word accesses to mapped addresses.
* The data-bus glue of `riscv_example.sv` (one-access flags, burst length,
  address relocation): the build does not use it, no doc says what it promises,
  and it keeps none of the bridge's properties: `dBus_addflg` lets two stores in
  consecutive clocks share one address (lines 193-203), and a read command is taken
  by the write channel's ready (line 277). `PROJECT.json` lists the first as a
  hazard without a property.
* The Python array binding of `MemAccessor.h`, address wrap-around.
* The remaining tops, Vivado and Vitis scripts.

## 8. Plan

Done: the core (`RiscvRun`), the bridge, the data cache in its pipeline, the
instruction cache, HLS control with auto-restart and interrupts, devices,
addresses, the udmabuf program, and a theorem for each safety property of the
passing runs. Left:

1. `DataCache` composed with test5's program, in place of the cache that
   `RiscvRun` has.
