# A TLA+ model of the CASL hypervisor

The CASL ("meteor") hypervisor runs up to four Linux guests on one ARMv7 CPU with
the virtualization extensions, on the MVP simulator. This directory models its
core (exceptions, scheduling, world switch, interrupt injection), its guest
memory management, coprocessor access, list register words, interrupt
distributors and emulated devices, and the drivers and run-time support below
them; checks them with TLC on small instances; and proves the central properties
with TLAPS for every value of the constants.

## 1. The system

There is one CPU and no kernel thread besides the idle loop. `main()` prepares
the guests and leaves with `eret`; from then on hypervisor code runs only inside
an exception handler. `boot/vector.s` masks all interrupts at entry
(`cpsid aif`), sets the stack pointer to a fixed address, saves r0-r12 and lr,
calls the handler, restores and returns with `eret`. Handlers therefore do not
interleave with each other. What interleaves is: the instructions of the guest on
the CPU, the devices raising interrupts, the timer, the order in which the GIC
presents interrupts, and the switches between guests that result.

| Component | State | Operations | Interacts with |
|---|---|---|---|
| Exception handlers (`vmm/exception_handler.c`, `boot/vector.s`) | `elr_hyp`, stack frame | `hyp_trap_handler` by class of trap; `irq_handler` by interrupt id | everything below |
| Scheduler, idle thread (`vmm/scheduler.c`, `vmm/idle_thread.c`) | `vm_id`, `scheduler_idle`, `sched.wfi_state` | `scheduler`, `scheduler_rr`, `scheduler_enter_idle`, `scheduler_reset_timer` | called from WFI traps, timer interrupts, and device interrupts while idle |
| World switch (`guests/guest.c`) | `vm[v].bk` with its `dirty` flag | `guest_suspend`, `guest_restore`, one pair of functions per register group | called by the scheduler |
| Interrupt injection (`guests/guest_rpb.c`) | list registers, hardware or saved | `guest_rpb_irq_handler`, `guest_rpb_irq_handler_suspend` | called by `irq_handler`, words written with `vmm/bit_opt_v2l.c` |
| Guest memory (`vmm/memory_allocator.c`, `vmm/pagetable.c`, `guests/guest_rpb.c`) | `target_vm`, `ipa`, `high_ipa`, `count`, `last_i`; three levels of tables per VM | `memory_allocator_new_page`, `pagetable_set_page`, `pagetable_set_block`, the two initialisations, the data abort handler | data abort traps |
| Virtual distributor (`v_devices/vdev_gic2_dist.c`) and physical one (`devices/dev_gic2_dist.c`) | `en`, `virq[].en`, `virq[].pid`; enable bits shared by all VMs | trapped reads and writes | decides which device interrupts arrive |
| Other emulated devices (`v_devices/vdev_timer.c`, `vdev_rpb_sysctrl.c`, `vdev_rpb_sysreg.c`) | two load and value registers | trapped reads and writes | second half of the data abort handler, stack frame |
| CP15 access (`vmm/cp15.c`) | the coprocessor | `cp15_read`, `cp15_write` by name of register or field, 32 and 64 bits | world switch, start-up |
| Monitor (`vmm/monitor.c`), hypervisor calls (`vmm/hypervisor_call.c`) | event and print counters, per VM and for the system | `monitor_trigger`, `monitor_print` | every handler |
| Physical timer (`devices/dev_timer.c`) | control words and the driver's copies of them | one setter per group of bits, `set_load`, `clear_interrupt` | scheduler, timer interrupt |
| UART (`devices/dev_uart.c`) | two FIFOs | polled sending and receiving | `_write` |
| Semihosting (`devices/dev_semihost.c`) | request registers, path and data array | open, read, write, seek, status, close | file stubs of newlib |
| Debug output (`sys/debug_utils.c`) | switches and log files of the units | set, unset, print, close | everything; `printb` ends the program |
| newlib stubs (`vmm/newlib_stub.c`) | end of the heap | `_sbrk`, `_write`, file stubs, `_exit` | C library |

What is hard about it, and what makes each part correct:

* **World switch.** At any time a VM's state is in the hardware or in `vm[v].bk`,
  and the only record of which is a `dirty` flag, set and cleared on three
  different paths (switch, idle entry, wake-up from idle). Correct means: the flag
  is true for exactly the VM that is on the CPU, a guest never runs with registers,
  page tables or VMID of another, and nothing it can observe changes by being
  switched out.
* **Interrupts.** An interrupt may arrive for the VM on the CPU, a VM switched
  out, a sleeping VM, or the VM that was last on the CPU before the hypervisor
  went idle. Correct means: it ends up once, in the right list, under the right
  virtual id, and a sleeping VM wakes.
* **Scheduling.** Correct means: no runnable VM starves, sleeping VMs are not
  run, idling happens only when all sleep, and the idle loop, which never returns,
  is always left when there is work.
* **Trap return.** `elr_hyp` is advanced for every trap before its class is
  known and taken back on two paths. Correct means: no guest instruction is
  executed twice or skipped.
* **Memory.** All VMs share one allocator; every page of RAM appears at two
  addresses; tables are taken into use as they are needed. Correct means:
  isolation, aliasing of the two windows, bookkeeping that agrees with the tables.
* **Words.** List registers are reused field by field, with stale bits of the
  interrupt they held before.
* **Sharing of the distributor.** Correct means: a guest switches only its own
  interrupts, and those it enables are forwarded, also when it changes its mind
  while one is on its way.
* **Tables that have to agree.** The registers of a switch are listed in a
  structure, a backup, a restore, the enumeration of `cp15.h` and the switch of
  `cp15.c`; the frame of `vector.s` is known to two C functions; a trapped
  instruction is decoded by hand. Correct means: a guest gets back what it left,
  and a trapped access is the access it executed.
* **Device registers with a memory.** The timer's setters write a whole control
  word from a copy, the semihost device keeps the registers of earlier requests,
  the FIFOs of the UART fill and empty while the driver polls. Correct means that
  no call undoes or inherits part of another.

The hazards are listed one by one, with their lines, in `PROJECT.json`.

## 2. Modules

| Module | Models |
|---|---|
| `Hypervisor` | exception handlers, scheduler, world switch, injection |
| `Machines` | abstract: what `Hypervisor` promises, every guest a machine of its own |
| `MCHypervisor` | guest programs for TLC |
| `Hypervisor_proofs` | theorems about `Hypervisor`: ownership, scheduling, interrupts |
| `HypervisorMachines_proofs` | `Hypervisor` implements `Machines` |
| `BitOpt` | `vmm/bit_opt_v2l.c` on words of 32 and 64 bits |
| `ListRegister` | list register words of one VM, in hardware and saved |
| `ListSlots` | abstract: list registers as the slots `Hypervisor` works with |
| `GuestMemory`, `MCGuestMemory` | allocator, page tables, image loading, data aborts |
| `GuestMemory_proofs` | theorems about `GuestMemory` |
| `VGicDist` | virtual distributors over the physical one |
| `Interrupts`, `MCInterrupts` | composition of `Hypervisor` and `VGicDist` |
| `Interrupts_proofs` | theorems about the composition |
| `Monitored`, `MCMonitored` | composition of `Hypervisor` and the monitor |
| `Monitored_proofs` | theorems about the counters |
| `Cp15`, `Cp15Access` | coprocessor registers and fields by name; one access to any of them |
| `StackFrame` | the frame of `boot/vector.s` |
| `GuestRegisters` | the world switch register by register, over `Cp15` and `StackFrame` |
| `DeviceAccess`, `MCDeviceAccess` | decoding and emulation of device accesses, over `StackFrame` and `VGicDist` |
| `DeviceAccess_proofs` | theorems about `VGicDist` and `DeviceAccess` |
| `SliceTimer` | abstract: the timer the scheduler relies on |
| `DevTimer` | the timer driver over the timer's registers |
| `Uart` | console output and the UART driver |
| `Semihost` | file stubs and the semihost driver |
| `DebugUtils` | debug units, log files and exit |
| `Heap` | `_sbrk` |
| `MCRegisters` | instances of `ListRegister`, `GuestRegisters` and `Cp15Access` for TLC |
| `Registers_proofs` | theorems about `BitOpt` and the instances of `MCRegisters` |
| `MCDrivers` | instances of `Heap`, `DevTimer`, `Uart`, `Semihost` and `DebugUtils` for TLC |
| `Drivers_proofs` | theorems about the instances of `MCDrivers` |

Dependencies: `Interrupts` and `Monitored` extend `Hypervisor`, `DeviceAccess` extends
`VGicDist`, `Interrupts` instantiates it; `ListRegister`, `Cp15`, `DevTimer` and
`Uart` are built on `BitOpt`.

`MCRegisters` and `MCDrivers` put modules that share no variable under one
specification: a variable `part`, chosen at the start, says which of them a behaviour
follows, and the variables of the others keep their initial values. A run then covers
each part exactly as a run of its own would, and fairness and liveness are stated
for the part they are about. `MCMonitored` follows the core either with its counters,
up to a bounded number of events, or without them and without a bound.
`MCDeviceAccess` does the same for a few accesses by two VMs, for all instruction words
of the decoder by one, and for the distributors alone.

Operators whose name ends in `_bug` are faulty variants of the definition that
follows them. The specifications do not use them; each is substituted for its
original once to see that a property notices.

### Hypervisor

`vm_id`, `scheduler_idle`, `wfi_state` and `bk` are the program's variables.
`cpu` is the hardware context as the next handler will find it: stack frame and
banked registers (`rf`), CP15 (`cp15`, with the two fields of VTTBR apart),
GICV_CTLR (`ctlr`) and list registers (`list`). `timer` counts down to the timer
interrupt; `pend` and `act` are pending and active interrupts of the GIC. `halt`
says that `printb` has called `exit`, and for the assertions which one. `waits`
is a history variable.

Register contents are `[own, n]`: the VM that produced the value and a version.
A register group (user registers, banked registers, CP15 system registers,
GICV_CTLR) has one value, so a switch that loses, mixes or duplicates a group
shows as a wrong tag or version. Which code executes is decided by the tag of
`elr`, as in the hardware, never by `vm_id`.

One action per trap class (`trap_wfi`, `trap_cp`, `trap_hvc`,
`trap_dabort_memory`, `trap_dabort_load`, `trap_dabort_store`, `trap_error`) and
per kind of interrupt (`irq_timer`, `irq_device`, `irq_spurious`, `irq_unknown`).
Each includes everything its handler calls: `trap_wfi` contains the suspension,
the choice of the next VM, its restoration and the timer reset, or the entry into
the idle thread. The guests are the actions `GuestExecute`, `GuestWfiNoWait`,
`GuestAck` and `GuestEoi`; the devices are `Raise` and `Tick`.

Decisions taken:

* A handler is one step, because interrupts are masked for its whole duration.
* The GIC, the CPU and the guests are external. The GIC presents any pending
  interrupt that is not active (no priorities, the code sets none that matter). The
  guest's end of interrupt deactivates the physical one, which is what the code
  asks for with `hw = true` (see finding 3). That a physical interrupt is
  forwarded at all is the subject of `VGicDist`.
* WFI traps only when it would suspend the CPU, that is without a pending
  virtual interrupt. A WFI that does not trap is `GuestWfiNoWait`.
* `scheduler_reset_timer` rewrites the load register and does not withdraw a
  timer interrupt that is already pending. A VM may thus lose its slice at once;
  the model allows it, and the liveness properties hold nevertheless.
* `inject_failure` contains the two assertions on the way to a list register.
  When one fires, or `guest_restore` meets a dirty backup, the program exits; the
  model stops without changing anything else.
* Handlers of undefined instruction, SVC, prefetch abort, data abort and FIQ in
  hypervisor mode only print and exit; they add nothing to `trap_error`.
* One value stands for a group of registers; the registers one by one are the
  subject of `GuestRegisters`.
* The timer interrupt may already be pending when VM 0 starts: the timer is
  enabled before its load register is written.

### Machines

Per guest: registers, awake or asleep, and for each interrupt inactive, pending
or active. An instruction takes effect once; a guest sleeps only by executing WFI
with nothing pending; an interrupt wakes it. No CPU, timer, switch or saved copy.
The refinement mapping gives each VM the hardware context when its backup is
dirty and the backup otherwise (`EffContext`, `EffList`). Under it, a switch, a
timer interrupt, an idle period and a faulting access before it is redone all
have to be stuttering steps.

### ListRegister, ListSlots, BitOpt

A word is the set of its one bits, so `&`, `|`, `~` and shifts are set
operations and `set_field`, `get_field` are the code's formulas.
`guest_rpb_irq_handler` and `guest_rpb_irq_handler_suspend` write state, physical
id and virtual id into the first invalid word, over its old bits. The hardware
changes only the state field. `OtherVM` overwrites the hardware registers while
the VM is off the CPU. `ListSlots` is the view `Hypervisor` takes; the refinement
justifies it.

### GuestMemory

Addresses are page numbers. The four level 1 entries of a VM always point to its
own four level 2 tables, so level 1 and 2 are one array by 2 MiB block. A level 3
table beyond the ones `pagetable_init` clears holds `uninit` entries, whose
translation is unknown: an access through one may fault or go through, and for
isolation such an entry reaches every page (`Leads`, `Reach`). `static` says which of the two pairs of initialisation
calls `main()` compiles: as committed it is the static pair, the on-demand pair is
in comments, and the repository's README names on-demand allocation as a feature.
`todo` holds the calls that `main()` has still to make; loading one page is a
step (its do-while loops take one page more than an image fills). Afterwards any VM
may access any address of `Touch`: it succeeds, is answered with a page and redone,
goes to an emulated device, or stops the program.

### VGicDist

One action per class of register. The variable `shift` is the result of
`1 << irq` for `irq` of 32 to 63, undefined in C: either zero, as an ARM register
shift gives, or the bit modulo 32. It is chosen once, as by a compiler. The
type register announces 64 interrupts and `virq[]` has as many entries, but the
handlers accept the enable registers of 1024. A store that sets a bit past the table
is `Beyond`: it writes over what follows `virq[]` in `struct guest` and passes a
foreign word on as a physical id, so its outcome is any of `Outcomes` and `wild` is
set for good. `Damaged` is what accesses do from then on, with a table or a pointer
that may have been overwritten. The properties say what holds until a guest does this.

### Interrupts

The actions of `Hypervisor` with the distributors of `VGicDist`: a trapped store
of `Hypervisor` is split by what it stores, to the interrupts the type register
announces, a pending interrupt is presented only
while its enable bit is set, and everything else leaves the distributors alone.
The virtual CPU interface knows only list registers, so a disabled interrupt that
is already there is still taken; `masked` counts how often. The GIC is assumed to
have no running priority: the handler drops none for device interrupts and the
priority mask is never written. `ResetEnabled` says whether the physical
distributor forwards the hypervisor's timer (34) out of reset; no line of the code
enables it, so without that nothing would ever end a slice.

### Monitored

The counters beside the handlers of `Hypervisor`, with the place in each handler
where they are counted (before or after the scheduler). `seen` and `absent` record
what really happened, by the code that executes and not by `vm_id`.

### Cp15, StackFrame, GuestRegisters

`Cp15` has the enumeration of `cp15.h`, registers and fields, and the switch of
`cp15.c` with its three permuted entries and its missing one (HTPIDR). The
coprocessor is a function from coordinates to words. `StackFrame` has the layout
that `push`/`pop` give and the one that `read_reg_from_stack` and
`write_reg_to_stack` assume. `GuestRegisters` puts a switch together from them:
every register holds `<<who, register, version>>`, or a real word where bits matter
(HCR, HSTR, VTCR, VTTBR). Any VM may follow any other, which is more than the
scheduler does. `UnsavedBank` and `UnsavedCp` name what guests can write and no
switch touches.

### DeviceAccess

`GuestAccess` traps with any instruction and address of the instance and any
register contents; `trap_load`, `trap_store` and `trap_error` are the second half of
`guest_rpb_hyp_trap_dabort_handler`, with the chain of decoding conditions in its
order and the four devices. After a store past `virq[]` the timers of a guest may
be overwritten too (`TimerOutcomes`, `devices_damaged`). The page of timer 2 is mapped
directly by both initialisations (`guests/guest_rpb.c:264` and `:289`), so the
handler's case for it is only reached with tables that do not map it; the other three
devices are live. That pre- and post-indexed forms do not update their
base register is left out of the property and listed as a hazard.

### DevTimer, SliceTimer

`DevTimer` goes through the calls of `dev_timer_init`, `meteor_devices_init` and
`main()`, each a change of the control word, while the two counters of the hardware
run; then through the timer interrupt and switches. `dev_timer_set_wrapping(false)`
clears the size bit instead of setting the one-shot bit; that the calls set the size
afterwards repairs it. `SliceTimer` is what the scheduler wants, a full slice
before each interrupt, and what `Hypervisor` counts with `timer`.

### Uart, Semihost, DebugUtils, Heap

`Uart`: a step of the driver is a pass of a polling loop, with the access after the
last one. `_write` takes the address of a FILE as the console and every other descriptor
to the semihost device, as the code does. `Semihost`: a call is a step; the host is a
set of files with positions, and serves what the registers say at the moment of the
submission. `DebugUtils`: switches, files and the exit sequence in both builds
(`RELEASE` compiles logging out). `Heap`: `_sbrk` with unsigned wrap-around.

## 3. Runs

| Run | Instance | Checks | Shows |
|---|---|---|---|
| `irq` | 2 VMs, 2 list registers, interrupts 40 and 44 of VM 0 and 41 of VM 1, one program counter with all instructions; counters for up to 4 events | `TypeOK`, `OwnershipConsistent`, `StageTwoOwned`, `IrqConserved`, `NoLostWakeup`, `AssertionsHold`, `CountsOwnTraps`, `IrqsBalance` | ownership, stage 2 and every interrupt survive every interleaving; counters go to the right VM |
| `live` | 3 VMs with an interrupt each, slice of 2 ticks, fairness | `SleepConsistent`, `BoundedWait`, `RunnableIsScheduled`, `InterruptWakes` | progress; sleep states agree with the idle flag; nobody is passed over more than twice |
| `machines` | 2 VMs, a program of three instructions, two versions | `GuestsSeeOwnMachine` | `Hypervisor` implements `Machines` |
| `interrupts` | 2 VMs, an interrupt each, one list register, fairness | `InjectedOnlyIfUnmasked`, `MaskedTakenOnce`, `UnmaskedArrives`, `TimeShared` | disabling works at every moment, except for one interrupt already in a list register; interrupts raised while disabled arrive later; no guest's store to an announced interrupt stops the time slice |
| `memory` | 2 VMs, both initialisations, accesses to RAM, devices and a hole | `TypeOK`, `Isolation`, `WindowsAlias`, `AllocatorConsistent`, `DevicesMapped`, `ImagesInPlace`, `FaultRepaired`, `NeverExhausted` | guest memory is right as long as guests stay in their RAM and eight level 3 tables suffice |
| `device_access` | 2 VMs: five instructions at ten addresses; all values of the decoded bits; mapped and unmapped ids in both words of the distributor, and one past `virq[]` | `AccessExact`, `ForwardingExact`, `OwnForwarding` | emulation has the effect of the instruction, nothing else is taken for a word load or store, and guests switch only their own interrupts, until one of them stores past `virq[]` |
| `registers` | 2 list register words with the three real interrupts of VM 0; 3 VMs with two versions of all registers; every name of `cp15.h` with values 0, 1, 5, 255 over zeros and ones | `RefinesSlots`, `OwnRegisters`, `TrapsArmed`, `NamedAccess` | words implement slots; the switch is complete for the registers it saves, and traps and VTTBR stay as configured; names are independent and read back what was written |
| `drivers` | timer: slice 6 of a counter of 3 (16 bits) or 7 (32 bits), four reset states; UART: FIFO of 2, two texts, two calls; semihost: two files, one path a prefix of the other; debug output: 2 units, 2 lines, both builds; heap: 8-bit addresses and increments; fairness | `RefinesSlice`, `SliceEnds`, `TextInOrder`, `TextSent`, `ServedAsAsked`, `FilesUsedOpen`, `LogsKept`, `HeapExact` | the setters leave a working time slice; polling neither overruns nor hangs; no request inherits from another; log files are used properly on every way out; the heap stays in its range |
| `memory_tables`, `memory_slots`, `list_register_hw`, `vgic_dist_shift` | | one property each | the findings below |

Bounds and why they are enough:

* Two VMs are enough to mix up state between two; three are the least for which
  round robin order, starvation and "woken while another runs" differ from
  alternation. The code has four, the proofs cover one to four.
* `NumLR` is 64 in the code. One or two make a full list reachable if it ever is.
  VM 0 has two interrupts in `irq`, so that first-free search, ends in either
  order and reuse happen. The code wires three interrupts per VM, and three list
  registers are proved to be enough.
* `PcMod` 1 lets every instruction follow every other. In `machines` a device load
  and a RAM access are alone at their addresses, so a skipped or repeated
  instruction is visible. `DataMod` 2 tells a register value from the one before.
* `Slice` 1 lets the timer expire between any two steps; 2 in `live` makes it count.
* `GuestMemory` has 4 entries per table instead of 512, 8 pages of RAM per VM and
  17 blocks of address space. The order of RAM, devices and high window and the
  number of blocks the devices lie in are the real ones, and the 32-bit overflow in
  the high window's test falls inside the address space. `MaxTables` bounds the
  level 3 tables of a VM; it is larger than `L3Tables` and only reached in
  `memory_tables`.
* `interrupts` has one list register per VM and one interrupt each: masking is per
  interrupt, and a second VM is what can mask the wrong one. `masked` stops at 2.
* `Outcomes` and `TimerOutcomes`, what a store past `virq[]` may leave behind, have one
  member each in `device_access`, a change of another guest's interrupt; no property
  says anything of what follows, and the proofs are for any sets of outcomes.
* `MaxEvents` bounds the events counted in `irq`: enough for a trap, a switch
  and an interrupt of either VM in any order.
* In `DevTimer` a slice does not fit the 16-bit counter and fits the 32-bit one, as
  1200000 does; that is all that matters about the numbers.
* The FIFO of `Uart` is shorter than each text, with a line feed where it is full.
* `SizeMax`, `PathMax` and `BufMax` bound files and arrays of `Semihost`: one byte
  more than the longest path, so that a missing terminator shows.
* `Heap` is checked with all 8-bit increments from every reachable end; the proof is for
  every size.

Deadlock is checked in every run: the end of the program is an action of its own
(`Exited`, `Ended`, `Stopped`), and so is a pass of a polling loop that goes on.

**Fairness** (`FairSpec` of `Hypervisor`, used by `live`): weak fairness of `Tick`,
`irq_timer` and of `irq_device` for each interrupt. The first is the hardware timer
in periodic mode. The others say that the GIC presents a pending interrupt and the
CPU takes it: guests cannot mask physical interrupts (HCR.IMO), the idle thread
runs with interrupts enabled, and the handlers' loops are bounded. Nothing is
assumed of guests or devices: a guest may loop for ever, never acknowledge and
never execute WFI. Both properties allow the program to stop instead, because a
guest can stop it with an access that is not emulated.

`IFairSpec` of `Interrupts` is the same for interrupts that are forwarded: weak
fairness gives nothing to a disabled one. `UnmaskedArrives` is for the outcome of the
undefined shift that sets the bit; with the other nothing is forwarded (finding 4).
In `drivers`, as in `FairSpec` of `DevTimer`, the program makes its next call and the
counter counts; it is left open whether an interrupt is taken. As in `FairSpec` of `Uart`, the
CPU goes on polling and the transmitter, while the device is on, goes on sending.

## 4. Proofs

All proofs are for every value of the constants under the named assumptions of the
modules: one to four VMs, at least one list register, only the interrupts that
`main()` wires (`PidsAssumption`), and for memory the order of RAM, devices and high
window, with RAM a whole number of blocks (`LayoutAssumption`, `DeviceAssumption`,
`TablesAssumption`, `ImageAssumption`). The assumptions of the instances in
`MCRegisters` and `MCDrivers` are named there: one to four VMs, and the registers that
guests load from devices are in the stack frame (`RegistersAssumption`); the slice fits
32 bits but not 16, paths and data fit the arrays of the semihost device, files hold
bytes, the FIFOs of the UART are at least one deep, and a text's fragments are
characters (`DriversAssumption`). TLC evaluates them in the runs. Run `tlapm` on a `_proofs` module
to check it.

**Hypervisor_proofs.** `Inv` is the conjunction of types, ownership, sleep and
stage 2 facts. None of its parts is inductive alone: `guest_suspend` saves the
hardware context only if the flag is set, so that the saved context is the VM's own
needs ownership; ownership after a wake-up needs that idling implies that all
sleep; and stage 2 of the next VM to run needs a fact about the backups of
VMs that are not running, that their table base is their own (the VMID need not
be, `guest_restore` writes it). All calls of the scheduler share one lemma
(`SchedulerLemma`, from `SwitchLemma` and `IdleLemma`), whose hypothesis is what a
handler has established when it makes the call. From it follow `TypeCorrect`,
`Ownership`, `Sleeping`, `StageTwo` and `NoDirtyRestore`: the assertion in
`guest_restore` never fires.

`WaitBound` (round robin passes a runnable VM over at most `NumVM - 1` times)
needs `WaitInv`: a VM's count plus its distance from `vm_id` in the ring is at most
`NumVM`. A switch moves `vm_id` at least one place nearer without passing the VM.

`IrqInv` says that the lists the VMs would see if they ran hold exactly the active
interrupts, each once, at the VM and under the id it belongs to (`Conserved`), and
that no sleeping VM has one waiting (`NoneWaiting`). One lemma per way of changing
the lists (`AddLemma`, `AckLemma`, `EoiLemma`) and `SchedLists`: a switch does not
change them. `Conservation` and `WakeUp` follow. `Assertions` proves that with three
or more list registers none of the program's own assertions can fail: if all were in
use, three of them would hold all three interrupts of the VM, and the one that is
arriving is not among them.

**HypervisorMachines_proofs.** `Virtualisation`: `Spec => GuestsSeeOwnMachine`. The
abstract state is a function of `EffContext`, `EffList`, `wfi_state` and `halt`, and
`SchedulerLemma` already says that a call of the scheduler changes none of the first
three. So every handler is split into what it does for a guest (a step of `Machines`:
`ToStep`, `ToLoad`, `ToWait`, `ToDeliver`, ...) and the scheduling after it
(`ToStutter`). Beyond `Inv` and `IrqInv` the induction needs `OwnContexts`: register
groups carry the tag of their VM, and program counters are in range, so that
correcting `elr_hyp` undoes the advance every trap begins with. Acknowledging and
ending an interrupt change one list register, and `Conserved` says that no other
register holds the same interrupt, so that exactly one abstract interrupt changes.

**Interrupts_proofs.** `DistributorsRefine`: `ISpec => Spec`, so all theorems about
`Hypervisor` carry over. `OnlyUnmasked` needs `ForwardedInv`, that the physical
distributor forwards an interrupt of a guest only while the guest has it enabled,
for both outcomes of the shift; it holds across the guests because a physical id
belongs to one virtual id of one VM (`VirqOf`). `MaskedOnce` needs `MaskedInv`: after
a guest has taken an interrupt that it had disabled, the interrupt is not pending in
a list register until it is enabled again.

**Monitored_proofs.** `TrapsCounted`: the counters of a VM are those of its own code,
because `Inv` makes `vm_id` name the code on the CPU whenever a trap is counted.
`IrqsCounted`: the system's interrupt count is the sum over the VMs plus the
interrupts for VMs off the CPU, because a dirty backup and no sleep mean exactly that
the VM executes (`ActiveRuns`). The sum is stated by its partial sums; an interrupt
of VM t raises those beyond t. Both are for any number of events.

**GuestMemory_proofs.** The inductive invariant has three parts, each stated with
the position of `main()`: the VMs below c have their tables, and n pages of the images
of VM c - 1 are loaded.

* `BaseInv` holds whatever addresses guests access: tables are well formed (a block's
  level 3 table was handed out, and to no other block; entries of a cleared table are
  never unknown), the known entries of an on-demand VM lead to its own slots or its
  devices. It gives `TypeCorrect`, `FaultsRepaired` for the on-demand initialisation,
  and `VMsIsolated` for it as long as the eight cleared level 3 tables suffice
  (`L3TablesPrepared`): then no entry is unknown (`WalkKnown`). Finding 1 is what breaks
  this condition, and an entry nobody cleared may map another VM's RAM.
* `RamInv` is for guests that stay in their RAM (`StaysInRam`: no address of `Touch`
  is accepted by a window test of the handler but lies outside the RAM). It relates
  each used slot to the entries at its two addresses and gives the static case of
  `VMsIsolated` and `FaultsRepaired`, and `WindowsShareRam`, `DevicesStay` and
  `BooksAgree`. The condition is needed: finding 2 and the first observation below are
  what happens without it. `VMsIsolated` and `WindowsShareRam` need `L3TablesPrepared`
  here too.
* `ImageInv` also has `RamFits`, memory for the RAM of all VMs; in the code both are
  512 MB. No address has two slots, so slots in use are at most the pages of all VMs,
  and a fault means that at least one is left: a counting argument with
  `FiniteSetTheorems` that gives `RamSuffices`. `ImagesStay` follows, since loading
  never stops half-way and nothing is written afterwards.

**DeviceAccess_proofs.** All invariants are of the form `wild \/ ...`, where `wild`
stays once it is set (`WildStays`), and the properties are about steps that do not
end in it. `ForwardInv` (the physical enable bits are those of the
virtual flags, and empty if the shift yields zero) gives `ForwardingFollowsFlags` and
`ForwardingOwn` for the distributors alone, and `DecodedForwarding` and
`DecodedForwardingOwn` when the stores come as instruction words. `AccessesExact`
rests on `AccessInv` and on lemmas about each table that has to agree with another:
`DecodedRight` (the chain of masks and shifts accepts only word loads and stores of a
single register, and finds their register and direction), `FrameRead` and `FrameWrite`
(the offsets into the stack frame are those of the register named), `TimerRead` and
`TimerWrite` (an offset names one register of one channel), `IdsOf` and `FlagCases`
(the interrupts an enable register stands for, and their flags after a store).

**Registers_proofs.** `FieldRoundTrip` and `FieldFrame` are about the bit
operations for any word and field. They give `PendingWord` (the four writes to any
old word decode to the new interrupt) and `StateChange`, and with them
`Refinement`: `Spec => RefinesSlots`, for any number of words and any ten-bit ids.

`SwitchOwnRegisters` and `SwitchTrapsArmed` share the invariant `RInv`: the backup of
every VM that is off the CPU is clean and holds what that VM left in its registers,
banked registers, coprocessor registers and its share of the GIC; the CPU holds all of
that for the VM on it, whose backup is dirty, and that VM's table base and VMID; the
traps are armed, also while the idle thread has the CPU. None of the parts is
inductive alone: that a restore gives the VM its own values is the fact about its
backup, which the suspend before it established from the fact about the CPU, provided
the flag was set. The table base may be saved with or without the VMID, which a restore
writes anew. The lemmas follow the tables: the two directions of the switch
(`SuspendSaves`, `RestoreLoads`), the frame of `vector.s`, and the fields written by
name into a register that has others.

`Cp15NamedAccess` is about single accesses (`CInv`: what is read was written to the
registers as they were). A name is a register of all 32 bits or a field of one
(`AllAreNames`, from the table of the header), the instructions the switch issues for
different registers are different ones, though not always those of the name, and two
names that do not overlap are of different registers or of disjoint fields.

**Drivers_proofs.** Five drivers that share nothing, each with its own invariant.

* `HeapCorrect`: `HeapExact` is inductive as it stands. Lemma `Served` is the
  arithmetic: a request that passes the test gives the plain sum, for negative
  increments because newlib returns only what it has, for positive ones because an
  `int` added to the end of the heap stays below 2^32 (`HeapAssumption`).
* `DebugFilesUsedOpen` and `DebugLogsKept` (`DInv`): a log is on only while its file is
  open, a file is opened once, and only the last function registered with `atexit`
  closes it. That the order of the two registrations is right is part of the
  invariant.
* `SemihostServedAsAsked` (`SInv`): one lemma per call of the device shows that the
  request the device reads is the one asked, so that every register and array cell the
  request uses was written by this call. The invariant is only that registers, files
  and positions are well formed: what earlier calls left is arbitrary.
* `TimerRefinesSlice` (`TInv`): the copies of the control words hold what the calls so
  far have set, the registers equal the copies from each timer's first call on, and
  once the slice is set it runs. `SetterStep`, `LoadStep` and `ClearStep` are the kinds
  of call, `ClockSlice` and `ClockOther` the counters running in between.
* `UartInputInOrder` and `UartStreamKept` (`UInv`) are for any depth of the FIFOs: input
  is returned in order and complete, and what has been sent, waits in the FIFO and is
  still to be sent, read as one stream, changes only when `_write` appends the
  translation of a text.

Only model-checked: liveness (`RunnableIsScheduled`, `InterruptWakes`,
`UnmaskedArrives`, `TimeShared`, `SliceEnds`, `TextSent`), which is out of the
prover's reach; and of `TextInOrder` that the stream is the whole text written with its
line ends translated (`Lines(written)`). The two theorems about the UART are the rest
of it; what is missing is that the translation of two texts one after the other is the
translation of both, an induction over the text.

## 5. Findings

1. `memory_tables`: `pagetable_set_page` (`vmm/pagetable.c:122`) has no limit on level
   3 tables, `pagetable_init` clears eight ("there are 8 level 3 tables"). A guest
   prepared on demand takes a ninth once it uses three 2 MiB blocks.
2. `memory_slots`: with the static initialisation the allocator's pages are the RAM
   that `main()` already gave to the VMs (`vmm/memory_allocator.c:55`).
3. `list_register_hw`: bit 1, written as the hw flag, is part of the virtual id that
   is written next (`guests/guest_rpb.c:509`).
4. `vgic_dist_shift`: `1 << irq` for `irq` of 32 and more
   (`devices/dev_gic2_dist.c:34`).

Observations, which the modules contain as the code has them and no run is about:

* The window tests of the data abort handler (`guests/guest_rpb.c:345` and `:362`) accept
  addresses past the RAM size the guest is told in its ATAG list: one page in the low
  window, every base from 0x70000000 to 0x8FFFFFFF in the high one.
* `vmm/cp15.c:68` issues the instructions of TTBCR, TTBR0 and TTBR1 for the names TTBR0,
  TTBR1 and TTBCR in another order than `cp15.h` encodes them. Save and restore use the
  names consistently, so guests do not notice (`OwnRegisters`).
* `en` of the virtual distributor is written (`v_devices/vdev_gic2_dist.c:77`) and never
  read: a guest that disables its distributor still gets its interrupts.
* The handlers of the enable registers accept offsets for 1024 interrupts
  (`v_devices/vdev_gic2_dist.c:84` and `:114`), `virq[]` has 64 entries. A store past the
  announced ones writes over memory after the table (`Beyond`); the properties of the
  distributors hold until then.
* The emulation of timer 2 (`guests/guest_rpb.c`, page 0x10012000) is not reached: both
  initialisations map the page.
* The system's WFI counter counts CP15 traps (`vmm/exception_handler.c:81`), and WFI
  traps are not counted for the system.
* The address of the UART's control register is never set (`devices/dev_uart.c:26`), so
  enabling the UART writes to address 0, where `vector.s` puts the exception vectors
  (`write_cr` and `vectors` in `Uart`).
* `_write` compares a descriptor with the address of a FILE (`vmm/newlib_stub.c:79`), so
  text for descriptors 1 and 2 goes to the semihost device.

## 6. Not modelled

* `devices/dev_rom.c`, which nothing uses; `memory_allocator_free_page`, which only
  exits; functions that nobody calls (`monitor_read`, `dev_timer_get_load`,
  `dev_timer_get_value`, `dev_timer_set_value`).
* `devices/io.c`, `devices/rf.c`: single loads, stores and moves, of which the steps of
  the other modules consist.
* What exactly a write past the 64 interrupts of the virtual distributor hits, which
  depends on the layout of `struct guest`: its outcome is left open (`Outcomes`).
* What a guest does through an entry of a level 3 table that nobody cleared: such an
  access changes nothing in `GuestMemory`.
* The base register of indexed accesses (a hazard): the handler does not touch it.
* Straight-line start-up: copying the vectors, base addresses of devices, the baud
  rate, the one-time enables of the GIC.
* `_isatty`, the fields of a file's status other than its size, the text of messages,
  the contents of boot loader and ATAG list: data and formatting.
* Running priorities, priority masks and the physical end of interrupt of the GIC,
  which the code does not use for device interrupts.

## 7. Plan

Done: all components that keep state of their own are modelled; `PROJECT.json` gives
their status. All safety properties that a run checks are proved for every value of
the constants, `TextInOrder` up to the induction of section 4. What could be added:

1. The base register of indexed accesses and the missing bound of the virtual
   distributor's table, once the code handles them.
2. Stage 2 translation in `GuestRegisters`: `Hypervisor` has the table base per VM,
   `GuestMemory` the tables; a composition would join the two.
