# A TLA+ model of NanosOS

NanosOS is a small preemptive operating system for one core of an ESP32-S3: a priority scheduler with tasks,
mutexes, semaphores, message queues and timers; three memory allocators; a flash file system; a USB host with the
Android Auto protocol on top; an audio mixer, a GUI, hardware detection and a few services. The repository holds no
tests. This directory models its kernel, its heap, its file system, its hardware detection, its start-up with display and
GUI, its USB transport and its asset cache in TLA+, checks the models with TLC and proves the main invariants of all but
the start-up with TLAPS.

Source paths below are relative to `src/nanos_os/`; `PROJECT.json` maps every definition to the lines it stands for.

1. [Inventory](#1-inventory)
2. [Modules](#2-modules)
3. [How the code becomes a model](#3-how-the-code-becomes-a-model)
4. [Runs](#4-runs)
5. [What the runs found](#5-what-the-runs-found)
6. [Proofs](#6-proofs)
7. [What is only model-checked, what is not modelled](#7-what-is-only-model-checked-what-is-not-modelled)
8. [Plan](#8-plan)

## 1. Inventory

| Component | Source | State it keeps | Operations | Interacts with |
|---|---|---|---|---|
| Task scheduler | `kernel/scheduler.c:24-137` | TCBs (state, priority, slice, links), run queues and bitmap, sleep queue, tick count, current task | `task_create`, `task_yield`, `task_sleep_*`, exit hook, `sched_tick_isr`, `sched_yield_from_isr` | everything; called from interrupt level by the timer |
| Mutexes | `kernel/scheduler.c:139-161` | flag, owner, wait list through the TCB links | lock with time-out and priority inheritance, unlock | scheduler (block, wake, priority); used by allocators, flash, NanosFS, event loop |
| Semaphores, message queues | `kernel/scheduler.c:162-200` | count and wait list; ring, head, tail, count | take, give, send, receive | scheduler; used by USB, audio, Android Auto; give also from interrupt handlers |
| Software timers | `kernel/scheduler.c:82-86,201-208` | sorted list, expiry, period | start; scan in the tick handler | no caller in the repository |
| Boot, context switch | `boot/startup.S`, `system/bootloader.c` | registers, stacks | start-up, `context_switch`, vectors | scheduler |
| Interrupt router, DMA | `kernel/isr.c` | handler table, descriptor pool | register, unregister, dispatch, chains | drivers |
| Logger, crash handler | `kernel/logger.c`, `kernel/crash_handler.c` | none | print, halt | all |
| Allocators | `mm/allocator.c` | TLSF classes with bitmaps; PSRAM free list; four slabs | alloc, free, realloc | mutex per heap |
| NanosFS | `fs/nfs.c` | superblock with two bitmaps, descriptors with inode copies, 8-entry write-back cache | mount, format, open, read, write, close, stat | flash driver, PSRAM, mutex |
| Asset manager | `fs/asset_manager.c`, `services/services.c` | table of cached assets | init, get, evict | flash, PSRAM |
| USB host | `usb/usb_stack.c` | channels, device address, connected flag | transfers with time-out, interrupt, host task | semaphores |
| Android Auto transport | `usb/aap_transport.c` | connection state, eight transmit queues, static frame | connect, dispatch, send; three tasks | USB, message queues, GUI and audio through callbacks |
| Audio pipeline | `audio/pipeline.c` | streams, four DMA buffers, index of the one that plays | open, close, volume, mixing task, interrupt | semaphore |
| GUI | `gui/framebuffer.c`, `gui/splash.c` | two frame buffers, dirty bands, widgets, animations | draw, flip, animate, render task | LCD driver |
| LCD, touch drivers | `drivers/lcd`, `drivers/touch` | none | window, pixels | SPI registers, panel |
| Start-up | `system/main.c`, `system/hal_init.c` | none of its own | `app_main_task`, `build_main_ui` | calls the initialisation of every other part, starts nine tasks |
| Hardware detection | `drivers/autodetect/*`, `system/hal_init.c` | databases of chips; context of display, touch and codec | scan, probe, poll task, init sequences | SPI and I2C registers; device tree; scheduler (poll task) |
| Device tree | `system/devtree/*` | table of 32 devices, four primaries | register, find, find by name | detection, HAL, shell |
| Event loop | `services/event_loop.c` | 16 deferred calls | post, run | mutex |
| Profiler, power, Bluetooth, Wi-Fi, shell, apps | `services/*`, `tools/*`, `apps/*` | a few variables each | callbacks and commands | the parts above |

**What is hard.** All concurrency is preemption on one core: the tick may arrive after any instruction that is not
between `irq_save()` and `irq_restore()`. The kernel is careful with its queues, but not with what surrounds them.
A kernel call that blocks leaves its masked section *before* it yields. Conditions are tested outside the sections that act
on them. A TCB has one pair of links for run queue, sleep queue and wait lists. Priority inheritance changes a
field that says in which queue a task is linked. The tick handler switches tasks in its middle and finishes on
another task's stack later. Higher up: a write-back cache without a journal replay, transfers with late interrupts,
state copied into descriptors, identifiers that are reused. Tasks are started in the middle of the initialisation they depend on,
and draw a tree that is being built. `PROJECT.json` lists these hazards at their lines.

**What makes each part correct.**

* *Scheduler:* every ready task is linked exactly once, in the level of its priority; the bitmap is exact; the sleep queue
  holds the sleepers in deadline order; one task runs; a switch goes to the highest priority; a sleeper is woken on its
  tick; a task of the highest priority runs eventually.
* *Mutex:* one task inside; waiters are the blocked tasks; a raise finds an owner; a raised priority ends with the ownership; no inversion.
* *Semaphore and queue:* no item is overwritten, read twice or read before it was written; tokens never exceed items;
  a failed call has no effect; a time-out ends a call; a waiter is served when there is something for it.
* *Detection:* what is registered is there, what is there and known is registered; pointers to devices stay valid; the primaries are
  what a search gives; the table has room.
* *Timers:* each fires once per expiry. *Allocators:* live blocks are disjoint and as large as was asked for; what was freed
  can be allocated again. *Asset cache:* a returned pointer stays good while it is among the recent ones. *NanosFS:* a block belongs to one file; what a reset leaves is a state the
  application produced. *USB:* a completion belongs to the transfer that waits for it. *Transport:* frames are not interleaved;
  the connection gets to RUNNING. *Start-up:* nothing is used before it is ready; the event loop is reached. *GUI:* the glass shows the tree. *Audio:* a closed stream is silent and nothing else is. *Event loop:* a call posted
  runs once.

## 2. Modules

| Module | Models | Kind |
|---|---|---|
| `Scheduler` | run queues, sleep queue, tick, yield of `kernel/scheduler.c`; blocking and waking as such | component |
| `LinkedQueues` | `rq_enqueue` and `rq_remove` on the links of the TCBs | data structure |
| `KMutex` | one `k_mutex_t` used by tasks of the scheduler, on `LinkedQueues` | component and composition; implements `Scheduler` |
| `BoundedChannel` | a bounded first-in first-out channel with atomic send and receive | abstract specification |
| `MsgQueue` | `k_msgq_send`/`recv` with `k_sem_take`/`give` on the two semaphores | component; implements `BoundedChannel` |
| `FileStore` | open files as sequences of cells with a position; each write takes effect at its return and takes the blocks the file has grown by, a read delivers all there is | abstract specification |
| `NanosFS` | `fs/nfs.c`: block cache, allocation, inodes, descriptors, mount, power cut | component; implements `FileStore` |
| `Heap` | `k_malloc` and `k_free` of `mm/allocator.c` | component |
| `DeviceTables` | the databases of chips in `drivers/autodetect/` and the comparison of an answer with a row | data |
| `Detection` | `devtree_probe_all` with its four probes, and the device tree they fill | component |
| `Display` | the initialisation sequences of the ten display chips, `lcd_set_window` and `lcd_write_pixels`, and the panel | data and operators |
| `Gui` | the widget tree, its rectangles, what painting makes of a frame buffer and which bands it marks | operators |
| `Boot` | `app_main_task` with everything it calls, the tasks it starts, and the render task | composition of the two with the priorities of the scheduler |
| `UsbTransport` | `usb/usb_stack.c` and the connection task of `usb/aap_transport.c`, the interrupt and the phone | component and composition |
| `AssetCache` | `fs/asset_manager.c` on the PSRAM list of `mm/allocator.c` | component and composition |
| `MCScheduler`, `MCKMutex`, `MCMsgQueue`, `MCNanosFS`, `MCHeap`, `MCDetection`, `MCBoot`, `MCUsbTransport`, `MCAssetCache` | values and symmetry sets of the instances | for TLC |
| `SchedulerProofs`, `KMutexProofs`, `MsgQueueProofs`, `NanosFSProofs`, `HeapProofs`, `DetectionProofs`, `UsbTransportProofs`, `AssetCacheProofs` | theorems | for TLAPS |

Definitions named "slip" in comments (for instance `RqEnqueueAtHead`) are not part of the model: each is a plausible bug in
the definition that follows it, and the property named in `PROJECT.json` is violated when it takes that definition's place.

### Scheduler

| Variable | Code |
|---|---|
| `state`, `priority` | fields of `task_tcb_t`; `"NEW"` before `task_create` |
| `run_queue[p]`, `prio_bitmap` | the circular list of level p from its head; the set of bits of `s_prio_bitmap` |
| `sleep_queue`, `wake_in[t]` | the list; `t->wake_tick - tick_count`, so that time needs no bound |
| `current_task`, `slice_ticks` | `g_kernel.current_task`; the slice of that task (of others it is never read before it is set) |
| `about_to_yield` | tasks between `irq_restore()` and their `task_yield()` |
| `isr` | `"wake"` inside `sched_tick_isr`, which takes one action per sleeper it wakes |
| `rearm_pending`, `alarm_armed` | tasks preempted inside the handler, whose line 92 has yet to run; the alarm |

Actions are the kernel calls of the running task (`TaskCreate`, `TaskYield`, `TaskSleep`, `TaskExit`, `TaskBlock`,
`TaskWake`, `YieldAfter`) and the pieces of the tick handler (`TickEnter`, `TickWakeOne`, `TickReturn`, `TickPreempt`,
`TickResume`). `SchedYield` is `sched_yield_from_isr`. The initial state is the one `kernel_start` leaves, with the idle
task running *and* linked in level 0; that `rq_enqueue` of such a task changes nothing is part of the model.

`TaskBlock` and `TaskWake` are what mutexes and semaphores do to the scheduler, without the reason; `KMutex` supplies the reason
and is checked to be an implementation.

`OneShotAlarm` chooses between the alarm as line 92 treats it (it fires once and has to be armed again) and a periodic one. The safety
properties hold for both, by proof; the liveness property only for the periodic alarm.

### KMutex and LinkedQueues

Here a TCB has its two pointers. `links` is the record of `next`, `prev`, `run_queue`, `bitmap` and `fault`; the last is set
where the code follows a null pointer, and then nothing happens any more (the exception ends in the crash handler). The wait list of
the mutex runs through the same `next`. `pc` says where a task is in `k_mutex_lock`: at the compare-and-swap, before the store
of the owner, at the null test, the comparison and the store of the priority inheritance, at the tests of the time-out, before the masked section,
waiting, inside; and `"crashed"`, where it has followed a null owner. The tick may preempt between any two of them. Line 144 reads `m->owner` three times, for these three
steps (`BoostTest`, `Compare`, `Raise`). The field is not volatile, so a build may read it again or keep what it has read (`seen`): `Reread` has both. Sleeping and exit are left out here, as is a task locking
a mutex that it owns (none does). So are owners that sleep or block inside the mutex, which the code has: asset loads and block reads take the lock of the flash under their own.
The set of tasks is finite (`KMutexAssumption`): the kernel has 32 at most.

`raised` remembers that a waiter has raised the priority of an owner. From then on the owner may be linked in a level that is not its own (section 5), so
`WaitersConsistent` and `SchedulerRefinement` speak of the behaviour up to the first raise; exclusion, `RaiseFindsOwner` and `BoostEndsWithOwnership` hold after it too.
`WaitersConsistent` includes that nothing follows a null pointer before a raise, with the one exception that `MCKMutex_null.cfg` is about: the owner may unlock between the null test and the comparison.
`RaiseFindsOwner` is about the gap between the comparison and the store. It holds because the comparison is strict: with `<=`, the mutant of the run, a task of
the owner's own priority would pass it, and the owner may get its slice in between and unlock. It also needs owners that only ever wait for the processor: one that
blocks inside the mutex could be raised by a third task, then run and unlock in that gap.

### MsgQueue and BoundedChannel

The ring (`buf`, `head`, `tail`, `count`), two semaphores (`tokens`, `waiters`), and per task the location in the call (`Call`, `Load`, `Cas`,
`GiveUp`, `GoOn`, `Block`, `Write`/`Read`, `Give`). Tasks interleave freely, which includes every schedule of the
scheduler. A `Block` puts the task into the wait list; `SemGive` either releases the first waiter or adds a token, as lines 176-181 do:
it does *not* do both. `BoundedChannel` has a sequence `items` and, per task, a phase (outside, sending, receiving); a send appends in one
step and a receive takes the first in one step. The refinement mapping computes the sequence from ring and tail, and the phase from `pc`.

### NanosFS and FileStore

| Variable | Code |
|---|---|
| `formatted`, `flash`, `inodes` | what survives a power cut: the superblock's magic number, the data blocks, the inode table |
| `blkbmp`, `inobmp` | the set bits of the bitmaps in the copy `s_sb` of the superblock |
| `cache` | the valid entries of `s_cache` by block: `dirty`, `buf` |
| `fds[f]` | `s_fds`: `open`, the copy `ino` of the inode, its number, `pos` |
| `call` | the `nfs_read` or `nfs_write` that is running: cells done, the victim that `cevict` has erased and not yet stored |
| `promised[n]` | for the properties: what the inode of n showed when the file was opened, with the writes that returned since put over it |

`MountAndFormat`, `Mount`, `OpenFile`, `CreateFile` and `Close` are whole calls: each makes at most one flash operation that matters
(`nfs_format` erases everything and writes the superblock last; a power cut inside it leaves no superblock). `nfs_read` and `nfs_write`
start, take one action per block (`ReadBlk`, `WriteBlk`, `AllocBlk`), and return. An eviction of a dirty entry is two actions, `EvictErase` and
`EvictStore`, so that the power can be cut between the erasure and the store. `PowerCut` is possible in every state after a mount.

What the model takes from the code and not from its documents: `alloc_blk` takes the first free block (README section 10 and the
changelog say the least erased one); `O_TRUNC` has no effect; nothing writes the journal, and nothing but `nfs_format` writes the superblock.
What it assumes: calls come from one task (as in `apps/settings_ui.c`, the only user), a file has one open descriptor, and the flash
does not fail. The entry used least recently is any entry, which covers equal time stamps.

`cevict` and `nfs_format` erase the flash before they write to it; `nfs_open` and `nfs_write` store inodes in place without erasing. The repository has the flash driver's interface only, so
`flash_kind`, chosen once from `FlashKinds`, says what such a store leaves. On a flash that overwrites, the new inode replaces the old one. On NOR flash a write clears bits and sets none, and `Programmed` has what may be left over
an inode that is not erased: every number is the AND of old and new, of which the model keeps that it is not greater than either, and two different names make one that nobody
uses (`Garbled`). All theorems, and the properties of `nfs_safety` but one, hold for both. A file that is opened *again* is what differs: `OverwritingReopens` says that it is found on a flash that overwrites, and `FilesReopen`, which says so of any flash, is violated (section 5).

`FileStore` is what the caller sees of files while they are open. `File` (what an open file holds and its position), the number of marked blocks without those that the write in progress has
taken (`Growth`), and `Request` (what a call was asked for, and of a read what it has delivered) are the refinement mapping. A step of a read maps to `Deliver` and the return of a write to
`ReturnWrite`; allocations, evictions and the blocks of a write are stutters. A write that returns has taken one block for each place of the table that the file newly reaches, and no other; it may fall short of what was asked for
only where the file has its greatest length or every block is taken. So blocks that are lost, given out twice, or kept by calls that stopped early would be seen. What a file holds when it is opened
is left open by `Open`: that is for `OverwritingReopens`.

### Heap

| Variable | Code |
|---|---|
| `size[b]` | the header of the block at address b: its size; the domain is the set of blocks |
| `lists` | `fl`, `flbmp` and `slbmp` of `H`: the free lists by level and bucket, the two levels of bitmaps |
| `used`, `fre` | the counters `H.used`, `H.fre` |
| `asked[b]` | for the properties: the live blocks with the size, after rounding, that the caller asked for |

Sizes and addresses are counted in units of 16 bytes (`HEAP_ALIGN`); each call runs under `H.lk` from its first access to its last and is one action.
`Malloc` is `tlsf_map`, `find`, `rem`, the subtraction, the split with `ins`, and the counters; `Free` is the counters and `ins`. `k_calloc` and `k_realloc` are
sequences of these calls. A block that is freed is *not* joined to its neighbours, although README section 5 says so; the model does what the code does.

`bsz(b) - sz` is unsigned, so `Malloc` subtracts modulo `WORD`. When it wraps, the "rest" is a block that ends beyond the heap and what the program does from there is
arbitrary; the actions stop (`Intact` in their guards) and the properties speak of the states before. This is also why the run does not check
deadlock. `Class` is `tlsf_map` with the levels and buckets as constants; that it stays within them for every size is the assumption `ClassAssumption`, which TLC
evaluates for the instance. `HeapAssumption` bounds `WORD` by 2^28, the units of a 32-bit address space.

### Detection and DeviceTables

| Variable | Code |
|---|---|
| `board` | external: the display and, by address, the chips on the I2C bus with their identification registers |
| `phase`, `step` | where `devtree_probe_all` is: the probe, and the address or row its loop has come to |
| `nodes` | `g_devtree.nodes` up to `node_count`: name, category, bus, address |
| `primary` | the four quick-access pointers, as indices of `nodes` |
| `context` | `s_lcd_ctx`, `s_touch`, `s_audio_codec`: the row that was found and its address |
| `found` | `i2c_devices_found` |
| `disturbed` | for the properties: the addresses at which a transaction was preempted |

`Scan`, `ProbeLcd`, `TouchReady` or `TouchFault`, `ProbeCodec` (one action per address), `AssumeDac` and `ProbePeripheral` (one action per row)
follow each other. They run in one task, but not alone: `devtree_probe_touch` starts a task of higher priority that wakes every 16 ms
and reads the touch chip through the *same* I2C registers, without a lock. It may come between any two register accesses
of a later transaction, which then times out or returns bytes of another chip. The model treats such a transaction as one that returns anything or
nothing and remembers its address in `disturbed`; `MaxDisturbed` bounds how many addresses. The properties say what holds elsewhere.

A category is a set, since `DEV_AUDIO_OUT|DEV_AUDIO_IN` is a value of its own that equals neither of its parts. `DeviceTables` keeps the identification part of each
row, byte for byte, as the compiler lays it out: `who_am_i_reg` is a byte, so the 0x300A of the OV5640 is 0x0A. In `touch_probe.c` all rows but the Goodix ones have two
initialisers too many (`{0},{0}`), which fill `max_points` and `status_reg` and shift the rest by two fields: `init_fn` becomes a number below 256.
`Touch` records this as `callable`; calling such an `init_fn` is an exception, and the crash handler halts the processor (`TouchFault`).

What the model assumes: at an address without a chip a transaction times out; a chip answers zeros on registers other than its identification;
the init sequences of a chip have no result (each ends in `return K_OK`, or its result is not used). `i2c_read_reg8` is `static` in `touch_probe.c` and declared
`extern` by its two other users; the model takes the evident meaning.

`Genuine(b)` says when a board can be identified at all: a chip with the name of a row has its identification where the row looks for it, and only a
chip of that name has the identification of a Goodix row or of a codec's row that compares any byte. It is the hypothesis of two theorems (section 6); `MCDetection` has TLC evaluate it for each board of the runs.
Detection is modelled with a bus that works; that I2C0 is never initialised is part of `Boot`.

### Display, Gui and Boot

| Variable | Code |
|---|---|
| `board`, `panel` | external: the display that is fitted; whether it is awake, on, in which format, and what its memory shows |
| `todo`, `left` | what `app_main_task` has yet to do, one micro-operation each; the ticks it still sleeps |
| `cur` | who has the processor: the render task, app_main, or nobody of the two |
| `obj`, `started` | each lock, semaphore, queue and bus: raw, ready, used, and for a bus, before it is ready, clocked; the tasks created so far |
| `tree`, `linking` | `children`, `nch`, `parent` of the widgets; where `gui_widget_add_child` is |
| `phase`, `due`, `work` | where the render task is; `nxt - now`; the ticks its frame still takes |
| `fb`, `draw`, `dirty`, `frames` | `s_fb`, `s_draw`, `s_dirty`, `s_frame_cnt` |

app_main is sequential, so its code is a script: `Boot(b)` is the sequence of the functions it calls, and each of these is the sequence of the locks it
initialises or takes, the pauses, the commands to the panel, the pictures, the tasks and the widgets. The render task, of a higher priority, may run at a tick, at an
unlock and while app_main sleeps; it is modelled in full. The other tasks are modelled by what they use before they first wait (`Uses`), which is enough for the
question whether it is ready. `hal_init` only turns clocks on (`Clock`); a bus is ready when its controller is set up, which `lcd_probe.c` does for SPI2 and nobody for I2C0. A frame takes any of
`FrameCosts` ticks, so the instance decides whether it can end before its period. `task_create` does not switch tasks, which is why a task may be created before what it needs, but only up to the next tick or unlock.

`Display` reduces an initialisation sequence to what decides whether a pixel can be seen: resets, pixel format, sleep, on and off, pauses. The glass is seen in the 50 bands
of 16 rows that the code uses, and a band shows a set of widgets: those painted there since something was painted over its whole width. `Gui` computes this set from the tree by
running over it as `widget_render` does, and `Scene` says what a viewer of the tree expects there.

Left out: animations (none runs during boot), colours, fonts, columns of the glass. `p->children[p->nch++]=c` has no defined order of its two stores, so `AddChild` has both.

### UsbTransport

| Variable | Code |
|---|---|
| `at`, `todo` | where `usb_host_task` and `conn_task` are (`s_state` and the places between), and the transfers of the request they have begun |
| `pc`, `sem`, `to` | where in `hc_xfer` or `k_sem_take`; on which channel; the device address it was called with |
| `inuse`, `tokens`, `waiter` | `s_ch[].inuse` and the semaphores of channels and port |
| `hw` | external: the transfer that a channel of the controller works on |
| `ended`, `lost` | for the properties: whose transfer the last interrupt ended; whether the channel was left with a transfer going on |
| `s_connected`, `s_dev_addr`, `proto` | as in the code |
| `phone`, `plugs` | external: the phone, its address and the request it has been sent; how often one was plugged in |

A control transfer is a set-up stage, a data stage if there is data, and a status stage, each one call of `hc_xfer`. The semaphore of a channel is given by the interrupt, which comes at any
time, also between the failed look at the count and the masked section of `k_sem_take`. The time-out is looked at only before blocking (as `MsgQueue` has it), so a task that blocks waits for an interrupt.
`GiveUp` is possible at every look, since tasks above may have kept the processor past the deadline. A channel that is given up keeps its transfer; its interrupt comes later.
`conn_task` is modelled up to `AAP_VERSION_NEG`, the last state it reaches: `rx_task`, which alone could set the next ones, reads nothing before `AAP_RUNNING`.

### AssetCache

`free` is the list `P.free` as a sequence of blocks in units of 64 bytes, to which `k_psram_alloc` rounds; `s_c` are the slots with the index, the block and the time of last use, of which
only the order matters. `Hit`, `Miss` and `Fail` are the three ways through `asset_load`, which runs under one lock. A load that finds no memory returns with the victim's block freed and the slot as it
was (`stale`); when that slot is the victim again, its block is freed again (`FreeAgain`), and the model ends there. `since` remembers, per slot, which other slots were used since it was.

## 3. How the code becomes a model

* *Atomicity.* Code under `irq_save()` is one action. Elsewhere each access to shared state is an action; accesses to a
  task's own variables are joined to the next one.
* *Whole operations.* `rq_enqueue`, `rq_remove` and the bitmap updates are operators inside the actions that call them.
* *Time* is relative: remaining ticks, so no counter grows.
* *Slips of the source that keep it from being compiled* (the macros of `kernel/kernel.h:59` and 63 lack a space, for instance) are read as they are evidently
  meant.
* *Data.* Messages are model values. Names, stacks, ids and statistics are left out.
* `context_switch` is taken by its contract, that the incoming task goes on where it left off. The register-level code is not modelled; a reader
  should know that `context_switch` does not save the loop registers that README lines 193-195 list.

## 4. Runs

Every constant that bounds a run is in its `.cfg`.

| Run | Instance | Distinct states | Shows |
|---|---|---|---|
| `sched` | 3 tasks and idle, 2 levels, slice 2, sleeps of 1 or 2 ticks, periodic alarm, fair | 80,580 | queues, bitmap, states and sleep queue agree; one task runs; highest priority is dispatched; sleepers wake on their tick; a ready or sleeping task of the highest priority runs |
| `sched_oneshot` | 2 tasks, one-shot alarm, fair | violation | see section 5 |
| `msgq_safety` | 3 tasks, 2 messages, capacity 2, send time-out 1, receive time-outs none or for ever | 550,719 | ring, tokens, wait lists; implements `BoundedChannel` |
| `msgq_waiters` | 2 tasks, 1 message, capacity 1, fair | violation | see section 5 |
| `kmutex` | 3 tasks, each of priority 1 to 3, slice 2, time-outs 1 and for ever | 312,464 | exclusion; a raise finds the owner it was meant for and ends with the ownership; until a priority is raised, the wait list, and that the linked queues implement `Scheduler` |
| `nfs_safety` | 2 names, 2 inodes, 2 descriptors, 3 data blocks of 2 cells, 2 blocks per file, cache of 2, transfers of 1 or 2 cells; either kind of flash | 836,261 | a clean cache entry equals the flash; a block has one owner; open files keep what was written, until a power cut; `NanosFS` implements `FileStore`: reads deliver what there is, and a write stops short only when the store is full; on a flash that overwrites, a file that is opened again has what was written |
| `nfs_powercut` | 1 name, 1 inode, 1 descriptor, 2 data blocks, cache of 1 | violation | see section 5 |
| `heap_safety` | heap of 9 units, 4 levels of 2 buckets, requests of 1, 3, 4 and 5 units | 47,559 | up to the first split of a block that is too small: the blocks tile the heap; lists, bitmaps and counters agree with them; `find` delivers a block that fits unless it takes the head of the request's own class; a block that is too small comes from there only |
| `detection_safety` | 299 boards, disturbances at one address | 317,801 | what is registered is there; what is known is found, but for the OV5640 and for codecs behind a row that compares nothing; primaries and pointers |
| `boot` | three boards: an ST7701S with audio, an RA8875 without, no display; a frame takes 1 or 3 ticks, its period is 2; fair | 73,064 | no lock, queue or display bus is used before it is ready; the glass shows the tree after every frame; the event loop is reached if the render task sleeps again and again |
| `usb` | 2 channels, 2 tasks, one identification string, a phone that appears twice | 2,085,641 | whose completion a task takes; channels are in use exactly while a task is in `hc_xfer` |
| `assets` | 3 slots, 4 assets of 1, 2, 3 and 5 units, 11 units of memory | 268,067 | memory has one owner until a load fails; how long the data of a slot stay, whether loads succeed or fail |

*Counterexamples.* Some properties say what a document or a comment of the repository claims, or what the code relies on, and the code does not keep them. Besides the three violation runs above, each has a configuration with which TLC gives the behaviour that
breaks it; section 5 explains them.

| Configuration | Property | Who says so |
|---|---|---|
| `MCKMutex_null.cfg` | `OwnerStaysForComparison` | the null test of `kernel/scheduler.c:144` |
| `MCNanosFS_reopen.cfg` | `FilesReopen` | README 499-501: the inode table holds size and blocks |
| `MCHeap_short.cfg` | `SplitsLargeRemainders` | README 254: "split if remainder ≥ 24 bytes" |
| `MCDetection_touch.cfg` | `SupportedTouchStarts` | README 60-61: the list of touch controllers |
| `MCDetection_codec.cfg` | `CodecsKeepTheirNames` | README 63-64: the list of codecs |
| `MCBoot_starves.cfg` (frames of 5 ticks, period 1; fair) | `BootCompletes` | README 51: "Boot < 800ms"; 758: "BOOT COMPLETE" |
| `MCBoot_i2c.cfg` (fair) | `BusIsInitialised` | `system/devtree/device_tree.c:125`: "I2C0 must already be initialized" |
| `MCBoot_panels.cfg` (one board for each of the ten displays) | `PanelsGetTheirPixels` | README 57-58: the list of displays |
| `MCBoot_child.cfg` | `NoMissingChildDrawn` | README 755-758: the boot goes on after `gui_init` |
| `MCUsbTransport_address.cfg` | `SetAddressReachesPhone` | README 467: "SET_ADDRESS(1) → dev_addr = 1" |
| `MCAssetCache_stale.cfg` | `HitsDeliver` | the other copy of the function, `services/services.c:252-253`, clears the slot |

*Why the bounds suffice.* Three tasks are the fewest where a task is preempted while one waits and another holds or
signals. Two levels above idle separate "higher" from "equal"; three are needed for a middle task under priority inheritance. A slice of 2 distinguishes a tick that preempts from one that does not. Two sleep lengths give
equal, earlier and later deadlines. Capacity 2 has an empty, a partly filled and a full ring and an index that wraps. The time-outs
are "no wait", "one tick" and "for ever". Symmetry is used over tasks where no property distinguishes them (not in runs with
liveness).

For `NanosFS`, three blocks for two files of two blocks fill the disk in the middle of a write; a cache of two for three blocks evicts
clean and dirty entries, also of the other file; blocks of two cells and transfers of up to two cells start and end inside a block and cross
its border. Data has one value besides the erased one, which tells what was written from what was not; two values, and so a stale value from
an earlier write, would need a much larger run. Its state space is finite without a bound on time: positions and sizes are limited by the file size. Both kinds of flash are initial states of the same run. On NOR flash no read
delivers anything, since a file is empty when it is opened and there is no call that moves the position back; what this part of the run shows is that writes, blocks and the cache do not depend on what is left of the inodes.

For `Heap`, nine units are split into up to nine blocks, exactly and with rests of 1, 2 and more units. With two buckets per level, 4 and 5 units share a list, as
256 and 272 bytes do in the heap, which has eight; smaller sizes have lists of their own in both. The last size of a level, the
next bucket and the next level are all looked for. `WORD` only has to be larger than any address in the heap.

For `Detection`, the boards combine a touch controller of each kind of row or none, a codec of each kind or none, and a peripheral of each kind of row or none: with an alternate
address, with an address that is also a touch controller's, with an identification that shares bits with another row's, with none. Four boards vary the display, and one
board carries 20 chips, more than half of the table. One disturbed address is enough to lose a device, to invent one, and to move one to another address; the proofs hold for any number.

For `Boot`, the boards are the one of the README, one whose chip has another size and another command set (and the incomplete sequence), and none. Preemption is possible at each tick wherever
app_main is. `FramePeriod` 2 with frames of 1 or 3 ticks has both branches of `framebuffer.c:81`: a render task that sleeps between frames, and one that is late and does not. In the program a frame over SPI takes five periods at
least (section 5), as in `MCBoot_starves.cfg`, and then little of the boot happens after `gui_init`; `boot` asks about the rest of it too. `MaxLag` only stops `due` from falling for ever.

For `UsbTransport`, two channels are as good as eight: each task has at most one transfer, so the rest stays free, and a channel that was given up is the first to be taken again. A second phone is
the one that finds what the first has left. The number of identification strings only repeats the same request. For `AssetCache`, 11 units hold any three of the assets at first and no longer do when rests have been
dropped and blocks cut up; sizes and rests differ by 0, 1 and more units; three slots have a middle one in the order of use.

*Deadlock.* It is checked in the scheduler runs, where the idle task always has a step, and in the `NanosFS` runs. In the runs of `KMutex` it is off, since a
null pointer stops the processor; in `boot` for the same reason; in `usb` because both tasks may wait when the phones are used up; in `assets` because the model ends with the block that is freed twice. In `heap_safety` it is off (see `Heap` above). In `msgq_safety` it is off: all tasks may wait for a message. In `detection_safety` it is off: detection ends.

*Fairness.* Liveness assumes that the processor executes what it has entered (`YieldAfter` and the parts of the tick handler) and that a
timer which is armed ticks. Nothing is assumed of application code. In the liveness run of `MsgQueue` every task
in a kernel call takes its next step (`WF` per task); strict priorities could starve a task of low priority, but in the counterexample
all tasks are blocked, so starvation plays no part in it. In `boot`, the timer keeps ticking (`WF` of `Tick`), the render task executes
what it has entered (`WF`), and app_main, which loses the processor at ticks again and again, executes an instruction if it gets the processor again and again (`SF`):
between two ticks a processor gets something done. That it does get the processor is not assumed: it follows from the condition of `BootCompletesIfFramesFit`, that the render task sleeps again and again, and does not hold without it.

## 5. What the runs found

* **The tick stops when it preempts into a new task** (`sched_oneshot`, `HighestPriorityRuns`). Line 92 of `kernel/scheduler.c` arms the alarm after
  `sched_yield_from_isr`, so after a switch it runs only when the preempted task runs again. With a one-shot alarm, which the line assumes,
  a task that does not call the kernel then keeps the processor.
* **Priority inheritance does not move the owner** (not a run of its own; it is what `raised` is for). Line 144 changes `owner->priority` and leaves the owner
  linked in the old level: the waiter blocks and a task of lower priority is dispatched instead of the owner. Worse, `rq_remove` later uses the *new* priority:
  with the owner alone in its level, it clears the other level, the owner stays the head of its old one with null links, and the next
  `rq_enqueue` there writes through a null pointer. `kmutex` contains these behaviours; it shows that they do not break the exclusion, and that without a raised priority none of this happens.
  README line 218 says that the boost prevents inversion.
* **The owner may be gone when its priority is looked at** (`MCKMutex_null.cfg`, `OwnerStaysForComparison`). Line 144 tests `m->owner` for NULL and reads the field again for the comparison, with interrupts on. An owner of the same priority whose turn it becomes
  in between unlocks, and a build that really reads again follows a null pointer. The gap behind the comparison is safe (`RaiseFindsOwner`).
* **A released waiter finds nothing, and its time-out does not help** (`msgq_waiters`, `TimedSendReturns`). `k_sem_give` with a waiter does not add the
  token, and the waiter, which tries again from the start, finds no token and blocks again although there is room in the ring (or, for a
  receiver, a message). `k_sem_take` looks at its deadline before it blocks and nothing looks at it afterwards, so a send with a time-out
  waits for ever. `LossOnlyAtRelease` states, and TLAPS proves, that this is the only way the queue loses a token.
* **Nothing survives a power cut** (`nfs_powercut`, `PowerSafeWrites`). The changelog promises "power-safe writes, replay on mount". The bitmaps are written by
  `nfs_format` and never again, dirty entries only when they are evicted, and the journal not at all: a mount finds no inode in use. The next
  `nfs_open` creates files over the old ones.
* **On NOR flash a file is empty when it is opened again** (`MCNanosFS_reopen.cfg`, `FilesReopen`). `nfs_open` creates an inode with size 0 and no blocks, and `nfs_write` stores the new size and table over it without an erasure, so all these bits stay 0.
  While the file is open nothing shows, since the descriptor has its own copy; after `nfs_close` and `nfs_open` there is nothing to read. `settings_load` gets the defaults whatever `settings_save` has stored.
  On a flash that overwrites, the same sequence is safe (`OverwritingReopens`).
* **The heap hands out a block that is too small** (`MCHeap_short.cfg`, `SplitsLargeRemainders`). `find` masks the bitmap from the bucket of the request on and returns the
  first block of the first list, without comparing sizes. From 256 bytes on, a list holds blocks of two or more sizes: `k_malloc(260)` needs 272 bytes and may get
  256. The remainder wraps, passes for 24 bytes or more, and a block of nearly 4 GB is linked whose header lies in the next
  block; README line 254 says "split if remainder ≥ 24 bytes". `ShortOnlyInOwnClass` says, and TLAPS proves, that this is the only way: no other list can be to blame, so looking through the list of the request's own class (or rounding the request up to the next class) would repair it.
* **Ten of twelve touch controllers end the boot** (`MCDetection_touch.cfg`, `SupportedTouchStarts`). On a board without a GT911 or GT1151, detection ends in the crash handler. The row of the NS2009 is taken
  without any transaction, so `devtree_probe_touch` always finds something to initialise, and only the Goodix rows have an `init_fn`. `GoesOnWithGoodixOnly` says, for every board, that it is those two and no other.
* **Three of the codecs are taken for others** (`MCDetection_codec.cfg`, `CodecsKeepTheirNames`). The rows of the WM8978 and the TLV320 match every answer, and WM8960, AC101 and UDA1380 come after them: such a chip is set up as
  the other one.
* Not a run, but visible in `Detection`: a codec with inputs has the combined category, so it never becomes `primary_audio_out` and `hal_audio_set_volume` does nothing.
  `probe_panel` always returns a row, so the other three sets of pins are never tried. A row with mask 0 takes any chip that acknowledges; two names for one chip
  (`OverlapsOnAckAlone` has the exact condition) are normal. FT6336, FT6206 and AW5306 are never reported, since a row before theirs accepts what they answer; the OV5640 is not found.
* **No phone is ever enumerated** (`MCUsbTransport_address.cfg`, `SetAddressReachesPhone`; the theorem `AddressUnheard` says what it comes to). `s_dev_addr` becomes 1 before SET_ADDRESS is sent, so the request goes to address 1, which no device has yet, and is not
  repeated; README lines 466-467 say `SET_ADDRESS(1) → dev_addr = 1`, after a `GET_DESCRIPTOR`, which is not sent at all. A phone is heard only if `conn_task` sends its requests between the reset of the port and the
  assignment, about 20 ms. What keeps it from noticing is that no caller looks at what `hc_xfer` returns. A phone that is plugged in when the first has gone is not even reset: `s_connected` is cleared only by `usb_device_reset`,
  which is called only in `AAP_ERROR`, which nothing sets. And if the port interrupt finds the host task already blocked, `k_sem_give` wakes it without a token, it blocks again, and the phone is never reset.
* **A late interrupt ends the next transfer** (`usb`). It happens only on a channel that was left with a transfer going on, and then may be passed on from transfer to transfer; `StaleOnlyAfterGivingUp` says so.
  Without `GiveUp` every completion is its owner's.
* **The connection does not get to RUNNING** (`usb`, by the type of `at`). `rx_task` reads only in `AAP_RUNNING`, and only what it reads sets that state; `AAP_VERSION_NEG` is never left.
* **A failed load breaks the cache** (`MCAssetCache_stale.cfg`, `HitsDeliver`). The victim's block is freed before the new one is looked for, and the slot keeps its pointer: a later hit returns freed memory and the next eviction
  frees it again. Rests of 64 bytes are lost for ever and neighbours are never joined, so such a failure can come although enough memory is free. With two uses in one millisecond, the slot just filled may be the next victim (`KeepsRecent`).
* **The boot does not reach its event loop** (`MCBoot_starves.cfg`, `BootCompletes`). At the 5 MHz to which `lcd_probe.c:136` sets the bus, the 768,000 bytes of a frame take 1.2 s, at the 40 MHz of the README 154 ms, both more than `FRAME_MS`.
  Then the render task never sleeps, and app_main, which is below it, gets no further. README line 51 promises less than 800 ms. `BootCompletesIfFramesFit` says that this is all that stands in the way, but for a child that is drawn before it is there (below).
* **I2C0 is used without having been set up** (`MCBoot_i2c.cfg`, `BusIsInitialised`). `i2c0_init`, which sets the master bit, is called by `touch_driver_init` only, which has no caller; `hal_init` turns on the clock and no more. The comment of `devtree_scan_i2c` takes it for granted.
  (`Detection` shows what happens on a bus that works.)
* **Nine of ten panels get pixels that are not theirs** (`MCBoot_panels.cfg`, `PanelsGetTheirPixels`). Pixels for all chips but the ST7701S are sent in a command set, size or format of another chip, and the RA8875 is
  switched off again at the end of its sequence (`lcd_probe.c:537-538`).
* **A child may be drawn before it is there** (`MCBoot_child.cfg`, `NoMissingChildDrawn`). A tick between the two stores of `gui_widget_add_child`, if the count is stored first, lets the render task follow a null pointer.
* Not a run, but what `Display` and `Boot` say: `hal_set_backlight` is not called during the boot. The version label is placed by the offset of the glass in a parent that is at its bottom, so below the glass. `s_dirty` has a 51st entry, which is sent as a window of no rows in the
  first frame. `flash_driver_init`, `lcd_driver_init`, `event_loop_post`, `k_timer_start`, `isr_unregister` and the slabs have no callers.
* Not a run, but reachable in `KMutex`: a task that failed the compare-and-swap and is preempted before line 147 blocks on a mutex that was unlocked meanwhile.
  The next unlock by someone else releases it; without one it waits for ever.

## 6. Proofs

A run checks a conjunction where it can (`IndInv`, `HeapConsistent`); the theorems are also stated for its parts, which a reader may want to cite one by one.

TLAPS proves, for every value of the constants that satisfies the named assumptions (`SchedulerAssumption`, `KMutexAssumption`,
`MsgQueueAssumption`, `NanosFSAssumption`, `HeapAssumption`, `ClassAssumption`, `BoardsAssumption`, `UsbAssumption`, `AssetAssumption`):

| Module | Theorems |
|---|---|
| `SchedulerProofs` | `SchedulerInductive`, `SchedulerTypeOK`, `RunQueuesStayConsistent`, `SleepQueueStaysConsistent`, `OneTaskRuns`, `DispatchesHighest`, `NoInversionSurvivesTick`, `SleepersAreWokenOnTime` |
| `MsgQueueProofs` | `QueueInductive`, `QueueTypeOK`, `TokensStayBacked`, `RingStaysConsistent`, `WaitersStayConsistent`, `TokensLostAtReleaseOnly`, `QueueImplementsChannel` |
| `KMutexProofs` | `MutexExcludes`, `MutexTypes`, `WaitersStayConsistent`, `LinksImplementScheduler`, `BoostsBelongToOwner`, `BoostsEndWithOwnership`, `RaisesFindOwner` |
| `NanosFSProofs` | `NanosFSTypes`, `CacheStaysStored`, `BlocksStayAccounted`, `NanosFSBounds`, `FilesStayKept`, `NoBlockWasted`, `NanosFSImplementsStore` |
| `HeapProofs` | `HeapInductive`, `HeapStaysTiled`, `ListsStayExact`, `HeapStaysConsistent`, `FindsWhatThereIs`, `ShortBlocksAreClassmates`, `CountersAddUp` |
| `DetectionProofs` | `DetectionTypes`, `RoomForAll`, `PrimariesAgree`, `NoneMadeUp`, `PointersStay`, `OverlapsAreUnidentified`, `FindsEveryKnownChip`, `GoesOnWithGoodixOnly` |
| `UsbTransportProofs` | `UsbInductive`, `UsbTypes`, `StaleEnds`, `AddressUnheard` |
| `AssetCacheProofs` | `AssetInductive`, `AssetTypes`, `MemoryStaysOwned`, `RecentKept` |

*Scheduler.* The inductive invariant `IndInv` joins the run-queue, sleep-queue and one-runner invariants with `IdleRunnable`. The last is what makes it inductive:
`sched_yield_from_isr` always finds a task because the idle task is always READY or RUNNING, and linking the idle task, which `kernel_start`
leaves linked, is harmless because level 0 holds nothing else. The steps rest on lemmas about one queue operation each (append, remove the head,
insert by deadline). The action properties follow from the invariant: for `DispatchHighest`, the head of the highest level in an exact bitmap
is a task of the highest ready priority; for `SleepersWakeOnTime`, no sleeper in a sorted queue is ever overdue.

*MsgQueue.* The invariant counts. For each semaphore, the tokens, the tasks that hold one (between the decrement and the write or read) and the tokens lost
at a release add up to the items or to the room in the ring. So a task that holds a token always finds a slot: no item is overwritten
and none is read twice. Sums over tasks are cardinalities of sets of tasks, and each action changes these sets by one element.
`QueueImplementsChannel` has one lemma per action: `Write` and `Read` map to the steps of the channel, everything else to a change of phase or a stutter.

*KMutex.* `MutualExclusion` is inductive together with the type of `pc`: every step of a call is a step of the running task, and the
store of the owner is covered by the flag. The run queues do not matter, which is why the theorem also holds where priority inheritance has damaged them.
The same is true of `BoostsBelongToOwner`: no task keeps a raised priority after its unlock.
The links need more. `Types` adds to `TypeOK` that only created tasks are linked and that the idle task is alone in level 0. `Agree`, which holds until
the first raise, is `Lists` and the inductive invariant of `SchedulerProofs`, taken over through the refinement mapping. `Lists` says that there are sequences the links spell out:
each level is a `Ring` (`next` and `prev` go round), the wait list is a `Chain` (`next` alone, ending in NULL), and no task is in two of them. What the
mapping reads back from the links (`ReadBack`) is then that sequence (`WalksRead`), and each operation on the links is the operation of
`Scheduler` on the sequence. That a walk along `next` ends needs an induction over the tasks, which is done with least elements of finite sets (`Least`);
hence the finite `Tasks`. `LinksImplementScheduler` then has one step per action: the actions of the tick and the block map to those of `Scheduler`, the mutex' own steps to stutters or to a wake-up.

*KMutex after a raise.* `Agree` ends there: no sequence describes the rings, and a walk from a head may miss tasks of its level or meet those of another. `BoostIndInv` replaces it.
Before the first raise (`Before`) a task that the comparison has let through has found the owner ready with a lower priority (`seen`); it is so still at the store because a switch takes a highest ready task
(`SchedYieldCorrect`), so never the owner while the other is ready. A task at the comparison itself has no such protection; if the owner is gone, it crashes (`Compare`), and a state with a fault has no further step. After it (`Boosted`) three things remain: the links are double (`Doubly`), linked tasks are the ready
ones, and the `Shape` of the levels. It names the levels `A` that the owner has left and still heads, the ring `S` in which the owner is, the level `E` whose head is in that ring, and the tasks `K` that no
head leads to; all other levels are sound, and a task about to raise has a priority above `E`. Rings are described by the sets that no link leaves or enters (`Closed`),
and "`t` is in the ring of `h`" by: every closed set with `t` has `h` (`Leads`). This needs no induction, and `rq_enqueue` and `rq_remove` change closed sets in a way that can be stated (`Put`, `Taken`).
There is one lemma for each thing that can happen to a shape (`ShapePut`, `ShapePutOwner`, `ShapeTake`, `ShapeTakeOwner`, `ShapeRaise`, `ShapeNew`, `ShapeKept`).
When the owner unlocks it is linked nowhere and heads the level of its own priority (`Doomed`), and stays the current task until the scheduler
puts it back and follows its null link. So the store finds an owner whose own priority is lower (`RaisesFindOwner`, `BoostsEndWithOwnership`).

*NanosFS.* All theorems hold for both kinds of flash; the steps that store an inode go through one lemma (`ProgrammedFacts`). The inductive invariant `FsInv` has `CleanIsStored`, which is inductive with the types
given that a victim stays cached until it is stored, and `BlocksAccounted`, which is not: a file may be closed and opened again, with the table that the flash shows. `StoredAccounted` says of that table what `BlocksAccounted` says of the
open files: a block named in the stored inode i at k is named at k of i only (`OnlyAt`), in no other stored inode and in no open descriptor of another. While a write runs the inode on flash lags behind the descriptor's; on NOR flash it has neither size nor
blocks, ever (`TableSane`). `FdsSane` ties a descriptor to its place in the inode table and says that no two descriptors have one file, `CallSane` ties a call to an open descriptor of a mounted file system.
No bound on sizes, files, descriptors or cache entries is used, and the power may be cut anywhere.
`FilesKept` says nothing of a call in progress, so it is not inductive. `KeptInv` says what it leaves out: how far a write has stored what it was given and that the rest of the file is as
promised (`FileKept`, which reads a block through the cache and the entry being evicted), that what a read has delivered is what the file held at these positions (`TransferSane`), that a stored inode has blocks for the size it shows
(`HasBlks`), and the bounds of `TypeOK`. It is inductive together with `FsInv`: what makes a store into one block leave all other blocks alone is that a block
has one owner. There is one lemma `...Keeps` per action, over a few lemmas about positions (in which block a byte lies, where a transfer continues).
For the refinement these two say that what a step of a read delivers is the file's content and that the content after a write is the one before with the new cells put over it
(`OverwrittenIsPut`); one lemma `...Is...` per action maps it to a step of `FileStore`. What they do not say is which blocks a write has taken when it returns. For that, `BlocksUsed` is the
third part of the invariant `StoreInv`: each block of an open file holds a cell of it, or has just been given to the write in progress (`Fresh`), which then goes on to fill it. So the blocks that a write has taken (`Growth`) are, by a bijection, the places of the
table that the file has newly reached (`GrowthIsGained`), and a bitmap without a free bit is a store all of whose blocks are taken. `NoBlockWasted` states `BlocksUsed` for every state outside a write.
The one assumption the refinement adds is that `NoFile`, which stands for the content of a descriptor without a file, is not itself a content.

*Heap.* `HeapInv` says that an intact heap is `Sound`: types, `Tiles` (blocks in order of address end before the next begins, and cover everything), `BitsExact`,
`Hold` (the lists hold the free blocks, by class, once) and sizes that fit. The parts depend on each other: that `k_malloc` never takes the head
of an empty list follows from the bitmaps, that the block it takes is removed from the right list from `Hold`, that a rest is a new address from `Tiles`. Three
lemmas of values do the work: `InsHolds` (a block is put into the lists), `RemHolds` (a head is taken) and `SplitTile` (a block is cut). If the block is too
small, the difference is `s - n + WORD` and the state after the step is not intact, so the proof also shows that this is the *only* way the heap is damaged.
`FindsWhatThereIs` says that `find` comes to a list that is not empty and takes a block that is large enough, unless the list is the one of the request's own class; `ShortBlocksAreClassmates` adds that this exception
is the only way to a state that is not intact. Both need that `Class` preserves order (`ClassOrder`): a larger block is in no lower class. Powers of two are beyond the solver's arithmetic, so the 31 that
a word has are computed one from another (`PowDoubles`); this is where `WORD <= 2^28` is used. For `CountersAddUp` the sums over blocks are partial sums
over the units of the heap (`Total(Part(g, S))`), which change in one place per step; `FoldIsTotal` shows that the library's sum in `TypeOK` is this one.

*Detection.* The theorems hold for every board: any chips with any answers, and any number of disturbances. `Inv` adds to the properties a budget (`WithinBudget`): how many
places of the table the steps so far can have filled, one for display, touch controller and codec each and one per row of the database, at most 30 of 32. `IsFirst` is what
makes the primaries inductive: a pointer is the least index of its category, so appending cannot change it. That no device is made up rests on two facts about the tables: the
NS2009 always matches, so a touch controller is always chosen (`TouchFoundOK`), and each row that can be initialised asks for an identification (`CallableRowsAsk`), so what
is registered has answered. `ClaimsAnswer` is carried from state to state by name and address (`ClaimsByName`), because the board does not change.
The three later theorems compare the rows of the databases with each other. `TellApart`: two rows that compare something and share register and address expect different values of some bit, so
one answer fits one of them only; `RefusesZeros`: a row that compares something does not fit a chip that answers zeros. With `InOrder`, which says which probe registered which node and on
what answer, two nodes at one address need a driver that asked for an acknowledgement alone (`OverlapsAreUnidentified`, for all boards). `FindsEveryKnownChip` and `GoesOnWithGoodixOnly` assume
`Genuine` of all boards. The former is about peripherals and codecs, and says of a codec exactly how far detection goes: it is the one at the first address that has any, or before it, and has its own name or that of an earlier row that compares
nothing. The latter is the extent of what `MCDetection_touch.cfg` shows. Their invariant adds `Complete`: no address or row that a probe has passed held a chip it should have found. That a device of the right name is the chip's
own needs that no two tables share a name (`NamesDiffer`).

*UsbTransport.* The theorems hold for any number of channels above one, any number of identification strings and any number of phones. `UsbInv` says of each channel whose transfer it works on. A channel of the controller that is
busy works on its user's transfer, unless the channel was left with another (`LeftOver`); a token is then the end of that transfer, or the channel was left with another (`Ends`). Both need that two tasks in `hc_xfer` have two channels
(`Apart`, `Used`). That no phone is addressed needs the way of SET_ADDRESS from the task to the controller: it is the host task's only request (`Todo`), is begun with `s_dev_addr` at 1, and keeps that address in the register of the channel
(`SentToOne`); a phone at address 0 is not listening there.

*AssetCache.* The theorems hold for any amount of memory, any number of slots and any assets. `Owned` is a relation of values (a list of blocks, a set of slots, their blocks), so the two lemmas about it, a block is put into the list (`FreedKeeps`)
and one is taken out of it (`TakeKeeps`), are put together for `Miss`, which does both. A slot that is stale owns nothing, which is why a load without memory keeps the invariant and only the load after it can free a block twice. `Order` ties the times to
the history: a slot with a later time than another's was used after it, so a slot with the strictly earliest time was followed by all others. That there is a least time, a greatest one and a first block that fits comes from the well-foundedness of finite
sets under inclusion (`Least`).

## 7. What is only model-checked, what is not modelled

Only model-checked: `HighestPriorityRuns`, which is liveness; `OverwritingReopens`; and `Boot` as a whole (`ScreenShowsScene`, `InitBeforeUse`, `BootCompletesIfFramesFit`), whose script is one fixed sequence that TLC runs through completely
for each board. What a counterexample shows, it shows by one behaviour.

Not modelled, by choice: fonts and colours, logging, register sequences of touch chips and codecs, the assembly of the boot code; they are sequential and have
no state a property would be about. `task_count`/`tasks[]`, the stack guard and statistics are not read by the kernel's own decisions.
Of the detection: the register sequences of touch chips and codecs and their readers, `ioctl`, and the HAL functions on top. Of NanosFS: `nfs_stat`, which only reads; a power cut inside `nfs_format`. Of the mutex: locking a mutex twice, holding two, and sleeping or blocking inside it, so `RaisesFindOwner` says nothing of the mutexes of the asset manager and of NanosFS. Of semaphores: giving from an interrupt handler. Of the heap: a size so large that rounding it up overflows. Of the transport: what follows `AAP_VERSION_NEG`, which is never reached. Of the GUI: animations. Bluetooth, Wi-Fi and power management are stubs
that hold one variable; slabs, timers and deferred calls have no callers. Everything else is in the plan.

## 8. Plan

Done: `Scheduler`, `MsgQueue` with `BoundedChannel`, `KMutex` with `LinkedQueues`, `NanosFS` with `FileStore`, `Heap`, `Detection` with `DeviceTables`, `UsbTransport`, `AssetCache`, and their proofs; `Boot` with `Gui` and `Display`,
checked by TLC.

1. `NanosFS` with two tasks (`alloc_blk` and `nfs_read` outside the lock), two descriptors of one file, a flash that fails.
2. `AudioPipeline`: streams, the mixing task and its deadline, identifiers that are reused; the touch poll task with its readers; `IsrTable`.
3. `KMutex` with two mutexes, and so with owners that block; an unmasked interrupt on `LinkedQueues`; `KTimer`, with the tick handler.
4. Proofs: `InitBeforeUse` of `Boot`, from what each part of the script leaves initialised.
