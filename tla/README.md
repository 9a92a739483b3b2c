# A verification of iPodBluetooth

iPodBluetooth puts a Bluetooth board inside an iPod Nano (3rd generation). The board, an ESP32,
searches for headphones, lets the user choose one on the iPod's screen, and then turns the remote's
buttons into iPod accessory commands. The iPod side is the Rockbox boot loader, stripped to one
program, with the Rockbox kernel and drivers under it. This directory holds TLA+ models of that code,
the TLC runs that check them and proofs that the TLA+ proof system checks.

Paths below are relative to the repository; `firmware/` stands for `ipod-software/firmware/`.

## 1. Inventory

### 1.1 The Bluetooth board's firmware: `board-firmware/board-firmware.ino`

*State*: the mode implied by where `setup()` is (searching, connecting, tasks running), the buffer
`device_name_buffer` with its index `nameidx`, the name `device_name` handed to the Bluetooth
library, the scan's callback, the FreeRTOS tasks for audio and control.
*Operations*: `setup` (prints "starting", scans and prints "device: x" lines until a name arrives;
then connects, reading one character a second; then starts I2S, a mutex and three tasks),
`reset_command_task`, `passthrough_callback` (remote buttons to iAP frames), `audio_copy_task`,
`ipod_control_task`.
*Interaction*: the serial line to the iPod, at 9600 baud without flow control; the radio.
*Hard behaviour*: a reset may arrive in any mode and during a restart; the buffer is shared by two
loops that treat it differently; the receive ring overruns; tasks run concurrently.
*Correctness*: a `reset` line is recognised in every mode; the device connected to is the one chosen;
every frame sent to the iPod is a well formed accessory frame and every press is followed by a release.

### 1.2 The iPod's boot program: `ipod-software/bootloader/ipods5l-devel.c`

*State*: `devices`/`devicesidx`/`focus`, `selected_dev`, `serial_buf`/`serialidx`, `last_button`, the
port (open or closed), the step of `main()` it is in.
*Operations*: steps 1 to 6 of `main` (reset, wait for "starting", list, send the name, wait for
"connected", boot the Apple firmware), `dev_menu`, `serial_read`/`serial_write`, the launchers.
*Hard behaviour*: waits with no timeout; a menu that leaves the port closed; lines lost while the
display is drawn; fixed size buffers indexed without a test; a list searched with `strcmp` over rows
that need not be terminated.
*Correctness*: the iPod boots only when the board is connected to the selected device; the wait for
the board ends; the list holds each device once and `focus` always points at a row of it.

### 1.3 Serial port: `firmware/target/arm/uc870x.c`, `target/arm/s5l8702/uart-s5l8702.c`, `target/arm/s5l8702/ipodnano3g/serial-nano3g.c`

*State*: per-port configuration, the hardware's FIFOs, the callbacks, the interrupt mask and the
automatic baud-rate detector. *Operations*: open/close, polled read and write, the interrupt handler
`uartc_callback`, `serial_setup`/`serial_stop`. *Hard behaviour*: an interrupt of a port that is being
closed, FIFO overrun. *Correctness*: no handler runs for a closed port; bytes keep their order.

### 1.4 Kernel: `firmware/kernel/`

*State*: per thread its state, wait queue and timeout; the run queue; the timeout list; each object's
queue and counters. *Operations*: `create_thread`, `thread_exit`, `thread_wait`, `block_thread_`,
`wakeup_thread_`, `switch_thread`, `sleep`; `mutex_lock/unlock`; `semaphore_wait/release`;
`queue_post/send/wait/wait_w_tmo/reply/peek_ex/clear/delete`; `mrsw_*`; ticks and timeouts.
*Hard behaviour*: this is a cooperative scheduler with interrupts: an object may be released between
the expiry of a wait and the moment the waiter runs again; ring positions wrap; a thread's reference
sits in up to two lists at once. *Correctness*: mutual exclusion, hand-over in order, no lost wake-up,
no unit of a semaphore gained or lost, a reply reaches the sender of the message it answers, no thread
blocked on an object that has forgotten it.

### 1.5 Memory: `firmware/buflib.c`, `firmware/core_alloc.c`

*State*: a buffer of blocks, allocated (positive length) or free (negative), the handle table that
grows down from its end, `first_free_handle`, `alloc_end`, the mark that says the buffer is compact.
*Operations*: alloc, free, shrink, compact, `allocatable`, `alloc_maximum`; buffer in/out and relocate,
which nothing calls.
*Hard behaviour*: compaction moves live blocks while callbacks may refuse; an allocation that finds no
room compacts, asks every block to shrink, and starts again from whatever they made of the buffer.
*Correctness*: blocks tile the buffer, handles point at the block that names them, what must not move
does not, every call returns.

### 1.6 Files: `firmware/common/`, `firmware/drivers/fat.c`, `firmware/storage.c`

*State*: descriptors and streams (offset, place in the chain, cached sector), file objects with their
streams, writers and shared sector cache (`fileobj_mgr.c`); clusters, directory entries and free-space
count on the volume (`fat.c`); the sector cache under them, its order of use and hash maps
(`disk_cache.c`).
*Operations*: open with all its flags, close, read, write, lseek, ftruncate, fsync, remove, rename,
directory reads, path parsing, mounting and unmounting, cached sector reads, write-back, lent buffers.
*Interaction*: locks from the top down: the file system's, as READER or WRITER, the file's mutex, the
cache's mutex. The cache's is dropped between the clusters of a chain.
*Hard behaviour*: several streams on one file, which move from caches of their own to a shared one when
somebody opens the file to write, and back; files removed or truncated under open streams; a disk that
is full or can't be read half way through an update; a volume that goes away; a dirty entry evicted or
lent.
*Correctness*: reads return the last write, whoever made it; no cluster belongs to two files; what is
removed gives its space back, once nobody uses it; when the last writer has closed all is on the disk.

### 1.7 Power, backlight and USB: `firmware/powermgmt.c`, `backlight.c`, `usb.c`, `usbstack/`

*State*: charger and battery state, sleep and shutdown timers, the backlight's timers and fade, the
USB state machine and the acknowledgement count, the mass-storage command state. *Operations*: the
power thread's steps, the backlight thread's messages, USB insert/extract, the bulk-only protocol.
*Hard behaviour*: timers against messages, broadcast with acknowledgement. *Correctness*: exclusive
storage only once every thread acknowledged, a shutdown is never cancelled half way.

### 1.8 Small algorithms

`common/linked_list.c`, `lru.c`, `font_cache.c`, `common/strnatcmp.c`, `common/crc32.c`,
`common/timefuncs.c`, `common/structec.c`, `common/pathfuncs.c`, `common/unicode.c`, `events.c`,
`scroll_engine.c`: bounded data structures and pure functions with a reference to compare with.

### 1.9 Hardware drivers

`target/arm/s5l8702/` (interrupt controller, timers, GPIO, I2C, SPI, DMA, LCD, crypto engine, NOR
boot), `target/arm/s5l8702/ipodnano3g/` (PMU, power, backlight, clickwheel), `target/arm/usb-designware.c`:
register programming with few decisions of its own; drivers for other players, chips and displays are
in the tree and are not built.

### 1.10 Host tools

`rbutil/mks5lboot` (installer), `tools/` (image and font tools), `lib/` (run-time support),
`installing/ipod_control_test.rb`: not part of the running system.


## 2. Plan

The order follows what matters most to a user of the system: first the protocol by which the two
devices find each other, then the kernel both the boot program and everything else run on, then the
layers above it.

| step | modules | status |
|---|---|---|
| 1 | `SerialLink`, `Board`, `IpodBoot`, `BtLink`: the pairing protocol | done, safety proved |
| 2 | `DeviceList`: the list and the menu of step 3 | done, proved |
| 3 | `Threads`, `Semaphore`, `SemaphoreSpec`, `Mutex` | done, proved, refinement included |
| 4 | `MrswLock`, `EventQueue`, `EventQueueSpec` | done, safety proved, the queue's refinement included |
| 5 | `Timeout`: ticks and interval timers | done, proved |
| 6 | `Scheduler`: sleeping threads, `next_tmo_check`, creation, exit, `thread_wait`, election | done, safety proved |
| 7 | `Buflib`: blocks, handles, compaction and callbacks | done, safety proved |
| 8 | `DiskCache`, `Fat`, `FatTable`: the sector cache and the FAT driver on it | done; the cache, what is on the disk, the directory and the table proved, the refinement included |
| 9 | `Files`: streams, file objects and their caches | done |
| 10 | `Broadcast` and the usb thread's count of acknowledgements on top of it | planned |
| 11 | `Frames`: `passthrough_callback` with the accessory protocol's frame as reference; `UartPort`: interrupt handler and baud-rate detector | planned |
| 12 | `Backlight`, `Power`, `Events`, `ScrollEngine`; lists, natural comparison, dates, checksums against reference definitions | planned |

*Compositions*: `BtLink` composes the board, the boot program and the line. Every kernel object is
composed with `Threads`, and `Fat` with `DiskCache`. `Scheduler` models in full what `Threads` shows an
object of the switcher.

*Abstract specifications*: the counter behind a semaphore (`SemaphoreSpec`), the sequence of answered
messages behind an event queue (`EventQueueSpec`) and the allocation table behind the FAT driver and its
cache (`FatTable`). For each the detailed module is shown to implement it.

*Runs*: a module has one run for all its properties, with every build or mode it covers among the
initial states.

*Theorems*: section 5 says what is proved, along which argument, and what is left to the runs and why.
## 3. The models

Each action is a stretch of code that nothing interrupts as far as the modelled state is concerned:
a turn of a loop that ends with reading or writing a line, or a section that runs with interrupts
off. `PROJECT.json` gives, for every definition, the lines it stands for.

### 3.1 `SerialLink`, `Board`, `IpodBoot`, `BtLink`

The line carries lines of text in both directions. A text is a device name, `"reset"`, or a class of
texts neither program can tell apart (`"short"`: at most one character, `"junk"`: longer).
`toBoard` is the board's receive ring together with what is on its way, `toIpod` is the same for the
iPod. What does not fit is lost, and a receiver that starts to listen in the middle hears a suffix
whose first line may have lost its head (`Heard`).

`Board` keeps the firmware's own shared state: `device_name_buffer` and `nameidx`, which the search
loop, the connecting loop and (by mistake) the reset task use. A line is read in two steps, its
characters and its newline, so that a restart, a connection or the other side's step falls in
between. `Overlay` says what the buffer holds after a text has been written over an older one: the
older one's tail shows. `ConnectingChars`, one character a second in the code, is one step: nothing
the board does depends on the characters one by one. `Connected` and `TaskFailure` are the two ends
of `setup`.

`IpodBoot` is `main` from step 1: `ipc` says in which step it is, `devices` is the set of entries
that SELECT would accept, `portOpen` follows `serial_stop` and `serial_setup`. Steps 2 and 5 block in
`serial_read`: their actions are enabled only when a line is there. The list itself is in
`DeviceList`; here the user may choose whatever has been listed, damaged names included.

`BtLink` adds what happens from outside: the board is switched off and on, the iPod is restarted,
lines lose characters in a FIFO that is not read in time. `MaxFaults` bounds them together. Once the
iPod has been started again (`rebooted`) the board may still be busy with the name of the time before:
the properties about the chosen name are stated up to then.

### 3.2 `DeviceList`

One turn of step 3's loop: lines that arrive (`Receive`), one look at the buttons (`Left`, `Right`,
`Select`, `NoButton`, `EnterMenu`), then drawing (`Draw`). The button changes between any two looks.
`rows` holds each row up to its first NUL, and `Text` is the C string that starts there, which runs
on into the next rows when a name fills its row. `last` is the code's `last_button`, shared with
`dev_menu`, which leaves through the `default` of the outer switch (`MenuReturns`). Two variables
record what a user sees: `screen` and `drawn`; `used` records that the button now held has had its
effect. What lies behind the array is taken to be zero.

### 3.3 `Threads`

What a kernel object sees of the scheduler: a run list, whose head runs; a wait queue; a state per
thread. `BlockThread`, `WakeupFirst` and `TryRemove` are `block_thread`, `wakeup_thread` on the queue's
head and `wait_queue_try_remove`. `Switch` elects the thread behind the one that ran last, if that one
may run still or again, and the head of the list otherwise; `Idle` waits for an interrupt. Timeouts are
looked at in `switch_thread` only, and a thread whose wait has expired is runnable but still queued: the
window every object has to cope with. The player has one core and its boot loader is built without
priorities (`HAVE_BOOTLOADER_USB_MODE` is commented out in its configuration), so corelocks are empty
and wake-ups are first come, first served.

### 3.4 `Semaphore`, `SemaphoreSpec`

`semaphore_wait` is `Take`, `Poll` or `Block`, then `Resume` and, when the thread finds itself still
queued, `Late`: between these two steps interrupts are on. `Release` is `semaphore_release`, called by
the running thread, or, with `IsrReleases`, by a handler between any two steps.
`SemaphoreSpec` is a counter: units are available, or owed to threads that have been handed one. A
thread that was taken off the queue is owed a unit (`Handed`). It may lose it (`Lose`) only if the
semaphore is `Lossy`, which it is when handlers release it: see 4.2.

### 3.5 `Mutex`

`LockAgain`, `LockOpen`, `LockBlock` are the three ways through `mutex_lock`; `Locked` its return after
`switch_thread`, where it does not look at the mutex again. `UnlockRecursive`, `UnlockOpen`,
`UnlockTransfer` are those through `mutex_unlock`. `depth` counts, per thread, returns from
`mutex_lock` not yet undone: it is what the callers know, `owner` and `recursion` is what the mutex
knows, and the properties relate the two.

### 3.6 `MrswLock`

The four operations, each split by its branches; `count`, `writer` and `retval` are the lock's own
state, `reads` and `writes` what the callers hold. `WakeupFront` wakes the readers that lead the queue
as the loop does, and sets the count once. Callers keep to what the code documents: a thread does not
ask for write access while it reads, and reads inside a write are released first. Readers
may nest, which the lock cannot cope with when a writer waits: liveness excepts that state (`Stuck`).

### 3.7 `EventQueue`, `EventQueueSpec`

The ring with its free-running counters (modulo `Wrap`), the sender list that shadows it, `curr_sender`
and the one receiver the header requires. Steps are the sections that run with interrupts off;
senders, posters and handlers come in between them. `build`, fixed from the start, is one of the
`Builds`: the size of the ring, whether it has `HAVE_EXTENDED_MESSAGING_AND_NAME` (the player's
firmware) or not (its boot loader), whether threads send, whether messages are removed behind the
head. A receiver is `"run"`, `"blocked"`, `"expired"` (runnable, and still queued) or `"woken"`.
A `pending` above `length` lets the ring overflow, as the release build does: the assertion against
it is compiled for debugging only; there `Implements` promises nothing, and `AnswerComes` still does.
`BuildsAssumption` excludes senders where messages are removed behind the head.
`EventQueueSpec` has a sequence of messages and senders that wait for the answer to theirs.

### 3.8 `Timeout`

Two arrays of pointers, `tick_funcs` and `tmo_list`, ended by a null. The tick interrupt walks the
first by position (`taskAt`), calls what it finds (`fn`), and one of the tasks, `timeout_tick`, walks
the second (`at`), calling callbacks (`callback`). Interrupts do not nest on this player, so within a tick only
what the tick calls runs: tick tasks (the button driver registers a timeout from its own) and
callbacks, which may register and cancel any timeout. Threads and other handlers do so between
ticks, and threads add and remove tick tasks.

### 3.9 `Scheduler`

Slots of threads that are created, run, exit and are created again; the run list, the timeout list,
one wait queue per thread (its waiters in `thread_wait`) and one of an object. A call that gives the
processor up runs with interrupts disabled until `switch_thread` looks at the timeouts. The walk
(`BeginWalk`, `WalkPast`, `WalkRemove`, `EndWalk`) is one step per entry, because it lets interrupts in
between: `WakeFirst` and `Tick` come there. A thread that an interrupt wakes stays in the timeout list
as garbage and may go back to sleep before the walk collects it. Ticks are compared on their signed
difference modulo `Wrap`.
Thread identifiers and their versions are abstracted: `thread_wait` with a stale one returns at once,
so it is not a step. The main thread does not exit and no thread waits for itself. `tmo_tick` is zero
while nothing reads it. `MaxLate` bounds how long a thread keeps the processor beyond the next check,
which the code needs as well: ticks further apart than half the counter compare the wrong way round.

### 3.10 `Buflib`

The buffer word by word: a block is one word that stands for its header (length, handle, callbacks,
name, checksum) and the words of its contents, which say only whose they are, so that a block copied
over a neighbour shows. Calls that may run callbacks (`buflib_alloc_ex`, `buflib_alloc_maximum`) are
taken apart at each callback: `call` says where they are. `Compact` is one `buflib_compact`, with the
set of blocks whose `move_callback` refuses this time. A `shrink_callback` may refuse, give words back
in front and behind, or free its block (`AskToShrink`). The first allocation is `test_alloc` of
`core_alloc.c`, which stays.

### 3.11 `DiskCache`, `Fat`, `FatTable`

`DiskCache` is operators on one record, since every call holds `disk_cache_mutex`: `Probe` finds the
entry of a sector or takes the least recently used one, writing it first if it is dirty; `Filled` reads
the sector, which fails for those in `bad`; `GetBuffer` and `ReleaseBuffer` lend an entry out.

`Fat` has the calls of `file.c` on a small volume, each in steps that end where the cache's mutex is
released: an append reads the end of the chain in one step and allocates in another (`Alloc`), freeing
a chain takes two steps per cluster (`FreeNext`, `Unlink`), so that another file grows in between.
Calls that change the directory hold the file system's lock alone (`writer`); a file's own calls
exclude each other (`Shared`). `Break` and `Heal` make one sector unreadable for a while, also the
directory's or fsinfo's; writes never fail. With one sector of directory, which the new entry has just
brought into the cache, `rename` always frees the old entry: its undo is written down but not reached. Bounds are budgets of calls, loans and faults.
Abstractions: a cluster is a sector; a file's entry is one slot and the directory one sector; streams
are opened to read and write; `O_TRUNC` is the kind that waits for the next sync; multi-sector
transfers are in `Files`. A sector beyond the table stands for the place where entry 0xffffffff would
be (`Far`), which can't be read.

`FatTable` says what a table promises: a free cluster is taken at the end of a chain, a chain is cut, a
cluster is freed that no entry points at. All that the cache does (evictions, write-backs, loans,
remounts, failed reads) is a stutter. Once the directory's sector has failed, or a stream has lost its
place (`Far` in `broken`), `intact` is false and nothing is promised, see 4.2.

### 3.12 `Files`

Streams, file objects and the sector each caches; a call of the API is one step, since calls on one
file exclude each other and those on different files share only the free space. The disk never fails
but may be full. Of the bytes it is kept which units of each copy of a sector (chain, shared cache, own
caches) hold what was last written there; writing a unit makes every other copy stale (`Overwritten`).
`ReadWrite` is head, whole sectors and tail as in `readwrite`, with the run split at the cached sector
(`Whole`); `FillCache`, `FlushCache`, `HandleTruncate`, `FtruncateInternal`, `FsyncInternal`,
`FileopOpen` and `FileopClose` are the functions of those names. `Unmount` closes all streams in any
order and leaves their descriptors unusable. Return values are not modelled. There is one name; the
file behind it may be removed and created again while the old one is open.

## 4. Runs

Every passing run is finite without a state constraint: bounds are guards or constants, named below. A
property that is listed as one name is in several cases a conjunction of named parts, which its
definition lists: `Accounted` is `TypeOK`, `CountAccurate` and `WriterWaitsFirst`, and so on. Type
correctness of `BtLink`, `Semaphore` and `Mutex` is proved (section 5) and not run.

| run | question | bounds |
|---|---|---|
| `bt_link` | Until the iPod is started again, may anything but the chosen name reach the board, and may the iPod boot on a stale `connected`; does the wait for the board end; does a repeated reset get the board out of a hopeless attempt? | two names, one of which starts with "reset" and is longer than it; two lines each way, and a burst of three; two faults among power cycle, reboot and damaged line |
| `semaphore` | Does the semaphore implement its counter; is a waiter served while releases keep coming? | three threads; limit 2; releases by threads and by handlers |
| `mutex` | Exclusion, no lost waiter, no overtaking, no starvation | four threads, recursion of 2 |
| `mrsw_lock` | Exclusion, exact count, hand-over, no starvation | three threads, readers and writers nesting 2 deep |
| `event_queue` | Does the queue implement its promise in each build; is every sender answered? | with senders: ring of 2, two senders, and the same with up to 3 pending, which overflows; without: ring of 4, with removal behind the head, and the boot loader's smaller build; counters modulo twice the ring; two message kinds |
| `device_list` | Highlight, choice, set of devices, one move per press of LEFT or RIGHT | rows of 3, 3 rows; five texts: empty, shorter than a row, as long, longer |
| `timeout` | Do both lists survive changes under the walk, and how late may a timeout be? | four timeouts for 3 slots, one other tick task, ticks modulo 12, delays up to 2 |
| `scheduler` | Do lists and states agree; is no timeout missed or early; does everybody get a turn? | three slots, ticks modulo 8, walks at most 2 ticks apart, delays and lateness of 1 |
| `buflib` | Do blocks tile the buffer and handles name their blocks; does what is fixed stay; do calls return? | ten words, requests of 1 and 2 words, four kinds of callbacks |
| `fat` | No cross-links, exact chains, space, directory and cache, with failures; does the table keep to `FatTable`? | four clusters in a table of two sectors, three cache entries, two threads, two names; three calls (plain opens not counted) and one failure, two calls and one loan, or one call and two failures, one of which may heal |
| `files` | Does every read return the last write; does everything reach the disk; does nothing but a last sector get lost? | sectors of 2 units, three streams, three buffers; six calls; with room: lengths 1 and 4, two objects; one free sector: lengths 1 and 3, one object |

*Why these are enough.* For the link, two lines of one kind and one other fill both directions; the
sets hold a name of each class the code distinguishes (short of "reset", starting with it, longer).
Two faults are one on each side, or the same twice.
Kernel objects need one thread that holds, one that waits and one that interferes. Rings of 2 and 4 with
counters modulo twice that wrap many times within one run, from every starting point. Three rows are a
first, a middle and a last one. Three slots let a timeout be passed over, slide, and be passed over
again; the fourth timeout finds them all taken. In `scheduler`, with the main thread there is one that
is woken in the middle of a walk and one that follows it in the list; the clock wraps all the time. Ten
words hold `test_alloc` and up to four blocks: one that stays, one in front and two behind.
In `fat`, three entries are the fewest with which the driver may rely on the two sectors of its last
two updates; three calls are a file that is removed under a stream, a new one and a write to it, and two
files that grow into each other. In `files`, six calls are two opens, two writes, something in between
and a look; three streams are a writer, one that joins it and one that was there before.

*Deadlock* is checked wherever the modelled part never stops of itself. It is not in `bt_link`
(the iPod leaves for its own firmware, and may wait for ever, see 4.2), in `semaphore` (threads may all
wait when nobody releases), in `mrsw_lock` (a reader that nests behind a waiting writer stops both) and
in `scheduler` (the clock stops where a thread would keep the processor longer than `MaxLate`). Models
with a budget of calls have a `Stopped` step for its end.

*Fairness.* `BtLink`: each processor keeps executing its loop (weak fairness of the program steps);
nothing is assumed of the user, of the radio, of the line or of the power. Kernel objects: the
switcher keeps switching and a runnable thread's next kernel step is taken, because the run list is
round robin and threads outside the kernel give the processor up (the scheduler is cooperative, and
the code base requires it). An owner of a lock releases it in the end: strong fairness, since it may
call only when it runs. `EventQueue`: the receiver is a loop around `queue_wait`, as in every user of a
queue with senders. `Scheduler`: besides the switcher and threads that give the processor up, the tick
(strong fairness: while interrupts are disabled the timer's interrupt stays pending and is not lost).
`Buflib`: a call under way goes on. Safety runs assume nothing.

*Removal behind the head with senders* is the one combination of the event queue's operations that no
run has: it leaves a stale sender (4.2), and no caller in the repository does it. `Turn` is stated for
the main thread only; `switch_thread` does not treat it apart.

### 4.1 Finding

`bt_always_responds` ends in a counterexample. Once connected, the board stores each received character
at `serial_buf[nameidx]` instead of `[serialidx]`, so that no reset is ever recognised. The
documentation (`ipod-software/README.md:60`) says that it should always respond.

### 4.2 Other disagreements

The models behave as the code does here too, and the properties above are stated so that they hold
with it. Some cases are left out of the runs, with the operation they need: longer runs of sectors on a
full disk, renamed directories, a failing disk under `Files`, threads without a stack.

| where | what the code does | what is said of it |
|---|---|---|
| `ipods5l-devel.c:368` | In step 2 the iPod sends another reset only after hearing something: one lost reset and both wait. | `ipod-software/README.md:40`: resets are sent "until it gets a response" |
| `ipods5l-devel.c:489` | The chosen name is sent once. A board that restarts on an earlier reset after that has lost it, and the iPod waits in step 5 for ever. | `README.md:42`: "The Bluetooth board will then attempt to connect to the device." |
| `ipods5l-devel.c:497` | "connected" names no device. If the iPod is started again after it sent a name that the board has still to read, the board may connect to that device while the user chooses another one, and its "connected" is taken for the answer. The board's "starting" need not answer the reset just sent. `OnlyChosenSent` and `ConnectedToSelected` are stated up to a restart of the iPod (`rebooted`). | `ipod-software/README.md:42`: see above |
| `ipods5l-devel.c:399` | A name that fills its row has no NUL: `strcmp` never finds it equal to its own row and it is listed again at each report, up to the end of the list. | line 374: "we add them to the set" |
| `ipods5l-devel.c:489` | What is sent for such a row runs on into the following rows. | `README.md:42`: "the iPod will send the name of the device" |
| `ipods5l-devel.c:447` | After the menu the screen stays empty until a device arrives or the highlight moves. | `README.md:42`: "display the devices on the screen" |
| `mrsw_lock.c:188` | A reader that enters again behind a waiting writer blocks, and so does the writer, in builds without priorities. | line 158: "Same thread may safely acquire read access recursively." |
| `queue.c:617` | Removing a message behind the head leaves a copy of its neighbour's sender in the old head's slot; a later post there answers that thread. | `queue.h:88`: "there is a thread waiting for the corresponding event" |
| `timeout.c:26` | A timeout that slides into the slot of one that stops is passed over in that tick (`LatenessBounded` says how often that may happen). | `timeout.h:39`: "expiration tick" |
| `tick.h:54` | A tick task that slides into the slot of `timeout_tick` is passed over in that tick. | `kernel-s5l8702.c:39`: "Run through the list of tick tasks" |
| `semaphore.c:79` | A release from an interrupt handler between the test of `wait_queue_ptr` and `disable_irq` hands a unit to a thread that then reports a timeout: the unit is gone (`Lossy`). The USB driver waits with a timeout for what its interrupt handler releases (`usb-designware.c:798`, 1373). | line 78: "see if anyone got us after the expired wait" |
| `ipods5l-devel.c:448` | The SELECT that turns the port off in the menu is forgotten on the way out (`default` clears `last_button`): still held, it also chooses the highlighted device. | line 432: "temporarily turn off uart" |
| `thread.c:1195` | `create_thread` with no stack words takes a slot and returns without giving it back. | - |
| `buflib.c:384` | `buflib_shrink` makes holes and a `move_callback` may refuse for the moment only, but the buffer stays marked as compact: a later allocation fails that compaction would make room for. | line 383: "if something compacted before already there will be no further gain" |
| `buflib.c:741` | `buflib_allocatable` counts a hole's words with its header: the allocation of what it returns, and so `buflib_alloc_maximum`, may fail. | `buflib.h`: "the biggest possible allocation that can be determined to succeed" |
| `fat.c:971` | `get_next_cluster` returns -1 when the table can't be read, and callers take it for a cluster: a read returns the volume's sector 0 as the file's data, a write panics, after a seek the stream restarts at the file's first cluster, `free_cluster_chain` goes on with 0xffffffff. A stream that restarted is nearer the start than it believes: truncating through it frees clusters that other streams of the file stand on, and their next write links to a free one. `NoCrossLinks` and `KeepsTable` are stated up to then (`Intact`). | - |
| `fat.c:1345` | `next_write_cluster` ignores the results of its two updates. They can't fail half way as long as two entries of the cache are not lent (`KeepsTable`). | - |
| `fat.c:2278` | Emptying a file frees its cluster, then writes its entry. If the directory can't be read the entry keeps pointing at a cluster that another file gets. | `TEST_FAT`'s assertions about chains |
| `fat.c:2242` | `fat_rename` of a directory that fails to free the old entry undoes the new one but not "..", which was changed before. | - |
| `file.c:773` | `readwrite` returns 0 when a request is just the one aligned sector that is cached, though the bytes were transferred and the offset has moved: `rc` is still 0. | `file.c:35`: "roughly POSIX-compatible file I/O API" |
| `file.c:529` | A read that fails while the cache is filled leaves the old sector's number on a buffer that may have been overwritten. | - |
| `file.c:708` | A run of several sectors that fills the disk part-way adds clusters the size does not count; of an empty file `fat_closewrite` frees only the first. An `ftruncate` to the size the file has then cuts those clusters without `handle_truncate`, and leaves a stream that stands behind them outside its file. `AllSaved` and `CachesKept` are stated for full disks with runs of one sector. | `fat.c`: "Cluster chain is too long" |
| `fat.c:2396` | A stream that was refused a cluster keeps its end-of-file mark; when another stream extends the file it reads nothing there, and `readwrite_fill_cache` takes the unread buffer for the sector. | `file.c:35` |
| `fileobj_mgr.c:376` | At unmount readers are closed by `fileop_onclose_internal` only: a removed file that a reader held last keeps its clusters (`orphans` in `Files`). | `file_internal.c:677`: "nothing is referencing it so now remove the file's data" |
| `file_internal.c:130` | If the flush of the last writer fails, the copies that readers take of the shared cache are marked dirty, and a reader does not flush. | - |

## 5. Proofs

The theorems hold for every value of the constants that satisfies the modules' named assumptions:
any finite set of threads, any names, any bounds. The assumptions only say that sentinels are not
members of the sets they stand outside of, and that bounds are positive numbers.

| module | theorems | argument |
|---|---|---|
| `BootProofs` | `TypeCorrect`, `ChosenOnly`, `LaunchesConnected` of `BtLink` | `OnlyChosenSent` is inductive once three facts are added: the iPod is in step 4 or later exactly when a device is selected; before step 5 nothing but resets and noise is on its way to the board (hence the guard `~rebooted`: a restarted iPod finds the old name on its way); and the name in a `connected` line is the board's `device_name`. `ConnectedToSelected` then follows for the one action that reads such a line. |
| | `DevicesAreASet`, `ChoosesWhatIsShown`, `OnePressOneMove` of `DeviceList` | A row is added only if it differs from every row that ends, and rows never change. What is highlighted is what was drawn last, except after a change that the loop has still to draw; so it is on leaving for step 4, and nothing else can have been selected (`DrawnAgrees`). A press that has had its effect is the one in `last_button`, until the button changes. |
| | `SwitcherListsKept`, `CheckNeverTooLate`, `WokenInTime` of `Scheduler` | See below. |
| `ThreadsProofs` | lemmas | What blocking, waking, expiring and switching keep: nobody is twice in the run list or in the wait queue, a thread outside the run list is blocked, a blocked thread is queued. |
| `ResourceProofs` | `TypeCorrect`, `NothingIdle`, `ImplementsCounter` of `Semaphore` | `WaitersMeanZero` needs: only waiting threads are queued. The refinement needs also that, without releases from handlers, no thread in the late window has left the queue; each step then maps to one of the counter's steps or to a stutter, and to `Lose` only where handlers release. |
| | `HeapAlwaysKept`, `FixedAlwaysStay`, `RoundAtABlock` of `Buflib` | See below. |
| `KernelProofs` | `TypeCorrect`, `Excludes`, `NeverOpenWithWaiters`, `WaitersFirst` of `Mutex` | The strengthening ties `owner` and `recursion` to the callers' `depth`: the owner's depth is `recursion + 1`, or zero if it has been handed the mutex and has not run; everybody else's is zero; whoever is queued waits and does not own. |
| | `TimerListsKept`, `NeverTooLate` of `Timeout` | See below. |
| `MrswLockProofs` | `AlwaysAccounted`, `WriterExcludes` | See below. |
| `EventQueueProofs` | `QueueTracked`, `Refinement` | See below. |
| `FatProofs` | `CacheAlwaysKept`, `AllStored`, `DirectoryAlwaysKept`, `TableWellLinked` | See below. |
| `FatTableProofs` | `TableAlwaysKept`, `LinksAlwaysSound`, `NeverCrossLinked` | See below. |

*The readers-writer lock.* `Exclusion` alone is not inductive: a count that is wrong would let a writer
in. The invariant says that the count is the number of read accesses held and granted, or the negated
depth of the writer (`CountAccurate`); that while there is a writer nobody else reads or has been let
in to read (`Alone`); that `writer` names the thread that has write access or has been let in to write
(`WriterKnown`); that whoever waits is queued or has been let in (`Waiting`); and that behind readers a
writer is first in line (`WriterWaitsFirst`); and of the threads that nobody is in the run list and the
wait queue at once (`Apart`). Why the writer comes first: the last reader's release hands over to the head of the
queue without asking what it waits for. The release of a writer to the readers that lead the queue needs
facts about cutting a sequence in two (`CutFacts`): what is let in and what stays are apart, and the
count is the length of the front.

*The event queue.* `Tracked` is not inductive alone: whether an answer reaches the right thread depends
on what waits where. The invariant adds that only a queue that sends has waiting threads, and
`curr_sender` is set only while the receiver runs (`SendersKnown`); that a slot's sender is in the
window between the counters and its thread waits, and that each waiting thread is in exactly one slot
or is `curr_sender` (`OneWaiter`); that in a queue that fits, a slot's sender is the one that sent the
message in that slot (`FromKnown`); and that the receiver is queued for messages only when there are
none. The ring's arithmetic is in lemmas of its own, about counters that wrap (`GapShrinks`, `SlotShifts`): when the
window holds no more than the ring, its slots are distinct, a post adds one at the end, a fetch drops
one at the front, and removal behind the head moves the rest down by one. `Refinement` maps each step to
one of `EventQueueSpec`'s or to a stutter. What is left out of it is what the code leaves out: a queue
whose messages may exceed the ring promises nothing (`Implements`). One assumption on the builds is worth
naming: a queue in which messages are removed behind the head has no synchronous senders and fits
its ring. With senders the removal loses track of them, which the model does not cover (section 4).

*The timers.* A list without gaps has a slot of its first null, behind which all are null (`Shape`); finding,
putting and removing are said in terms of it. That there is a slot left for `timeout_tick` follows from
`RoomAssumption` (fewer other tick tasks than slots) by the pigeon-hole principle; a timeout without
room is dropped. `LatenessBounded` speaks of the time between ticks and is not inductive; the invariant says
it of each slot at every step (`InTime`): a timeout is late by less than the slots behind its own, or by that
many if this tick's walk has still to look at its slot (`ToWalk`). Each removal moves what is behind it up by one,
so what the walk passes over thereby is late by less than its new slot allows (`MovedUp`). The walk over
the tick tasks has the same gap; `timeout_tick` cannot fall into it, since it leaves that list only with the last
timeout. The tick's arithmetic needs the delays and slots to be less than half the clock's range
(`HalfRangeAssumption`).

*The switcher.* Its invariant has two halves. `ListsInv`: each list holds nobody twice, and exactly whom it should
(`Holds`): the run list those whose state is running, a queue those whose `wqp` names it, the timeout list at least
those that time is to wake and nobody whose slot is free. This is inductive with what a state says of the queues
(`StatesKnown`): whoever waits in `thread_wait` is blocked, so nobody with a timeout is woken by an exit; whoever
sleeps, is frozen or is gone is in no queue; and the thread that has the processor runs. `TimesInv` sees every tick
from `current_tick` (`Away`, the signed difference): the next check is at most `Period` ahead and `MaxLate` behind,
no timeout is before it or more than the longest delay ahead, and during a walk the tick it took at its start is
not ahead of now, what it would set the check to is after that tick, and no timeout it has passed is before that
(`WalkPlaced`, `WalkCovers`). All these differences are less than half the clock's range by
`HalfRangeAssumption`, so `TIME_BEFORE` orders them (`BeforeIs`), and a tick moves all by one (`TickOn`). `CheckCovers` follows,
and `NeverEarly` from the one step that wakes by time: it compares with the walk's tick, which now is not before. TLC
checked both halves on the bounds of the run `scheduler` first.

*The buffer.* What `HeapKept` says is inductive only with the callbacks' side of it. `HeapInv` says of the heap that
it is `Good`: its blocks run from the start to `alloc_end` without a gap, no two free ones are neighbours and the
last is not free, each block's words and handle are its own, and each handle finds its block (`Sound`); the
table ends in front of the blocks, no handle lies outside it, and the first block is core_alloc.c's test
allocation (`Books`). Of the call under way it says that the reserved handle is the call's and no other, that the
size asked for is not zero, and that the round of the shrink callbacks stands at a block, with the one in front of it
behind it (`RoundAt`; `CallKept`): a callback that moves its block's start, shrinks or frees it changes both.

Every operation replaces a stretch of the buffer by another. A stretch is a `Segment` (blocks, each with its
words, free ones merged); segments can be cut where a block starts and joined where one ends, and one lemma
(`Spliced`) says when putting one in place of another keeps the heap sound, and where its blocks are then. So
allocating, freeing and shrinking need only what their own stretch holds. Compaction is a loop that leaves the
buffer unsound between rounds. Its invariant `Half` compares with the heap the loop began with: the blocks
packed so far, up to where the next would go, are a sound heap (`Packed`); what is ahead is as it was; the
hole is a free block among the packed; handles of packed blocks point in front of the block looked at and the others
are unchanged; and what must never move is where it was. A round is one of five: a free block adds to the shift; a
block goes into the hole, slides down, has nowhere to go, or refuses. `FixedStays` follows from `Half`
at the end of the loop, and for the other calls from what they splice.

The walks are recursive functions of the number of blocks passed. That they exist, and that what each step
keeps holds at the end, is said by the lemmas `Recursion` and `RecursionStays` (see the FAT driver below); that they reach the
end of the allocations, that each step adds a positive length. The assumptions: the buffer has room for the test
allocation and its handle (`Size >= 3`, `core_alloc.c:43`), and allocations without callbacks are among `Ops`.
Sizes and the reserve at the end are any natural numbers. That calls return (`Returns`) is liveness and
stays with TLC.

*The cache and the FAT driver on it.* `CacheKept`, `Stored` and `DirectoryKept` hold for every number of entries of the
cache and of its maps, of clusters and of entries per sector, every image, any threads and whatever sectors
may fail. The assumptions (`EntriesAssumption` of `DiskCache`, those in front of `Fat`'s `SectorOf`) say that these
numbers are positive, that images are made of words and entries under names that differ, and that sentinels
are no members.

`Good` is what a volume is at every point: the list holds exactly the entries that are not lent, the
maps exactly those in use, no sector has two, a clean one equals its sector on the disk, and sectors
hold data of their kind. What an operation does to a volume is said by relations between before
and after. `Kept`: what is seen of every sector stays, and nothing becomes dirty; so it is for
finding, evicting, filling, committing, lending and returning. `Moves` for a set of sectors: only they
may change or become dirty; so it is for all that the driver writes, `{}` for what only reads. Both
compose, so that the loops (`FindFree` over the sectors of the table, `SeekTo` along a chain) are
functions whose steps each move nothing. That such a function exists and that its last value is as good
as its steps follows from the least number at which it would not (`LeastNumber`, `Recursion`,
`RecursionStays`): the one induction used.

`Stored` is not inductive: it says nothing while the lock is held, and the last close commits
only then. `IInv` adds where each call may be and what it has by then (`CallsKnown`); that the steps which
change the directory are taken by the one call that holds the lock, all others being idle (`LockHeld`);
that the directory's sector is dirty only between writing an entry and the commit or the second half of a
rename, and that nothing is dirty once every stream is closed and no call is under way, nor from a rename's
`release` on (`DirtKnown`). `RenamesReady` says that a rename about to write the new entry has the name and a free
slot: both are tested before its first step, and no other call can take the slot. TLC checked `IInv`
on the bounds of the run `fat` before it was proved.

`DirectoryKept` says of the directory what holds at every step, half-way through a rename too: a file that
was not removed has an entry, and between the calls that change the directory no two entries have one
name. It is proved from `DirInv`: while the directory is legible, open files are in slots of their own
(`Placed`, `OnePlace`); a name is there twice only while a rename has written the new entry and not yet
freed the one of the file it replaces (`NamesKnown`, `GivenUp`); and at each of its steps a rename is
where it says it is (`RenameKnown`): before the new entry is written its name is free or is the
replaced file's, before the old entry is freed that slot has an entry and no open file. That
the calls under way keep to what they began with is `CallsSound`. Most steps leave the names and the places alone
(`QuietStep`, `GoesOn`); what remains is opening, creating, removing and the three steps of a rename.
Once the directory's sector has failed nothing is claimed. TLC checked `DirInv` on the bounds of the
run `fat` first.

*The table behind the driver.* `TableWellLinked` is about the table `FatTable` specifies: that no entry points at a free
cluster and no two at the same one is inductive by itself, since an append needs a free target and a
release one that nothing points at. `TableAlwaysKept` says that `Fat` is such a table, through its cache and for
any interleaving of calls: `Spec => KeepsTable`, the refinement step by step. With the first it gives
`LinksAlwaysSound`, and the invariant behind it gives `NeverCrossLinked`.

The refinement needs to know that what a call appends to is the end of a chain, and that what it frees
nothing points at; and neither can be said of the table alone, since what a removed file, a stream or a half-done
truncation owns is known only to them. The invariant says it with two labels for each cluster, the
first of its chain and how far along it stands (`Chained`), that exist as long as the directory is legible
and no stream has lost its place (`Intact`). Labels avoid what cannot be proved here: they turn the
recursion along a chain into a condition on each cluster and its successor. What has a claim to a chain
(`Claims`: a file open or not, and the streams, whose last cluster may be in a chain of its own
after an append whose link failed) claims it alone; a first cluster has the label 1, and a stream's last one the stream's
position (`Laid`). While a chain is being freed, streams of the file beyond its new length claim nothing: a
truncation rewinds them before the next call can run. One lemma for each thing an operation may do to the
labels (an append, a new chain, a release, a cut, handing a chain from one file to another) serves all
actions. `ChainInv` is `IInv`, `DirInv` and those labels. For `NeverCrossLinked`, everything the walk
`ChainFrom` collects has the label of the cluster it started from, and the walk keeps that (`RecursionStays`).

Its assumptions are on the volume and on the cache. `VolumesAssumption`: labels exist for each image the
system starts with and each entry of its directory has a chain of its own, a volume on which no check would find
cross links. TLC evaluates it for the run's images. `BudgetsAssumption`: two entries of the cache are
never lent, so the second entry that `next_write_cluster` updates need not be read again. In the build, each open
file lends itself one, at most 11 and two of the driver's own (`fs_defines.h:48`, `:57`) of 32 or more (`:95`). And there is a thread.

*Model-checked only.* Liveness, whose proofs need fairness and ENABLED. What depends on what a recursive
function returns (`Text` of `DeviceList`, `ChainFrom` of `Fat`): the library's
induction theorems take an operator as a parameter, which no installed prover instantiates, and the
way round it that `FatProofs` and `ResourceProofs` take serves for what each step keeps, not for how much a walk
returns. So `ChainsKept`, which compares a chain's length with a file's size, and `SpaceKept`, which counts
clusters, stay with TLC, and the proof about `DeviceList` uses only the first case of `Text`. The
invariants of `Files` are not proved: its caches are compared with what a sequence of writes
leaves behind, a sum over data. `CachesKept` and `AllSaved` are besides not true of every `Modes`: a run of
several sectors that fills the disk part-way leaves a chain longer than the size counts (section 4, `file.c:708`),
which the run's bounds leave out.

## 6. What is not modelled, and why

- Anything that depends on what lies behind a buffer that is indexed without a test (the board's
  `device_name_buffer`, the iPod's `serial_buf` and the zero that `serial_read` stores at its end): the
  outcome is the linker's choice.
- Priorities and several cores: not built for this player's boot loader. `mrsw_lock.c`, `mutex.c` and
  `thread.c` behave differently with them.
- `KERNEL_OBJECT_CHECKS` assertions: compiled for debugging only.
- Of the file system: path names, long names, directories other than the root and their growth,
  directory streams, FAT16, reading a volume's first sectors, several volumes, times and attributes.
  `dircache.c` is not built for the boot loader.
- Of `Buflib`: alignment, names, and what nothing calls (`buflib_buffer_in`, `buflib_buffer_out`,
  `buflib_context_relocate`).
- `queue_broadcast`, the board's audio and control tasks, power, USB, backlight, the event registry and
  the small algorithms: in the plan, not done.
- Chip and player drivers, drivers of other players, host tools, run-time library, board designs:
  register programming or not part of the running system. Section 1 and `PROJECT.json` list them.
