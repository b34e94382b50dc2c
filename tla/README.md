# A TLA+ model of SanderOS64

SanderOS64 is a small operating system kernel in C for 64-bit (and, with the
same sources, 32-bit) PCs.  It has one address space, one processor, no locks
and a timer that may hand the processor from one task to another at almost any
instruction.  Most of what can go wrong in it goes wrong *between* two
instructions of a driver, or between two transfers of a disk, and that is what
these modules are about.

## 1. Inventory

Paths are relative to `src/kernel/drivers` unless they begin with `src/`.

| component | state it keeps | operations | who calls it |
|---|---|---|---|
| page allocator, `memory.c` | `memorymap`, one byte per page; `emptymap`, one per 256-byte slot; the two areas | `requestPage`, `requestBigPage`, `freePage`, `malloc`, `free` | every driver, the system calls, the network card's interrupt handler |
| scheduler, `multitasking.c`, `timer.c` | `vl` (current pid), `cmt` (number of tasks), `tasks[]`, the sleep `counter` | timer handler, `addTask`, `waitForPid`, `sleep` | timer interrupt, shell, program loader, system calls |
| system calls, `idt.c` | `files[6..9]` of each task, registers of a reader of a line | int 0x80 (exit, read, write), int 0x81 (files, exit, pages, keys, network, sleep) | programs |
| keyboard, `ps2.c` | `last_pressed_key`, `shift_pressed` | `irq_keyboard`, `get2ch` | the interrupt; `device.c`'s `getch` |
| devices and volumes, `device.c`, `fs/mbr.c`, `fs/ext.c`, `src/kernel/kernel.c` | tables of block devices and file systems; one offset per drive | raw sectors, the walk over partitions, `readFile`, `writeFile`, `dir`, `scanLine` | boot, shell, system calls, loader |
| shell, `tty.c` | `wd`, `pd`, shared by all shells | `tty_inner_loop` | boot, and every program that ends |
| program loader, `exec/program.c`, `elf.c`, `paging.c` | the page table entry of the address programs run at; image and stack of each task | `exec`, `exec_memory`, `map_memory` | shell |
| SXE interpreter, `exec/sxe.c` | one global processor: memory, stack, call stack | `sxe_run`, `sxe_step` | loader |
| FAT, `fs/fat.c` | on the disk: FAT, directories, data; per call: a page with a directory | `fat_read`, `fat_filesize`, `fat_dir`, `fat_write` | `device.c` |
| AHCI, `ahci.c` | per port: registers, one command slot in use | `ahci_read_sector`, `ahci_write_sector` | block devices |
| IDE, `ide.c`, `fs/iso9660.c` | registers of two channels, one flag of the interrupt | search for drives, `ata_read`, `atapi_read` | boot, block devices |
| EHCI, `ehci.c`, `usb.c`, `usb_stick.c` | a queue head and its transfer descriptors, toggles, the stick's phase | start, ports, control and bulk requests, sectors | boot, block devices |
| XHCI, `xhci.c` | command, control and bulk rings, one event ring | start, installation of the device at each port | boot |
| network, `ethernet.c`, `fs/tftp.c` | addresses, the number of a query, numbers and functions of TCP ports | ARP, DHCP, DNS, TCP, ICMP, TFTP | shell, system calls, the card's interrupt handler |
| network cards, `e1000.c`, `rtl.c` | receive and transmit rings | send, receive (polled), interrupt handler | network stack |
| set-up, `gdt.c`, `idt.c`, `pci.c`, `cmos.c`, `graphics.c`, boot loaders | tables, registers | run once, or only output | boot |

How they interact.  A task runs in the kernel with interrupts on: the shells
do, the drivers they call do, and so do the system calls of programs in the
64-bit build, which enter through a *trap* gate (`idt.c:151`).  Interrupt
handlers (timer, keyboard, network card) enter through interrupt gates and are
not interrupted themselves.  A program is a task of its own (a paged binary,
`addTask`) or runs in the shell's context (ELF, SXE); when it ends the task
goes on as another shell.  The shell that started it polls a word in memory
(`waitForPid`) that the exit clears.  Files go through `device.c` to the FAT
driver, which makes a sequence of sector transfers through `ahci.c`, each of
which fills and polls the one command slot of a port.  The card's interrupt
handler answers packets itself, with pages it requests.

Hard behaviours: preemption inside the allocator, the keyboard's byte and the
disk drivers; a table of tasks that grows while the timer walks along it; one
sleep counter for all tasks; copies of a directory that grow old; transfers
that fail and machines that are switched off between two transfers; polling
loops that must end; packets that get lost or are taken by another reader;
controllers that go on with what the driver has given up; tables and rings that
nobody empties; programs that share an address, a processor or a port.
`PROJECT.json` lists these hazards, line by line, with the properties that
watch them.

## 2. The modules

`PageAllocator` is `requestPage`, `requestBigPage` and `freePage`.  A caller
that can be preempted takes a step per byte it tests and one for the store that
takes the page; `addTask` (between `cli` and `sti`) and the card's handler are
one step each.  `grants` is a ghost that counts which page each caller was
handed; `raced` collects the pages that were taken on a stale test.
`PageOwnership` is what the allocator promises, without map or loop.

`Multitasking` is the scheduler.  The registers are a record `cpu`, the table
is `saved`, and the timer handler, which is not interrupted, is the action
`Tick`; it may come between any two steps of a task.  A context says where its
task is: in a shell, after the `sti` of `addTask`, in `waitForPid`, in a
program, in the two steps of a turn of `sleep`.  The shell, the two exits and
sleep are actions of whatever is in `cpu`.  The field `id` is a ghost that says
whose context it is; the code knows a task by `vl` only.

`FatFs` is the FAT driver on one directory.  One sector transfer is one action;
the computation up to the next transfer belongs to it.  `es` is the copy of the
directory a call works on.  Every transfer may fail, and `Reboot` loses
everything but the disk.  `committed` is what the last completed write of a
file promised.

`Console` is the path of a key: the interrupt handler, the byte, `get2ch` in
its three steps (poll, copy, clear), `scanLine` and the slot of `malloc` that
holds the line, and the system calls that read one key.

`Ahci` is one port: a transfer fills the slot in four steps, waits, issues and
polls; the drive is external and carries out what the slot holds some time
after the issue, or stops with an error.  `mixed` is a ghost: the transfers
that overlap another one.

`E1000` is the two rings of `e1000.c`.  A statement of `e1000_send_package` is a
load of `tx_cur` and a store, because the kernel is built without optimisation
and reads it again each time (`LoadCounter`, `StoreAddress` ... `StoreTail`,
`WaitEnds`); a poll is `Receive`, `Look`, `Clear`, `Give`; `irq_e1000` is
`TransmitInterrupt` or `ReceiveInterrupt`, then one step per descriptor it
passes, drops or answers, with the same send steps, and tasks stand still
meanwhile.  The verdict of `ethernet_handle_package` is the kind of a packet.
The model is of the 32-bit build: only there do the descriptors of the code
have the layout of the card's.  A descriptor without a command, as the start
leaves them in the whole ring, has no end of a packet: the card keeps what it
names (`fragment`) and sends it in front of the next frame.  To read the cause
clears it, and `OtherInterrupt` is the two branches that are tried before that of
a packet: a change of the link (`LinkChange`), and a send.  `mixed`, `behind`,
`merged` and `inOrder` are ghosts: the sends that another one cut into, those that
found such a beginning in front of their own packet, whether an interrupt since
the last look told of a packet and of something else, and whether descriptors were
given back in order.

`Tftp` is one `tftp_read`: a fetch that counts the file, then one that copies
it, each after an ARP request.  Server and network are external; a packet is
the number of a block.  The client polls what a card delivers, in order, and takes
the headers and 4 bytes of checksum off the length of the frame.  `checksum` says
whether the card left these in: the one of `E1000` takes them off
(`e1000.c:193`), so each block is counted 4 bytes short (`Counted`).  The
server has a process per fetch, as servers of that protocol do, which sends its
last packet again.

`SystemCalls` is what tasks ask of `int 0x81` in the 64-bit build: open, close
and write of files, and scanline.  A call that `isr2handler` makes of the file
system is one step (`OpenSize`, `OpenRead`, `SizeOfOld`, `ReadOld`, `Store`,
`StoreFails`), and so is every store into and load from the globals that
scanline keeps its caller's registers in.  `stale` is a ghost: the calls whose
copy missed a store of another task or a failed read; `spoiled` the files that
such a call, or a store that failed half way, may have damaged; `crossed` the
tasks that read a line while another one did.  A task that was given registers
of another one is not followed any further.

`Ide` is the start of the IDE driver, which looks for a drive in each of four
places and reads from it at once, and the reads of later callers. A wait ends
with a flag that the interrupt of either channel sets; `fifo` is what the drive
has ready at its data port. `read.calm` is a ghost: no drive was at work when
the read began.

`Volumes` is the boot from the drives that the walk over the PCI functions
finds to the drive letters: link and start of an AHCI port, the table of
partitions and the table of GUIDs, the boot block of a FAT volume, up to the
look for the kernel on `A:`. Every transfer may fail.

`Network` is what waits for an answer: `getMACFromIp`, `getIPFromName` and the
two exchanges of DHCP, over the ring that all of them poll. `at` is a task's
place in its call, `took` the buffer it looks at, which the card may fill again
meanwhile. Stray packets, broadcasts to others and the interrupt handler's
drops are actions; `stolen`, `gone` and `late` are ghosts for a packet that
another task took, one that was lost, and a buffer the ring has come round to.

`Tcp` is sessions and messages: the making of a session in its loads and
stores, the sending of a message, and the handler, which answers the peers and
moves the tables of numbers on. Each peer sends again what is not acknowledged.
How many numbers the handler counts for a segment (`Counts`) depends on the length
the card tells (`checksum`, as in `Tftp`) and on the order in which the flags are
looked at: over `E1000` a push is never acknowledged in full, and a FIN that comes
with a push is not counted.
`entangled` and `hasty` are ghosts: sessions that share a port or were made at
the same time, and messages sent before the peer was heard of.

`Programs` is the way from the path a shell writes to the task that runs the
image: size, pages, file, mapping, `addTask`. `owner` and `content` say of each
page whose it is and what lies in it; a stack begins five pages above its own,
and an entry of the table maps `Gap` pages. `Sxe` is the interpreter,
instruction by instruction, on a processor of bytes: its arrays lie behind each
other as in `sxe.h`, because none is indexed with a look at its size.

`Ehci` is the host driver and its controller: `chain` is the queue of
descriptors of the request under way, `polls` the looks that are left, `async`
whether the schedule runs, is to stop or stands still, and `behind` an earlier
request that the controller is still at, because nobody waits for the schedule to
stop before the next one is offered. `UsbStick` extends it
with the requests of the installation and of a sector (command, data, status),
the pages each of them takes and gives back, and the stick. `Xhci` is the other
host, with its start, the requests of an installation, the rings and the event
ring; a block is its ring and its place there.

Each `MC` module names a small instance for its `.cfg`; each `Proofs` module
holds the theorems about one module.  Operators commented as a *faulty variant*
are what a plausible slip of the code would make of an action; each property
was seen to fail when one of them takes the action's place.

`MCPageAllocator`, `MCWaiting`, `MCAhci`, `MCUsb` and `MCSystemCalls` put several
machines into one instance: a variable says which machine it is, and the variables
of the others are constant. `Waiting` (for a line, an answer, a file), `UsbHosts`
(EHCI and XHCI), `Drives` (AHCI, IDE and the start of volumes) and `Shells` (file
and line calls, TCP sessions, the loading of programs and their interpretation) put
the machines side by side and give the properties of the instances names of their
own; the `MC` module and the module of proofs both extend them.

The modules compose by what they assume: `PageAllocator`, `Console`, `Ahci`,
`E1000` and `Tftp` assume that every task gets the processor again and again,
which `Multitasking` checks (`EveryTaskRuns`); `FatFs` takes a sector transfer
as one step, which is what `Ahci` gives a transfer that is alone; `SystemCalls`
takes a call of the file system as one step, which is what `FatFs` gives a call
that no other one comes between, and pages as `PageAllocator` gives them to one
caller only; `Console` is a reader of a line that `SystemCalls` lets begin and
end; `Volumes` takes a transfer that fails or does not as one step, whichever
of the drivers makes it; `UsbStick` extends `Ehci`, whose requests it makes;
`Network` and `Tcp` take a poll and a send as one step and leave the handler's
answers to `E1000` (those included that `getIPFromName` has it give,
`ethernet.c:450`); `Programs` takes calls of the allocator and of the file
system as one step, and `Multitasking` has the tasks it makes; `Tftp` takes a
send and a poll as one step each, which is what `E1000` gives a send that
nobody cuts into and packets that are given back in order.

## 3. The runs

| run | instance | states | what it shows |
|---|---|---|---|
| `page_allocator` | 2 tasks, card, `addTask`, 2 pages of which 1 is aligned, each handed out at most twice; or 1 task (the boot), 6 pages | 355 000 | Without a lock a page can be shared, but only through a test that was stale when the page was taken (`SharedOnlyByRace`), and the map is exact for all other pages (`MapExact`). A request ends. Before interrupts and tasks the loop over the map implements `PageOwnership` (`BootImplementsOwnership`): no page has two owners, each call of `requestPage` or `requestBigPage` is answered by a page that suits that function, and refused only when no such page is left. |
| `multitasking` | 3 tasks, sleeps of 5 (boot) and up to 2 ticks | 199 000 | Registers never get to another task while the table grows; round robin; a sleep lasts although the counter is shared; every task runs, sleeps end, and a shell that waits sees that its word is cleared, if it is cleared after `waitForPid` has set it (`TasksGoOn`). |
| `fat_fs` | 2 tasks, 2 files and a deleted entry, a directory of 2 entries, sectors of 2 bytes, clusters of 1 sector, 2 of them scanned, 2 writes of up to 3 bytes | 830 000 | A completed write is read back after failures and reboots unless one of six named things happened; a reader reads its file; entries disappear only to a stale copy. |
| `fat_new_files` | 1 task, empty directory, writes of up to 1 byte | | Violation: two new files get the same cluster. |
| `fat_names` | 1 task, one name begins with the other | | Violation: the wrong file is read. |
| `waiting` | `Console` with 2 readers, 2 slots, lines of 2, 3 keys; or `Network` with 2 tasks or the boot, a ring of 3, 2 stray packets; or `Tftp` with files of 1, 2 and 3 blocks of 3 bytes, 2 repetitions | 151 000 | Lines are in order in every interleaving of handler and readers, buffers are private but for a race in `malloc`. A query is given its own answer and the boot the address it leased, while the ring has not come round; over a card that leaves the checksum in, a fetched file is exact. Over one that takes it off a fetch returns only with files whose padding makes up for it (10, 518 and 1026 bytes, `ShortCountsDoNotEnd`). A key is read, who asks is answered unless a packet was lost or taken, a fetch over the first kind of card ends. |
| `drives` | `Ahci` with 2 tasks, 2 sectors, 2 payloads; or `Ide` with 3 places of 4 kinds, 2 later reads; or `Volumes` with up to 2 of 11 drives | 442 000 | A transfer of a port that is alone and returns 1 was made, whatever earlier ones left in the slot; an IDE read that begins while no drive is at work gives its sector; letters lead to the volumes that were looked at or to later ones of their drive; the boot stops only for a named reason (`StopsForAReason`: a drive that cannot be walked through, a failed transfer at the drive that lost its volume or at the look at `A:`, or an `A:` that is the first volume of the machine and was lost to a later partition, has no kernel, or is FAT32); all of them end, with a drive's error too, unless the drive had stopped before. |
| `drives_fat32` | `Volumes` as in `drives` | | Violation: `A:` is a FAT32 volume with the kernel, no transfer fails, and the kernel is not found. |
| `usb` | `Ehci` with `UsbStick`, one of 2 ports, 1 read of up to 2 sectors after the installation; or `Xhci` with 3 ports | 600 000 | A read that succeeds has its sectors in order, whatever requests before it were given up; a sector keeps a known number of pages; the controller stores into what was given back only after that request was given up, also while the next one is under way (`GivenBackIsLeftAlone`). On the other host the first event that names the block a request waits for, which is the one that is taken, came after that request's bell (`EventsAreOwn`), and the events fit into their ring. The starts and the reads end. |
| `e1000_send` | 1 task, requests that arrive, rings of 2 and 3 | 1 354 000 | A send that no other one cuts into, and that has no descriptor without a command in front of it as the first send does, goes out exactly once and as a frame of its own before it returns; one that is not cut into returns. |
| `e1000_receive` | 1 poller and the handler, all kinds of packets, rings of 3 and 2 | 5 292 000 | A packet of the handler's is forgotten in the ring only when one interrupt told of it and of a send or a change of the link (`ForgottenOnlyIfMerged`); while descriptors are given back in order the card stops only at a full ring and overwrites nothing unread. |
| `system_calls` | 2 tasks, each of which uses files or reads lines, 1 file, 1 descriptor each, 3 bytes written; or 2 `Tcp` sessions, the first with 2 messages and a push, an end or both in one; or 4 `Programs` of 1 or 2 pages on 12; or 2 shells that interpret one of 8 programs (`Sxe`) | 9 541 000 | A file is what the writes that succeeded made of it, unless they overlapped or missed its old bytes; a descriptor's size is that of its copy; a reader of a line who is alone finds its registers and its keys. A session with a port of its own is kept apart from others; a program that is loaded alone runs its whole file if its pages lie together and no stack reaches them; calls of an undisturbed interpreter return where they came from while one entry of the call stack is free. |

Bounds. Two preempted callers are enough for every race of two; the third party
(card, `addTask`, keyboard) is an actor of its own. Two pages are enough for a page
that is raced for beside one that is not, and for a request that is passed behind
its cursor. Three tasks let the table grow twice, once while a shell waits and once
from a program that has become a shell; the sleep of the boot is as long as in the
code, since it is what fills `tasks[0]`. In `fat_fs` the largest write takes two
sectors of a cluster of one, the directory can be full, the search can find a file's
cluster or none, and two writes may be of the same file or of two. Three keys and
lines of two let a line end both ways. In `e1000_send` the handler's answer meets
the task's send at each of its eleven loads and stores, with a ring that goes round
and with one that is not ready. In `e1000_receive` poller and handler meet at
different descriptors and at the same one, and the ring can fill. In `system_calls`
three bytes let a write be lost between two others, one file and one descriptor
bring all calls together and let the table be full, and a task that was reading a
line can be met at each of its four stores and three loads. Both rings are
initialised as in the code, with the transmit tail at the last descriptor the card
runs over. In `Tftp` the process of the first fetch is alive during the second, a
block of each length occurs (full, short, padded and empty), and `doubled` lets one
process repeat twice or both once. In `Network` a ring of three comes round during
one exchange; two queries at once are disturbed by one stray packet, a query or the
boot alone by two. In `Ide` one place is empty, so that both places of a channel and
both channels occur. The eleven drives of `Volumes` have every type of partition, a
table of GUIDs with an unused entry, boot blocks that are none, other file systems
and FAT32 with the kernel; two drives are enough for the letters to be counted on.
In `Ehci` two looks stand for 25, which lets a request be given up before, between
and after the controller's steps, and the next one be offered while the controller
is at any of its descriptors; the two configuration spaces have a list of one and of
two capabilities. Three ports of `Xhci` are two devices and the last port, which the
driver leaves out; the event ring is given 26 places, fewer than the 32 of the code.
In `Tcp` the second session only receives, which is where numbers of one port meet
those of another. In `Programs` the first program only makes the second shell, so
that two shells can load at the same time; an entry of the table maps four pages
instead of 512, and a page of somebody else may be in the way. An image of `Sxe` has
ten words and the call stack three entries, so that programs of seven or eight
instructions can run over either; two runs at once are both of the program with
nested calls. Deadlock is checked in `multitasking`; the others may stop: the
allocator when everyone spins, `FatFs` at its bound of writes, `Console` at its
bound of keys, `Ahci` when the drive has stopped and all tasks poll it, `E1000` when
nothing arrives any more, `SystemCalls` when the registers of all tasks got mixed
up, and the machines that start, read or fetch once when they are done, wait for
what was lost, or were stopped by their driver.

Fairness. The timer never stops (100 Hz, `multitasking.c:196`), so `Tick` is
weakly fair. A task in a polling loop of the kernel turns it many times in its
10 ms, so a step that is possible whenever the task has the processor is not
missed forever: strong fairness of `Turn(p)` in `Multitasking`. `EveryTaskRuns`
is checked, not assumed; the other modules assume weak fairness of a task's
steps because of it. Nothing is assumed of programs, shells, keys, writers or
reboots. A drive that was issued a command answers, well or with an error. The
network card works through its queue, and a task gets steps between interrupts
(strong fairness of `TaskStep`, because the handler stops it). The server of
`Tftp` does not give up: a block that was lost gets through at last, which is
strong fairness of the copy that is not lost. In `Network` tasks run and what
was not lost arrives; losses are noted in `gone`. An IDE drive answers; an AHCI
engine that is told to stop stops; the XHCI controller halts when it is told to
and tells of the changes at its ports, as the code waits for nothing else of
it. In `Ehci` the firmware lets go and the reset ends, because the driver waits
for them without a limit; nothing is assumed of the device or of when the
schedule stops, because requests are given up. `Tcp`, `Programs` and `Sxe` are
checked for safety only.

Disagreements with the documentation.  `src/README.md` lists reading and
writing of file systems as working, and FAT32 among them (`src/README.md:46`);
three runs show what the code does instead (`findings` in `PROJECT.json`): the
search for a free cluster looks at memory behind the sector of the FAT and never
stores its mark (`fat_new_files`), a name is compared only up to the end of the
entry's name (`fat_names`), and the size of a FAT is always taken from the 16-bit
field, which a FAT32 volume leaves 0, so that its root directory is looked for
where its FAT lies (`drives_fat32`, `fs/fat.c:494`).

## 4. The proofs

All theorems hold for every value of the constants that satisfies the named
assumptions of the module, and are checked by TLAPS.

*`PageAllocatorProofs`.*  `RaceInv` says, for pages that were not raced for,
that the byte is 1 exactly when one caller was handed the page once; it is
inductive because a caller that stores on a byte that is already 1 puts the
page into `raced`.  `TypeCorrect`, `AlignedRequests`, `SharingNeedsTheRace` and
`MapIsExact` follow for any callers.  Under `Alone` (one task, no card, no new
tasks) a second invariant says that `raced` stays empty and that everything
behind the cursor is taken or does not suit; it gives `BootExclusive`,
`BootSpinsOnlyWhenFull` and the refinement `BootImplementsOwnership`.

*`MultitaskingProofs`.*  The invariant relates three things the code keeps
apart: that `vl < cmt`, that the context at place `p` is that of task `p`, and
the boot task's sleep with the number of ticks so far, from which follows that
`tasks[0]` was saved before the first `addTask`.  `since` is related to the
distance from `vl`, which gives round robin for every size of the table.
Besides the four invariants two action properties are proved: registers change
only by their task's own steps, and a wait ends only after an exit.

*`FatFsProofs`.*  Types for every geometry (this is where the arithmetic of sectors
is bounded); names are unique because a copy that has a name twice would have been
made from a directory that has it, which `NamesInv` carries through every task's
copy; entries stay because a copy that is not stale agrees with the disk on all
entries in use, but for the one that is written. `WritesAreDurable` and
`ReadersAreRight` rest on one more invariant. Its parts: clusters of different files
are apart, in the directory and in every copy of it, because both come out of the
same views; a copy that no other write has overtaken differs from the directory in
the entry of its own file only; the sectors of a committed file hold the bytes of
its version, and a copy under way has the bytes of the sectors it has passed.
`FitAssumption` says that the files the volume begins with are of one cluster, as
those are that the driver writes.

*`DrivesProofs`.*  For the port: `Inv` says what the slot holds at each place of a
transfer that is alone, and that a cleared bit then means that the transfer was
made; it needs that transfers that overlap are all in `mixed`, and that the drive is
at work only while somebody polls.

For IDE (`CalmReadsCorrect`): `LoneInv` says of a read that began while no drive was
at work that no other channel is, and what its own holds at each place; where the
flag is waited for, either the flag is clear and the command is not answered, or the
sector lies at the port, or the error bit is set (`AnswerInv`). For volumes
(`LettersCorrect`, `StopsCorrect`): `WalkInv` says which device is the one that is
looked at, `PlaceInv` what the walk has come to and what it has left uncounted,
`VolumeInv` that a letter has its boot block where it was found, and `PassedInv`, of
the letters of the drive that is looked at, that its offset is that of a partition
at or behind theirs which the walk has passed: so the next move only goes further.
Why a boot stops needs `CoverInv`: a drive that was passed and has a volume has a
letter unless a transfer failed at it (`CoveredInv`), so have the partitions passed
on the drive that is looked at (`WalkedInv`), and the drive of `A:` is the first of
those with letters (`LeastInv`). The assumption on machines is that a block which
begins a volume has a size of a sector other than 0.

*`E1000Proofs`.*  `OrderInv` says that the unread descriptors are exactly those
behind the tail and before the head as long as they are given back in order, also
while an actor is between the clearing of a descriptor and the move of the tail;
`DeafCorrect` and `OverwriteCorrect` follow for rings of any size and any number of
pollers.  `SeenInv` says that a packet the handler has not come to in its walk is
still ahead of it, has its interrupt pending, or was hidden by a send or a change of
the link; it gives `ForgottenCorrect`. `SendInv` says of a send that nobody cut into
that it is the only one between its first load and its store of the tail, finds
`tx_cur` where it left it, and has its packet ahead of the card until the card has
passed it. If it is not in `behind` either, the card holds no fragment, and no
descriptor from its head up to that of the send is without a command (`Whole`), so
what goes out is the packet alone; this gives `SendsCorrect`. `Overtaken` is what
three senders show and two do not: a later send may come round to the descriptor of
one that still waits for the card, which then counts as mixed, too.

*`ShellsProofs`.*  For file and line calls: `FileInv` says, for a call that is not
stale, what it knows of its file at each place: the size, then the bytes, are those
on the disk.  With it a store that adds a byte adds it to the file as it is, which
gives `AppendsCorrect`; and a descriptor gets a size that is its copy's, which gives
`DescriptorsCorrect`.  `LineInv` says that the globals a lone reader has stored so
far are its own; it needs that nobody else reads, which is in the invariant because
the second reader puts both into `crossed`.

For TCP (`SessionsCorrect`): `PortInv` says that a session which is not entangled
has a local port that is nobody else's and that the counter has passed (`OwnPort`,
`Apart`); with it each of its entries of the tables changes only in its own steps.
`TalkInv` then follows the two ends: what the peer expects is the number of its next
message unless one was hasty, and what is acknowledged is never more than what was
handled, though over a card that counts short it may be less (`NumbersInv`); and
what is on the way, waits for an acknowledgement or was delivered comes in the order
of its numbers (`WireInv`, `PeerInv`, `MessagesInv`). The proof found that the ghost
`entangled` was too small: with four sessions, two whose making overlaps can move
`tcpswitchboardpointer` back, and one that is made alone later gets a port that is
in use. `Meets` counts that now; three sessions never show it.

For programs (`ProgramsCorrect`): a start has a number of its own, and two at a
time are mixed (`LoadsInv`); the first page that it asks for is at the beginning
of an entry and stays its own (`BasesInv`); while it is alone the path is the one
that was typed (`PathInv`); and what was read lies in each page that is its own and
that no stack reaches (`ImageInv`). Pages that begin entries are an entry apart
(`EntriesApart`), and a program is no longer than one, so no other file is read
over it. `StackInv` says that a task has no stack before it begins, so that its
stack covers its own page and no page was covered before.

For the interpreter (`CallsCorrect`): `CallsInv` says that a run which is not in
`disturbed` is the only one, has an entry of its call stack free, and that the
common processor holds its open calls (`Holds`). The lemmas before it are about
bytes: what a store of a byte or a word leaves alone (`Stored`, `WordStored`),
where the fields of `SXE_CPU` are (`Layout`), and so that every instruction but
CALL and the return stores behind the call stack or into the memory pointer
before it (`SameCalls`). CALL writes the one entry at the pointer (`HoldsMore`);
a return clears the entries above the last call and of it (`HoldsLess`), and with
an entry free neither is the pointer. The bits of a word are a set (`Bits`,
`OfBits`), since the prover does not know `Bitwise`.

The three theorems have the assumption on their constants as a hypothesis:
sessions are finitely many, the memory is a whole number of entries, an image is
of words whose addresses fit in an argument, and the call stack has at most the
ten entries of `sxe.h`.

*`WaitingProofs`.* For line buffers: the slot of every reader that has marked
one is marked in the map, unless it is in `shared`, where a slot gets when a
reader marks it too late, and stays while anybody else has it. For keys:
whatever has been taken, or lies in the byte, was pressed before what will be,
and every line is increasing. For a calm reader: the byte is still the key that
it polled, and no line has it yet. The three theorems hold for any number of
readers and slots and any length of line.

For packets that are waited for (`AnswersCorrect`): `RingInv` gives every
descriptor of the ring its place in the order of arrival, `HeldInv` says what a
pointer into the ring points at as long as the card has not gone round to it
again, and `PacketInv` that what came was sent as an answer: an address of
hardware is that of the address asked for, the answer to a name belongs to a
task with its number. For a file (`ReadsCorrect`): while nothing that has
arrived is sent again, the process of a fetch and the client take turns and at
most one packet is under way (`TurnInv`), what the client has taken is counted
and stored (`CountInv`), and the other fetch has not begun or is over
(`OtherInv`). What a block counts is `Step`, which is a full block over a card that
leaves the checksum in, and then the sum comes to the size with the last block; over
one that takes it off (`ShortCountsCorrect`) it is less, the sum of n blocks stays
below n full ones, and only a padded last block can bring it back to the size
(`MadeUp`). All have the assumption on their constants as a hypothesis.

*`UsbProofs`.* For the stick on EHCI: `ChainInv` says that a request has the
descriptors of its kind and that they are done in their order. `PairInv` follows
what the device may still hold of requests that were given up: a command that was
sent has an old tag, one with the latest tag is for the sector under way, and a data
packet that was taken is followed by the status of its own command, or by one that
is no status; with the comparison of tags in the code this gives `SuccessCorrect`.
`WatchInv` says that the driver gives a request back only when the descriptor it
watches is no longer active, which for all requests but a command is the last one;
`BehindInv` that a controller which is still at an earlier request has not touched
the one that was offered, that this earlier one was given up or is a command whose
first descriptor is done, and that no status is asked for meanwhile, so that what
the other invariants say of packets holds for what it does there, too. The two give
`GivenBackCorrect`; `PagesInv` counts the pages of each place of a sector
(`PagesCorrect`). `NoneAssumption` says that the model value for nothing is no
packet. For XHCI: `PastInv` says that every block that is in an event, or that the
controller has not done, lies before the place where its ring goes on; so the block
a request waits for is new to all events before its bell (`OwnInv`): the search,
which takes the first event that names it, passes all of those, and `EventsCorrect`
follows, with the requests in any number of installations. `CountInv` adds up what
is in the event ring and what may still come, the changes of ports and the blocks at
work, and compares it with the requests made so far: 14 events at most of the first
device that is not the last, 8 of a second, which gets slot 2 and so never past its
endpoints. It gives `EventsFitCorrect`: the ring, which nobody empties, is never
full if it has more than 22 places and one for each port. The bound is tight (TLC
fills 25 places with three ports); the 32 of the code do for nine ports. Both
theorems have the assumption on the constants as a hypothesis.

Some properties are proved and not checked by a run any more: the types
(`TypeCorrect` of each module), `SegmentsCopied`, `NamesAreUnique`,
`NothingElseIsMoved`, `RegistersArePrivate`, `WaitIsForAnExit`, and of `Console` `CalmReadsAreExact`.

Every invariant that a passing run checks is a theorem. Only model-checked:
everything about liveness (`RequestEnds`, `TasksGoOn`, `KeyIsRead`,
`NetworkEnds`, `DrivesEnd`, `HostsEnd`, `SendEnds`), which is out of the
prover's reach.

## 5. What is not modelled

Whole components: the 32-bit scheduler, which walks its table with interrupts
off; `ohci.c`, which only resets its controller; `rtl.c`, whose tables of 16 KB
are each given one page (`rtl.c:175`), so that what the card does with them is
not determined by the code; the loader of modules and the debugger; graphics,
fonts, serial port, clock and the descriptor tables, which have no state that a
step of another actor can disturb; the boot loaders, which load the kernel and
jump to it; the programs under `src/programs` (fasm is vendored) and their
library.

Inside modelled components: the parts of an ELF file; the listing of a directory
and the walk along a path; the packet command of optical drives on AHCI; the
mouse; read, seek and tell, which move the pointer of a descriptor that only its
task has; the choice of the two memory areas and the identity map; the tables of
ten devices and ten file systems at their end; sends and polls that fail (those
of `e1000.c` never do); the bytes of headers, and the echo.

Consequences of C that are named but not followed: stores behind the table of
tasks after ten programs, behind the map of pages on machines with more than 4
MB of free memory, and at address 0 when `malloc` fails; `freePage` of an
address a program made up (system call 409), and of the receive buffer that DHCP
returns (`ethernet.c:730`), whose page the card goes on to fill.

Properties that need a condition which the code does not give are stated with
it, and show that nothing goes wrong *but* for it:

- `TasksGoOn`: a program that exits before `waitForPid` has set its word leaves its
  shell waiting.
- `RunsItsProgram`: loaded alone, pages that lie together, no stack that comes down
  to them. `CallsReturn`: one interpreter at a time, one entry of the call stack
  kept free. In each of them TLC finds a counterexample when a condition is left out.
- `AppendsAreKept` and `DescriptorsAreWhole`: calls that overlap on one file, or
  failed, are on record and lose.
- `CalmReadsAreExact` of `Ide`: reads that begin while a drive is at work, which a
  late interrupt may end, are left out; that of `Console` speaks of a reader that
  nobody interferes with.
- `DrivesEnd`: a drive that has stopped with an error lets the next transfer poll
  forever (`ahci.c:119`), and so does an error bit of IDE (`ide.c:93`).
- `HostsEnd`: a list of more than one capability may be walked round forever.
- `SectorKeepsPages` counts pages and does not tell them apart.
- `ReadIsExact` and the end of a fetch: a card that leaves the checksum in the
  length of a frame (`rtl.c` looks like one), and a file whose last block is neither
  padded nor empty. Over the card of `E1000` no other read than those of
  `ShortCountsDoNotEnd` returns. With a length that is a multiple of a block the
  empty block is taken for the answer to the second request (`tftp.c:299`).
- `SessionsAreOwn` is about safety: over the card of `E1000` a push is never
  acknowledged in full (`ethernet.c:610`), so nothing is claimed of how far a
  session gets.
- `SendsGoOut`: the first send after the start goes out behind seven descriptors
  without a command (`e1000.c:206`, `217`).

Left out besides: what lies in the pages of an EHCI request that were given back and
taken again while the controller still reads them; events of an XHCI request that
was given up and come after the next bell (they name other blocks, and `Post` drops
them); that the packets `getIPFromName` hands to the handler are answered
(`ethernet.c:450`): `Network` takes them as gone, and `E1000` and `Tcp` have the
answers. The leak of a page per TCP segment (`ethernet.c:207`) is an action of
`PageAllocator`.

## 6. Plan

Done: the modules of section 2 with their runs, and the proofs of section 4.
Left, in this order:

1. Refinement between layers, so that the assumptions of section 2 become
   theorems or runs: `FatFs` over `Ahci` (a transfer of a call as the steps of
   the port), one abstract transfer that `Ahci`, `Ide` and `UsbStick` implement
   for a caller that is alone, `SystemCalls` over `FatFs`, `Network` and `Tftp`
   over `E1000`.
2. `_test_handler` of the 32-bit scheduler as a variant of `Tick`, and the walk
   of `fat_dir` along a path.
