# nvmevirt_hybrid in TLA+

A verification development for the NVMe device emulator in `src/`: TLA+ modules
translated from its code, TLC configurations that check them on small
instances, and TLAPS proofs for every instance.

## The system

NVMeVirt is a kernel module that presents itself to the host as a PCI NVMe
drive. One *dispatcher* thread polls device registers and doorbells, runs the
flash translation layer (FTL) of the namespace, which computes when a command
would finish on real hardware, and enqueues the command to one of several *I/O
worker* threads. A worker copies the data at once, waits until the computed
time, posts the completion and raises the interrupt. The threads share memory
and, with few exceptions, no locks. Which FTL is compiled in is a build option
(`BASE_SSD` in the Makefile): simple, conventional/hybrid, zoned, key-value.

| component | state | operations | correct when |
|---|---|---|---|
| request table (`io.c`) | per worker: table of entries, free list, I/O list, `proc_io_nsecs` | enqueue a command or a writeback, reclaim; worker: walk, copy, complete | no entry is lost or shared, nothing completes twice, early, or never |
| queue pairs (`io.c`, `main.c`) | rings, doorbells and their old values, `cq_head`, phase, `interrupt_ready`, two locks | poll doorbells, fetch or be refused, post, interrupt, acknowledge | each command reaches the host exactly once, by interrupt |
| zoned FTL (`zns_*.c`) | zone descriptors, resource counters, write buffers | zone management send (7 actions, one or all zones), write, append, ZRWA write, reset, explicit flush | counters equal the states, write pointers only advance, buffers are not over-committed |
| write buffers (`ssd.c`) | `remaining` under a lock | allocate (dispatcher), release (workers), refill (reset) | space is neither invented nor lost |
| hybrid FTL (`conv_ftl.c`) | page map and reverse map, lines, per-LUN write pointers, write credits, hotness table | read, write, GC, SLC to QLC migration | maps are inverse, lines are in one list, counts match page states |
| key-value FTL (`kv_ftl.c`, `bitmap.c`, `append_only.c`) | open hash table with chains, iterators, allocator | store, retrieve, delete, exist, iterate, batch | behaves as a map |
| priority queue (`pqueue/`) | array heap with positions | insert, change priority, pop | behaves as a priority queue, positions right |
| admin queue, registers (`admin.c`, `pci.c`) | registers and shadow copies, admin rings, queue tables | poll each register, execute admin commands, create/delete queues, shut down, reset | each admin command answered once and in order, also across restarts; queues exist while used |
| timing (`channel_model.c`, `ssd.c`, `simple_ftl.c`) | credit ring, `next_lun_avail_time` per die | reserve bandwidth, chain NAND commands over die and channel, flush | the ring shows what is left of the bandwidth, a die serves in turn, a flush covers everything before it |
| data transfer (`io.c`, `dma.c`) | `paddr_list`, shared by the workers | walk PRPs, copy; gather addresses, one DMA transfer per run of contiguous pages | every byte of the command, and no other, at its place |

Interaction: dispatcher and workers share the request tables (no lock) and the
write buffers (a spin lock); workers and host share completion rings and
interrupts; host and dispatcher share submission rings and doorbells. FTLs run
only in the dispatcher; they reach the workers through `enqueue_writeback_io_req`,
whose completion is a `buffer_release`.

Hard to test: a worker that stands on an entry while it is reclaimed and
reused; stores observed half-way; a refused command in the middle of a batch;
wraps of rings and phase; interrupts that coincide with posting; register writes
that fall between two comparisons; a restart with state of the last life; long command
sequences that shift a counter by one or leak buffer space. `PROJECT.json`
lists these hazards at their lines.

## Modules

| module | models | composed of |
|---|---|---|
| `ProcTable` | the request table of one worker | dispatcher steps, worker steps, clock |
| `ProcTable_proofs` | theorems about `ProcTable` | extends `ProcTable` |
| `QueuePair` | submission queues sharing one completion queue, and the host | host, dispatcher, workers |
| `QueuePair_proofs` | theorems about `QueuePair` | extends `QueuePair` |
| `Controller` | registers, admin queue, creation and deletion of I/O queues, and the host driver's life | dispatcher, workers, host |
| `Controller_proofs` | theorems about `Controller` | extends `Controller` |
| `Transfer` | moving a command's data, with memcpy or DMA | workers, each with a command |
| `Transfer_proofs` | theorems about `Transfer` | extends `Transfer` |
| `ZnsFtl` | the zoned FTL and its write buffers | commands, writeback completions |
| `ZnsFtl_proofs` | theorems about `ZnsFtl` | extends `ZnsFtl` |
| `ConvFtl` | the write path of the conventional and the hybrid FTL | dispatcher steps, writeback completions, clock |
| `ConvFtl_proofs` | theorems about `ConvFtl` and about `PQueue`, the queue of its victim lines, among them that it implements `PriorityQueue` | extends `ConvFtl`, `PQueue` |
| `PriorityQueue` | abstract: a set with priorities | |
| `PQueue` | the heap of victim lines; implements `PriorityQueue` | |
| `KvMap` | abstract: a map of keys to values | |
| `KvFtl` | the key-value FTL: hash table, allocators, iterators; implements `KvMap` | steps of the workers |
| `KvFtl_proofs` | theorems about `KvFtl`, among them that it implements `KvMap` | extends `KvFtl` |
| `ChannelModel` | the credit ring of a NAND channel or the PCIe link | requests, slot by slot |
| `Ssd` | NAND commands of the dies of one channel, and flush | extends `ChannelModel`, whose requests are its transfers |
| `Ssd_proofs` | theorems about `ChannelModel` and `Ssd` | extends `Ssd` |
| `MC*` | for TLC; values in the `.cfg` files | |

Definitions named "faulty variant" are deliberate one-line bugs next to the
operator they imitate; no specification uses them. They serve to confirm that
each property notices such a bug.

### ProcTable

`proc_table`, `free_seq`, `free_seq_end`, `io_seq`, `io_seq_end` and
`proc_io_nsecs` are the fields of `nvmev_proc_info`. `d` is the dispatcher's
position in `__enqueue_io_req` / `enqueue_writeback_io_req` (the two share
their code but for the fields they set: `IsWriteback` tells them apart), `w` the
worker's position in `nvmev_kthread_io`. A request is a command or a writeback
of a command. `late`, `torn`, `dropped`, `copied` and `posted` are history variables.

Granularity: the dispatcher's stores into an entry are separate steps from
`is_completed = false` on, because a worker that stands on the entry since an
earlier life of it can observe them; before that store such a worker skips the
entry. Linking and reclaiming are single steps: each becomes visible to the
worker through one store. x86 keeps stores in order, so nothing is reordered.

A target may be reached before its entry is linked: an FTL may return one that is
already due (zone management commands do), and the clock runs on while the
dispatcher works. `late` records that this has happened, `torn` that a worker has
served an entry while it was being filled in. The lists are right whatever happens.
Completing once and reclaiming only what is over are stated for behaviours that are not
`late`: a worker on a reused entry can complete a new request with the flags of the
old one. Completing only after the copy, and completing at all, are stated
for behaviours that are not `torn`; a late target alone does not break them. They
fail otherwise: a worker on the entry of a completed writeback, while the
dispatcher refills it for a command, finds `is_completed` and `is_copied` FALSE
and `writeback_cmd` still TRUE. It then marks the command copied without copying, or
releases the buffer of the old writeback a second time and marks the command completed,
which the host never hears of.

### QueuePair

`sq`, `dbs`, `old_dbs` and `cq` are the rings, doorbells and
`nvmev_completion_queue`; `d` is the position in `nvmev_proc_dbs`; `w[i]` the
worker's position in `__fill_cq_result` or in the interrupt loop. A worker
completes its requests in any order, which is what arbitrary targets amount to.
`__get_io_worker` gives every submission queue its worker, and the completion queue
the one worker that signals it; all of them fill it. As `__fill_cq_result` reads
`cq_head` before it takes `entry_lock`, two of them can fill the same entry.
`crossed` records that this has happened; a completion has then been overwritten, and
the properties of ring entries are stated until then. `InterruptNotLost` and `InFlightCounted` are
stated without that guard. `cq_start` lets the ring begin anywhere, as for new submission queues on
a completion queue that has been in use.
The host is external: a driver that reuses a command id after consuming its
completion, is woken by interrupts, may also poll, and has fewer commands
outstanding than a ring has slots (`QueueSizes`; the device never checks).
`SqStop` before the end of a batch is an FTL returning false.

### Controller

`bar` and `dbs` are the memory the host writes, `old_bar` and `old_dbs` the shadow
copies. `nvmev_proc_bars` compares four registers, `nvmev_proc_dbs` the doorbells: one
step each, so that the host's writes fall between any two. `cc` is compared, read
again for each of its bits, and read once more for the shadow copy; those are steps too.
A host write that falls between the test of its bit and the copy is never acted on: the host waits
for ready, or for the end of a shutdown, and the dispatcher sees no difference any more.
`d.missed` records that, and `AdminAlwaysAnswers` excuses only the wait for that very
write. Admin commands are
executed and answered in two steps; a worker's request is copied and completed in
two, each of which looks up the queue by number at that moment. The host is
external: it follows the initialisation sequence, keeps fewer commands outstanding
than the ring has slots, sends the commands that create and delete queues one by one,
and may shut down or reset at any moment and start again with its admin queues
at the same place or elsewhere.

Three things go wrong in the code and are named in `trouble` when they do, so that
the properties can speak of everything else. `unqueued`: `cc` is seen in the
round that did not see `asq` or `acq`, the controller reports ready, and a
command rung then dereferences NULL (`AdminCrash`). `stale`: a start finds head or phase of the
last life (the phase is never reset, the head only with a new `acq` or a
shutdown). `unanswered`: abort, get features and unknown opcodes get no
completion entry, but the head moves on. `forced` is a host that deletes or resets
with I/O commands outstanding.

`unqueued` and `stale` are about the current life, and a start without them takes them
back. `misstarted` says that some life began with one of them, and nothing takes it back: after
such a start the two sides can be so far apart that the damage outlasts the life. The
host takes the zeroed entries of an old ring for answers, believes itself ahead of
the controller and writes over commands not yet fetched; a `delete_sq` is then
executed twice, the second time in the next life, under a worker that uses the queue.
`WorkerUsesItsQueue` therefore speaks of behaviours without `misstarted`.

### Transfer

A frame of host memory and a sector of the storage area hold the name of the block whose
content came there. `walk[w]` holds the loop variables (`prp_offs`, `prp2_offs`,
`remaining`, `offset`) of worker `w`; one iteration is one step. `paddr_list` is the
static array of the DMA path, `shared` tells that two workers were in that path at
once, `failed` that the engine reported an error, which the code ignores. Reading a PRP
entry behind the host's list yields 0 in the model; `WalkStaysInList` says that
this does not happen. Two assumptions say what the host owes: a command's pages cover
its blocks (`CmdAssumption`), and it does not read, while a write is in progress, from where
that write reads or writes (`ApartAssumption`), because the order of two such
commands is open.

### ZnsFtl

`zone_descs`, `acquired` and `remaining` are the descriptors, `res_infos` and
the buffers; `pending` counts writebacks in the workers' hands. Addresses are
zone and offset. One operator per `__zmgmt_send_*` function, with the status it
returns as last parameter; `select_all` takes one step per zone (`loop`). A
write is one of: no buffer space (returns false), refused, accepted; likewise
for ZRWA writes, which may also hit `NVMEV_ASSERT(0)`, after which the dispatcher
is dead (`Alive`). `Enqueue` may lose a writeback, as a full request table does.

### ConvFtl

`maptbl`, `rmap`, `wp` (user writes), `lunwp` (hybrid), `hotness`,
`last_check` and the write buffer are the code's; `cmd` is the rest of the
command being written, one step per page. `conv_write` turns sectors into pages as the code
does, rounding first page and number of pages down each for itself: a
command shorter than a page takes buffer space and maps nothing. `get_new_page` cuts an address to
the fields of `struct ppa` (`CH_RANGE` and the like). `bug` names the assertion or wild
pointer that stopped the dispatcher. One fact shapes the module: the write path
calls neither `mark_page_valid` nor `mark_page_invalid`. Pages therefore stay
`PG_FREE`, the counts of lines stay 0, no line ever becomes a GC victim, and every
assertion about valid pages is decided. The module says so instead of carrying
counters that are always 0, and GC has no action. `lunwp` is memory from `kmalloc`
that nothing initialises, so `Init` chooses it from `LunWps`. The NAND constants
(`NAND_CHANNELS`, `BLKS_PER_PLN`, ...) are defined nowhere at this commit; the
geometry is a parameter. One partition is modelled; with it every page the
host can name is below `tt_pgs`, as `set_maptbl_ent` asserts (`PartitionAssumption`). `Hybrid`
says which build runs; it is chosen at the start, and no step changes it, so that one run checks
both builds. The conventional one is the `#else` of the code's `BASE_SSD == HYBRID_SSD`; at this
commit no value of `BASE_SSD` compiles it with a complete configuration, so its properties are
about code that is there but not used.

### PQueue

`d` and `size` are those of `pqueue_t`, `vpc` and `pos` the fields of the lines
that the callbacks read and write. A loop that moves an item along a path of the
heap is one function: where it stops, and who shifts by one. An array entry behind
`size` is forgotten (`None`). `select_victim_line` pops the first line or refuses one with more
valid pages than `few_valid`, unless forced. `pqueue_remove` has no caller and is left out. Every
insertion of a line comes behind an assertion about valid pages that fails at this commit, because no
page ever becomes valid (see `ConvFtl`): the queue stays empty, and the module is about its code.

### KvFtl

`kv_mapping_table`, `storage`, the allocators' `bits`, `last_pos` and `latest`, and
`iter_handle` are the code's. Key commands run in the I/O workers, so `w[i]` is the
position of worker `i`: lookup, search for space, marking it, copying, choosing
the slot, filling it, chaining. Those are the points where another worker's steps
can come between. `kept` is the map the host expects; with `reply` it is the
mapping onto `KvMap`. Outcomes that end a worker are values of its `pc`: `spin`
(probe in a full table, or chain in a circle) and `wild` (a value copied behind the
device, where the mapping table lies: nothing is modelled after it). `mishaps` records what
the code has lost so far, as a map would not: `link` (`chain_mapping` or the deletion of an entry has
cut the only link to another), `value` (a store has written into another key's value) and `length`
(an update has left the old length). The refinement of `KvMap` promises nothing after
a mishap. Lengths are in units; the host's habits (which lengths it
gives the values of a key) are constants, because the code only supports updates
within the small class. The runs have one worker: with two, a key can be mapped
twice (see `KeyMappedOnce` below).

### ChannelModel

The fields of `struct channel_model`, plus `call` (the loop over slots, one step
each) and the history `used`: how many credits have been taken of every slot of
absolute time. Two widths of the code are parameters. `UintRange` is 2^32, the width of the
offsets by which `head` moves; `shortened` records that `head` has moved by less than the slots
that passed, as it may after a pause of 2^32 intervals. `CREDIT_RANGE` is 2^8, the width of a ring
entry (`credit_t`): a slot is filled with `FullSlot`, `max_credits` modulo that, which is less than the
bandwidth from 256 credits on. Requests come in
order of the time at which they are made, for any time.

### Ssd

One channel with its dies. `ssd_advance_nand` is computed in steps, because its
transfers are requests to the ring (`op`): a read senses, then transfers in pieces of
`max_ch_xfer_size`; a program transfers first; an erase and a NOP need no channel.
`media` is the history of what each die did from when to when. Latencies are any of
a set: cell type and region only choose among them. The PCIe link, whose ring is another
instance of the same code, only adds to a read's completion time.

## Runs

| run | bounds | shows |
|---|---|---|
| `table` | 3 entries, 4 requests with up to 1 writeback, clock 0..2 | `ListsPartitionTable` always; `CompletedAtMostOnce`, `FreeEntriesAreOver`, `IoListAscending` unless late; `CopiedBeforeCompleted` and, under fairness, `AcceptedIsCompleted` unless torn |
| `queue_pair` | 2 submission rings of 3, a worker each, on one completion ring of 5 entered at its last slot; 2 command ids each, 3 commands | `InterruptNotLost`, `InFlightCounted` always; `EveryCommandInOnePlace`, `PhaseTellsNewEntries` and, under fairness, `EveryCommandReceived` until an entry is filled twice |
| `controller_admin` | admin rings of 3, 5 admin commands, 1 I/O command per queue, 2 lives | `AdminAnswersInOrder`, `IoCommandsConserved`, `WorkerUsesItsQueue`; `AdminAlwaysAnswers` under fairness, but for a missed write of `cc` |
| `transfer_prp` | pages of 2 blocks, every order of 4 frames, every offset, lengths 1..6, reads and writes, a flush; with and without DMA; another worker's write | `TransferExact`, `WalkStaysInList` |
| `zns_zones` | 2 zones of 3 LBAs, one-shots of 2, write buffer of 4, with and without ZRWA of 1 LBA and buffer of 2 | `ResourcesMatchStates`, `ZrwaResourcesCovered`, `WritePointerMatchesState`, `ZoneLimitsNeverHit`, `WriteBufferNotOverCommitted`, `OnlyResetRewinds`, `RefusalChangesNoZone` |
| `conv_write` | both builds, pages of 2 sectors, commands of 1..4 sectors from any sector; 2 lpns and lines of 16 pages, or 4 lpns, a hotness table of 3 and 6 kinds of uninitialised pointers | `MapsInverse`, `LineFilledCompletely` until the line is used up; `HotnessTracksPages` |
| `hybrid_migration` | the hybrid build, zeroed pointers | violated: the assertion behind "Cold SLC pages → migrate to QLC" |
| `pqueue_heap` | 6 lines, 3 priorities, selections forced or not | `PosTellsMembership`, `ImplementsPriorityQueue` |
| `kv_map` | 3 keys with 2 hash values in 3 slots, 2 small cells and 1 large, 4 allocations, batches, updates of another length | `ImplementsMap`, until a mishap |
| `kv_chains` | 3 keys with 2 hash values in 4 slots, 5 allocations, append-only allocator, an iterator with 1 key per read | `ChainsLeadForward`, `IterationMissesNothing`, `CellsDisjoint` |
| `kv_lost` | 3 keys with 1 hash value in 4 slots, stores only | violated: "if mapping_entry exist -> read" |
| `ssd_nand` | ring of 3 slots of 1 time unit and 6 credits in 2 bits (so 2 per slot), time 0..4 in offsets of 2 bits, 2 dies, 3 NAND commands | `TypeOK`, `RingShowsTime` until shortened, `UnusedBehindWindow`, `LunsServeInTurn`, `FlushCoversMedia` |

Why the bounds suffice. Table: with 3 entries, of which one is never
handed out, every entry is reused and the table fills up; the races involve one
worker position and the entry it stands on, in its old life and its new one. Queues:
two workers that fill one completion ring while the first of them signals it have all the races there
are between `cq_head`, `entry_lock`, `irq_lock` and the mark; the ring is entered at its last slot, so
three commands wrap it, and a submission ring of 3 too; a whole round acknowledged between two polls
is left to the theorem of `InFlightCounted`. Zones: 2 zones make a counter differ from a
flag; 3 LBAs with one-shots of 2 give a whole one-shot, a partial one and a zone
tail; the proofs cover all other sizes for the properties they state. Zones without a
random write area are explored completely; with one, `Explored` (a state constraint of
`MCZnsFtl`) stops at states with some of the write buffer taken or more than one writeback
pending, which the code for random write areas does not look at. In
`zns_zones` deadlock is not an error, because the dispatcher may die in an
assertion; the same holds in the runs of `ConvFtl`, and in those of `KvFtl`, where
the bound on allocations ends every behaviour too. `ConvFtl`: 16 pages make every
wrap of the write pointer happen (one-shot, channel, LUN, block); a hotness table
smaller than the address space fills up (`HostLpns` bounds the pages written in
each build); commands of 1 to 4 sectors are shorter than a page, unaligned, or of two pages. `PQueue`: six items give a heap of three levels with a parent of one
child; lines are interchangeable, hence the symmetry. `KvFtl`: three keys of two hash values are
the least of which one's slot is another's home; three of one value the least that chain twice. The
cells of `kv_map` are fewer than its allocations, in either class. `Controller`: five
admin commands wrap rings of 3 and create, use and delete a queue pair; two lives
show every kind of restart. `Transfer`: six blocks from any offset touch up to four pages, the
least with a list of which more than one entry is read, and four frames can follow each other in memory
in every pattern. `Ssd`: with three slots `head` wraps around and transfers are longer than the
ring, and times go up to the range of the offsets, so that they wrap; two dies compete for the channel, and dies are interchangeable; the proofs cover all other sizes.

Fairness. Dispatcher and workers are kthreads bound to CPUs of their own that
spin, so each has weak fairness, as has the clock. Nothing forces the host to
submit, poll, shut down or reset; its interrupt handler runs when interrupted, and a start
of the controller it has begun goes on. Strong fairness of
`SqAccept` says that an FTL that refuses for lack of buffer space does not refuse
for ever: workers release it. (The zoned FTL can leak buffer space and then
does: see the hazards.)

The two violations are disagreements between the code and its own comments,
scripts or assertions; `PROJECT.json` quotes the lines under "findings".

### Statements that fail and have no run

The modules state more of what comments and assertions say. These fail as well;
each can be seen by giving it to TLC with the constants named.

| statement | says | fails with |
|---|---|---|
| `IoListAscending` (`ProcTable`) without `~late` | "nsecs target ascending order": the insertion walk also stops at an entry that is already due | the constants of `table` |
| `CopiedBeforeCompleted`, `AcceptedIsCompleted` (`ProcTable`) without `torn` | a command is completed after its transfer, and completed: a worker on a reused entry takes it for the writeback before | the constants of `table` |
| `UpdatedPiSeenAtOnce` (`ProcTable`) | "IO worker shall see the updated pi at once": a worker on a reused entry works on it while it is being filled in | the constants of `table` |
| `ReadyAfterQueueAddresses` (`Controller`) | "issue a full SMP memory barrier so that the rest of the changes can be seen in order": `cc` may be seen in the round before `asq` | `Depth = 3`, `MaxCmds = 1`, `MaxIos = 0`, `MaxLives = 1` |
| `WorkerUsesItsQueue` (`Controller`) without `misstarted` | a worker finds the queues its request came from: a life that began with stale rings makes a `delete_sq` be executed again in the next | `Depth = 4`, `MaxCmds = 12`, `MaxIos = 1`, `MaxLives = 2` |
| `AdminAnswersInOrder` (`Controller`) without its guard | admin commands are answered in order: stale head or phase after a restart, commands without an entry | the constants of `controller_admin` |
| `AdminAlwaysAnswers` (`Controller`) without `d.missed` | the host is answered: a write of `cc` between its test and the shadow copy is never acted on | the constants of `controller_admin` |
| `EveryCommandInOnePlace`, `PhaseTellsNewEntries`, `EveryCommandReceived` (`QueuePair`) without `crossed` | "spin_lock(&cq->entry_lock)": the lock is taken after `cq_head` was read, and two workers fill the same entry | the constants of `queue_pair` |
| `TransferExact` (`Transfer`) without its guard | the data of a command and no other moves: two workers share `paddr_list`, engine errors are ignored | the constants of `transfer_prp` |
| `ZrwaZoneNotFilledImplicitly` (`ZnsFtl`) | the `ASSERT(0)` in `__increase_write_ptr`: a ZRWA write to the end of a zone gets there, and the ZRWA resource is never released | the constants of `zns_zones` |
| `ReopenFindsZrwaBuffer` (`ZnsFtl`) | the `NVMEV_ASSERT(0)` in `__zns_write_zrwa`: each write to a closed ZRWA zone takes buffer space that only a reset gives back | the constants of `zns_zones` |
| `KeyMappedOnce` (`KvFtl`) | "if mapping_entry exist ... else -> allocate mem_offset": two workers insert the same new key | `kv_map` with 2 workers |
| `UpdateSetsLength` (`KvFtl`) | "is update with different length": batches leave the old length | the constants of `kv_map` |
| `ExistingKeyFound` (`KvFtl`) by deletion | "if mapping_entry exist -> read": deleting the home entry clears its `next_slot` too (`kv_ftl.c:469`), and the entry behind is not found | the constants of `kv_chains` |
| `Map!Spec` (`KvFtl`) with `broken <- FALSE` | a map, whatever happens: links cut, values overwritten, lengths kept | the constants of `kv_map`, without its constraint |
| `MapsInverse` (`ConvFtl`) without its guard | `rmap` is the "reverse mapptbl": two uninitialised pointers name the same page | `hybrid_migration` |
| `RingShowsTime` (`ChannelModel`) without `shortened` | "Search current time index and move head to it": after a pause of 2^32 intervals `cur_time_offs` has wrapped, and old use shows up as future use | the constants of `ssd_nand` |

Others are visible in the actions themselves. After the last completion of a queue a worker still
has its completion queue in the interrupt loop (`io.c:647`), and a host may have deleted it by
then; `Controller` leaves that loop out. `simple_ftl.c:45` looks at the first I/O unit only, so a
flush may end before an earlier write. `conv_write_page` ends every used-up
line in the outcome `ipc` ("there must be some invalid pages in this line"), and
`WritebackDone` adds 0 to `remaining`, so a full write buffer of the conventional
FTL stays full. The aging branch of `update_page_hotness` compares the current time
with itself and is never taken.

## Proofs

`ZnsFtl_proofs` proves, for any number of zones, geometry, buffer sizes and
counter width above the number of zones (the named assumptions of `ZnsFtl`):
`TypeOK`, `ResourcesMatchStates`, `ZrwaResourcesCovered`,
`WritePointerMatchesState`, `ZoneLimitsNeverHit` as invariants, and
`RefusalChangesNoZone`, `OnlyResetRewinds` as action properties; and
`WriteBufferNotOverCommitted` under `UnitsOfPages`: a write unit is of whole logical
pages.

The inductive invariant `IInv` is the conjunction of types, write pointers,
exact counters, the covered ZRWA counter and "a select_all loop is only in
progress in a live dispatcher". The parts need each other: a release keeps its
counter a `__u32` only because an open zone is counted; a write stays in its zone
only because an active zone's write pointer is below its end, which in turn
holds because reaching the end makes the zone full; a failed acquire would break
exactness, and cannot happen because a zone outside the counted set leaves the
counter below `nr_zones`. The argument is by one zone: `CardChange` says a set of
zones that changes at one zone changes its size by that zone's share, and
`OneZoneStep` reduces every operation to what it does to its own zone and to the
counters. Each `__zmgmt_send_*` function and each kind of write has its lemma;
`StepIInv` combines them.

The space of the write buffers needs one more part, `PagesWhole`: the write pointer
of an active zone without a random write area stands between two pages. Then
a write of `n` LBAs at `wp` ends no more one-shots than there are between the one-shots
of its two ends (`OneshotsEnded`, an injection of pages into quotients), so the space its
writebacks will release is at most what it takes plus what had waited before, less what waits
after it (`OneshotBalance`); the last, partial one-shot of a zone is the tail. `Waiting`
is a sum over zones: `SumShift` moves it with its one changed term. Without
`UnitsOfPages` the property fails: a page written in two parts, the last of its one-shot,
ends that one-shot twice, and the buffer grows by a one-shot (with the constants of
`zns_zones`, but zones of 6 LBAs and pages of 2, TLC shows it).
The repository leaves `WRITE_UNIT_SIZE` (`ssd.c:208`) undefined, and a page has 8 LBAs
(`ssd.c:71`), so the hypothesis says which values a build may give it.

`Ssd_proofs` proves of `ChannelModel` `TypeOK`, `RingShowsTime` and `UnusedBehindWindow` for
every ring size, interval, bandwidth, request length and width of entries and offsets, with no
hypothesis but the `shortened` in `RingShowsTime` itself. `RingShowsTime` alone is not inductive: that the ring
need not move by more than `valid_len` slots rests on everything outside the
window being unused (`UnusedOutside`, which inside a call also speaks of the
entries the loop has passed but `valid_len` does not count yet), and the slots that
enter at the end of the ring rest on `FutureUnused`. `DelayBounded` keeps the loop
within one round. `MoveHeadFacts` is the heart: an entry that stays keeps its slot
of time, an entry refilled takes over a slot that no request has reached yet, and
after a pause longer than the window both old and new slots are unused.

Of `Ssd` it proves, for any number of dies, latencies and sizes, that `LunsServeInTurn` holds and that the ring stays right
(`RingShowsTime`) although NAND commands make requests for times far behind the clock. The ring's
part is the invariant above, which a step of a die leaves alone or extends by one
request. The dies' part says that `next_lun_avail_time` is behind everything its die has
done (`AvailCoversMedia`), and that a command in progress began behind that
and its transfers do not go back in time (`OpInTurn`).

`FlushCoversMedia` needs that `ssd_next_idle_time` is the latest of the dies' times. It is
stated with a `CHOOSE` over a finite set of dies (an assumption of `Ssd`); that a finite set
of numbers has a greatest element is the library's induction over finite sets, done
here by the least size of a counterexample.

`ProcTable_proofs` proves, for a table of any size, any number of requests and any times, all five
safety properties of the run: `ListsPartitionTable`, `IoListAscending`, `FreeEntriesAreOver`,
`CompletedAtMostOnce`, `CopiedBeforeCompleted`. There are no hypotheses but the
`late` and `torn` in the properties themselves, and a table of at least two entries. The
argument has two layers. `ListInv` says that the free list and the I/O list are
sequences threaded by `next` (the I/O list by `prev` too) which with the entry in hand make up the
table; each of `EnqueueFill`, `Link` and `Reclaim` has a lemma that names the new sequences. That the
operators which walk the lists find just those entries is induction over the walk, done by
the least index at which two walks differ. Above this layer only the
sets of entries matter: where the worker can stand (`WorkerInv`: a worker may stand on an entry
that has been freed or is being refilled), what the entries on either list hold (`ReqInv`), and how
`posted`, `is_completed` and `is_copied` agree unless `late` (`InTimeInv`) or `torn` (`CopyInv`).

`QueuePair_proofs` proves `InterruptNotLost` for rings of any size and any number of queues and
workers, with nothing assumed. Its invariant beside it is only that types are kept (`SharedTypeOK`):
an entry becomes new for the host by the store of its phase bit, and the worker that stored it
is then between that store and the mark; a mark is taken off by a worker that signals next, and the
completion of another worker that falls in between marks again, because its mark is the later store.

`EveryCommandInOnePlace`, `PhaseTellsNewEntries` and `InFlightCounted` are proved there for rings of any size and
any number of command ids under `OneWorker`: one worker serves all submission queues of the completion queue.
That is what a driver gets that creates one submission queue per completion queue, as Linux does, and
then no entry is ever filled twice (`NoEntryFilledTwice`: `crossed` stays FALSE). With more workers the
first two are stated until `crossed`; that case is model-checked, with two. The parts of the invariant
lean on each other: the phase bit tells new entries from old ones (`PhaseInv`)
because the ring never fills; it never fills because each command id is in one place only and there
are fewer ids than slots (`PlaceInv`, a count of slots by an injection into command ids); and an id is in one
place because the host reads exactly the entries that are new. `CountInv` says how far the dispatcher is
behind the host's `cq_head`, in whole rounds and a rest; `FreshInv` says where slots that
were never posted to can be, because the dispatcher takes `sq_id` from a slot it has not seen filled.

`ConvFtl_proofs` proves `MapsInverse`, `LineFilledCompletely` and `HotnessTracksPages` for any geometry, any
hotness table and any uninitialised pointers. In the conventional build all follows from
the order in which `advance_write_pointer` visits the pages of a line
(`WrittenBefore`: one-shot, die, channel, page): exactly the pages before the write pointer carry an
lpn (`LineInOrder`), and `ppa2pgidx` gives each page an index of its own (`PageIndex`). In the hybrid
build an entry of the hotness table never changes its lpn, so the slots that probing passed on the
way to it stay occupied (`ProbesFull`), and a later probe finds it.

About `PQueue` the same module proves `PosTellsMembership` and, step by step, `ImplementsPriorityQueue`, for any
finite set of lines and any priorities. The invariant `HeapOK` says that the first `size - 1` entries
are queued lines in heap order that know their positions, and that a line with a position is
queued. It is inductive as it stands; the work is in the two loops. Along a path a
position's parent and its child are its neighbours (`PathWell`, by the least position at which that
fails), so a loop that moves one item along a path permutes the items of the path (`UpPermutes`,
`DownPermutes`), and `setpos` for those makes every stored position right (`Settles`). Order is
restored from one gap: `bubble_up` may find it broken above the item only, and `percolate_down` below
it only, provided the item's parent comes before the item's children (`UpOrders`, `DownOrders`; for the
second that `maxchild` is the child with the least priority). The three callers establish just that:
an insertion has nothing below it, a change of priority breaks the order on the side it moves to, and
a pop puts the last item at the root. `pqueue_insert` finds room, because distinct lines in `avail - 1`
entries are all lines there are (`RoomForAll`, a pigeonhole). That the root comes first is induction along parents,
by the least counterexample.

`Transfer_proofs` proves `TransferExact` and `WalkStaysInList` for any page size, any offsets, lengths and
frames, and any number of workers, under the two assumptions above. The invariant of a walk
(`WalkInv`) counts pages and entries against each other: before an entry is fetched, as many pages are
behind as entries were used, and they are full (`AtEntry`); so the entry fetched next is that of
the block copied next, and an entry is fetched only while blocks remain, which bounds `prp2_offs` by the length
of the list. In the DMA path the entries gathered in `paddr_list` are those of the command, as long as
nobody else is in that path (`shared`), and one transfer takes a longest run of contiguous
ones (`DmaInv`). `TransferExact` is a conjunct of the invariant beside these: a step extends the part
that is in its place by the pages it moves. A step of another worker's command may write
there only if that command writes the same place, and then the place holds what one of the
writers put there; `ApartAssumption` keeps commands that read apart from those that write.

`Controller_proofs` proves `AdminAnswersInOrder`, `IoCommandsConserved` and `WorkerUsesItsQueue` for admin rings of any
depth, and any number of commands, I/O requests and lives. The argument is about a life that began
well (`Fresh`): its controller has taken over the rings the host set up, with head and phase at the
start. `RegInv` and `StartInv` say what the shadow registers can hold at each point of a
start, which decides whether it is one; `DbsInv` says that no doorbell of the last life is left to
be fetched then, and `PhaseInv` that no entry in the ring has the phase expected first. From there on all is counted from the host's
head (`Outstanding`, `Posted`): `CountInv` and `BatchInv` say how far doorbell, dispatcher
and host are apart, which keeps the rings from overrunning, and `SqInv` and `CqInv` that the slots between
them hold the commands sent, and their answers, in order. I/O queues rest on that: `IoInv` says what the
host knows against what the controller has created, how a command in progress changes it, and
that a worker's requests are as many as the doorbell is ahead of the completions (`Mine`, a
cardinality); `WorkInv`, that there are either no requests, or the queue they came from is the one that
exists.

`KvFtl_proofs` is about one worker (`OneWorker`), since the workers of the code share table and
allocator without a lock, and for two of them the properties fail (see `KeyMappedOnce`). For any keys, hash
function, table, prefixes and lengths it proves:

- `ChainsLeadForward`: `born` grows along chains. What makes it inductive is that a free slot
  has no successor (`EntriesWhole`), that no entry is newer than the last one filled
  (`FillsCounted`), and that a new entry is chained before another is filled (`InsertInOrder`).
- `IterationMissesNothing`: the slots an iterator owes are ahead of it and still hold
  entries that it selects (`OwedSelected`).
- `CellsDisjoint`, while the cells suffice (`CellsSuffice`): an append-only cell is as long as the first
  value in it, so lengths that are updated in place must not vary there; and
  when all bits of the small bitmap are taken `bitmap_find_next_zero_area` returns a place behind the bitmap
  that `bitmap_allocate` takes for a cell, so there must be no more insertions than
  small cells. (Used-up large cells need no hypothesis: the offset is behind the device.) The
  invariant says that each entry's cell is one that was handed out (`CellsTaken`), and that
  cells are apart, those of entries from each other (`CellsApart`) and
  from the one a worker has in hand (`PendingApart`).
- `ImplementsMap`, for any hash function, lengths and allocator and any size of the device, until a mishap. Collisions,
  overflowing bitmaps and updates of other lengths are in the theorem; only the step that cuts the
  last link to an entry, writes into another key's value or ends an update with the old length is
  excused, and what follows it. The mapping is `map <- kept, broken <- mishaps # {}`. The invariant (`MapIInv`) says
  that a key has one entry, in its home slot or where its home links to (`EntriesReached`), that the entry
  has the length `kept` says and its units hold that data, except between the copy of an update and
  the change of its length (`TableIsMap`), and that what a worker has found out stays true until it
  acts on it (`MatchesMap`). Each action then is a step of the map or changes nothing the host sees.

The recursive walks of `KvFtl` (`NextWalk`, `Visited`) are recursive functions; of a `CHOOSE` among recursive
functions nothing is assumed, the proofs show that one exists and that all agree; the same goes for the
loops of the heap (`Path` and the `stop` of `bubble_up` and `percolate_down`). Assumptions on constants
were added where the proofs need what the code gives: finite sets of dies (`Ssd`),
naturals for uninitialised pointers and times (`ConvFtl`), `NULL` apart from values (`KvFtl`).

The types of all modules with proofs are proved as `TypeOK` (in `KvFtl_proofs`, with all of
the table's invariant, as `TableInvariance`; those of `PQueue` are part of `HeapOK`); the runs
do not repeat them, except that of `ChannelModel`.

Only model-checked: the liveness properties `AcceptedIsCompleted`, `EveryCommandReceived` and
`AdminAlwaysAnswers` (fairness and `ENABLED` are out of the prover's reach). Every invariant and every other
action or refinement property of a passing run has a theorem. Where a theorem has a hypothesis
(`UnitsOfPages`, `OneWorker`, `CellsSuffice`), it is named above; the run
of `QueuePair` goes beyond its own, to two workers.

## Not modelled, and the plan

Not modelled: completion results, identify data and log pages, proc files, module
parameters, PCI configuration space; reads of all FTLs, zone reports with their
own walk over the PRPs, and the unreachable garbage collection of the conventional FTL; the simple
FTL; the overlap of PCIe and channel transfers; `pqueue_remove`, which nothing calls.

In order:

1. An abstract I/O service (each command accepted, transferred, completed once)
   implemented by `ProcTable` and by `QueuePair`; the composition of both and `Transfer`
   for commands re-read from reused slots.
2. The worker's interrupt loop in `Controller`; queues of different depth.
3. The simple FTL's I/O units, and the PCIe link in `Ssd`.
4. ZRWA flushes of ZNS with more than one LBA per page.
5. Proofs: the other properties of `QueuePair` with several workers; the composition of item 1.
