------------------------------- MODULE ZnsFtl -------------------------------
(***************************************************************************)
(* The zoned-namespace FTL (zns_ftl.c, zns_mgmt_send.c, zns_read_write.c): *)
(* the zone state machine, the counters of active, open and ZRWA zones,    *)
(* and the write buffers (ssd.c) that the dispatcher fills and the I/O     *)
(* workers empty.                                                          *)
(*                                                                         *)
(* Addresses.  Sizes and buffer space are counted in LBAs.  An address is  *)
(* the pair of a zone and an offset, so the model's wp is the code's wp    *)
(* minus zslba; an offset equal to ZoneLbas is the first LBA of the        *)
(* following zone, as it is in the code.                                   *)
(*                                                                         *)
(* Every command is handled by the dispatcher alone and is one step, but   *)
(* a zone management command with select_all takes one step per zone, and  *)
(* between any two steps a worker may finish a writeback.                  *)
(***************************************************************************)
EXTENDS Integers, FiniteSets

CONSTANTS
  nr_zones,
  ZoneLbas,        \* zone_size and zone_capacity
  write_unit_size,
  secs_per_pg,     \* LBAs per 4 KiB logical page
  PgsPerOneshot,   \* logical pages per one-shot program
  zone_wb_size,    \* write buffer of each zone; 0: all zones share the global one
  global_wb_size,
  lbas_per_zrwa, lbas_per_zrwafg,
  zrwa_buffer_size,
  CntMod,          \* __u32 counters wrap here
  ZrwaOptions,     \* the ZRWA options the host puts in an open: a subset of BOOLEAN
  MaxPending       \* bound: writebacks of a kind outstanding per buffer

ASSUME ZoneCountAssumption == nr_zones \in Nat \ {0}
ASSUME GeometryAssumption ==
  /\ ZoneLbas \in Nat \ {0} /\ write_unit_size \in Nat \ {0}
  /\ secs_per_pg \in Nat \ {0} /\ PgsPerOneshot \in Nat \ {0}
  /\ ZoneLbas % secs_per_pg = 0      \* zns_init_params asserts it
ASSUME BufferAssumption ==
  /\ zone_wb_size \in Nat /\ global_wb_size \in Nat /\ zrwa_buffer_size \in Nat
  /\ lbas_per_zrwa \in Nat /\ lbas_per_zrwafg \in Nat \ {0}
  /\ lbas_per_zrwafg <= lbas_per_zrwa
ASSUME CounterAssumption == CntMod \in Nat /\ CntMod > nr_zones /\ MaxPending \in Nat
ASSUME OptionAssumption == ZrwaOptions \subseteq BOOLEAN

Zones == 0 .. nr_zones - 1
ResTypes == {"ACTIVE_ZONE", "OPEN_ZONE", "ZRWA_ZONE"}
Opened == {"OPENED_IMPL", "OPENED_EXPL"}
Active == Opened \cup {"CLOSED"}
ZoneStates == Active \cup {"EMPTY", "FULL", "READ_ONLY", "OFFLINE"}
Actions == {"CLOSE", "FINISH", "OPEN", "RESET", "OFFLINE", "FLUSH_EXPL_ZRWA", "OTHER"}
Statuses == {"success", "error", "retry", "bug"}

(* A buffer is the global one, that of a zone, or a zone's ZRWA buffer.     *)
WriteBuffers == {"wb"} \X (0 .. nr_zones)
ZwraBuffers == {"zwra"} \X Zones
Buffers == WriteBuffers \cup ZwraBuffers
zwra_buffer(z) == <<"zwra", z>>
write_buffer(z) == IF zone_wb_size > 0 THEN <<"wb", z>> ELSE <<"wb", nr_zones>>
BufferSize(b) ==
  IF b[1] = "zwra" THEN zrwa_buffer_size
  ELSE IF b[2] = nr_zones THEN global_wb_size ELSE zone_wb_size

VARIABLES
  zone_descs,  \* per zone: state, wp (relative) and zrwav
  acquired,    \* res_infos[].acquired_cnt
  remaining,   \* free space of each buffer
  pending,     \* writebacks enqueued to the workers: full one-shots and zone tails
  loop,        \* a select_all command in progress: action, option, next zone
  status,      \* how the last command ended; "retry": proc_io_cmd returned false,
               \* "bug": the dispatcher died in it
  asserted     \* history: the assertions that failed

zoneVars == <<zone_descs, acquired>>
bufVars == <<remaining, pending>>
vars == <<zone_descs, acquired, remaining, pending, loop, status, asserted>>

NoLoop == [action |-> "none", zrwa |-> FALSE, zid |-> 0]

TypeOK ==
  /\ zone_descs \in [Zones -> [state : ZoneStates, wp : 0 .. ZoneLbas, zrwav : BOOLEAN]]
  /\ acquired \in [ResTypes -> 0 .. CntMod - 1]
  /\ remaining \in [Buffers -> Nat]
  /\ pending \in [Buffers -> [full : Nat, tail : Nat]]
  /\ loop \in [action : Actions \cup {"none"}, zrwa : BOOLEAN, zid : Zones]
  /\ status \in Statuses
  /\ asserted \subseteq {"increase_write_ptr", "zwra_buffer"}

Init ==
  /\ zone_descs = [z \in Zones |-> [state |-> "EMPTY", wp |-> 0, zrwav |-> FALSE]]
  /\ acquired = [t \in ResTypes |-> 0]
  /\ remaining = [b \in Buffers |-> BufferSize(b)]
  /\ pending = [b \in Buffers |-> [full |-> 0, tail |-> 0]]
  /\ loop = NoLoop
  /\ status = "success"
  /\ asserted = {}

-----------------------------------------------------------------------------
(* zone_resource_info: total_cnt is nr_zones for every type                 *)
(* (__init_resource); a failed acquire leaves the counter alone.            *)
is_zone_resource_full(a, type) == a[type] = nr_zones
acquire_zone_resource(a, type) ==
  IF a[type] < nr_zones THEN [a EXCEPT ![type] = @ + 1] ELSE a
release_zone_resource(a, type) == [a EXCEPT ![type] = (@ - 1) % CntMod]

(* Faulty variants: a closed zone gives back OPEN_ZONE too; ZRWA_ZONE is    *)
(* given back by zones that hold none.                                      *)
ReleaseBoth(a, state) ==
  release_zone_resource(release_zone_resource(a, "OPEN_ZONE"), "ACTIVE_ZONE")
ReleaseZrwaAlways(a, zrwav) == release_zone_resource(a, "ZRWA_ZONE")

ReleaseOpenAndActive(a, state) ==
  LET b == IF state \in Opened THEN release_zone_resource(a, "OPEN_ZONE") ELSE a
  IN  release_zone_resource(b, "ACTIVE_ZONE")
ReleaseZrwa(a, zrwav) ==
  IF zrwav THEN release_zone_resource(a, "ZRWA_ZONE") ELSE a

Unchanged == UNCHANGED <<zone_descs, acquired, remaining>>

-----------------------------------------------------------------------------
(* Zone management send.  An operator per __zmgmt_send_* function; s is the *)
(* status it returns.                                                       *)

(* Faulty variant: the state is changed before it is checked.               *)
close_unchecked(z, s) ==
  LET state == zone_descs[z].state IN
  /\ zone_descs' = [zone_descs EXCEPT ![z].state = "CLOSED"]
  /\ acquired' = IF state \in Opened THEN release_zone_resource(acquired, "OPEN_ZONE")
                                     ELSE acquired
  /\ s = IF state \in Active THEN "success" ELSE "error"
  /\ UNCHANGED remaining

close_zone(z, s) ==
  LET state == zone_descs[z].state IN
  \/ /\ state \in Opened
     /\ zone_descs' = [zone_descs EXCEPT ![z].state = "CLOSED"]
     /\ acquired' = release_zone_resource(acquired, "OPEN_ZONE")
     /\ s = "success" /\ UNCHANGED remaining
  \/ /\ state = "CLOSED"
     /\ s = "success" /\ Unchanged
  \/ state \notin Active /\ s = "error" /\ Unchanged

finish_zone(z, s) ==
  LET state == zone_descs[z].state IN
  \/ /\ state \in Active
     /\ acquired' = ReleaseZrwa(ReleaseOpenAndActive(acquired, state), zone_descs[z].zrwav)
     /\ zone_descs' = [zone_descs EXCEPT ![z].state = "FULL"]
     /\ s = "success" /\ UNCHANGED remaining
  \/ /\ state \in {"EMPTY", "FULL"}
     /\ zone_descs' = [zone_descs EXCEPT ![z].state = "FULL"]
     /\ s = "success" /\ UNCHANGED <<acquired, remaining>>
  \/ state \in {"READ_ONLY", "OFFLINE"} /\ s = "error" /\ Unchanged

(* Faulty variant: a full zone may be opened.                               *)
OpenRefusedNotFull(state, zrwa) ==
  \/ state = "EMPTY" /\ is_zone_resource_full(acquired, "ACTIVE_ZONE")
  \/ state \in {"EMPTY", "CLOSED"} /\ is_zone_resource_full(acquired, "OPEN_ZONE")
  \/ state \in {"READ_ONLY", "OFFLINE"}

(* What opening a zone acquires, from EMPTY and from CLOSED; an open zone   *)
(* needs nothing more.                                                      *)
OpenRefused(state, zrwa) ==
  \/ state = "EMPTY" /\ is_zone_resource_full(acquired, "ACTIVE_ZONE")
  \/ state = "EMPTY" /\ zrwa /\ is_zone_resource_full(acquired, "ZRWA_ZONE")
  \/ state \in {"EMPTY", "CLOSED"} /\ is_zone_resource_full(acquired, "OPEN_ZONE")
  \/ state \in {"FULL", "READ_ONLY", "OFFLINE"}
AcquireForOpen(state, zrwa) ==
  LET a == IF state = "EMPTY" /\ zrwa
           THEN acquire_zone_resource(acquired, "ZRWA_ZONE") ELSE acquired
      b == IF state = "EMPTY" THEN acquire_zone_resource(a, "ACTIVE_ZONE") ELSE a
  IN  IF state \in {"EMPTY", "CLOSED"} THEN acquire_zone_resource(b, "OPEN_ZONE") ELSE b

open_zone(z, zrwa, s) ==
  LET state == zone_descs[z].state IN
  \/ /\ ~OpenRefused(state, zrwa)
     /\ acquired' = AcquireForOpen(state, zrwa)
     /\ zone_descs' = [zone_descs EXCEPT ![z].state = "OPENED_EXPL",
                                         ![z].zrwav = @ \/ (state = "EMPTY" /\ zrwa)]
     /\ s = "success" /\ UNCHANGED remaining
  \/ OpenRefused(state, zrwa) /\ s = "error" /\ Unchanged

(* The ZRWA buffer is refilled even while writebacks to it are pending.     *)
reset_zone(z, s) ==
  LET state == zone_descs[z].state IN
  \/ /\ state \in Active \cup {"FULL", "EMPTY"}
     /\ acquired' = IF state \in Active
                    THEN ReleaseZrwa(ReleaseOpenAndActive(acquired, state), zone_descs[z].zrwav)
                    ELSE acquired
     /\ zone_descs' = [zone_descs EXCEPT ![z] = [state |-> "EMPTY", wp |-> 0, zrwav |-> FALSE]]
     /\ remaining' = [remaining EXCEPT ![zwra_buffer(z)] = BufferSize(zwra_buffer(z))]
     /\ s = "success"
  \/ state \in {"READ_ONLY", "OFFLINE"} /\ s = "error" /\ Unchanged

offline_zone(z, s) ==
  LET state == zone_descs[z].state IN
  IF state \in {"READ_ONLY", "OFFLINE"}
  THEN /\ zone_descs' = [zone_descs EXCEPT ![z].state = "OFFLINE"]
       /\ s = "success" /\ UNCHANGED <<acquired, remaining>>
  ELSE s = "error" /\ Unchanged

(* The write pointer moves to the end of a whole number of flush granules.  *)
FlushRefused(z, off) ==
  LET zd == zone_descs[z] IN
  \/ ~zd.zrwav
  \/ off < zd.wp \/ off > zd.wp + lbas_per_zrwa - 1 \/ off > ZoneLbas - 1
  \/ (off - zd.wp + 1) % lbas_per_zrwafg # 0
  \/ zd.state \notin Active

flush_explicit_zrwa(z, off, s) ==
  LET state == zone_descs[z].state
      fills == off + 1 = ZoneLbas
  IN
  \/ /\ ~FlushRefused(z, off)
     /\ zone_descs' = [zone_descs EXCEPT ![z] =
          [state |-> IF fills THEN "FULL" ELSE state, wp |-> off + 1, zrwav |-> @.zrwav]]
     /\ acquired' = IF fills THEN ReleaseZrwa(ReleaseOpenAndActive(acquired, state), TRUE)
                             ELSE acquired
     /\ s = "success" /\ UNCHANGED remaining
  \/ FlushRefused(z, off) /\ s = "error" /\ Unchanged

(* An unknown action returns a status nobody assigned.                      *)
unknown_action(s) ==
  s \in {"success", "error"} /\ Unchanged

zmgmt_send(z, off, action, zrwa, s) ==
  \/ action = "CLOSE" /\ close_zone(z, s)
  \/ action = "FINISH" /\ finish_zone(z, s)
  \/ action = "OPEN" /\ open_zone(z, zrwa, s)
  \/ action = "RESET" /\ reset_zone(z, s)
  \/ action = "OFFLINE" /\ offline_zone(z, s)
  \/ action = "FLUSH_EXPL_ZRWA" /\ flush_explicit_zrwa(z, off, s)
  \/ action = "OTHER" /\ unknown_action(s)

(* The dispatcher handles a new command only between commands, and not at   *)
(* all once a failed NVMEV_ASSERT has ended its thread.                     *)
Alive == "zwra_buffer" \notin asserted
Idle == loop = NoLoop /\ Alive

ZmgmtSend(z, off, action, zrwa) ==
  /\ Idle
  /\ \E s \in Statuses : zmgmt_send(z, off, action, zrwa, s) /\ status' = s
  /\ UNCHANGED <<pending, loop, asserted>>

(* select_all: zone after zone, ignoring what each returns.                 *)
AllZonesStep(z, action, zrwa) ==
  /\ \E s \in Statuses : zmgmt_send(z, 0, action, zrwa, s)
  /\ loop' = IF z + 1 = nr_zones THEN NoLoop
             ELSE [action |-> action, zrwa |-> zrwa, zid |-> z + 1]
  /\ status' = "success"
  /\ UNCHANGED <<pending, asserted>>

SelectAll(action, zrwa) == Idle /\ AllZonesStep(0, action, zrwa)

SelectAllStep == loop # NoLoop /\ AllZonesStep(loop.zid, loop.action, loop.zrwa)

-----------------------------------------------------------------------------
(* Writing.                                                                 *)

lba_to_lpn(off) == off \div secs_per_pg
OneshotLbas == PgsPerOneshot * secs_per_pg
unaligned_space == ZoneLbas % OneshotLbas
zone_elpn == lba_to_lpn(ZoneLbas - 1)
StartsOneshot(lpn) == lpn % PgsPerOneshot = 0    \* faulty variant
EndsOneshot(lpn) == (lpn + 1) % PgsPerOneshot = 0

SameZone(off, n) == off \div ZoneLbas = (off + n - 1) \div ZoneLbas

(* __increase_write_ptr; a zone that fills up gives back OPEN and ACTIVE    *)
(* but, ZRWA zone or not, no ZRWA resource.                                 *)
FillsZone(z, n) == zone_descs[z].wp + n = ZoneLbas
(* Faulty variants: a zone that fills up stays open, or keeps its resources. *)
AdvanceWpOnly(z, state, n) == [zone_descs EXCEPT ![z].wp = @ + n, ![z].state = state]
ReleaseNothing(z, a, n) == a
IncreaseWp(z, state, n) ==
  [zone_descs EXCEPT ![z] = [state |-> IF FillsZone(z, n) THEN "FULL" ELSE state,
                             wp |-> @.wp + n, zrwav |-> @.zrwav]]
ReleaseIfFull(z, a, n) == IF FillsZone(z, n) THEN ReleaseOpenAndActive(a, "OPENED_IMPL") ELSE a
AssertNotZrwa(z, n) ==
  IF FillsZone(z, n) /\ zone_descs[z].zrwav THEN {"increase_write_ptr"} ELSE {}

(* The writebacks a write of pages slpn..elpn enqueues: one per one-shot    *)
(* that it ends, and one for the tail of a zone of no whole one-shots.      *)
FullOneshots(slpn, elpn) ==
  Cardinality({p \in slpn .. elpn : EndsOneshot(p)})
ZoneTails(elpn) ==
  IF elpn = zone_elpn /\ unaligned_space > 0 THEN 1 ELSE 0

(* enqueue_writeback_io_req gives up when the worker's table is full; the   *)
(* space of that writeback is never released.                               *)
Enqueue(b, full, tail) ==
  \E f \in 0 .. full, t \in 0 .. tail :
    /\ pending[b].full + f <= MaxPending /\ pending[b].tail + t <= MaxPending
    /\ pending' = [pending EXCEPT ![b] = [full |-> @.full + f, tail |-> @.tail + t]]

WriteRefused(z, off, n) ==
  LET zd == zone_descs[z] IN
  \/ n % write_unit_size # 0
  \/ ~SameZone(off, n)
  \/ off # zd.wp
  \/ /\ zd.state = "EMPTY"
     /\ off # 0 \/ is_zone_resource_full(acquired, "ACTIVE_ZONE")
  \/ /\ zd.state \in {"EMPTY", "CLOSED"}
     /\ is_zone_resource_full(acquired, "OPEN_ZONE")
  \/ zd.state \in {"FULL", "READ_ONLY", "OFFLINE"}

AcquireForWrite(state) ==
  LET a == IF state = "EMPTY" THEN acquire_zone_resource(acquired, "ACTIVE_ZONE") ELSE acquired
  IN  IF state \in {"EMPTY", "CLOSED"} THEN acquire_zone_resource(a, "OPEN_ZONE") ELSE a
StateForWrite(state) == IF state \in {"EMPTY", "CLOSED"} THEN "OPENED_IMPL" ELSE state

(* __zns_write.  The space is taken before anything is checked; without it  *)
(* the dispatcher will try the command again.                               *)
WriteNoBuffer(z, n) ==
  /\ Idle /\ ~zone_descs[z].zrwav
  /\ remaining[write_buffer(z)] < n
  /\ status' = "retry"
  /\ UNCHANGED <<zoneVars, bufVars, loop, asserted>>

(* A zone append writes at wp whatever LBA of the zone the command names.   *)
WriteRefuse(z, off, n) ==
  /\ Idle /\ ~zone_descs[z].zrwav
  /\ remaining[write_buffer(z)] >= n
  /\ WriteRefused(z, off, n)
  /\ remaining' = [remaining EXCEPT ![write_buffer(z)] = @ - n]
  /\ status' = "error"
  /\ UNCHANGED <<zoneVars, pending, loop, asserted>>

Write(z, off, n) ==
  LET state == zone_descs[z].state
      b == write_buffer(z)
      elpn == lba_to_lpn(off + n - 1)
      tail == ZoneTails(elpn)
  IN
  /\ Idle /\ ~zone_descs[z].zrwav
  /\ remaining[b] >= n
  /\ ~WriteRefused(z, off, n)
  /\ remaining' = [remaining EXCEPT ![b] = @ - n]
  /\ zone_descs' = IncreaseWp(z, StateForWrite(state), n)
  /\ acquired' = ReleaseIfFull(z, AcquireForWrite(state), n)
  /\ Enqueue(b, FullOneshots(lba_to_lpn(off), elpn), tail)
  /\ status' = "success"
  /\ UNCHANGED <<loop, asserted>>

(* __zns_write_zrwa: how far the window must slide for a write to end at    *)
(* offset elba.                                                             *)
ImplicitFlush(z, elba) ==
  LET start == zone_descs[z].wp + lbas_per_zrwa IN
  IF elba >= start
  THEN ((elba - start + 1 + lbas_per_zrwafg - 1) \div lbas_per_zrwafg) * lbas_per_zrwafg
  ELSE IF elba = ZoneLbas - 1 THEN elba - zone_descs[z].wp + 1 ELSE 0

ZrwaRefused(z, off, n) ==
  LET zd == zone_descs[z] IN
  \/ n % write_unit_size # 0
  \/ ~SameZone(off, n)
  \/ off < zd.wp \/ off + n - 1 > zd.wp + 2 * lbas_per_zrwa - 1
  \/ zd.state \in {"CLOSED", "EMPTY"} /\ is_zone_resource_full(acquired, "OPEN_ZONE")
  \/ zd.state \in {"FULL", "READ_ONLY", "OFFLINE"}

ZrwaWriteRefuse(z, off, n) ==
  /\ Idle /\ zone_descs[z].zrwav /\ ZrwaRefused(z, off, n)
  /\ status' = "error"
  /\ UNCHANGED <<zoneVars, bufVars, loop, asserted>>

(* A write to a closed zone opens it and takes lbas_per_zrwa of buffer,     *)
(* space that nothing but a reset gives back.                               *)
ReopenLbas(z) == IF zone_descs[z].state \in {"CLOSED", "EMPTY"} THEN lbas_per_zrwa ELSE 0
AcquireForZrwaWrite(state) ==
  IF state \in {"CLOSED", "EMPTY"} THEN acquire_zone_resource(acquired, "OPEN_ZONE") ELSE acquired

(* NVMEV_ASSERT(0) is BUG_ON: the dispatcher thread ends here.              *)
ZrwaWriteBug(z, off, n) ==
  /\ Idle /\ zone_descs[z].zrwav /\ ~ZrwaRefused(z, off, n)
  /\ remaining[zwra_buffer(z)] < ReopenLbas(z)
  /\ asserted' = asserted \cup {"zwra_buffer"}
  /\ acquired' = AcquireForZrwaWrite(zone_descs[z].state)
  /\ status' = "bug"
  /\ UNCHANGED <<zone_descs, bufVars, loop>>

(* No space for the flush: false is returned after the zone was opened.     *)
ZrwaWriteNoBuffer(z, off, n) ==
  LET state == zone_descs[z].state
      left == remaining[zwra_buffer(z)] - ReopenLbas(z)
  IN
  /\ Idle /\ zone_descs[z].zrwav /\ ~ZrwaRefused(z, off, n)
  /\ left >= 0 /\ left < ImplicitFlush(z, off + n - 1)
  /\ remaining' = [remaining EXCEPT ![zwra_buffer(z)] = left]
  /\ zone_descs' = [zone_descs EXCEPT ![z].state = StateForWrite(state)]
  /\ acquired' = AcquireForZrwaWrite(state)
  /\ status' = "retry"
  /\ UNCHANGED <<pending, loop, asserted>>

ZrwaWrite(z, off, n) ==
  LET state == zone_descs[z].state
      flush == ImplicitFlush(z, off + n - 1)
      slpn == lba_to_lpn(zone_descs[z].wp)
      left == remaining[zwra_buffer(z)] - ReopenLbas(z)
      a == AcquireForZrwaWrite(state)
  IN
  /\ Idle /\ zone_descs[z].zrwav /\ ~ZrwaRefused(z, off, n)
  /\ left >= 0 /\ left >= flush
  /\ remaining' = [remaining EXCEPT ![zwra_buffer(z)] = left - flush]
  /\ Enqueue(zwra_buffer(z), FullOneshots(slpn, slpn + flush \div secs_per_pg - 1), 0)
  /\ zone_descs' = IF flush > 0 THEN IncreaseWp(z, StateForWrite(state), flush)
                   ELSE [zone_descs EXCEPT ![z].state = StateForWrite(state)]
  /\ acquired' = IF flush > 0 THEN ReleaseIfFull(z, a, flush) ELSE a
  /\ asserted' = asserted \cup (IF flush > 0 THEN AssertNotZrwa(z, flush) ELSE {})
  /\ status' = "success"
  /\ UNCHANGED loop

-----------------------------------------------------------------------------
(* A worker finishes a writeback: buffer_release.  Targets of different     *)
(* dies are unrelated, so any pending one may be next.                      *)
WritebackDone(b) ==
  /\ \/ /\ pending[b].full > 0
        /\ pending' = [pending EXCEPT ![b].full = @ - 1]
        /\ remaining' = [remaining EXCEPT ![b] = @ + OneshotLbas]
     \/ /\ pending[b].tail > 0
        /\ pending' = [pending EXCEPT ![b].tail = @ - 1]
        /\ remaining' = [remaining EXCEPT ![b] = @ + unaligned_space]
  /\ UNCHANGED <<zoneVars, loop, status, asserted>>

-----------------------------------------------------------------------------
Lengths == 1 .. ZoneLbas
Offsets == 0 .. ZoneLbas - 1

(* The management commands that differ: only an open looks at the ZRWA      *)
(* option, and only an explicit flush at the LBA within the zone.           *)
Commands ==
  {c \in Offsets \X Actions \X BOOLEAN :
     /\ c[2] # "FLUSH_EXPL_ZRWA" => c[1] = 0
     /\ IF c[2] = "OPEN" THEN c[3] \in ZrwaOptions ELSE ~c[3]}

(* A zone append reaches __zns_write with the offset replaced by wp.        *)
Next ==
  \/ \E z \in Zones, c \in Commands : ZmgmtSend(z, c[1], c[2], c[3])
  \/ \E c \in Commands : c[1] = 0 /\ SelectAll(c[2], c[3])
  \/ SelectAllStep
  \/ \E z \in Zones, n \in Lengths : WriteNoBuffer(z, n)
  \/ \E z \in Zones, n \in Lengths :
       \E off \in Offsets \cup {zone_descs[z].wp} :
         \/ WriteRefuse(z, off, n)
         \/ Write(z, off, n)
  \/ \E z \in Zones, off \in Offsets, n \in Lengths :
         \/ ZrwaWriteRefuse(z, off, n)
         \/ ZrwaWriteBug(z, off, n)
         \/ ZrwaWriteNoBuffer(z, off, n)
         \/ ZrwaWrite(z, off, n)
  \/ \E b \in Buffers : WritebackDone(b)

Spec == Init /\ [][Next]_vars

-----------------------------------------------------------------------------
(* Properties.                                                              *)

ZonesIn(states) == {z \in Zones : zone_descs[z].state \in states}

(* The counters are exact: acquired_cnt of ACTIVE_ZONE and OPEN_ZONE are    *)
(* the numbers of active and of open zones, through every fall-through of   *)
(* the state switches, every implicit fill and every select_all loop, as    *)
(* long as the dispatcher has not died half-way through a command.          *)
ResourcesMatchStates ==
  Alive =>
  /\ acquired["ACTIVE_ZONE"] = Cardinality(ZonesIn(Active))
  /\ acquired["OPEN_ZONE"] = Cardinality(ZonesIn(Opened))

ZrwaZones == {z \in ZonesIn(Active) : zone_descs[z].zrwav}

(* A zone that is active with a random write area holds a ZRWA resource:    *)
(* the counter is never released twice, and so never wraps below zero, nor  *)
(* does it pass the limit (it may leak: see ZrwaZoneNotFilledImplicitly).   *)
ZrwaResourcesCovered == acquired["ZRWA_ZONE"] \in Cardinality(ZrwaZones) .. nr_zones

(* The limits are set to nr_zones, so a zone that needs a resource always   *)
(* finds one: NO_ACTIVE_ZONE and NO_OPEN_ZONE are never reported, and the   *)
(* acquire calls whose result the code ignores cannot fail.                 *)
ZoneLimitsNeverHit ==
  Alive =>
  \A z \in Zones :
    /\ zone_descs[z].state = "EMPTY" => acquired["ACTIVE_ZONE"] < nr_zones
    /\ zone_descs[z].state \in {"EMPTY", "CLOSED"} => acquired["OPEN_ZONE"] < nr_zones

(* The write pointer stays inside the zone, a zone written to its end is    *)
(* full (or is not writable at all), and an empty zone starts afresh.       *)
WritePointerMatchesState ==
  \A z \in Zones : LET zd == zone_descs[z] IN
    /\ zd.wp <= ZoneLbas
    /\ zd.wp = ZoneLbas => zd.state \notin Active
    /\ zd.state = "EMPTY" => zd.wp = 0 /\ ~zd.zrwav

(* Data once written stays until a reset: the write pointer never moves     *)
(* back and a full zone is never reopened, except by going to EMPTY at 0.   *)
OnlyResetRewinds ==
  [][\A z \in Zones : LET old == zone_descs[z]
                          new == zone_descs'[z] IN
       \/ new.state = "EMPTY" /\ new.wp = 0
       \/ new.wp >= old.wp /\ (old.state = "FULL" => new.state = "FULL")]_vars

(* A command that ends with an error status has changed no zone and no      *)
(* zone resource: the checks all come before the first assignment.          *)
RefusalChangesNoZone ==
  [][status' = "error" => UNCHANGED <<zone_descs, acquired>>]_vars

(* The LBAs of a zone that were buffered since the last complete one-shot.  *)
Partial(z) ==
  LET zd == zone_descs[z] IN
  IF zd.state \in Active /\ ~zd.zrwav THEN zd.wp % OneshotLbas ELSE 0

(* What the zones that share buffer b have buffered so.                     *)
Waiting(b) ==
  LET waiting[k \in 0 .. nr_zones] ==
        IF k = 0 THEN 0
        ELSE waiting[k-1] + (IF write_buffer(k-1) = b THEN Partial(k-1) ELSE 0)
  IN  waiting[nr_zones]

(* Space is never counted twice: what is free in a write buffer, what the   *)
(* pending writebacks will free, and what waits for its one-shot to be      *)
(* completed, never exceed the buffer (errors and resets may leave less).   *)
WriteBufferNotOverCommitted ==
  \A b \in WriteBuffers :
    remaining[b] + pending[b].full * OneshotLbas + pending[b].tail * unaligned_space
      + Waiting(b) <= BufferSize(b)

(* __increase_write_ptr: "if (zone_descs[zid].zrwav) ASSERT(0);" -- a ZRWA  *)
(* zone is never filled by an implicit flush.                               *)
ZrwaZoneNotFilledImplicitly == "increase_write_ptr" \notin asserted

(* __zns_write_zrwa: "if (!buffer_allocate(...)) NVMEV_ASSERT(0);" -- a     *)
(* zone that is opened by a write finds room for its ZRWA.                  *)
ReopenFindsZrwaBuffer == "zwra_buffer" \notin asserted
=============================================================================
