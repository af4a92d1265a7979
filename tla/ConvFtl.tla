------------------------------ MODULE ConvFtl ------------------------------
(***************************************************************************)
(* The conventional FTL and its SLC/QLC build: the write path with page    *)
(* maps, write pointers, hotness table, migration and write buffer.  It    *)
(* runs in the dispatcher; the workers only complete the writebacks.       *)
(*                                                                         *)
(* A failed NVMEV_ASSERT (BUG_ON) or a wild pointer stops the dispatcher:  *)
(* bug names which.  The write path never calls mark_page_valid, so pages  *)
(* are PG_FREE and the valid and invalid counts of lines are 0 for ever;   *)
(* the assertions on them decide accordingly, no line becomes a GC victim, *)
(* and should_gc finds nothing to collect.  Write credits are never        *)
(* consumed.  One plane per LUN, one partition.                            *)
(***************************************************************************)
EXTENDS Integers, FiniteSets

CONSTANTS Builds,                 \* the builds to check: TRUE for BASE_SSD == HYBRID_SSD
          NLpns, secs_per_pg,
          SecsPerCmd,             \* bound: the sectors of a write command
          HostLpns,               \* bound: the logical pages the host writes in each build
          nchs, luns_per_ch, blks_per_pl, pgs_per_blk, pgs_per_oneshotpg,
          slc_channels, slc_luns_per_ch, slc_pgs_per_blk,
          LunWps,                 \* what uninitialised lunwp entries may contain
          HotnessSize, ColdThreshold, MaxAccesses,
          MigrationInterval, AgingInterval, MaxTime,
          CH_RANGE, LUN_RANGE, PL_RANGE, BLK_RANGE, PG_RANGE,   \* 2^bits of the fields of struct ppa
          BufferSecs,             \* size of each build's write buffer, in sectors
          UNMAPPED, INVALID_LPN

Lpns == 0..NLpns - 1
Lbas == 0..NLpns * secs_per_pg - 1
Slots == 0..HotnessSize - 1
SlcLuns == slc_channels * slc_luns_per_ch
Ppas == [ch : 0..nchs - 1, lun : 0..luns_per_ch - 1, blk : 0..blks_per_pl - 1,
         pg : 0..pgs_per_blk - 1]

(* ssd_init_params: the sizes derived from the geometry. *)
pgs_per_lun == pgs_per_blk * blks_per_pl
pgs_per_ch == pgs_per_lun * luns_per_ch
tt_pgs == pgs_per_ch * nchs

(* ppa2pgidx: the position of a page in rmap. *)
ppa2pgidx(p) == p.ch * pgs_per_ch + p.lun * pgs_per_lun + p.blk * pgs_per_blk + p.pg

ASSUME GeometryAssumption ==
    /\ {NLpns, secs_per_pg, SecsPerCmd, nchs, luns_per_ch, pgs_per_blk, pgs_per_oneshotpg,
        HotnessSize, PL_RANGE} \subseteq Nat \ {0}
    /\ blks_per_pl \in Nat /\ blks_per_pl > 2
    /\ pgs_per_blk % pgs_per_oneshotpg = 0
    /\ {slc_channels, slc_luns_per_ch, slc_pgs_per_blk} \subseteq Nat \ {0}
    /\ slc_channels < nchs /\ slc_luns_per_ch <= luns_per_ch
    /\ Builds \subseteq BOOLEAN /\ HostLpns \in [BOOLEAN -> 1..NLpns]
    /\ BufferSecs \in [BOOLEAN -> Nat]
    /\ LunWps \subseteq [ch : Nat, lun : Nat, blk : Nat, pg : Nat, pl : Nat]
    /\ {MigrationInterval, AgingInterval, MaxTime} \subseteq Nat
(* Pages of the device have an address in struct ppa. *)
ASSUME FieldAssumption ==
    /\ {CH_RANGE, LUN_RANGE, BLK_RANGE, PG_RANGE} \subseteq Nat
    /\ nchs <= CH_RANGE /\ luns_per_ch <= LUN_RANGE
    /\ blks_per_pl <= BLK_RANGE /\ pgs_per_blk <= PG_RANGE
(* set_maptbl_ent asserts lpn < tt_pgs: with one partition the namespace,  *)
(* the capacity less the spare area, has no more pages than the FTL.       *)
ASSUME PartitionAssumption == NLpns <= tt_pgs
ASSUME SpecialAssumption == UNMAPPED \notin Ppas /\ INVALID_LPN \notin Lpns

VARIABLES Hybrid,                 \* the build that runs, which no step changes
          maptbl, rmap,           \* page map and reverse map
          wp,                     \* write pointer of user writes, its line is wp.blk
          lunwp,                  \* [LUN -> write pointer] of the hybrid build
          hotness,                \* hotness_table
          last_check,             \* last_migration_check
          now,                    \* the wall clock
          remaining,              \* free sectors of the write buffer
          writebacks,             \* writebacks in the workers' hands
          cmd,                    \* the write being processed
          bug                     \* which assertion stopped the dispatcher

mapVars == <<maptbl, rmap, wp, lunwp>>
hotVars == <<hotness, last_check>>
bufVars == <<remaining, writebacks>>
vars == <<Hybrid, mapVars, hotVars, bufVars, now, cmd, bug>>

(* What is left of a write from page l on. *)
Rest(l, k) == [lpn |-> IF k = 0 THEN 0 ELSE l, left |-> k]
NoCmd == Rest(0, 0)

(* init_hotness_tracking *)
FreeEntry == [lpn |-> INVALID_LPN, recent_access |-> 0, last_access_time |-> 0,
              storage_type |-> "SLC"]

(* conv_init_ftl: prepare_write_pointer takes line 0 for user writes and   *)
(* line 1 for GC.  lunwp comes from kmalloc and is set by nobody.  The     *)
(* clock has been running for longer than a migration interval.            *)
Init ==
    /\ Hybrid \in Builds
    /\ maptbl = [l \in Lpns |-> UNMAPPED]
    /\ rmap = [i \in 0..tt_pgs - 1 |-> INVALID_LPN]
    /\ wp = [ch |-> 0, lun |-> 0, blk |-> 0, pg |-> 0]
    /\ lunwp \in IF Hybrid THEN [0..SlcLuns - 1 -> LunWps] ELSE {<< >>}
    /\ hotness = [s \in Slots |-> FreeEntry]
    /\ last_check = 0
    /\ now = MigrationInterval
    /\ remaining = BufferSecs[Hybrid]
    /\ writebacks = 0
    /\ cmd = NoCmd
    /\ bug = "none"

Alive == bug = "none"
-----------------------------------------------------------------------------
(* Faulty variant: the next channel starts at the page after the one-shot. *)
advance_write_pointer_on(p) ==
    LET q == p.pg + 1
    IN  IF q % pgs_per_oneshotpg # 0 THEN [p EXCEPT !.pg = q]
        ELSE [p EXCEPT !.pg = q % pgs_per_blk, !.ch = (@ + 1) % nchs]

(* advance_write_pointer: the pages of a one-shot, then the next channel,  *)
(* then the next LUN, then the next one-shot of the block.                 *)
advance_write_pointer(p) ==
    LET q == p.pg + 1
        first == q - pgs_per_oneshotpg
    IN  CASE q % pgs_per_oneshotpg # 0 -> [p EXCEPT !.pg = q]
          [] q % pgs_per_oneshotpg = 0 /\ p.ch + 1 < nchs ->
                [p EXCEPT !.pg = first, !.ch = @ + 1]
          [] q % pgs_per_oneshotpg = 0 /\ p.ch + 1 = nchs /\ p.lun + 1 < luns_per_ch ->
                [p EXCEPT !.pg = first, !.ch = 0, !.lun = @ + 1]
          [] OTHER -> [p EXCEPT !.pg = q, !.ch = 0, !.lun = 0]

(* Faulty variant: the last one-shot of the blocks is left out. *)
LineUsedUpEarly(p) == p.pg + pgs_per_oneshotpg = pgs_per_blk /\ p.ch = 0 /\ p.lun = 0 /\ p.pg > 0

LineUsedUp(p) == p.pg = pgs_per_blk

(* get_new_page: the fields of struct ppa keep the low bits. *)
get_new_page(p) ==
    [ch |-> p.ch % CH_RANGE, lun |-> p.lun % LUN_RANGE, blk |-> p.blk % BLK_RANGE,
     pg |-> p.pg % PG_RANGE]

(* set_maptbl_ent and set_rmap_ent; the page a rewritten lpn had is left   *)
(* as it is.                                                               *)
MapPage(l, p) ==
    /\ maptbl' = [maptbl EXCEPT ![l] = p]
    /\ rmap' = [rmap EXCEPT ![ppa2pgidx(p)] = l]

Finish == cmd' = Rest(cmd.lpn + 1, cmd.left - 1)

(* One page of conv_write in the conventional build.  At the end of a line *)
(* with no valid page, "there must be some invalid pages in this line" is  *)
(* asserted.                                                               *)
conv_write_page ==
    LET p == advance_write_pointer(wp)
    IN  /\ Alive /\ cmd.left > 0 /\ ~Hybrid
        /\ MapPage(cmd.lpn, get_new_page(wp))
        /\ wp' = p
        /\ bug' = IF LineUsedUp(p) THEN "ipc" ELSE bug
        /\ Finish
        /\ UNCHANGED <<Hybrid, lunwp, hotVars, bufVars, now>>

-----------------------------------------------------------------------------
(* Faulty variant: no probing. *)
get_hotness_entry_direct(l) == l % HotnessSize

(* get_hotness_entry: linear probing for the page's entry or a free one. *)
Candidates(l) ==
    {i \in 0..HotnessSize - 1 : hotness[(l + i) % HotnessSize].lpn \in {l, INVALID_LPN}}
get_hotness_entry(l) ==
    (l + CHOOSE i \in Candidates(l) : \A j \in Candidates(l) : i <= j) % HotnessSize

(* update_page_hotness: last_access_time is set before it is compared with *)
(* the current time, so the aging branch is never taken.                   *)
update_page_hotness(l) ==
    IF Candidates(l) = {}
    THEN UNCHANGED hotness
    ELSE LET s == get_hotness_entry(l)
             old == IF hotness[s].lpn = l THEN hotness[s] ELSE [FreeEntry EXCEPT !.lpn = l]
             seen == [old EXCEPT !.recent_access = @ + 1, !.last_access_time = now]
             aged == IF now - seen.last_access_time > AgingInterval
                     THEN [seen EXCEPT !.recent_access = @ - 1] ELSE seen
         IN  hotness' = [hotness EXCEPT ![s] = aged]

(* should_migrate_page *)
should_migrate_page(e) ==
    /\ e.lpn # INVALID_LPN
    /\ e.storage_type = "SLC"
    /\ e.recent_access <= ColdThreshold

(* check_and_perform_migrations after the update.  migrate_page returns at *)
(* once for an unmapped page; for a mapped one it ends in                  *)
(* mark_page_invalid, which asserts that the page is PG_VALID.             *)
MigrationDue == now - last_check >= MigrationInterval
MigrationFails ==
    /\ MigrationDue
    /\ \E s \in Slots : should_migrate_page(hotness'[s]) /\ maptbl[hotness'[s].lpn] # UNMAPPED

(* get_new_page_DA: the channel and LUN of the write pointer, forced into  *)
(* the SLC range; the rest cut to the fields of struct ppa, as the plane   *)
(* is before it is compared with 0.                                        *)
get_new_page_DA(p) ==
    get_new_page([ch |-> p.ch % slc_channels, lun |-> p.lun % slc_luns_per_ch,
                  blk |-> p.blk, pg |-> p.pg])

(* The first assertion, or use of the wild curline pointer, that one page  *)
(* of conv_write runs into in the hybrid build, in the order of the code:  *)
(* mark_page_invalid; get_new_page_DA; ppa2pgidx;                          *)
(* advance_write_pointer_DA, at its start and at the end of a block.       *)
HybridBug(p) ==
    LET index == ppa2pgidx(get_new_page_DA(p))
    IN  IF MigrationFails THEN "pg_valid"
        ELSE IF p.pl % PL_RANGE # 0 THEN "pl"
        ELSE IF index >= tt_pgs THEN "pgidx"
        ELSE IF p.pg >= slc_pgs_per_blk THEN "check_addr"
        ELSE IF p.pg + 1 = slc_pgs_per_blk THEN "curline"
        ELSE "none"

(* One page of conv_write in the hybrid build.  What a write that does not *)
(* survive its assertion leaves behind is only recorded as far as the maps *)
(* were complete: nobody reads them afterwards.                            *)
hybrid_write_page ==
    LET glun == cmd.lpn % SlcLuns
        p == lunwp[glun]
    IN  /\ Alive /\ cmd.left > 0 /\ Hybrid
        /\ \A s \in Slots : hotness[s].recent_access < MaxAccesses
        /\ update_page_hotness(cmd.lpn)
        /\ last_check' = IF MigrationDue THEN now ELSE last_check
        /\ bug' = HybridBug(p)
        /\ IF bug' \in {"pg_valid", "pl", "pgidx"}
           THEN UNCHANGED <<maptbl, rmap, lunwp>>
           ELSE /\ MapPage(cmd.lpn, get_new_page_DA(p))
                /\ lunwp' = [lunwp EXCEPT ![glun].pg = @ + 1]
        /\ Finish
        /\ UNCHANGED <<Hybrid, wp, bufVars, now>>

-----------------------------------------------------------------------------
(* The start of conv_write for n sectors from lba.  The whole command is   *)
(* taken from the write buffer; without space a writeback of nothing is    *)
(* enqueued and the command succeeds without being mapped.  The first page *)
(* and the number of pages are rounded down each for itself: a command     *)
(* that is shorter than a page maps none, an unaligned one not its last.   *)
conv_write(lba, n) ==
    /\ Alive /\ cmd.left = 0
    /\ lba + n <= HostLpns[Hybrid] * secs_per_pg
    /\ IF remaining < n
       THEN /\ writebacks' = 1
            /\ UNCHANGED <<remaining, cmd>>
       ELSE /\ remaining' = remaining - n
            /\ cmd' = Rest(lba \div secs_per_pg, n \div secs_per_pg)
            /\ UNCHANGED writebacks
    /\ UNCHANGED <<Hybrid, mapVars, hotVars, now, bug>>

(* A worker completes a writeback: buffer_release of 0 bytes. *)
WritebackDone ==
    /\ writebacks > 0
    /\ writebacks' = writebacks - 1
    /\ remaining' = remaining + 0
    /\ UNCHANGED <<Hybrid, mapVars, hotVars, now, cmd, bug>>

Tick ==
    /\ Hybrid /\ now < MaxTime
    /\ now' = now + 1
    /\ UNCHANGED <<Hybrid, mapVars, hotVars, bufVars, cmd, bug>>

Next ==
    \/ \E lba \in Lbas, n \in 1..SecsPerCmd : conv_write(lba, n)
    \/ conv_write_page
    \/ hybrid_write_page
    \/ WritebackDone
    \/ Tick

Spec == Init /\ [][Next]_vars

-----------------------------------------------------------------------------
(* rmap is the inverse of maptbl on mapped pages ("set rmap[page_no(ppa)]  *)
(* -> lpn") in the conventional build: no two logical pages are on one     *)
(* physical page.  In the hybrid build the uninitialised write pointers    *)
(* can break it: two of them with equal contents hand out the same page.   *)
MapsInverse ==
    ~Hybrid => \A l \in Lpns : maptbl[l] # UNMAPPED => rmap[ppa2pgidx(maptbl[l])] = l

(* A line is written completely before it is left: when its last page is   *)
(* reached every one of its pages carries an lpn.                          *)
LineFilledCompletely ==
    bug = "ipc" => \A p \in Ppas : p.blk = wp.blk => rmap[ppa2pgidx(p)] # INVALID_LPN

(* Every page mapped by the hybrid build can be found in the hotness table *)
(* by probing, exactly once, unless the table is full.                     *)
HotnessTracksPages ==
    Hybrid =>
        /\ \A s, t \in Slots :
              s # t /\ hotness[s].lpn # INVALID_LPN => hotness[s].lpn # hotness[t].lpn
        /\ \A l \in Lpns : maptbl[l] # UNMAPPED /\ Candidates(l) # {} =>
                              hotness[get_hotness_entry(l)].lpn = l

(* "Cold SLC pages -> migrate to QLC": a page that is migrated is valid. *)
MigratedPageIsValid == bug # "pg_valid"
=============================================================================
