------------------------------- MODULE KvFtl -------------------------------
(***************************************************************************)
(* The key-value FTL: a hash table whose collisions are chained through    *)
(* next_slot, an allocator for values (bitmap or append-only), and         *)
(* iterators over the table.  Commands are performed by the I/O workers,   *)
(* which share all of this without a lock.                                 *)
(*                                                                         *)
(* Abstractions: keys have one length and are compared whole; a value is   *)
(* one datum repeated over its length; storage is counted in units.  The   *)
(* copying of a value and of the iterator's buffer through PRP lists is    *)
(* one step.                                                               *)
(***************************************************************************)
EXTENDS Integers, FiniteSets

CONSTANTS Workers,        \* the I/O workers
          Keys, Data,
          LengthsOf,      \* [Keys -> SUBSET Nat]: lengths the host gives a key's values
          BatchLengths,   \* the same for values stored by batch commands
          Ops,            \* the key commands the host uses
          HashSlots,      \* hash_slots
          Hash,           \* [Keys -> Slots]: get_hash_slot
          Allocator,      \* "bitmap" or "append_only"
          SMALL_LENGTH, LARGE_LENGTH, SmallBits, LargeBits,
          MaxInserts,     \* bound on the number of allocations
          NrIters,        \* iterator handles 1..NrIters (16)
          Prefixes,       \* sets of keys an iterator can select
          KeysPerRead,    \* keys that fit the 1024 bytes of one iterator read
          NULL,
          GARBAGE         \* an uninitialised pointer

Slots == 0..HashSlots - 1
Handles == 1..NrIters

(* bitmap_allocator_init: half of the device for small values, half for large. *)
DevSize == 2 * SmallBits * SMALL_LENGTH
Units == 0..DevSize - 1

ASSUME HashAssumption == HashSlots \in Nat \ {0} /\ Hash \in [Keys -> Slots]
ASSUME NullAssumption ==
    NULL # GARBAGE /\ NULL \notin Keys \cup Data \cup Int \cup [data : Data, length : 1..LARGE_LENGTH]
ASSUME GeometryAssumption ==
    /\ SMALL_LENGTH \in Nat \ {0} /\ LARGE_LENGTH \in Nat \ {0}
    /\ SmallBits \in Nat /\ LargeBits \in Nat /\ MaxInserts \in Nat
    /\ SmallBits * SMALL_LENGTH = LargeBits * LARGE_LENGTH
ASSUME LengthAssumption ==
    /\ LengthsOf \in [Keys -> SUBSET (1..LARGE_LENGTH)]
    /\ BatchLengths \in [Keys -> SUBSET (1..LARGE_LENGTH)]
ASSUME IterAssumption ==
    /\ NrIters \in Nat /\ KeysPerRead \in Nat \ {0} /\ Prefixes \subseteq SUBSET Keys

VARIABLES kv_mapping_table,   \* [Slots -> entry]
          storage,            \* storage_mapped, by unit
          bits, last_pos,     \* bitmap.c: allocated cells and cursor, by class
          latest,             \* append_only.c
          iter_handle,        \* NULL, GARBAGE or the context of an open iterator
          w,                  \* where each worker is
          inserts,            \* allocations so far (bound)
          kept,               \* history: the map the host expects
          reply,              \* history: the reply to the last key command
          born,               \* history: which fill of the table last filled a slot
          fills,              \* history: slots filled so far
          owed,               \* history: slots an iterator has still to return
          mishaps             \* history: what the table or a value has lost so far

tableVars == <<kv_mapping_table, born, fills>>
allocVars == <<bits, last_pos, latest, inserts>>
hostVars == <<kept, reply>>
iterVars == <<iter_handle, owed>>
vars == <<tableVars, storage, allocVars, iterVars, w, hostVars, mishaps>>

(* An entry of -1s: mem_offset = -1 marks a free slot. *)
Empty == [key |-> NULL, mem_offset |-> NULL, length |-> NULL, next_slot |-> NULL]

Occupied(s) == kv_mapping_table[s].mem_offset # NULL

Classes == {"small", "large"}
Class(len) == IF len > SMALL_LENGTH THEN "large" ELSE "small"
CellLength(c) == IF c = "small" THEN SMALL_LENGTH ELSE LARGE_LENGTH
NBits(c) == IF c = "small" THEN SmallBits ELSE LargeBits

Idle == [pc |-> "idle"]

(* kv_init_namespace: only handles 0..15 of 0..16 are set to NULL, so the  *)
(* last one is whatever kmalloc returned.                                  *)
Init ==
    /\ kv_mapping_table = [s \in Slots |-> Empty]
    /\ storage = [u \in Units |-> NULL]
    /\ bits = [c \in Classes |-> {}]
    /\ last_pos = [c \in Classes |-> 0]
    /\ latest = 0
    /\ iter_handle \in {f \in [Handles -> {NULL, GARBAGE}] :
                            \A h \in Handles : h # NrIters => f[h] = NULL}
    /\ w = [i \in Workers |-> Idle]
    /\ inserts = 0
    /\ kept = [k \in Keys |-> NULL]
    /\ reply = [op |-> "none", key |-> NULL, asked |-> 0, status |-> "ok", data |-> << >>]
    /\ born = [s \in Slots |-> 0] /\ fills = 0
    /\ owed = [h \in Handles |-> {}]
    /\ mishaps = {}

-----------------------------------------------------------------------------
(* The chain of slots a lookup visits: next_slot is followed while slots   *)
(* are occupied.  The walk has no bound; after HashSlots + 1 slots it is   *)
(* in a cycle.                                                             *)
Visited(k) ==
    LET at[i \in 0..HashSlots] ==
            IF i = 0 THEN Hash[k]
            ELSE IF at[i - 1] = NULL THEN NULL
                 ELSE IF Occupied(at[i - 1])
                      THEN kv_mapping_table[at[i - 1]].next_slot
                      ELSE NULL
    IN  at

Holds(s, k) == s # NULL /\ Occupied(s) /\ kv_mapping_table[s].key = k

(* get_mapping_entry, get_mapping_entry_by_key: the first entry on the     *)
(* chain with the key.                                                     *)
get_mapping_entry(k) ==
    LET at == Visited(k)
        hits == {i \in DOMAIN at : Holds(at[i], k)}
    IN  IF hits = {} THEN NULL
        ELSE at[CHOOSE i \in hits : \A j \in hits : i <= j]

NeverEnds(k) == Visited(k)[HashSlots] # NULL /\ get_mapping_entry(k) = NULL

(* find_next_slot: the first free slot from the home slot on, cyclically. *)
Probe(k) == {i \in 0..HashSlots - 1 : ~Occupied((Hash[k] + i) % HashSlots)}
find_next_slot(k) ==
    (Hash[k] + CHOOSE i \in Probe(k) : \A j \in Probe(k) : i <= j) % HashSlots

-----------------------------------------------------------------------------
(* External: the kernel's bitmap_find_next_zero_area looks for a zero bit  *)
(* from start on and returns nbits + 1 if there is none.                   *)
bitmap_find_next_zero_area(c) ==
    LET zeros == {b \in last_pos[c]..NBits(c) - 1 : b \notin bits[c]}
    IN  IF zeros = {} THEN NBits(c) + 1
        ELSE CHOOSE b \in zeros : \A x \in zeros : b <= x

(* calculated_offset of bitmap_allocate: small cells fill the first half   *)
(* of the device, large ones the second.                                   *)
CellOffset(c, off) == (IF c = "large" THEN DevSize \div 2 ELSE 0) + off * CellLength(c)

(* bitmap_allocate: the bit found is set and the cursor moved behind it. *)
bitmap_allocate(c, off) ==
    /\ bits' = [bits EXCEPT ![c] = @ \cup {off}]
    /\ last_pos' = [last_pos EXCEPT ![c] = IF off + 1 > NBits(c) THEN 0 ELSE off + 1]
    /\ UNCHANGED latest

(* Faulty variant: the cursor advances by one unit less. *)
append_only_allocate_short(len) ==
    /\ latest' = latest + len - 1
    /\ UNCHANGED <<bits, last_pos>>

append_only_allocate(len) ==
    /\ latest' = latest + len
    /\ UNCHANGED <<bits, last_pos>>

-----------------------------------------------------------------------------
(* What a step can do that a map would not (history).                      *)
(* A live link is a slot's next_slot while it leads to another entry whose *)
(* home the slot is: that entry is found through it only.                  *)
CutsLink(s, next) ==
    LET n == kv_mapping_table[s].next_slot
    IN  n \notin {NULL, s, next} /\ Occupied(n) /\ Hash[kv_mapping_table[n].key] = s

(* A store of k changes a unit of the value of another key.                *)
Overwrites(k, units, data) ==
    \E s \in Slots :
        LET e == kv_mapping_table[s]
        IN  /\ Occupied(s) /\ e.key # k
            /\ \E u \in units \cap Units :
                  u \in e.mem_offset .. e.mem_offset + e.length - 1 /\ storage[u] # data

(* An update ends while the entry has the length of the old value.         *)
KeepsLength(k, len) ==
    \E s \in Slots : s = get_mapping_entry(k) /\ kv_mapping_table[s].length # len

-----------------------------------------------------------------------------
(* The commands a host sends. *)
Commands ==
    {cmd \in [op : Ops \cap {"store", "batch"}, key : Keys, data : Data, length : 1..LARGE_LENGTH] :
        cmd.length \in (IF cmd.op = "store" THEN LengthsOf ELSE BatchLengths)[cmd.key]}
    \cup {cmd \in [op : Ops \cap {"retrieve"}, key : Keys, length : 1..LARGE_LENGTH] :
             cmd.length \in LengthsOf[cmd.key]}
    \cup [op : Ops \cap {"exist", "delete"}, key : Keys]

Done(i, cmd, status, data) ==
    /\ w' = [w EXCEPT ![i] = IF cmd.op = "batch" THEN [pc |-> "batch"] ELSE Idle]
    /\ reply' = [op |-> IF cmd.op = "batch" THEN "store" ELSE cmd.op, key |-> cmd.key,
                 asked |-> IF cmd.op = "retrieve" THEN cmd.length ELSE 0,
                 status |-> status, data |-> data]

(* A store or a batched store: allocate if the key is new; an update with  *)
(* another length is only honoured among small values, but is copied in    *)
(* any case.                                                               *)
BeginStore(i, cmd) ==
    LET s == get_mapping_entry(cmd.key)
        old == kv_mapping_table[s]
        differs == old.length # cmd.length
        small == cmd.length <= SMALL_LENGTH /\ old.length <= SMALL_LENGTH
    IN  /\ IF s = NULL
           THEN /\ inserts < MaxInserts
                /\ w' = [w EXCEPT ![i] = [pc |-> "alloc", cmd |-> cmd]]
           ELSE w' = [w EXCEPT ![i] =
                        [pc |-> "copy", cmd |-> cmd, offset |-> old.mem_offset,
                         is_insert |-> IF differs /\ small THEN 2 ELSE 0]]
        /\ UNCHANGED reply

(* Retrieve, exist and delete of a key that is not found end here. *)
BeginFind(i, cmd) ==
    LET s == get_mapping_entry(cmd.key)
    IN  CASE s = NULL -> Done(i, cmd, "not_exist", << >>)
          [] s # NULL /\ cmd.op = "exist" -> Done(i, cmd, "ok", << >>)
          [] s # NULL /\ cmd.op # "exist" ->
                /\ w' = [w EXCEPT ![i] = [pc |-> cmd.op, cmd |-> cmd,
                                          entry |-> kv_mapping_table[s]]]
                /\ UNCHANGED reply

Begin(i, cmd) ==
    /\ w[i].pc = "idle" \/ (w[i].pc = "batch" /\ cmd.op = "batch")
    /\ IF NeverEnds(cmd.key)
       THEN w' = [w EXCEPT ![i] = [pc |-> "spin"]] /\ UNCHANGED reply
       ELSE IF cmd.op \in {"store", "batch"} THEN BeginStore(i, cmd) ELSE BeginFind(i, cmd)
    /\ UNCHANGED <<tableVars, storage, allocVars, iterVars, kept, mishaps>>

(* __do_perform_kv_batch has performed its sub-commands. *)
BatchEnd(i) ==
    /\ w[i].pc = "batch"
    /\ w' = [w EXCEPT ![i] = Idle]
    /\ UNCHANGED <<tableVars, storage, allocVars, iterVars, hostVars, mishaps>>

(* allocate_mem_offset, allocate_mem_offset_by_length: the free cell is    *)
(* found in one step and marked in the next.                               *)
AllocFind(i) ==
    LET c == Class(w[i].cmd.length)
        off == IF Allocator = "append_only" THEN latest ELSE bitmap_find_next_zero_area(c)
    IN  /\ w[i].pc = "alloc"
        /\ w' = [w EXCEPT ![i] = [pc |-> "mark", cmd |-> w[i].cmd, off |-> off]]
        /\ UNCHANGED <<tableVars, storage, allocVars, iterVars, hostVars, mishaps>>

AllocMark(i) ==
    LET c == Class(w[i].cmd.length)
        off == w[i].off
    IN  /\ w[i].pc = "mark"
        /\ IF Allocator = "append_only"
           THEN append_only_allocate(w[i].cmd.length)
           ELSE bitmap_allocate(c, off)
        /\ inserts' = inserts + 1
        /\ w' = [w EXCEPT ![i] = [pc |-> "copy", cmd |-> w[i].cmd, is_insert |-> 1,
                                  offset |-> IF Allocator = "append_only" THEN off
                                             ELSE CellOffset(c, off)]]
        /\ UNCHANGED <<tableVars, storage, iterVars, hostVars, mishaps>>

Stored(cmd) == [data |-> cmd.data, length |-> cmd.length]

(* The value is copied into storage.  Behind the device that is the        *)
(* mapping table, and the program's end: nothing is modelled after it, not *)
(* the BUG_ON of new_mapping_entry either.  A batched update never changes *)
(* the length of the mapping: that call is commented out.                  *)
Fits(i) == w[i].offset + w[i].cmd.length <= DevSize

StoreWild(i) ==
    /\ w[i].pc = "copy" /\ ~Fits(i)
    /\ w' = [j \in Workers |-> [pc |-> "wild"]]
    /\ UNCHANGED <<tableVars, storage, allocVars, iterVars, hostVars, mishaps>>

StoreCopy(i) ==
    LET cmd == w[i].cmd
        units == w[i].offset .. w[i].offset + cmd.length - 1
        next == CASE w[i].is_insert = 1 -> "map"
                  [] w[i].is_insert = 2 /\ cmd.op = "store" -> "update"
                  [] OTHER -> "done"
    IN  /\ w[i].pc = "copy" /\ Fits(i)
        /\ storage' = [u \in Units |-> IF u \in units THEN cmd.data ELSE storage[u]]
        /\ IF next = "done"
           THEN /\ Done(i, cmd, "ok", << >>)
                /\ kept' = [kept EXCEPT ![cmd.key] = Stored(cmd)]
           ELSE /\ w' = [w EXCEPT ![i] = [pc |-> next, cmd |-> cmd, offset |-> w[i].offset]]
                /\ UNCHANGED hostVars
        /\ mishaps' = mishaps
               \cup (IF Overwrites(cmd.key, units, cmd.data) THEN {"value"} ELSE {})
               \cup (IF next = "done" /\ KeepsLength(cmd.key, cmd.length) THEN {"length"} ELSE {})
        /\ UNCHANGED <<tableVars, allocVars, iterVars>>

(* new_mapping_entry, new_mapping_entry_by_key, in three steps.  First the  *)
(* slot: in a full table the probe never ends.                             *)
MapFind(i) ==
    LET cmd == w[i].cmd
    IN  /\ w[i].pc = "map"
        /\ w' = [w EXCEPT ![i] =
                    IF Probe(cmd.key) = {} THEN [pc |-> "spin"]
                    ELSE [pc |-> "entry", cmd |-> cmd, offset |-> w[i].offset,
                          slot |-> find_next_slot(cmd.key)]]
        /\ UNCHANGED <<tableVars, storage, allocVars, iterVars, hostVars, mishaps>>

(* Then the entry is written; its next_slot is left as it was. *)
MapWrite(i) ==
    LET cmd == w[i].cmd
        slot == w[i].slot
    IN  /\ w[i].pc = "entry"
        /\ kv_mapping_table' = [kv_mapping_table EXCEPT ![slot].key = cmd.key,
                                                        ![slot].mem_offset = w[i].offset,
                                                        ![slot].length = cmd.length]
        /\ fills' = fills + 1
        /\ born' = [born EXCEPT ![slot] = fills + 1]
        /\ IF slot = Hash[cmd.key]
           THEN /\ Done(i, cmd, "ok", << >>)
                /\ kept' = [kept EXCEPT ![cmd.key] = Stored(cmd)]
           ELSE /\ w' = [w EXCEPT ![i] = [pc |-> "chain", cmd |-> cmd, slot |-> slot]]
                /\ UNCHANGED hostVars
        /\ UNCHANGED <<storage, allocVars, iterVars, mishaps>>

(* Last, after a collision, chain_mapping: the home slot's next_slot is    *)
(* overwritten.                                                            *)
chain_mapping(i) ==
    LET cmd == w[i].cmd
    IN  /\ w[i].pc = "chain"
        /\ kv_mapping_table' = [kv_mapping_table EXCEPT ![Hash[cmd.key]].next_slot = w[i].slot]
        /\ Done(i, cmd, "ok", << >>)
        /\ kept' = [kept EXCEPT ![cmd.key] = Stored(cmd)]
        /\ mishaps' = mishaps \cup (IF CutsLink(Hash[cmd.key], w[i].slot) THEN {"link"} ELSE {})
        /\ UNCHANGED <<born, fills, storage, allocVars, iterVars>>

(* Faulty variant: the new length is not stored. *)
update_mapping_entry_nothing(i) ==
    LET cmd == w[i].cmd
    IN  /\ w[i].pc = "update"
        /\ Done(i, cmd, "ok", << >>)
        /\ kept' = [kept EXCEPT ![cmd.key] = Stored(cmd)]
        /\ UNCHANGED <<tableVars, storage, allocVars, iterVars, mishaps>>

(* update_mapping_entry: the key is looked up again. *)
update_mapping_entry(i) ==
    LET cmd == w[i].cmd
        s == get_mapping_entry(cmd.key)
    IN  /\ w[i].pc = "update"
        /\ IF NeverEnds(cmd.key)
           THEN w' = [w EXCEPT ![i] = [pc |-> "spin"]] /\ UNCHANGED <<tableVars, hostVars>>
           ELSE /\ kv_mapping_table' = IF s = NULL THEN kv_mapping_table
                                       ELSE [kv_mapping_table EXCEPT ![s].length = cmd.length]
                /\ Done(i, cmd, "ok", << >>)
                /\ kept' = [kept EXCEPT ![cmd.key] = Stored(cmd)]
                /\ UNCHANGED <<born, fills>>
        /\ UNCHANGED <<storage, allocVars, iterVars, mishaps>>

(* kv_retrieve copies min(entry.length, length) from storage. *)
RetrieveCopy(i) ==
    LET cmd == w[i].cmd
        e == w[i].entry
        n == IF e.length < cmd.length THEN e.length ELSE cmd.length
    IN  /\ w[i].pc = "retrieve"
        /\ Done(i, cmd, "ok",
                [j \in 1..n |-> IF e.mem_offset + j - 1 \in Units
                                THEN storage[e.mem_offset + j - 1] ELSE NULL])
        /\ UNCHANGED <<tableVars, storage, allocVars, iterVars, kept, mishaps>>

(* Faulty variant: only mem_offset becomes -1, the entry stays chained. *)
delete_mapping_entry_offset(i) ==
    LET cmd == w[i].cmd
        s == get_mapping_entry(cmd.key)
    IN  /\ w[i].pc = "delete" /\ s # NULL
        /\ kv_mapping_table' = [kv_mapping_table EXCEPT ![s].mem_offset = NULL]
        /\ owed' = [h \in Handles |-> owed[h] \ {s}]
        /\ Done(i, cmd, "ok", << >>)
        /\ kept' = [kept EXCEPT ![cmd.key] = NULL]
        /\ UNCHANGED <<storage, allocVars, iter_handle, born, fills, mishaps>>

(* delete_mapping_entry: looked up again; the whole entry becomes -1, so   *)
(* the chain ends here.  Its cell stays allocated.                         *)
delete_mapping_entry(i) ==
    LET cmd == w[i].cmd
        s == get_mapping_entry(cmd.key)
    IN  /\ w[i].pc = "delete"
        /\ IF NeverEnds(cmd.key)
           THEN /\ w' = [w EXCEPT ![i] = [pc |-> "spin"]]
                /\ UNCHANGED <<kv_mapping_table, owed, hostVars, mishaps>>
           ELSE /\ kv_mapping_table' = IF s = NULL THEN kv_mapping_table
                                       ELSE [kv_mapping_table EXCEPT ![s] = Empty]
                /\ owed' = [h \in Handles |-> owed[h] \ {s}]
                /\ Done(i, cmd, "ok", << >>)
                /\ kept' = [kept EXCEPT ![cmd.key] = NULL]
                /\ mishaps' = mishaps \cup (IF s # NULL /\ CutsLink(s, NULL) THEN {"link"} ELSE {})
        /\ UNCHANGED <<storage, allocVars, iter_handle, born, fills>>

-----------------------------------------------------------------------------
(* kv_iter_open takes the first free handle.  When there is none it        *)
(* changes nothing and returns 1, a handle already in use: a host that     *)
(* was given it reads on in the other iterator, which is a kv_iter_read of *)
(* handle 1.                                                               *)
FreeHandles == {h \in Handles : iter_handle[h] = NULL}

Selected(prefix, from) ==
    {s \in Slots : s >= from /\ Occupied(s) /\ kv_mapping_table[s].key \in prefix}

kv_iter_open(i, prefix) ==
    LET h == CHOOSE x \in FreeHandles : \A y \in FreeHandles : x <= y
    IN  /\ w[i].pc = "idle"
        /\ FreeHandles # {}
        /\ iter_handle' = [iter_handle EXCEPT ![h] = [prefix |-> prefix, current_pos |-> 0]]
        /\ owed' = [owed EXCEPT ![h] = Selected(prefix, 0)]
        /\ UNCHANGED <<tableVars, storage, allocVars, hostVars, w, mishaps>>

(* Handles the host was given: those of open iterators. *)
Open(h) == iter_handle[h] \notin {NULL, GARBAGE}

kv_iter_close(i, h) ==
    /\ w[i].pc = "idle" /\ Open(h)
    /\ iter_handle' = [iter_handle EXCEPT ![h] = NULL]
    /\ owed' = [owed EXCEPT ![h] = {}]
    /\ UNCHANGED <<tableVars, storage, allocVars, hostVars, w, mishaps>>

(* kv_iter_read returns the selected keys from current_pos on, at most as  *)
(* many as fit, and stops at the first one that does not fit, or at the    *)
(* end of the table.  (The status, 0x393 at the end, is left out.)         *)
StopPos(h) ==
    LET sel == Selected(iter_handle[h].prefix, iter_handle[h].current_pos)
        unread == {s \in sel : Cardinality({t \in sel : t < s}) = KeysPerRead}
    IN  IF unread = {} THEN HashSlots ELSE CHOOSE s \in unread : TRUE

(* Faulty variant: the position moves past the key that did not fit. *)
kv_iter_read_skipping(i, h) ==
    /\ w[i].pc = "idle" /\ Open(h)
    /\ iter_handle' = [iter_handle EXCEPT ![h].current_pos = StopPos(h) + 1]
    /\ owed' = [owed EXCEPT ![h] =
                   @ \ {s \in Selected(iter_handle[h].prefix, iter_handle[h].current_pos) :
                            s < StopPos(h)}]
    /\ UNCHANGED <<tableVars, storage, allocVars, hostVars, w, mishaps>>

kv_iter_read(i, h) ==
    /\ w[i].pc = "idle" /\ Open(h)
    /\ iter_handle' = [iter_handle EXCEPT ![h].current_pos = StopPos(h)]
    /\ owed' = [owed EXCEPT ![h] =
                   @ \ {s \in Selected(iter_handle[h].prefix, iter_handle[h].current_pos) :
                            s < StopPos(h)}]
    /\ UNCHANGED <<tableVars, storage, allocVars, hostVars, w, mishaps>>

-----------------------------------------------------------------------------
Work(i) ==
    \/ BatchEnd(i)
    \/ AllocFind(i) \/ AllocMark(i)
    \/ StoreCopy(i) \/ StoreWild(i)
    \/ MapFind(i) \/ MapWrite(i) \/ chain_mapping(i)
    \/ update_mapping_entry(i)
    \/ RetrieveCopy(i)
    \/ delete_mapping_entry(i)

Next ==
    \E i \in Workers :
        \/ \E cmd \in Commands : Begin(i, cmd)
        \/ Work(i)
        \/ \E prefix \in Prefixes : kv_iter_open(i, prefix)
        \/ \E h \in Handles : kv_iter_close(i, h) \/ kv_iter_read(i, h)

Spec == Init /\ [][Next]_vars

-----------------------------------------------------------------------------
(* A chain only leads from an entry to entries filled later: lookups visit *)
(* no slot twice, so the unbounded loops of get_mapping_entry,             *)
(* update_mapping_entry and delete_mapping_entry end.                      *)
ChainsLeadForward ==
    \A s \in Slots :
        LET n == kv_mapping_table[s].next_slot
        IN  Occupied(s) /\ n # NULL /\ Occupied(n) => born[s] < born[n]

(* The cells of two entries do not overlap: the allocator hands out no     *)
(* part of the device twice.                                               *)
CellsDisjoint ==
    \A s, t \in Slots :
        s # t /\ Occupied(s) /\ Occupied(t) =>
            LET a == kv_mapping_table[s]  b == kv_mapping_table[t]
            IN  \/ a.mem_offset + a.length <= b.mem_offset
                \/ b.mem_offset + b.length <= a.mem_offset

(* An iterator that has passed a slot has returned its key, if the key     *)
(* was there when the iterator was opened and has not been deleted since:  *)
(* a complete iteration misses nothing, however the reads are cut and      *)
(* whatever is stored in between.                                          *)
IterationMissesNothing ==
    \A h \in Handles : Open(h) => \A s \in owed[h] : s >= iter_handle[h].current_pos

(* "if mapping_entry exist -> write to mem_offset, else -> allocate":      *)
(* a key has one entry.                                                    *)
KeyMappedOnce ==
    \A s, t \in Slots :
        s # t /\ Occupied(s) /\ Occupied(t) =>
            kv_mapping_table[s].key # kv_mapping_table[t].key

(* "if mapping_entry exist -> read from mem_offset, else -> key doesn't    *)
(* exist!": a key with an entry in the table is found by its lookup.       *)
ExistingKeyFound ==
    (\A i \in Workers : w[i].pc \in {"idle", "batch"}) =>
        \A s \in Slots : Occupied(s) => get_mapping_entry(kv_mapping_table[s].key) # NULL

(* "is update with different length": after the store the mapping has the  *)
(* length of the value stored.                                             *)
UpdateSetsLength ==
    (\A i \in Workers : w[i].pc \in {"idle", "batch"}) =>
        \A k \in Keys : kept[k] # NULL /\ get_mapping_entry(k) # NULL =>
            kv_mapping_table[get_mapping_entry(k)].length = kept[k].length

(* Stores, batches, updates, deletions and retrievals of the hash table    *)
(* behave as those of a map, collisions included, until a live link is     *)
(* cut, a value overwritten or the length of an update lost.               *)
Map == INSTANCE KvMap WITH
          map <- kept, reply <- reply, broken <- mishaps # {}, Absent <- NULL,
          Lengths <- 1..LARGE_LENGTH
ImplementsMap == Map!Spec
=============================================================================
