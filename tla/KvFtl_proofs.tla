---------------------------- MODULE KvFtl_proofs ----------------------------
(***************************************************************************)
(* Proofs about KvFtl: chains lead forward, iterations miss nothing, cells *)
(* do not overlap, and the hash table is a map until a live link is cut, a *)
(* value overwritten or the length of an update lost, for any number of    *)
(* keys, slots, handles and lengths and any hash function.                 *)
(*                                                                         *)
(* All of this is about one worker: the workers of the code share table    *)
(* and allocator without a lock.                                           *)
(***************************************************************************)
EXTENDS KvFtl, WellFoundedInduction, TLAPS

OneWorker == \A i, j \in Workers : i = j

Lengths(k) == LengthsOf[k] \cup BatchLengths[k]

-----------------------------------------------------------------------------
(* Types. *)
Values == [data : Data, length : 1..LARGE_LENGTH]

Entries == [key : Keys \cup {NULL}, mem_offset : Nat \cup {NULL},
            length : 1..LARGE_LENGTH \cup {NULL}, next_slot : Slots \cup {NULL}]

StoreCmds ==
    {c \in [op : {"store", "batch"}, key : Keys, data : Data, length : 1..LARGE_LENGTH] :
        c.length \in (IF c.op = "batch" THEN BatchLengths ELSE LengthsOf)[c.key]}
RetrieveCmds == [op : {"retrieve"}, key : Keys, length : 1..LARGE_LENGTH]
KeyCmds == [op : {"exist", "delete"}, key : Keys]

AtWork ==
    [pc : {"idle", "batch", "spin", "wild"}]
    \cup [pc : {"alloc"}, cmd : StoreCmds]
    \cup [pc : {"mark"}, cmd : StoreCmds, off : Nat]
    \cup [pc : {"copy"}, cmd : StoreCmds, offset : Nat, is_insert : {0, 1, 2}]
    \cup [pc : {"map", "update"}, cmd : StoreCmds, offset : Nat]
    \cup [pc : {"entry"}, cmd : StoreCmds, offset : Nat, slot : Slots]
    \cup [pc : {"chain"}, cmd : StoreCmds, slot : Slots]
    \cup [pc : {"retrieve"}, cmd : RetrieveCmds, entry : Entries]
    \cup [pc : {"delete"}, cmd : {c \in KeyCmds : c.op = "delete"}, entry : Entries]

Iterators == [prefix : Prefixes, current_pos : Nat]

TypeOK ==
    /\ kv_mapping_table \in [Slots -> Entries]
    /\ storage \in [Units -> Data \cup {NULL}]
    /\ bits \in [Classes -> SUBSET Nat] /\ last_pos \in [Classes -> Nat] /\ latest \in Nat
    /\ inserts \in Nat
    /\ iter_handle \in [Handles -> Iterators \cup {NULL, GARBAGE}]
    /\ w \in [Workers -> AtWork]
    /\ kept \in [Keys -> Values \cup {NULL}]
    /\ born \in [Slots -> Nat] /\ fills \in Nat
    /\ owed \in [Handles -> SUBSET Slots]

(* The inductive invariant of the table.  A free slot is in front of no     *)
(* chain, an entry is whole, and no entry is newer than the last.           *)
EntriesWhole ==
    \A s \in Slots :
        IF Occupied(s)
        THEN /\ kv_mapping_table[s].key \in Keys
             /\ kv_mapping_table[s].length \in Lengths(kv_mapping_table[s].key)
        ELSE kv_mapping_table[s].next_slot = NULL

FillsCounted == \A s \in Slots : born[s] <= fills

(* What a worker that inserts knows about the slot it found: it is free,    *)
(* then it holds the newest entry; the home slot is occupied if it is not   *)
(* this one.                                                                *)
InsertInOrder ==
    \A i \in Workers :
        /\ w[i].pc = "entry" =>
              /\ ~Occupied(w[i].slot)
              /\ w[i].slot # Hash[w[i].cmd.key] => Occupied(Hash[w[i].cmd.key])
        /\ w[i].pc = "chain" =>
              /\ w[i].slot # Hash[w[i].cmd.key]
              /\ Occupied(Hash[w[i].cmd.key])
              /\ \A s \in Slots : s # w[i].slot => born[s] < born[w[i].slot]

(* The slots an iterator owes are ahead of it and still hold entries it     *)
(* selects.                                                                 *)
OwedSelected ==
    \A h \in Handles : Open(h) =>
        owed[h] \subseteq Selected(iter_handle[h].prefix, iter_handle[h].current_pos)

TableIInv ==
    TypeOK /\ EntriesWhole /\ FillsCounted /\ InsertInOrder /\ ChainsLeadForward /\ OwedSelected

-----------------------------------------------------------------------------
(* Cells.  The hypothesis under which the allocator's cells suffice: an     *)
(* append-only cell is only as long as the first value in it, and the       *)
(* bitmap of the small cells must not be used up.                           *)
CellsSuffice ==
    IF Allocator = "append_only"
    THEN \A k \in Keys : \A m, n \in Lengths(k) : m <= SMALL_LENGTH /\ n <= SMALL_LENGTH => m = n
    ELSE MaxInserts <= SmallBits

(* What the allocator sets apart for a value. *)
Reserved(len) == IF Allocator = "append_only" THEN len ELSE CellLength(Class(len))

Apart(o, len, p, n) == o + Reserved(len) <= p \/ p + Reserved(n) <= o

Taken(o, len) ==
    IF Allocator = "append_only" THEN o + len <= latest
    ELSE \E b \in bits[Class(len)] : b < NBits(Class(len)) /\ o = CellOffset(Class(len), b)

CellsTaken ==
    \A s \in Slots : Occupied(s) =>
        Taken(kv_mapping_table[s].mem_offset, kv_mapping_table[s].length)

CellsApart ==
    \A s, t \in Slots : s # t /\ Occupied(s) /\ Occupied(t) =>
        Apart(kv_mapping_table[s].mem_offset, kv_mapping_table[s].length,
              kv_mapping_table[t].mem_offset, kv_mapping_table[t].length)

(* What a worker with x is doing. *)
Allocating(x) == x.pc \in {"alloc", "mark"}
Inserting(x) == x.pc \in {"map", "entry"} \/ (x.pc = "copy" /\ x.is_insert = 1)
Updating(x) == x.pc = "update" \/ (x.pc = "copy" /\ x.is_insert = 2)

(* The cell of an insertion in progress: taken, unless it is behind the     *)
(* device, and apart from the others.                                       *)
PendingCell(x) ==
    /\ Taken(x.offset, x.cmd.length) \/ (x.pc = "copy" /\ x.offset >= DevSize)
    /\ \A s \in Slots : Occupied(s) =>
          Apart(x.offset, x.cmd.length, kv_mapping_table[s].mem_offset, kv_mapping_table[s].length)
PendingApart == \A i \in Workers : Inserting(w[i]) => PendingCell(w[i])

(* What a worker found is still free when it marks it. *)
Free(c, off) ==
    IF Allocator = "append_only" THEN off = latest
    ELSE \/ /\ off < NBits(c) /\ off \notin bits[c]
            /\ c = "small" => off = last_pos[c]
         \/ c = "large" /\ off = NBits(c) + 1
FoundFree ==
    \A i \in Workers : w[i].pc = "mark" => Free(Class(w[i].cmd.length), w[i].off)

AllocationsCounted ==
    /\ inserts <= MaxInserts
    /\ \A i \in Workers : Allocating(w[i]) => inserts < MaxInserts
    /\ Allocator # "append_only" =>
          last_pos["small"] <= inserts /\ bits["small"] = 0..last_pos["small"] - 1

(* An update that will change a length is one of small values. *)
SmallUpdate(x) ==
    /\ x.cmd.length <= SMALL_LENGTH
    /\ get_mapping_entry(x.cmd.key) # NULL =>
          kv_mapping_table[get_mapping_entry(x.cmd.key)].length <= SMALL_LENGTH
UpdatesSmall == \A i \in Workers : Updating(w[i]) => SmallUpdate(w[i])

CellIInv ==
    CellsTaken /\ CellsApart /\ PendingApart /\ FoundFree /\ AllocationsCounted /\ UpdatesSmall

-----------------------------------------------------------------------------
(* The map.  While nothing has been lost (mishaps = {}), every entry can be *)
(* found: it is in its home slot, or next_slot of its home slot leads to    *)
(* it, except for the one that a worker with x has yet to chain.            *)
InHand(x, s) == x.pc = "chain" /\ x.slot = s

Has(s, k) == Occupied(s) /\ kv_mapping_table[s].key = k

Reached(s) ==
    LET h == Hash[kv_mapping_table[s].key]
    IN  s = h \/ (Occupied(h) /\ kv_mapping_table[h].next_slot = s)

EntriesReached(x) == \A s \in Slots : Occupied(s) /\ ~InHand(x, s) => Reached(s)

(* The entries are those of the map the host expects, and so is what they   *)
(* point to, but for an update that has copied its data and not yet changed *)
(* the length.                                                              *)
Filled(o, len, data) == \A u \in o..o + len - 1 : u \in Units /\ storage[u] = data

IsValue(s, v) ==
    /\ kv_mapping_table[s].length = v.length
    /\ Filled(kv_mapping_table[s].mem_offset, v.length, v.data)

BeingUpdated(x, k) == x.pc = "update" /\ x.cmd.key = k

TableIsMap(x) ==
    \A k \in Keys :
        /\ kept[k] # NULL <=> \E s \in Slots : Has(s, k) /\ ~InHand(x, s)
        /\ ~BeingUpdated(x, k) =>
              \A s \in Slots : Has(s, k) /\ ~InHand(x, s) => IsValue(s, kept[k])

(* What a worker with x has found is still so. *)
MatchesMap(x) ==
    /\ Allocating(x) \/ Inserting(x) \/ x.pc = "chain" => kept[x.cmd.key] = NULL
    /\ x.pc \in {"map", "entry", "update"} => Filled(x.offset, x.cmd.length, x.cmd.data)
    /\ x.pc = "chain" =>
          /\ Has(x.slot, x.cmd.key)
          /\ kv_mapping_table[x.slot].length = x.cmd.length
          /\ Filled(kv_mapping_table[x.slot].mem_offset, x.cmd.length, x.cmd.data)
    /\ x.pc = "update" \/ (x.pc = "copy" /\ x.is_insert # 1) =>
          \E s \in Slots : Has(s, x.cmd.key) /\ x.offset = kv_mapping_table[s].mem_offset
    /\ x.pc = "update" => x.cmd.op = "store"
    /\ x.pc = "retrieve" =>
          \E s \in Slots : Has(s, x.cmd.key) /\ x.entry = kv_mapping_table[s]
    /\ x.pc = "delete" => \E s \in Slots : Has(s, x.cmd.key)

MapIInv ==
    /\ KeyMappedOnce
    /\ \A i \in Workers : EntriesReached(w[i]) /\ TableIsMap(w[i]) /\ MatchesMap(w[i])

MapHolds == mishaps = {} => MapIInv

-----------------------------------------------------------------------------
(* Numbers. *)
LEMMA LeastElement ==
    ASSUME NEW T \in SUBSET Nat, T # {}
    PROVE  \E x \in T : \A y \in T : x <= y
<1> DEFINE Less == {p \in Nat \X Nat : p[1] < p[2]}
<1>1. OpToRel(<, Nat) = Less
  BY DEF OpToRel
<1>2. IsWellFoundedOn(OpToRel(<, Nat), Nat)
  BY NatLessThanWellFounded
<1>3. \E x \in T : \A y \in T : ~ (<<y, x>> \in Less)
  BY <1>1, <1>2, WFMin, ZenonT(30)
<1>4. \A x, y \in Nat : ~ (<<y, x>> \in Less) => x <= y
  OBVIOUS
<1> HIDE DEF Less
<1> QED
  BY <1>3, <1>4

LEMMA Half ==
    /\ SmallBits * SMALL_LENGTH \in Nat
    /\ DevSize = 2 * (SmallBits * SMALL_LENGTH)
    /\ DevSize \div 2 = SmallBits * SMALL_LENGTH
    /\ DevSize \div 2 = LargeBits * LARGE_LENGTH
<1> DEFINE p == SmallBits * SMALL_LENGTH
<1>1. p \in Nat /\ DevSize = 2 * p /\ p = LargeBits * LARGE_LENGTH
  BY GeometryAssumption DEF DevSize
<1>2. \A x \in Nat : (2 * x) \div 2 = x
  OBVIOUS
<1> HIDE DEF p
<1>3. DevSize \div 2 = p
  BY <1>1, <1>2
<1> QED
  BY <1>1, <1>3 DEF p

LEMMA NullApart == NULL \notin Keys /\ NULL \notin Int /\ NULL \notin Values /\ NULL \notin Data
                   /\ NULL # GARBAGE /\ NULL \notin Slots
BY NullAssumption DEF Values, Slots

-----------------------------------------------------------------------------
(* Lookups.  Visited is the sequence of slots its definition says.          *)
Follow(x) ==
    IF x = NULL THEN NULL
    ELSE IF Occupied(x) THEN kv_mapping_table[x].next_slot ELSE NULL

Walk(k, f) == f = [i \in 0..HashSlots |-> IF i = 0 THEN Hash[k] ELSE Follow(f[i - 1])]

LEMMA FollowType ==
    ASSUME TypeOK, NEW x \in Slots \cup {NULL}
    PROVE  Follow(x) \in Slots \cup {NULL}
<1>1. CASE x = NULL
  BY <1>1 DEF Follow
<1>2. CASE x # NULL
  <2>1. kv_mapping_table[x] \in Entries
    BY <1>2 DEF TypeOK
  <2>2. kv_mapping_table[x].next_slot \in Slots \cup {NULL}
    BY <2>1 DEF Entries
  <2> QED
    BY <2>2 DEF Follow
<1> QED
  BY <1>1, <1>2

LEMMA WalkExists ==
    ASSUME TypeOK, NEW k \in Keys
    PROVE  \E f : Walk(k, f)
<1> DEFINE S == Slots \cup {NULL}
           Part(n, f) == \A i \in 0..n : f[i] = IF i = 0 THEN Hash[k] ELSE Follow(f[i - 1])
           T == {n \in Nat : ~ \E f \in [0..n -> S] : Part(n, f)}
<1>1. \A n \in Nat : \E f \in [0..n -> S] : Part(n, f)
  <2>1. SUFFICES ASSUME T # {} PROVE FALSE
    OBVIOUS
  <2>2. PICK n \in T : \A y \in T : n <= y
    <3> HIDE DEF T
    <3>1. T \in SUBSET Nat
      BY DEF T
    <3> QED
      BY <2>1, <3>1, LeastElement
  <2>3. n \in Nat /\ ~ \E f \in [0..n -> S] : Part(n, f)
    BY <2>2
  <2>4. CASE n = 0
    <3> DEFINE f == [i \in 0..0 |-> Hash[k]]
    <3>1. f \in [0..0 -> S] /\ Part(0, f)
      BY HashAssumption
    <3> QED
      BY <2>3, <2>4, <3>1
  <2>5. CASE n # 0
    <3>1. n - 1 \in Nat /\ n - 1 < n
      BY <2>3, <2>5
    <3>2. n - 1 \notin T
      <4> HIDE DEF T
      <4> QED
        BY <2>2, <2>3, <3>1
    <3>3. PICK g \in [0..n - 1 -> S] : Part(n - 1, g)
      BY <3>1, <3>2
    <3> DEFINE f == [i \in 0..n |-> IF i = n THEN Follow(g[n - 1]) ELSE g[i]]
    <3>4. f \in [0..n -> S]
      <4>1. Follow(g[n - 1]) \in S
        BY <3>1, <3>3, FollowType
      <4>2. \A i \in 0..n : i # n => i \in 0..n - 1 /\ g[i] \in S
        BY <3>1, <3>3
      <4> QED
        BY <4>1, <4>2
    <3>5. ASSUME NEW i \in 0..n PROVE f[i] = IF i = 0 THEN Hash[k] ELSE Follow(f[i - 1])
      <4>1. CASE i = n
        <5>1. i # 0 /\ i - 1 \in 0..n /\ i - 1 # n /\ f[i] = Follow(g[n - 1]) /\ f[i - 1] = g[n - 1]
          BY <3>1, <4>1
        <5> QED
          BY <5>1
      <4>2. CASE i # n
        <5>1. i \in 0..n - 1 /\ f[i] = g[i] /\ (i # 0 => i - 1 \in 0..n /\ i - 1 # n /\ f[i - 1] = g[i - 1])
          BY <3>1, <4>2
        <5> HIDE DEF f
        <5> QED
          BY <3>3, <5>1
      <4> QED
        BY <4>1, <4>2
    <3>6. Part(n, f)
      BY <3>5
    <3> QED
      BY <2>3, <3>4, <3>6
  <2> QED
    BY <2>4, <2>5
<1>2. PICK f \in [0..HashSlots -> S] : Part(HashSlots, f)
  BY <1>1, HashAssumption
<1>3. f = [i \in 0..HashSlots |-> f[i]]
  BY <1>2
<1>4. [i \in 0..HashSlots |-> f[i]] = [i \in 0..HashSlots |-> IF i = 0 THEN Hash[k] ELSE Follow(f[i - 1])]
  BY <1>2
<1> QED
  BY <1>3, <1>4 DEF Walk

LEMMA VisitedWalks ==
    ASSUME TypeOK, NEW k \in Keys
    PROVE  Walk(k, Visited(k))
<1>1. Visited(k) = CHOOSE f : Walk(k, f)
  BY DEF Visited, Walk, Follow
<1> QED
  BY <1>1, WalkExists

LEMMA VisitedType ==
    ASSUME TypeOK, NEW k \in Keys
    PROVE  /\ Visited(k) \in [0..HashSlots -> Slots \cup {NULL}]
           /\ Visited(k)[0] = Hash[k]
<1>1. PICK f : f = Visited(k)
  OBVIOUS
<1>2. f = [i \in 0..HashSlots |-> IF i = 0 THEN Hash[k] ELSE Follow(f[i - 1])]
  BY <1>1, VisitedWalks DEF Walk
<1>3. \A i \in 0..HashSlots : f[i] = IF i = 0 THEN Hash[k] ELSE Follow(f[i - 1])
  BY <1>2
<1> DEFINE T == {i \in 0..HashSlots : f[i] \notin Slots \cup {NULL}}
<1>4. ASSUME T # {} PROVE FALSE
  <2>1. T \in SUBSET Nat
    BY HashAssumption
  <2>2. PICK i \in T : \A j \in T : i <= j
    <3> HIDE DEF T
    <3> QED
      BY <1>4, <2>1, LeastElement
  <2>3. i \in 0..HashSlots /\ f[i] \notin Slots \cup {NULL} /\ HashSlots \in Nat
    BY <2>2, HashAssumption
  <2>4. i # 0
    BY <1>3, <2>3, HashAssumption
  <2>5. i - 1 \in 0..HashSlots /\ i - 1 < i
    BY <2>3, <2>4
  <2>6. f[i - 1] \in Slots \cup {NULL}
    BY <2>2, <2>5
  <2> QED
    BY <1>3, <2>3, <2>4, <2>6, FollowType
<1>5. f \in [0..HashSlots -> Slots \cup {NULL}] /\ f[0] = Hash[k]
  <2>1. 0 \in 0..HashSlots
    BY HashAssumption
  <2>2. \A i \in 0..HashSlots : f[i] \in Slots \cup {NULL}
    BY <1>4
  <2>3. f = [i \in 0..HashSlots |-> f[i]]
    BY <1>2
  <2> HIDE DEF T
  <2> QED
    BY <1>3, <2>1, <2>2, <2>3
<1> QED
  BY <1>1, <1>5

(* A lookup finds an entry that holds the key, or nothing; and it finds the *)
(* home slot if the key is there.                                           *)
LEMMA LookupFinds ==
    ASSUME TypeOK, NEW k \in Keys
    PROVE  /\ get_mapping_entry(k) # NULL =>
                 get_mapping_entry(k) \in Slots /\ Holds(get_mapping_entry(k), k)
           /\ Holds(Hash[k], k) => get_mapping_entry(k) = Hash[k]
<1> DEFINE at == Visited(k)
           hits == {i \in DOMAIN at : Holds(at[i], k)}
           least == CHOOSE i \in hits : \A j \in hits : i <= j
<1>1. get_mapping_entry(k) = IF hits = {} THEN NULL ELSE at[least]
  BY DEF get_mapping_entry
<1>2. PICK f : f = at
  OBVIOUS
<1>3. f \in [0..HashSlots -> Slots \cup {NULL}] /\ f[0] = Hash[k] /\ 0 \in 0..HashSlots
  BY <1>2, VisitedType, HashAssumption
<1>4. hits = {i \in 0..HashSlots : Holds(f[i], k)}
  BY <1>2, <1>3
<1>5. ASSUME hits # {}
      PROVE  least \in hits /\ \A j \in hits : least <= j
  <2>1. hits \in SUBSET Nat
    BY <1>4, HashAssumption
  <2>2. \E i \in hits : \A j \in hits : i <= j
    <3> HIDE DEF hits
    <3> QED
      BY <1>5, <2>1, LeastElement
  <2> HIDE DEF hits
  <2> QED
    BY <2>2
<1> HIDE DEF at, hits, least
<1>6. ASSUME hits # {}
      PROVE  f[least] \in Slots /\ Holds(f[least], k)
  <2>1. least \in 0..HashSlots /\ Holds(f[least], k)
    BY <1>4, <1>5, <1>6
  <2> QED
    BY <1>3, <2>1 DEF Holds
<1>7. ASSUME Holds(Hash[k], k)
      PROVE  hits # {} /\ f[least] = Hash[k]
  <2>1. 0 \in hits
    BY <1>3, <1>4, <1>7
  <2>2. least \in 0..HashSlots /\ least <= 0
    BY <1>4, <1>5, <2>1
  <2>3. least = 0
    BY <2>2, HashAssumption
  <2> QED
    BY <1>3, <2>1, <2>3
<1> QED
  BY <1>1, <1>2, <1>6, <1>7

(* A lookup finds an entry behind the home slot, too.                       *)
LEMMA LookupFollows ==
    ASSUME TypeOK, NEW k \in Keys, NEW s \in Slots, Holds(s, k),
           Occupied(Hash[k]), kv_mapping_table[Hash[k]].next_slot = s
    PROVE  get_mapping_entry(k) # NULL
<1>1. PICK f : f = Visited(k)
  OBVIOUS
<1>2. f = [i \in 0..HashSlots |-> IF i = 0 THEN Hash[k] ELSE Follow(f[i - 1])]
  BY <1>1, VisitedWalks DEF Walk
<1>3. f \in [0..HashSlots -> Slots \cup {NULL}] /\ f[0] = Hash[k]
  BY <1>1, VisitedType
<1>4. 1 \in 0..HashSlots /\ 1 # 0 /\ 1 - 1 = 0
  BY HashAssumption
<1>5. f[1] = Follow(f[0])
  BY <1>2, <1>4
<1>6. Hash[k] \in Slots /\ Hash[k] # NULL
  BY HashAssumption, NullApart
<1>7. f[1] = s
  BY <1>3, <1>5, <1>6 DEF Follow
<1> DEFINE at == Visited(k)
           hits == {i \in DOMAIN at : Holds(at[i], k)}
           least == CHOOSE i \in hits : \A j \in hits : i <= j
<1>8. get_mapping_entry(k) = IF hits = {} THEN NULL ELSE at[least]
  BY DEF get_mapping_entry
<1>9. hits = {i \in 0..HashSlots : Holds(f[i], k)}
  BY <1>1, <1>3
<1>10. 1 \in hits
  BY <1>4, <1>7, <1>9
<1>11. least \in hits
  <2>1. hits \in SUBSET Nat
    BY <1>9, HashAssumption
  <2>2. \E i \in hits : \A j \in hits : i <= j
    <3> HIDE DEF hits
    <3> QED
      BY <1>10, <2>1, LeastElement
  <2> HIDE DEF hits
  <2> QED
    BY <2>2
<1> HIDE DEF at, hits, least
<1>12. Holds(f[least], k)
  BY <1>9, <1>11
<1> QED
  BY <1>1, <1>8, <1>10, <1>12 DEF Holds, at

(* The free slot found is the home slot, or the home slot is occupied.      *)
LEMMA FreeSlotFound ==
    ASSUME NEW k \in Keys, Probe(k) # {}
    PROVE  /\ find_next_slot(k) \in Slots /\ ~Occupied(find_next_slot(k))
           /\ find_next_slot(k) # Hash[k] => Occupied(Hash[k])
<1> DEFINE P == Probe(k)
           i == CHOOSE x \in P : \A j \in P : x <= j
<1>1. P \in SUBSET Nat
  BY HashAssumption DEF Probe
<1>2. \E x \in P : \A j \in P : x <= j
  <2> HIDE DEF P
  <2> QED
    BY <1>1, LeastElement DEF P
<1>3. i \in P /\ \A j \in P : i <= j
  <2> HIDE DEF P
  <2> QED
    BY <1>2
<1>4. find_next_slot(k) = (Hash[k] + i) % HashSlots
  BY DEF find_next_slot
<1> HIDE DEF P, i
<1>5. i \in 0..HashSlots - 1 /\ ~Occupied((Hash[k] + i) % HashSlots)
  BY <1>3 DEF P, Probe
<1>6. Hash[k] \in 0..HashSlots - 1 /\ HashSlots \in Nat \ {0}
  BY HashAssumption DEF Slots
<1>7. \A n \in Nat \ {0} : \A x \in 0..n - 1 : x % n = x
  OBVIOUS
<1>8. \A n \in Nat \ {0} : \A x \in Nat : x % n \in 0..n - 1
  OBVIOUS
<1>9. find_next_slot(k) \in Slots
  <2>1. Hash[k] + i \in Nat
    BY <1>5, <1>6
  <2> QED
    BY <1>4, <1>6, <1>8, <2>1 DEF Slots
<1>10. ASSUME ~Occupied(Hash[k]) PROVE find_next_slot(k) = Hash[k]
  <2>1. (Hash[k] + 0) % HashSlots = Hash[k]
    BY <1>6, <1>7
  <2>2. 0 \in P
    BY <1>6, <1>10, <2>1 DEF P, Probe
  <2>3. i = 0
    BY <1>3, <1>5, <1>6, <2>2
  <2> QED
    BY <1>4, <2>1, <2>3
<1> QED
  BY <1>4, <1>5, <1>9, <1>10

(* The free cell found is the first behind the cursor, or one behind the    *)
(* bitmap if there is none.                                                 *)
LEMMA ZeroAreaFound ==
    ASSUME TypeOK, NEW c \in Classes
    PROVE  LET off == bitmap_find_next_zero_area(c)
           IN  /\ off \in Nat
               /\ \/ /\ off \in last_pos[c]..NBits(c) - 1 /\ off \notin bits[c]
                     /\ \A x \in last_pos[c]..off - 1 : x \in bits[c]
                  \/ /\ off = NBits(c) + 1
                     /\ \A x \in last_pos[c]..NBits(c) - 1 : x \in bits[c]
<1> DEFINE zeros == {b \in last_pos[c]..NBits(c) - 1 : b \notin bits[c]}
           b == CHOOSE x \in zeros : \A y \in zeros : x <= y
<1>1. last_pos[c] \in Nat /\ NBits(c) \in Nat
  BY GeometryAssumption DEF TypeOK, NBits
<1>2. bitmap_find_next_zero_area(c) = IF zeros = {} THEN NBits(c) + 1 ELSE b
  BY DEF bitmap_find_next_zero_area
<1>3. CASE zeros = {}
  <2>1. \A x \in last_pos[c]..NBits(c) - 1 : x \in bits[c]
    BY <1>3
  <2> QED
    BY <1>1, <1>2, <1>3, <2>1
<1>4. CASE zeros # {}
  <2>1. zeros \in SUBSET Nat
    BY <1>1
  <2>2. \E x \in zeros : \A y \in zeros : x <= y
    <3> HIDE DEF zeros
    <3> QED
      BY <1>4, <2>1, LeastElement
  <2>3. b \in zeros /\ \A y \in zeros : b <= y
    <3> HIDE DEF zeros
    <3> QED
      BY <2>2
  <2> HIDE DEF b
  <2>4. b \in last_pos[c]..NBits(c) - 1 /\ b \notin bits[c] /\ b \in Nat
    BY <1>1, <2>3
  <2>5. ASSUME NEW x \in last_pos[c]..b - 1 PROVE x \in bits[c]
    <3>1. x \in last_pos[c]..NBits(c) - 1 /\ ~(b <= x)
      BY <1>1, <2>4
    <3> QED
      BY <2>3, <3>1
  <2> QED
    BY <1>2, <1>4, <2>4, <2>5
<1> QED
  BY <1>3, <1>4

-----------------------------------------------------------------------------
(* What a worker carries, by its position. *)
LEMMA CarriesCmd ==
    ASSUME NEW x \in AtWork
    PROVE  /\ x.pc \in {"alloc", "mark", "copy", "map", "update", "entry", "chain"} => x.cmd \in StoreCmds
           /\ x.pc = "mark" => x.off \in Nat
           /\ x.pc \in {"copy", "map", "update", "entry"} => x.offset \in Nat
           /\ x.pc = "copy" => x.is_insert \in {0, 1, 2}
           /\ x.pc \in {"entry", "chain"} => x.slot \in Slots
           /\ x.pc = "retrieve" => x.cmd \in RetrieveCmds /\ x.entry \in Entries
           /\ x.pc = "delete" => x.cmd \in KeyCmds /\ x.cmd.op = "delete"
BY DEF AtWork

LEMMA StoreCmdFields ==
    ASSUME NEW c \in StoreCmds
    PROVE  /\ c.op \in {"store", "batch"} /\ c.key \in Keys /\ c.data \in Data
           /\ c.length \in 1..LARGE_LENGTH /\ c.length \in Lengths(c.key)
           /\ c.op = "batch" => c.length \in BatchLengths[c.key]
BY DEF StoreCmds, Lengths

LEMMA CommandKinds ==
    ASSUME NEW c \in Commands
    PROVE  /\ c.op \in {"store", "batch"} => c \in StoreCmds
           /\ c.op \notin {"store", "batch"} =>
                 \/ c.op = "retrieve" /\ c \in RetrieveCmds
                 \/ c.op \in {"exist", "delete"} /\ c \in KeyCmds
           /\ c.key \in Keys
<1>1. CASE c \in {cmd \in [op : Ops \cap {"store", "batch"}, key : Keys, data : Data, length : 1..LARGE_LENGTH] :
                    cmd.length \in (IF cmd.op = "store" THEN LengthsOf ELSE BatchLengths)[cmd.key]}
  BY <1>1 DEF StoreCmds
<1>2. CASE c \in {cmd \in [op : Ops \cap {"retrieve"}, key : Keys, length : 1..LARGE_LENGTH] :
                    cmd.length \in LengthsOf[cmd.key]}
  BY <1>2 DEF RetrieveCmds
<1>3. CASE c \in [op : Ops \cap {"exist", "delete"}, key : Keys]
  BY <1>3 DEF KeyCmds
<1> QED
  BY <1>1, <1>2, <1>3 DEF Commands

-----------------------------------------------------------------------------
(* One step, by what it does.  The cases are the actions of Next; those     *)
(* that leave the table and the iterators alone are treated together.       *)
LEMMA BeginWork ==
    ASSUME TypeOK, NEW i \in Workers, NEW cmd \in Commands, Begin(i, cmd)
    PROVE  \/ w' = [w EXCEPT ![i] = [pc |-> "spin"]] /\ reply' = reply
           \/ /\ cmd \in StoreCmds /\ get_mapping_entry(cmd.key) = NULL /\ inserts < MaxInserts
              /\ w' = [w EXCEPT ![i] = [pc |-> "alloc", cmd |-> cmd]] /\ reply' = reply
           \/ LET s == get_mapping_entry(cmd.key)
                  old == kv_mapping_table[s]
                  ins == IF old.length # cmd.length /\ cmd.length <= SMALL_LENGTH /\ old.length <= SMALL_LENGTH
                         THEN 2 ELSE 0
              IN  /\ cmd \in StoreCmds /\ s # NULL
                  /\ w' = [w EXCEPT ![i] = [pc |-> "copy", cmd |-> cmd, offset |-> old.mem_offset,
                                            is_insert |-> ins]]
                  /\ reply' = reply
           \/ /\ cmd.op \notin {"store", "batch"} /\ get_mapping_entry(cmd.key) = NULL
              /\ w' = [w EXCEPT ![i] = Idle]
              /\ reply' = [op |-> cmd.op, key |-> cmd.key,
                           asked |-> IF cmd.op = "retrieve" THEN cmd.length ELSE 0,
                           status |-> "not_exist", data |-> << >>]
           \/ /\ cmd.op = "exist" /\ get_mapping_entry(cmd.key) # NULL
              /\ w' = [w EXCEPT ![i] = Idle]
              /\ reply' = [op |-> "exist", key |-> cmd.key, asked |-> 0, status |-> "ok", data |-> << >>]
           \/ LET s == get_mapping_entry(cmd.key)
              IN  /\ cmd.op \in {"retrieve", "delete"} /\ s # NULL
                  /\ cmd.op = "retrieve" => cmd \in RetrieveCmds
                  /\ cmd.op = "delete" => cmd \in KeyCmds
                  /\ w' = [w EXCEPT ![i] = [pc |-> cmd.op, cmd |-> cmd, entry |-> kv_mapping_table[s]]]
                  /\ reply' = reply
<1>1. CASE NeverEnds(cmd.key)
  BY <1>1 DEF Begin
<1>2. CASE ~NeverEnds(cmd.key) /\ cmd.op \in {"store", "batch"}
  <2>1. cmd \in StoreCmds /\ BeginStore(i, cmd)
    BY <1>2, CommandKinds DEF Begin
  <2> QED
    BY <2>1 DEF BeginStore
<1>3. CASE ~NeverEnds(cmd.key) /\ cmd.op \notin {"store", "batch"}
  <2>1. /\ BeginFind(i, cmd)
        /\ \/ cmd.op = "retrieve" /\ cmd \in RetrieveCmds
           \/ cmd.op \in {"exist", "delete"} /\ cmd \in KeyCmds
    BY <1>3, CommandKinds DEF Begin
  <2>2. CASE get_mapping_entry(cmd.key) = NULL
    BY <1>3, <2>1, <2>2 DEF BeginFind, Done
  <2>3. CASE get_mapping_entry(cmd.key) # NULL /\ cmd.op = "exist"
    BY <2>1, <2>3 DEF BeginFind, Done
  <2>4. CASE get_mapping_entry(cmd.key) # NULL /\ cmd.op # "exist"
    BY <2>1, <2>4 DEF BeginFind
  <2> QED
    BY <2>2, <2>3, <2>4
<1> QED
  BY <1>1, <1>2, <1>3

LEMMA WorkerMoves ==
    ASSUME OneWorker, TypeOK, NEW i \in Workers, NEW r \in AtWork, w' = [w EXCEPT ![i] = r]
    PROVE  w' \in [Workers -> AtWork] /\ \A j \in Workers : j = i /\ w'[j] = r
BY DEF OneWorker, TypeOK

LEMMA NotInserting ==
    ASSUME OneWorker, TypeOK, NEW i \in Workers, NEW r \in AtWork, w' = [w EXCEPT ![i] = r],
           r.pc \notin {"entry", "chain"}
    PROVE  InsertInOrder'
<1>1. \A j \in Workers : w'[j].pc \notin {"entry", "chain"}
  BY WorkerMoves
<1> QED
  BY <1>1 DEF InsertInOrder

(* Steps that leave table and iterators alone. *)
LEMMA TableUntouched ==
    ASSUME TableIInv, TypeOK', InsertInOrder', UNCHANGED <<tableVars, iterVars>>
    PROVE  TableIInv'
<1> USE DEF tableVars, iterVars, TableIInv
<1>1. EntriesWhole'
  BY DEF EntriesWhole, Occupied
<1>2. FillsCounted'
  BY DEF FillsCounted
<1>3. ChainsLeadForward'
  BY DEF ChainsLeadForward, Occupied
<1>4. OwedSelected'
  BY DEF OwedSelected, Open, Selected, Occupied
<1> QED
  BY <1>1, <1>2, <1>3, <1>4

LEMMA BeginKeepsTable ==
    ASSUME OneWorker, TableIInv, NEW i \in Workers, NEW cmd \in Commands, Begin(i, cmd)
    PROVE  TableIInv'
<1>1. UNCHANGED <<tableVars, storage, allocVars, iterVars, kept>>
  BY DEF Begin
<1>2. PICK r \in AtWork : w' = [w EXCEPT ![i] = r] /\ r.pc \notin {"entry", "chain"}
  <2>1. ASSUME NEW s \in Slots PROVE kv_mapping_table[s] \in Entries
    BY DEF TableIInv, TypeOK
  <2>2. ASSUME NEW s \in Slots, Occupied(s) PROVE kv_mapping_table[s].mem_offset \in Nat
    BY <2>1, <2>2 DEF Occupied, Entries
  <2>3. LET s == get_mapping_entry(cmd.key) IN s # NULL => s \in Slots /\ Occupied(s)
    BY LookupFinds, CommandKinds DEF TableIInv, Holds
  <2>4. PICK s : s = get_mapping_entry(cmd.key)
    OBVIOUS
  <2>5. s # NULL => kv_mapping_table[s] \in Entries /\ kv_mapping_table[s].mem_offset \in Nat
    BY <2>1, <2>2, <2>3, <2>4
  <2> DEFINE R == {r \in AtWork : r.pc \notin {"entry", "chain"}}
  <2>6. [pc |-> "spin"] \in R /\ Idle \in R
    BY DEF AtWork, Idle
  <2>7. cmd \in StoreCmds => [pc |-> "alloc", cmd |-> cmd] \in R
    BY DEF AtWork
  <2>8. ASSUME cmd \in StoreCmds, s # NULL, NEW n \in {0, 2}
        PROVE  [pc |-> "copy", cmd |-> cmd, offset |-> kv_mapping_table[s].mem_offset,
                is_insert |-> n] \in R
    BY <2>5, <2>8 DEF AtWork
  <2>9. ASSUME cmd \in RetrieveCmds, cmd.op = "retrieve", s # NULL
        PROVE  [pc |-> cmd.op, cmd |-> cmd, entry |-> kv_mapping_table[s]] \in R
    BY <2>5, <2>9 DEF AtWork
  <2>10. ASSUME cmd \in KeyCmds, cmd.op = "delete", s # NULL
         PROVE  [pc |-> cmd.op, cmd |-> cmd, entry |-> kv_mapping_table[s]] \in R
    BY <2>5, <2>10 DEF AtWork
  <2> HIDE DEF R
  <2>11. \E r \in R : w' = [w EXCEPT ![i] = r]
    BY BeginWork, <2>4, <2>6, <2>7, <2>8, <2>9, <2>10 DEF TableIInv
  <2> QED
    BY <2>11 DEF R
<1>3. TypeOK'
  BY <1>1, <1>2, WorkerMoves DEF TableIInv, TypeOK, tableVars, allocVars, iterVars
<1>4. InsertInOrder'
  BY <1>2, NotInserting DEF TableIInv
<1> QED
  BY <1>1, <1>3, <1>4, TableUntouched

LEMMA WildMoves ==
    ASSUME OneWorker, TypeOK, NEW i \in Workers, StoreWild(i)
    PROVE  w' = [w EXCEPT ![i] = [pc |-> "wild"]]
BY DEF OneWorker, TypeOK, StoreWild

LEMMA AllocKeepsTable ==
    ASSUME OneWorker, TableIInv, NEW i \in Workers,
           BatchEnd(i) \/ StoreWild(i) \/ AllocFind(i) \/ AllocMark(i)
    PROVE  TableIInv'
<1>1. w[i] \in AtWork
  BY DEF TableIInv, TypeOK
<1>2. ASSUME NEW r \in AtWork, w' = [w EXCEPT ![i] = r], r.pc \notin {"entry", "chain"},
             UNCHANGED <<tableVars, storage, iterVars, hostVars>>,
             bits' \in [Classes -> SUBSET Nat], last_pos' \in [Classes -> Nat], latest' \in Nat,
             inserts' \in Nat
      PROVE  TableIInv'
  <2>1. TypeOK'
    BY <1>2, WorkerMoves DEF TableIInv, TypeOK, tableVars, iterVars, hostVars
  <2>2. InsertInOrder'
    BY <1>2, NotInserting DEF TableIInv
  <2> QED
    BY <1>2, <2>1, <2>2, TableUntouched
<1>3. /\ bits \in [Classes -> SUBSET Nat] /\ last_pos \in [Classes -> Nat] /\ latest \in Nat
      /\ inserts \in Nat
  BY DEF TableIInv, TypeOK
<1>4. CASE BatchEnd(i)
  <2>1. Idle \in AtWork /\ Idle.pc \notin {"entry", "chain"}
    BY DEF AtWork, Idle
  <2> QED
    BY <1>2, <1>3, <1>4, <2>1 DEF BatchEnd, allocVars
<1>7. CASE StoreWild(i)
  <2> DEFINE r == [pc |-> "wild"]
  <2>1. r \in AtWork /\ r.pc \notin {"entry", "chain"}
    BY DEF AtWork
  <2>2. w' = [w EXCEPT ![i] = r]
    BY <1>7, WildMoves DEF TableIInv
  <2> HIDE DEF r
  <2> QED
    BY <1>2, <1>3, <1>7, <2>1, <2>2 DEF StoreWild, allocVars
<1>5. CASE AllocFind(i)
  <2> DEFINE c == Class(w[i].cmd.length)
             off == IF Allocator = "append_only" THEN latest ELSE bitmap_find_next_zero_area(c)
             r == [pc |-> "mark", cmd |-> w[i].cmd, off |-> off]
  <2>1. w[i].cmd \in StoreCmds
    BY <1>1, <1>5, CarriesCmd DEF AllocFind
  <2>2. c \in Classes
    BY DEF Class, Classes
  <2>3. off \in Nat
    BY <1>3, <2>2, ZeroAreaFound DEF TableIInv
  <2>4. w' = [w EXCEPT ![i] = r] /\ UNCHANGED <<tableVars, storage, allocVars, iterVars, hostVars>>
    BY <1>5 DEF AllocFind
  <2> HIDE DEF off
  <2>5. r \in AtWork /\ r.pc \notin {"entry", "chain"}
    BY <2>1, <2>3 DEF AtWork
  <2> HIDE DEF r
  <2> QED
    BY <1>2, <1>3, <2>4, <2>5 DEF allocVars
<1>6. CASE AllocMark(i)
  <2> DEFINE c == Class(w[i].cmd.length)
             off == w[i].off
             o == IF Allocator = "append_only" THEN off ELSE CellOffset(c, off)
             r == [pc |-> "copy", cmd |-> w[i].cmd, is_insert |-> 1, offset |-> o]
  <2>1. w[i].cmd \in StoreCmds /\ off \in Nat
    BY <1>1, <1>6, CarriesCmd DEF AllocMark
  <2>2. c \in Classes
    BY DEF Class, Classes
  <2>3. CellLength(c) \in Nat /\ NBits(c) \in Nat
    BY GeometryAssumption DEF CellLength, NBits
  <2>4. CellOffset(c, off) \in Nat
    <3>1. off * CellLength(c) \in Nat
      BY <2>1, <2>3
    <3>2. DevSize \div 2 \in Nat
      BY Half
    <3> QED
      BY <3>1, <3>2 DEF CellOffset
  <2>5. o \in Nat
    BY <2>1, <2>4
  <2>6. w' = [w EXCEPT ![i] = r] /\ UNCHANGED <<tableVars, storage, iterVars, hostVars>>
        /\ inserts' = inserts + 1
    BY <1>6 DEF AllocMark
  <2> HIDE DEF o
  <2>7. r \in AtWork /\ r.pc \notin {"entry", "chain"}
    BY <2>1, <2>5 DEF AtWork
  <2>8. bits' \in [Classes -> SUBSET Nat] /\ last_pos' \in [Classes -> Nat] /\ latest' \in Nat
    <3>1. CASE Allocator = "append_only"
      <4>1. w[i].cmd.length \in Nat
        BY <2>1, StoreCmdFields, GeometryAssumption
      <4>2. latest' = latest + w[i].cmd.length /\ UNCHANGED <<bits, last_pos>>
        BY <1>6, <3>1 DEF AllocMark, append_only_allocate
      <4> QED
        BY <1>3, <4>1, <4>2
    <3>2. CASE Allocator # "append_only"
      <4>1. bitmap_allocate(c, off)
        BY <1>6, <3>2 DEF AllocMark
      <4> HIDE DEF c, off
      <4> QED
        BY <1>3, <2>1, <2>2, <4>1 DEF bitmap_allocate
    <3> QED
      BY <3>1, <3>2
  <2>9. inserts' \in Nat
    BY <1>3, <2>6
  <2> HIDE DEF r
  <2> QED
    BY <1>2, <2>6, <2>7, <2>8, <2>9
<1> QED
  BY <1>4, <1>5, <1>6, <1>7

LEMMA CopyKeepsTable ==
    ASSUME OneWorker, TableIInv, NEW i \in Workers, StoreCopy(i)
    PROVE  TableIInv'
<1> DEFINE cmd == w[i].cmd
           next == CASE w[i].is_insert = 1 -> "map"
                     [] w[i].is_insert = 2 /\ cmd.op = "store" -> "update"
                     [] OTHER -> "done"
<1>1. w[i] \in AtWork /\ w[i].pc = "copy" /\ UNCHANGED <<tableVars, allocVars, iterVars>>
  BY DEF TableIInv, TypeOK, StoreCopy
<1>2. cmd \in StoreCmds /\ w[i].offset \in Nat
  BY <1>1, CarriesCmd
<1>3. cmd.op \in {"store", "batch"} /\ cmd.key \in Keys /\ cmd.data \in Data
      /\ cmd.length \in 1..LARGE_LENGTH
  BY <1>2, StoreCmdFields
<1>4. next \in {"map", "update", "done"}
  OBVIOUS
<1>5. storage' = [u \in Units |-> IF u \in w[i].offset..w[i].offset + cmd.length - 1
                                  THEN cmd.data ELSE storage[u]]
  BY DEF StoreCopy
<1>6. storage' \in [Units -> Data \cup {NULL}]
  BY <1>3, <1>5 DEF TableIInv, TypeOK
<1>7. \/ /\ next = "done" /\ Done(i, cmd, "ok", << >>)
         /\ kept' = [kept EXCEPT ![cmd.key] = Stored(cmd)]
      \/ /\ next # "done" /\ w' = [w EXCEPT ![i] = [pc |-> next, cmd |-> cmd, offset |-> w[i].offset]]
         /\ kept' = kept
  BY DEF StoreCopy, hostVars
<1>8. \E r \in AtWork : w' = [w EXCEPT ![i] = r] /\ r.pc \notin {"entry", "chain"}
  <2> HIDE DEF next
  <2>1. CASE next = "done"
    <3> DEFINE r == IF cmd.op = "batch" THEN [pc |-> "batch"] ELSE Idle
    <3>1. r \in AtWork /\ r.pc \notin {"entry", "chain"}
      BY DEF AtWork, Idle
    <3>2. w' = [w EXCEPT ![i] = r]
      BY <1>7, <2>1 DEF Done
    <3> HIDE DEF r
    <3> QED
      BY <3>1, <3>2
  <2>2. CASE next # "done"
    <3> DEFINE r == [pc |-> next, cmd |-> cmd, offset |-> w[i].offset]
    <3>1. r \in AtWork /\ r.pc \notin {"entry", "chain"}
      BY <1>2, <1>4, <2>2 DEF AtWork
    <3>2. w' = [w EXCEPT ![i] = r]
      BY <1>7, <2>2
    <3> HIDE DEF r
    <3> QED
      BY <3>1, <3>2
  <2> QED
    BY <2>1, <2>2
<1>9. kept' \in [Keys -> Values \cup {NULL}]
  <2>1. Stored(cmd) \in Values
    BY <1>3 DEF Stored, Values
  <2>2. kept \in [Keys -> Values \cup {NULL}]
    BY DEF TableIInv, TypeOK
  <2> HIDE DEF next
  <2> QED
    BY <1>3, <1>7, <2>1, <2>2
<1>10. TypeOK'
  BY <1>1, <1>6, <1>8, <1>9, WorkerMoves DEF TableIInv, TypeOK, tableVars, allocVars, iterVars
<1>11. InsertInOrder'
  BY <1>8, NotInserting DEF TableIInv
<1> QED
  BY <1>1, <1>10, <1>11, TableUntouched

LEMMA MapFinds ==
    ASSUME NEW i \in Workers, MapFind(i)
    PROVE  \/ w' = [w EXCEPT ![i] = [pc |-> "spin"]]
           \/ /\ Probe(w[i].cmd.key) # {}
              /\ w' = [w EXCEPT ![i] = [pc |-> "entry", cmd |-> w[i].cmd, offset |-> w[i].offset,
                                        slot |-> find_next_slot(w[i].cmd.key)]]
BY DEF MapFind

LEMMA RetrieveEnds ==
    ASSUME NEW i \in Workers, w[i] \in AtWork, RetrieveCopy(i)
    PROVE  w' = [w EXCEPT ![i] = Idle]
<1>1. w[i].cmd.op = "retrieve"
  BY CarriesCmd DEF RetrieveCopy, RetrieveCmds
<1> QED
  BY <1>1 DEF RetrieveCopy, Done

LEMMA FindKeepsTable ==
    ASSUME OneWorker, TableIInv, NEW i \in Workers, MapFind(i) \/ RetrieveCopy(i)
    PROVE  TableIInv'
<1>1. w[i] \in AtWork
  BY DEF TableIInv, TypeOK
<1>2. UNCHANGED <<tableVars, storage, allocVars, iterVars, kept>>
  BY DEF MapFind, RetrieveCopy, hostVars
<1>3. ASSUME NEW r \in AtWork, w' = [w EXCEPT ![i] = r]
      PROVE  TypeOK'
  BY <1>2, <1>3, WorkerMoves DEF TableIInv, TypeOK, tableVars, allocVars, iterVars
<1>4. CASE RetrieveCopy(i)
  <2>1. Idle \in AtWork /\ Idle.pc \notin {"entry", "chain"} /\ w' = [w EXCEPT ![i] = Idle]
    BY <1>1, <1>4, RetrieveEnds DEF AtWork, Idle
  <2>2. TypeOK' /\ InsertInOrder'
    BY <1>3, <2>1, NotInserting DEF TableIInv
  <2> QED
    BY <1>2, <2>2, TableUntouched
<1>5. CASE MapFind(i)
  <2> DEFINE cmd == w[i].cmd
             slot == find_next_slot(cmd.key)
  <2>1. w[i].pc = "map" /\ cmd \in StoreCmds /\ w[i].offset \in Nat /\ cmd.key \in Keys
    BY <1>1, <1>5, CarriesCmd, StoreCmdFields DEF MapFind
  <2>2. \/ w' = [w EXCEPT ![i] = [pc |-> "spin"]]
        \/ /\ Probe(cmd.key) # {}
           /\ w' = [w EXCEPT ![i] = [pc |-> "entry", cmd |-> cmd, offset |-> w[i].offset, slot |-> slot]]
    BY <1>5, <2>1, MapFinds
  <2>3. ASSUME w' = [w EXCEPT ![i] = [pc |-> "spin"]]
        PROVE  TypeOK' /\ InsertInOrder'
    <3>1. [pc |-> "spin"] \in AtWork /\ [pc |-> "spin"].pc \notin {"entry", "chain"}
      BY DEF AtWork
    <3> QED
      BY <1>3, <2>3, <3>1, NotInserting DEF TableIInv
  <2>4. ASSUME Probe(cmd.key) # {},
               w' = [w EXCEPT ![i] = [pc |-> "entry", cmd |-> cmd, offset |-> w[i].offset, slot |-> slot]]
        PROVE  TypeOK' /\ InsertInOrder'
    <3> DEFINE r == [pc |-> "entry", cmd |-> cmd, offset |-> w[i].offset, slot |-> slot]
    <3>1. /\ slot \in Slots /\ ~Occupied(slot)
          /\ slot # Hash[cmd.key] => Occupied(Hash[cmd.key])
      BY <2>1, <2>4, FreeSlotFound
    <3>2. r \in AtWork
      BY <2>1, <3>1 DEF AtWork
    <3>3. \A s : Occupied(s)' <=> Occupied(s)
      BY <1>2 DEF tableVars, Occupied
    <3> HIDE DEF slot
    <3>4. \A j \in Workers : w'[j] = r
      BY <2>4, <3>2, WorkerMoves DEF TableIInv
    <3>5. InsertInOrder'
      BY <3>1, <3>3, <3>4 DEF InsertInOrder
    <3> QED
      BY <1>3, <2>4, <3>2, <3>5
  <2> QED
    BY <1>2, <2>2, <2>3, <2>4, TableUntouched
<1> QED
  BY <1>4, <1>5

(* Steps that change the table. *)
LEMMA MapWrites ==
    ASSUME TableIInv, NEW i \in Workers, MapWrite(i)
    PROVE  LET cmd == w[i].cmd
               slot == w[i].slot
           IN  /\ w[i].pc = "entry" /\ cmd \in StoreCmds /\ cmd.key \in Keys /\ slot \in Slots
               /\ w[i].offset \in Nat /\ ~Occupied(slot)
               /\ slot # Hash[cmd.key] => Occupied(Hash[cmd.key])
               /\ kv_mapping_table' \in [Slots -> Entries]
               /\ kv_mapping_table'[slot].key = cmd.key /\ kv_mapping_table'[slot].mem_offset = w[i].offset
               /\ kv_mapping_table'[slot].length = cmd.length /\ kv_mapping_table'[slot].next_slot = NULL
               /\ \A s \in Slots : s # slot => kv_mapping_table'[s] = kv_mapping_table[s]
<1> DEFINE cmd == w[i].cmd
           slot == w[i].slot
           e == [kv_mapping_table[slot] EXCEPT !.key = cmd.key, !.mem_offset = w[i].offset,
                                               !.length = cmd.length]
<1>1. w[i].pc = "entry" /\ w[i] \in AtWork
  BY DEF MapWrite, TableIInv, TypeOK
<1>2. cmd \in StoreCmds /\ slot \in Slots /\ w[i].offset \in Nat
  BY <1>1, CarriesCmd
<1>3. cmd.key \in Keys /\ cmd.length \in 1..LARGE_LENGTH
  BY <1>2, StoreCmdFields
<1>4. ~Occupied(slot) /\ (slot # Hash[cmd.key] => Occupied(Hash[cmd.key]))
  BY <1>1 DEF TableIInv, InsertInOrder
<1>5. kv_mapping_table \in [Slots -> Entries] /\ kv_mapping_table[slot].next_slot = NULL
  BY <1>2, <1>4 DEF TableIInv, TypeOK, EntriesWhole
<1>6. kv_mapping_table[slot] \in Entries
  BY <1>2, <1>5
<1>7. kv_mapping_table' = [kv_mapping_table EXCEPT ![slot] = e]
  BY <1>2, <1>5 DEF MapWrite
<1>8. /\ e \in Entries /\ e.key = cmd.key /\ e.mem_offset = w[i].offset
      /\ e.length = cmd.length /\ e.next_slot = NULL
  <2>1. PICK t, k, o, n : t = kv_mapping_table[slot] /\ k = cmd.key /\ o = w[i].offset /\ n = cmd.length
    OBVIOUS
  <2>2. LET x == [t EXCEPT !.key = k, !.mem_offset = o, !.length = n]
        IN  x \in Entries /\ x.key = k /\ x.mem_offset = o /\ x.length = n /\ x.next_slot = t.next_slot
    <3>1. t \in Entries /\ k \in Keys /\ o \in Nat /\ n \in 1..LARGE_LENGTH
      BY <1>2, <1>3, <1>6, <2>1
    <3> QED
      BY <3>1 DEF Entries
  <2> QED
    BY <1>5, <2>1, <2>2
<1> HIDE DEF e
<1>9. kv_mapping_table' \in [Slots -> Entries] /\ kv_mapping_table'[slot] = e
      /\ \A s \in Slots : s # slot => kv_mapping_table'[s] = kv_mapping_table[s]
  BY <1>2, <1>5, <1>7, <1>8
<1> QED
  BY <1>1, <1>2, <1>3, <1>4, <1>8, <1>9

LEMMA WriteKeepsTable ==
    ASSUME OneWorker, TableIInv, NEW i \in Workers, MapWrite(i)
    PROVE  TableIInv'
<1>0. PICK cmd, slot : cmd = w[i].cmd /\ slot = w[i].slot
  OBVIOUS
<1>1. /\ cmd \in StoreCmds /\ cmd.key \in Keys /\ slot \in Slots /\ w[i].offset \in Nat
      /\ ~Occupied(slot) /\ (slot # Hash[cmd.key] => Occupied(Hash[cmd.key]))
  BY <1>0, MapWrites
<1>2. /\ kv_mapping_table' \in [Slots -> Entries]
      /\ kv_mapping_table'[slot].key = cmd.key /\ kv_mapping_table'[slot].mem_offset = w[i].offset
      /\ kv_mapping_table'[slot].length = cmd.length /\ kv_mapping_table'[slot].next_slot = NULL
      /\ \A s \in Slots : s # slot => kv_mapping_table'[s] = kv_mapping_table[s]
  BY <1>0, MapWrites
<1>3. /\ fills \in Nat /\ born \in [Slots -> Nat]
      /\ fills' = fills + 1 /\ born' = [born EXCEPT ![slot] = fills + 1]
      /\ UNCHANGED <<storage, allocVars, iterVars>>
  BY <1>0 DEF MapWrite, TableIInv, TypeOK
<1>4. /\ fills' \in Nat /\ born' \in [Slots -> Nat] /\ born'[slot] = fills + 1
      /\ \A s \in Slots : s # slot => born'[s] = born[s]
  BY <1>1, <1>3
<1>5. \A s \in Slots : born[s] <= fills /\ born[s] \in Nat
  BY <1>3 DEF TableIInv, FillsCounted
<1>6. Occupied(slot)' /\ \A s \in Slots : s # slot => (Occupied(s)' <=> Occupied(s))
  BY <1>1, <1>2, NullApart DEF Occupied
<1>7. \/ /\ slot = Hash[cmd.key]
         /\ w' = [w EXCEPT ![i] = IF cmd.op = "batch" THEN [pc |-> "batch"] ELSE Idle]
         /\ kept' = [kept EXCEPT ![cmd.key] = Stored(cmd)]
      \/ /\ slot # Hash[cmd.key] /\ kept' = kept
         /\ w' = [w EXCEPT ![i] = [pc |-> "chain", cmd |-> cmd, slot |-> slot]]
  BY <1>0 DEF MapWrite, Done, hostVars
<1>8. \E r \in AtWork : /\ w' = [w EXCEPT ![i] = r] /\ r.pc # "entry"
                        /\ r.pc = "chain" => r.cmd = cmd /\ r.slot = slot /\ slot # Hash[cmd.key]
  <2>1. CASE slot = Hash[cmd.key]
    <3> DEFINE r == IF cmd.op = "batch" THEN [pc |-> "batch"] ELSE Idle
    <3>1. r \in AtWork /\ r.pc \notin {"entry", "chain"}
      BY DEF AtWork, Idle
    <3>2. w' = [w EXCEPT ![i] = r]
      BY <1>7, <2>1
    <3> HIDE DEF r
    <3> QED
      BY <3>1, <3>2
  <2>2. CASE slot # Hash[cmd.key]
    <3> DEFINE r == [pc |-> "chain", cmd |-> cmd, slot |-> slot]
    <3>1. r \in AtWork /\ r.pc = "chain" /\ r.cmd = cmd /\ r.slot = slot
      BY <1>1 DEF AtWork
    <3>2. w' = [w EXCEPT ![i] = r]
      BY <1>7, <2>2
    <3> HIDE DEF r
    <3> QED
      BY <2>2, <3>1, <3>2
  <2> QED
    BY <2>1, <2>2
<1>9. PICK r \in AtWork : /\ w' = [w EXCEPT ![i] = r] /\ r.pc # "entry"
                          /\ r.pc = "chain" => r.cmd = cmd /\ r.slot = slot /\ slot # Hash[cmd.key]
  BY <1>8
<1>10. w' \in [Workers -> AtWork] /\ \A j \in Workers : w'[j] = r
  BY <1>9, WorkerMoves DEF TableIInv
<1>11. kept' \in [Keys -> Values \cup {NULL}]
  <2>1. Stored(cmd) \in Values
    BY <1>1, StoreCmdFields DEF Stored, Values
  <2>2. kept \in [Keys -> Values \cup {NULL}]
    BY DEF TableIInv, TypeOK
  <2> QED
    BY <1>1, <1>7, <2>1, <2>2
<1>12. TypeOK'
  BY <1>2, <1>3, <1>4, <1>10, <1>11 DEF TableIInv, TypeOK, allocVars, iterVars
<1>13. EntriesWhole'
  <2>1. cmd.length \in Lengths(cmd.key)
    BY <1>1, StoreCmdFields
  <2> SUFFICES ASSUME NEW s \in Slots
               PROVE  IF Occupied(s)'
                      THEN /\ kv_mapping_table'[s].key \in Keys
                           /\ kv_mapping_table'[s].length \in Lengths(kv_mapping_table'[s].key)
                      ELSE kv_mapping_table'[s].next_slot = NULL
    BY DEF EntriesWhole
  <2>2. CASE s = slot
    BY <1>1, <1>2, <1>6, <2>1, <2>2
  <2>3. CASE s # slot
    BY <1>2, <1>6, <2>3 DEF TableIInv, EntriesWhole
  <2> QED
    BY <2>2, <2>3
<1>14. FillsCounted'
  BY <1>1, <1>3, <1>4, <1>5 DEF FillsCounted
<1>15. InsertInOrder'
  <2>1. ASSUME r.pc = "chain"
        PROVE  /\ Occupied(Hash[cmd.key])'
               /\ \A s \in Slots : s # slot => born'[s] < born'[slot]
    <3>1. Hash[cmd.key] \in Slots /\ Hash[cmd.key] # slot
      BY <1>1, <1>9, <2>1, HashAssumption
    <3>2. Occupied(Hash[cmd.key])
      BY <1>1, <3>1
    <3>3. \A s \in Slots : s # slot => born'[s] < born'[slot]
      BY <1>3, <1>4, <1>5
    <3> QED
      BY <1>6, <3>1, <3>2, <3>3
  <2>2. \A j \in Workers : w'[j].pc # "entry"
    BY <1>9, <1>10
  <2>3. \A j \in Workers : w'[j].pc = "chain" =>
           /\ w'[j].slot # Hash[w'[j].cmd.key]
           /\ kv_mapping_table'[Hash[w'[j].cmd.key]].mem_offset # NULL
           /\ \A s \in Slots : s # w'[j].slot => born'[s] < born'[w'[j].slot]
    BY <1>9, <1>10, <2>1 DEF Occupied
  <2> QED
    BY <2>2, <2>3 DEF InsertInOrder, Occupied
<1>16. ChainsLeadForward'
  <2> SUFFICES ASSUME NEW s \in Slots, NEW n, n = kv_mapping_table'[s].next_slot,
                      Occupied(s)', n # NULL, Occupied(n)'
               PROVE  born'[s] < born'[n]
    BY DEF ChainsLeadForward
  <2>1. s # slot /\ n = kv_mapping_table[s].next_slot
    BY <1>2
  <2>2. n \in Slots /\ Occupied(s)
    <3>1. kv_mapping_table'[s] \in Entries
      BY <1>2
    <3> QED
      BY <1>6, <2>1, <3>1 DEF Entries
  <2>3. CASE n = slot
    BY <1>3, <1>4, <1>5, <2>1, <2>3
  <2>4. CASE n # slot
    <3>1. Occupied(n)
      BY <1>6, <2>2, <2>4
    <3>2. born[s] < born[n]
      BY <2>1, <2>2, <3>1 DEF TableIInv, ChainsLeadForward
    <3> QED
      BY <1>4, <2>1, <2>2, <2>4, <3>2
  <2> QED
    BY <2>3, <2>4
<1>17. OwedSelected'
  <2>1. UNCHANGED <<iter_handle, owed>>
    BY <1>3 DEF iterVars
  <2> SUFFICES ASSUME NEW h \in Handles, Open(h), NEW s \in owed[h]
               PROVE  /\ s \in Slots /\ s >= iter_handle[h].current_pos /\ Occupied(s)'
                      /\ kv_mapping_table'[s].key \in iter_handle[h].prefix
    BY <2>1 DEF OwedSelected, Open, Selected
  <2>2. /\ s \in Slots /\ s >= iter_handle[h].current_pos /\ Occupied(s)
        /\ kv_mapping_table[s].key \in iter_handle[h].prefix
    BY DEF TableIInv, OwedSelected, Selected
  <2>3. s # slot
    BY <1>1, <2>2
  <2> QED
    BY <1>2, <1>6, <2>2, <2>3
<1> QED
  BY <1>12, <1>13, <1>14, <1>15, <1>16, <1>17 DEF TableIInv

(* Steps that fill no slot: what is occupied was so before, with the same   *)
(* key and a length of that key; iterators owe nothing more.                *)
LEMMA NoSlotFilled ==
    ASSUME TableIInv, TypeOK', InsertInOrder', UNCHANGED <<born, fills, iter_handle>>,
           \A s \in Slots :
              IF kv_mapping_table'[s].mem_offset # NULL
              THEN /\ Occupied(s)
                   /\ kv_mapping_table'[s].key = kv_mapping_table[s].key
                   /\ kv_mapping_table'[s].length \in Lengths(kv_mapping_table[s].key)
              ELSE kv_mapping_table'[s].next_slot = NULL,
           \A h \in Handles : \A s \in owed'[h] :
              s \in owed[h] /\ (s \in Slots => (Occupied(s) => kv_mapping_table'[s].mem_offset # NULL)),
           \A s \in Slots :
              LET n == kv_mapping_table'[s].next_slot
              IN  kv_mapping_table'[s].mem_offset # NULL /\ n # NULL =>
                     n = kv_mapping_table[s].next_slot \/ (n \in Slots /\ born[s] < born[n])
    PROVE  TableIInv'
<1>1. EntriesWhole'
  <2>1. \A s \in Slots : Occupied(s) => kv_mapping_table[s].key \in Keys
    BY DEF TableIInv, EntriesWhole
  <2> QED
    BY <2>1 DEF EntriesWhole, Occupied
<1>2. FillsCounted'
  BY DEF TableIInv, FillsCounted
<1>3. ChainsLeadForward'
  <2> SUFFICES ASSUME NEW s \in Slots, NEW n, n = kv_mapping_table'[s].next_slot,
                      kv_mapping_table'[s].mem_offset # NULL, n # NULL,
                      kv_mapping_table'[n].mem_offset # NULL
               PROVE  born[s] < born[n]
    BY DEF ChainsLeadForward, Occupied
  <2>1. CASE n \in Slots /\ born[s] < born[n]
    BY <2>1
  <2>2. CASE n = kv_mapping_table[s].next_slot
    <3>1. kv_mapping_table'[s] \in Entries
      BY DEF TypeOK
    <3>2. n \in Slots
      BY <3>1 DEF Entries
    <3>3. Occupied(s) /\ Occupied(n)
      BY <3>2
    <3> QED
      BY <2>2, <3>3 DEF TableIInv, ChainsLeadForward
  <2> QED
    BY <2>1, <2>2
<1>4. OwedSelected'
  <2> SUFFICES ASSUME NEW h \in Handles, Open(h), NEW s \in owed'[h]
               PROVE  /\ s \in Slots /\ s >= iter_handle[h].current_pos
                      /\ kv_mapping_table'[s].mem_offset # NULL
                      /\ kv_mapping_table'[s].key \in iter_handle[h].prefix
    BY DEF OwedSelected, Open, Selected, Occupied
  <2>1. /\ s \in Slots /\ s >= iter_handle[h].current_pos /\ Occupied(s)
        /\ kv_mapping_table[s].key \in iter_handle[h].prefix
    BY DEF TableIInv, OwedSelected, Selected
  <2> QED
    BY <2>1
<1> QED
  BY <1>1, <1>2, <1>3, <1>4 DEF TableIInv

LEMMA ChainKeepsTable ==
    ASSUME OneWorker, TableIInv, NEW i \in Workers, chain_mapping(i)
    PROVE  TableIInv'
<1>0. PICK cmd, slot, home : cmd = w[i].cmd /\ slot = w[i].slot /\ home = Hash[cmd.key]
  OBVIOUS
<1>1. w[i].pc = "chain" /\ w[i] \in AtWork
  BY DEF chain_mapping, TableIInv, TypeOK
<1>2. cmd \in StoreCmds /\ cmd.key \in Keys /\ slot \in Slots
  BY <1>0, <1>1, CarriesCmd, StoreCmdFields
<1>3. home \in Slots
  BY <1>0, <1>2, HashAssumption
<1>4. slot # home /\ Occupied(home) /\ born[home] < born[slot]
  BY <1>0, <1>1, <1>3 DEF TableIInv, InsertInOrder
<1>5. kv_mapping_table \in [Slots -> Entries]
  BY DEF TableIInv, TypeOK
<1>6. PICK e : e = [kv_mapping_table[home] EXCEPT !.next_slot = slot]
  OBVIOUS
<1>7. e \in Entries /\ e.key = kv_mapping_table[home].key /\ e.length = kv_mapping_table[home].length
      /\ e.mem_offset = kv_mapping_table[home].mem_offset /\ e.next_slot = slot
  <2>1. kv_mapping_table[home] \in Entries
    BY <1>3, <1>5
  <2> QED
    BY <1>2, <1>6, <2>1 DEF Entries
<1>8. kv_mapping_table' = [kv_mapping_table EXCEPT ![home] = e]
  BY <1>0, <1>3, <1>5, <1>6 DEF chain_mapping
<1>9. /\ kv_mapping_table' \in [Slots -> Entries] /\ kv_mapping_table'[home] = e
      /\ \A s \in Slots : s # home => kv_mapping_table'[s] = kv_mapping_table[s]
  BY <1>3, <1>5, <1>7, <1>8
<1>10. /\ w' = [w EXCEPT ![i] = IF cmd.op = "batch" THEN [pc |-> "batch"] ELSE Idle]
       /\ kept' = [kept EXCEPT ![cmd.key] = Stored(cmd)]
       /\ UNCHANGED <<born, fills, storage, allocVars, iterVars>>
  BY <1>0 DEF chain_mapping, Done
<1>11. PICK r \in AtWork : w' = [w EXCEPT ![i] = r] /\ r.pc \notin {"entry", "chain"}
  <2> DEFINE r == IF cmd.op = "batch" THEN [pc |-> "batch"] ELSE Idle
  <2>1. r \in AtWork /\ r.pc \notin {"entry", "chain"}
    BY DEF AtWork, Idle
  <2>2. w' = [w EXCEPT ![i] = r]
    BY <1>10
  <2> HIDE DEF r
  <2> QED
    BY <2>1, <2>2
<1>12. kept' \in [Keys -> Values \cup {NULL}]
  <2>1. Stored(cmd) \in Values
    BY <1>2, StoreCmdFields DEF Stored, Values
  <2>2. kept \in [Keys -> Values \cup {NULL}]
    BY DEF TableIInv, TypeOK
  <2> QED
    BY <1>2, <1>10, <2>1, <2>2
<1>13. TypeOK'
  <2>1. w' \in [Workers -> AtWork]
    BY <1>11, WorkerMoves DEF TableIInv
  <2> QED
    BY <1>9, <1>10, <1>12, <2>1 DEF TableIInv, TypeOK, allocVars, iterVars
<1>14. InsertInOrder'
  BY <1>11, NotInserting DEF TableIInv
<1>15. UNCHANGED <<born, fills, iter_handle, owed>>
  BY <1>10 DEF iterVars
<1>16. \A s \in Slots :
          IF kv_mapping_table'[s].mem_offset # NULL
          THEN /\ Occupied(s)
               /\ kv_mapping_table'[s].key = kv_mapping_table[s].key
               /\ kv_mapping_table'[s].length \in Lengths(kv_mapping_table[s].key)
          ELSE kv_mapping_table'[s].next_slot = NULL
  <2>1. \A s \in Slots : IF Occupied(s)
                         THEN kv_mapping_table[s].length \in Lengths(kv_mapping_table[s].key)
                         ELSE kv_mapping_table[s].next_slot = NULL
    BY DEF TableIInv, EntriesWhole
  <2> QED
    BY <1>3, <1>4, <1>7, <1>9, <2>1 DEF Occupied
<1>17. \A h \in Handles : \A s \in owed'[h] :
          s \in owed[h] /\ (s \in Slots => (Occupied(s) => kv_mapping_table'[s].mem_offset # NULL))
  BY <1>7, <1>9, <1>15 DEF Occupied
<1>18. \A s \in Slots :
          LET n == kv_mapping_table'[s].next_slot
          IN  kv_mapping_table'[s].mem_offset # NULL /\ n # NULL =>
                 n = kv_mapping_table[s].next_slot \/ (n \in Slots /\ born[s] < born[n])
  BY <1>2, <1>4, <1>7, <1>9
<1> QED
  BY <1>13, <1>14, <1>15, <1>16, <1>17, <1>18, NoSlotFilled

(* What an update does to the table: nothing, or the length of one entry.   *)
LEMMA UpdateWrites ==
    ASSUME TableIInv, NEW i \in Workers, update_mapping_entry(i)
    PROVE  LET cmd == w[i].cmd
               s == get_mapping_entry(cmd.key)
           IN  /\ w[i].pc = "update" /\ cmd \in StoreCmds /\ cmd.key \in Keys
               /\ cmd.length \in 1..LARGE_LENGTH /\ cmd.length \in Lengths(cmd.key)
               /\ UNCHANGED <<born, fills, storage, allocVars, iterVars>>
               /\ \/ kv_mapping_table' = kv_mapping_table
                  \/ /\ s \in Slots /\ Holds(s, cmd.key)
                     /\ kv_mapping_table' \in [Slots -> Entries]
                     /\ kv_mapping_table'[s].key = kv_mapping_table[s].key
                     /\ kv_mapping_table'[s].mem_offset = kv_mapping_table[s].mem_offset
                     /\ kv_mapping_table'[s].next_slot = kv_mapping_table[s].next_slot
                     /\ kv_mapping_table'[s].length = cmd.length
                     /\ \A t \in Slots : t # s => kv_mapping_table'[t] = kv_mapping_table[t]
               /\ \/ w' = [w EXCEPT ![i] = [pc |-> "spin"]] /\ UNCHANGED <<kv_mapping_table, kept, reply>>
                  \/ Done(i, cmd, "ok", << >>) /\ kept' = [kept EXCEPT ![cmd.key] = Stored(cmd)]
<1>0. PICK cmd, s : cmd = w[i].cmd /\ s = get_mapping_entry(cmd.key)
  OBVIOUS
<1>1. w[i].pc = "update" /\ w[i] \in AtWork
  BY DEF update_mapping_entry, TableIInv, TypeOK
<1>2. cmd \in StoreCmds /\ cmd.key \in Keys /\ cmd.length \in 1..LARGE_LENGTH
      /\ cmd.length \in Lengths(cmd.key)
  BY <1>0, <1>1, CarriesCmd, StoreCmdFields
<1>3. UNCHANGED <<born, fills, storage, allocVars, iterVars>>
  BY DEF update_mapping_entry, tableVars
<1>4. s # NULL => s \in Slots /\ Holds(s, cmd.key)
  BY <1>0, <1>2, LookupFinds DEF TableIInv
<1>5. \/ w' = [w EXCEPT ![i] = [pc |-> "spin"]] /\ UNCHANGED <<kv_mapping_table, kept, reply>>
      \/ /\ kv_mapping_table' = IF s = NULL THEN kv_mapping_table
                                ELSE [kv_mapping_table EXCEPT ![s].length = cmd.length]
         /\ Done(i, cmd, "ok", << >>) /\ kept' = [kept EXCEPT ![cmd.key] = Stored(cmd)]
  BY <1>0 DEF update_mapping_entry, tableVars, hostVars
<1>6. ASSUME s # NULL, kv_mapping_table' = [kv_mapping_table EXCEPT ![s].length = cmd.length]
      PROVE  /\ kv_mapping_table' \in [Slots -> Entries]
             /\ kv_mapping_table'[s].key = kv_mapping_table[s].key
             /\ kv_mapping_table'[s].mem_offset = kv_mapping_table[s].mem_offset
             /\ kv_mapping_table'[s].next_slot = kv_mapping_table[s].next_slot
             /\ kv_mapping_table'[s].length = cmd.length
             /\ \A t \in Slots : t # s => kv_mapping_table'[t] = kv_mapping_table[t]
  <2>1. kv_mapping_table \in [Slots -> Entries] /\ s \in Slots
    BY <1>4, <1>6 DEF TableIInv, TypeOK
  <2>2. PICK e : e = [kv_mapping_table[s] EXCEPT !.length = cmd.length]
    OBVIOUS
  <2>3. e \in Entries /\ e.key = kv_mapping_table[s].key /\ e.length = cmd.length
        /\ e.mem_offset = kv_mapping_table[s].mem_offset /\ e.next_slot = kv_mapping_table[s].next_slot
    <3>1. kv_mapping_table[s] \in Entries
      BY <2>1
    <3> QED
      BY <1>2, <2>2, <3>1 DEF Entries
  <2>4. kv_mapping_table' = [kv_mapping_table EXCEPT ![s] = e]
    BY <1>6, <2>1, <2>2
  <2> QED
    BY <2>1, <2>3, <2>4
<1>7. \/ kv_mapping_table' = kv_mapping_table
      \/ /\ s \in Slots /\ Holds(s, cmd.key)
         /\ kv_mapping_table' \in [Slots -> Entries]
         /\ kv_mapping_table'[s].key = kv_mapping_table[s].key
         /\ kv_mapping_table'[s].mem_offset = kv_mapping_table[s].mem_offset
         /\ kv_mapping_table'[s].next_slot = kv_mapping_table[s].next_slot
         /\ kv_mapping_table'[s].length = cmd.length
         /\ \A t \in Slots : t # s => kv_mapping_table'[t] = kv_mapping_table[t]
  BY <1>4, <1>5, <1>6
<1> QED
  BY <1>0, <1>1, <1>2, <1>3, <1>5, <1>7

(* What a deletion does to it: nothing, or it empties one entry.            *)
LEMMA DeleteWrites ==
    ASSUME TableIInv, NEW i \in Workers, delete_mapping_entry(i)
    PROVE  LET cmd == w[i].cmd
               s == get_mapping_entry(cmd.key)
           IN  /\ w[i].pc = "delete" /\ cmd \in KeyCmds /\ cmd.key \in Keys
               /\ UNCHANGED <<born, fills, storage, allocVars, iter_handle>>
               /\ \/ /\ w' = [w EXCEPT ![i] = [pc |-> "spin"]]
                     /\ UNCHANGED <<kv_mapping_table, owed, kept, reply>>
                  \/ /\ w' = [w EXCEPT ![i] = Idle] /\ kept' = [kept EXCEPT ![cmd.key] = NULL]
                     /\ reply' = [op |-> "delete", key |-> cmd.key, asked |-> 0, status |-> "ok", data |-> << >>]
                     /\ owed' = [h \in Handles |-> owed[h] \ {s}]
                     /\ \/ s = NULL /\ kv_mapping_table' = kv_mapping_table
                        \/ /\ s \in Slots /\ Holds(s, cmd.key)
                           /\ kv_mapping_table' = [kv_mapping_table EXCEPT ![s] = Empty]
<1>0. PICK cmd, s : cmd = w[i].cmd /\ s = get_mapping_entry(cmd.key)
  OBVIOUS
<1>1. w[i].pc = "delete" /\ w[i] \in AtWork
  BY DEF delete_mapping_entry, TableIInv, TypeOK
<1>2. cmd \in KeyCmds /\ cmd.key \in Keys
  BY <1>0, <1>1, CarriesCmd DEF KeyCmds
<1>3. UNCHANGED <<born, fills, storage, allocVars, iter_handle>>
  BY DEF delete_mapping_entry
<1>4. s # NULL => s \in Slots /\ Holds(s, cmd.key)
  BY <1>0, <1>2, LookupFinds DEF TableIInv
<1>6. cmd.op = "delete"
  BY <1>0, <1>1, CarriesCmd
<1>5. \/ /\ w' = [w EXCEPT ![i] = [pc |-> "spin"]]
         /\ UNCHANGED <<kv_mapping_table, owed, kept, reply>>
      \/ /\ w' = [w EXCEPT ![i] = Idle] /\ kept' = [kept EXCEPT ![cmd.key] = NULL]
         /\ reply' = [op |-> "delete", key |-> cmd.key, asked |-> 0, status |-> "ok", data |-> << >>]
         /\ owed' = [h \in Handles |-> owed[h] \ {s}]
         /\ kv_mapping_table' = IF s = NULL THEN kv_mapping_table
                                ELSE [kv_mapping_table EXCEPT ![s] = Empty]
  BY <1>0, <1>6 DEF delete_mapping_entry, Done, hostVars
<1> QED
  BY <1>0, <1>1, <1>2, <1>3, <1>4, <1>5

LEMMA UpdateKeepsTable ==
    ASSUME OneWorker, TableIInv, NEW i \in Workers, update_mapping_entry(i)
    PROVE  TableIInv'
<1>0. PICK cmd, s : cmd = w[i].cmd /\ s = get_mapping_entry(cmd.key)
  OBVIOUS
<1>1. /\ cmd \in StoreCmds /\ cmd.key \in Keys
      /\ cmd.length \in 1..LARGE_LENGTH /\ cmd.length \in Lengths(cmd.key)
      /\ UNCHANGED <<born, fills, storage, allocVars, iterVars>>
  BY <1>0, UpdateWrites
<1>2. \/ kv_mapping_table' = kv_mapping_table
      \/ /\ s \in Slots /\ Holds(s, cmd.key)
         /\ kv_mapping_table' \in [Slots -> Entries]
         /\ kv_mapping_table'[s].key = kv_mapping_table[s].key
         /\ kv_mapping_table'[s].mem_offset = kv_mapping_table[s].mem_offset
         /\ kv_mapping_table'[s].next_slot = kv_mapping_table[s].next_slot
         /\ kv_mapping_table'[s].length = cmd.length
         /\ \A t \in Slots : t # s => kv_mapping_table'[t] = kv_mapping_table[t]
  BY <1>0, UpdateWrites
<1>3. \/ w' = [w EXCEPT ![i] = [pc |-> "spin"]] /\ kept' = kept
      \/ /\ w' = [w EXCEPT ![i] = IF cmd.op = "batch" THEN [pc |-> "batch"] ELSE Idle]
         /\ kept' = [kept EXCEPT ![cmd.key] = Stored(cmd)]
  BY <1>0, UpdateWrites DEF Done
<1>4. PICK r \in AtWork : w' = [w EXCEPT ![i] = r] /\ r.pc \notin {"entry", "chain"}
  <2>1. \A x \in {[pc |-> "spin"], [pc |-> "batch"], Idle} : x \in AtWork /\ x.pc \notin {"entry", "chain"}
    BY DEF AtWork, Idle
  <2> QED
    BY <1>3, <2>1
<1>5. kept' \in [Keys -> Values \cup {NULL}]
  <2>1. Stored(cmd) \in Values
    BY <1>1, StoreCmdFields DEF Stored, Values
  <2>2. kept \in [Keys -> Values \cup {NULL}]
    BY DEF TableIInv, TypeOK
  <2> QED
    BY <1>1, <1>3, <2>1, <2>2
<1>6. TypeOK'
  <2>1. w' \in [Workers -> AtWork]
    BY <1>4, WorkerMoves DEF TableIInv
  <2>2. kv_mapping_table' \in [Slots -> Entries]
    BY <1>2 DEF TableIInv, TypeOK
  <2> QED
    BY <1>1, <1>5, <2>1, <2>2 DEF TableIInv, TypeOK, allocVars, iterVars
<1>7. InsertInOrder'
  BY <1>4, NotInserting DEF TableIInv
<1>8. CASE kv_mapping_table' = kv_mapping_table
  BY <1>1, <1>6, <1>7, <1>8, TableUntouched DEF tableVars
<1>9. CASE kv_mapping_table' # kv_mapping_table
  <2>1. s \in Slots /\ kv_mapping_table[s].key = cmd.key
    BY <1>2, <1>9 DEF Holds
  <2>2. UNCHANGED <<born, fills, iter_handle, owed>>
    BY <1>1 DEF iterVars
  <2>3. \A t \in Slots : IF Occupied(t)
                         THEN kv_mapping_table[t].length \in Lengths(kv_mapping_table[t].key)
                         ELSE kv_mapping_table[t].next_slot = NULL
    BY DEF TableIInv, EntriesWhole
  <2>4. \A t \in Slots :
          IF kv_mapping_table'[t].mem_offset # NULL
          THEN /\ Occupied(t)
               /\ kv_mapping_table'[t].key = kv_mapping_table[t].key
               /\ kv_mapping_table'[t].length \in Lengths(kv_mapping_table[t].key)
          ELSE kv_mapping_table'[t].next_slot = NULL
    BY <1>1, <1>2, <1>9, <2>1, <2>3 DEF Occupied
  <2>5. \A h \in Handles : \A t \in owed'[h] :
          t \in owed[h] /\ (t \in Slots => (Occupied(t) => kv_mapping_table'[t].mem_offset # NULL))
    BY <1>2, <1>9, <2>2 DEF Occupied
  <2>6. \A t \in Slots :
          LET n == kv_mapping_table'[t].next_slot
          IN  kv_mapping_table'[t].mem_offset # NULL /\ n # NULL =>
                 n = kv_mapping_table[t].next_slot \/ (n \in Slots /\ born[t] < born[n])
    BY <1>2, <1>9
  <2> QED
    BY <1>6, <1>7, <2>2, <2>4, <2>5, <2>6, NoSlotFilled
<1> QED
  BY <1>8, <1>9

LEMMA DeleteKeepsTable ==
    ASSUME OneWorker, TableIInv, NEW i \in Workers, delete_mapping_entry(i)
    PROVE  TableIInv'
<1>0. PICK cmd, s : cmd = w[i].cmd /\ s = get_mapping_entry(cmd.key)
  OBVIOUS
<1>1. cmd.key \in Keys /\ UNCHANGED <<born, fills, storage, allocVars, iter_handle>>
  BY <1>0, DeleteWrites
<1>2. \/ /\ w' = [w EXCEPT ![i] = [pc |-> "spin"]]
         /\ UNCHANGED <<kv_mapping_table, owed, kept, reply>>
      \/ /\ w' = [w EXCEPT ![i] = Idle] /\ kept' = [kept EXCEPT ![cmd.key] = NULL]
         /\ owed' = [h \in Handles |-> owed[h] \ {s}]
         /\ \/ s = NULL /\ kv_mapping_table' = kv_mapping_table
            \/ s \in Slots /\ kv_mapping_table' = [kv_mapping_table EXCEPT ![s] = Empty]
  BY <1>0, DeleteWrites
<1>3. PICK r \in AtWork : w' = [w EXCEPT ![i] = r] /\ r.pc \notin {"entry", "chain"}
  <2>1. \A x \in {[pc |-> "spin"], Idle} : x \in AtWork /\ x.pc \notin {"entry", "chain"}
    BY DEF AtWork, Idle
  <2> QED
    BY <1>2, <2>1
<1>4. kv_mapping_table \in [Slots -> Entries] /\ owed \in [Handles -> SUBSET Slots]
      /\ kept \in [Keys -> Values \cup {NULL}]
  BY DEF TableIInv, TypeOK
<1>5. Empty \in Entries /\ Empty.mem_offset = NULL /\ Empty.next_slot = NULL
  BY DEF Empty, Entries
<1>6. TypeOK'
  <2>1. w' \in [Workers -> AtWork]
    BY <1>3, WorkerMoves DEF TableIInv
  <2>2. kv_mapping_table' \in [Slots -> Entries]
    BY <1>2, <1>4, <1>5
  <2>3. kept' \in [Keys -> Values \cup {NULL}] /\ owed' \in [Handles -> SUBSET Slots]
    BY <1>1, <1>2, <1>4
  <2> QED
    BY <1>1, <2>1, <2>2, <2>3 DEF TableIInv, TypeOK, allocVars
<1>7. InsertInOrder'
  BY <1>3, NotInserting DEF TableIInv
<1>8. \A t \in Slots : kv_mapping_table'[t] = kv_mapping_table[t]
                       \/ (t = s /\ kv_mapping_table'[t].mem_offset = NULL
                                 /\ kv_mapping_table'[t].next_slot = NULL)
  BY <1>2, <1>4, <1>5
<1>9. \A h \in Handles : \A t \in owed'[h] :
          t \in owed[h] /\ (t \in Slots => (Occupied(t) => kv_mapping_table'[t].mem_offset # NULL))
  <2> SUFFICES ASSUME NEW h \in Handles, NEW t \in owed'[h]
               PROVE  t \in owed[h] /\ (t \in Slots => (Occupied(t) => kv_mapping_table'[t].mem_offset # NULL))
    OBVIOUS
  <2>1. t \in owed[h] /\ (kv_mapping_table' = kv_mapping_table \/ t # s)
    BY <1>2
  <2> QED
    BY <1>8, <2>1 DEF Occupied
<1>10. \A t \in Slots : IF Occupied(t)
                        THEN kv_mapping_table[t].length \in Lengths(kv_mapping_table[t].key)
                        ELSE kv_mapping_table[t].next_slot = NULL
  BY DEF TableIInv, EntriesWhole
<1>11. \A t \in Slots :
          IF kv_mapping_table'[t].mem_offset # NULL
          THEN /\ Occupied(t)
               /\ kv_mapping_table'[t].key = kv_mapping_table[t].key
               /\ kv_mapping_table'[t].length \in Lengths(kv_mapping_table[t].key)
          ELSE kv_mapping_table'[t].next_slot = NULL
  BY <1>8, <1>10 DEF Occupied
<1>12. \A t \in Slots :
          LET n == kv_mapping_table'[t].next_slot
          IN  kv_mapping_table'[t].mem_offset # NULL /\ n # NULL =>
                 n = kv_mapping_table[t].next_slot \/ (n \in Slots /\ born[t] < born[n])
  BY <1>8
<1> QED
  BY <1>1, <1>6, <1>7, <1>9, <1>11, <1>12, NoSlotFilled

(* Iterators. *)
LEMMA IteratorKeepsTable ==
    ASSUME TableIInv, NEW i \in Workers, NEW h \in Handles,
           kv_iter_close(i, h) \/ kv_iter_read(i, h) \/ \E prefix \in Prefixes : kv_iter_open(i, prefix)
    PROVE  TableIInv'
<1>1. /\ UNCHANGED <<tableVars, storage, allocVars, hostVars, w>>
      /\ iter_handle \in [Handles -> Iterators \cup {NULL, GARBAGE}]
      /\ owed \in [Handles -> SUBSET Slots]
  BY DEF kv_iter_close, kv_iter_read, kv_iter_open, TableIInv, TypeOK
<1>2. SUFFICES /\ iter_handle' \in [Handles -> Iterators \cup {NULL, GARBAGE}]
               /\ owed' \in [Handles -> SUBSET Slots]
               /\ \A g \in Handles : iter_handle'[g] \notin {NULL, GARBAGE} =>
                     owed'[g] \subseteq Selected(iter_handle'[g].prefix, iter_handle'[g].current_pos)
  <2>1. ASSUME iter_handle' \in [Handles -> Iterators \cup {NULL, GARBAGE}],
               owed' \in [Handles -> SUBSET Slots]
        PROVE  TypeOK'
    BY <1>1, <2>1 DEF TableIInv, TypeOK, tableVars, allocVars, hostVars
  <2>2. EntriesWhole' /\ FillsCounted' /\ ChainsLeadForward' /\ InsertInOrder'
    BY <1>1 DEF TableIInv, EntriesWhole, FillsCounted, ChainsLeadForward, InsertInOrder, Occupied, tableVars
  <2>3. ASSUME \A g \in Handles : iter_handle'[g] \notin {NULL, GARBAGE} =>
                  owed'[g] \subseteq Selected(iter_handle'[g].prefix, iter_handle'[g].current_pos)
        PROVE  OwedSelected'
    BY <1>1, <2>3 DEF OwedSelected, Open, Selected, Occupied, tableVars
  <2> QED
    BY <2>1, <2>2, <2>3 DEF TableIInv
<1>3. \A g \in Handles : iter_handle[g] \notin {NULL, GARBAGE} =>
         owed[g] \subseteq Selected(iter_handle[g].prefix, iter_handle[g].current_pos)
  BY DEF TableIInv, OwedSelected, Open
<1>4. CASE kv_iter_close(i, h)
  <2>1. iter_handle' = [iter_handle EXCEPT ![h] = NULL] /\ owed' = [owed EXCEPT ![h] = {}]
    BY <1>4 DEF kv_iter_close
  <2> QED
    BY <1>1, <1>3, <2>1
<1>5. CASE kv_iter_read(i, h)
  <2>1. PICK it, stop, sel : /\ it = iter_handle[h] /\ stop = StopPos(h)
                             /\ sel = Selected(it.prefix, it.current_pos)
    OBVIOUS
  <2>2. it \in Iterators /\ it \notin {NULL, GARBAGE}
    BY <1>1, <1>5, <2>1 DEF kv_iter_read, Open
  <2>3. stop \in Nat
    <3>1. sel \subseteq Nat
      BY <2>1, HashAssumption DEF Selected, Slots
    <3>2. stop = HashSlots \/ \E s \in sel : stop = s
      BY <2>1 DEF StopPos
    <3> QED
      BY <3>1, <3>2, HashAssumption
  <2>4. /\ iter_handle' = [iter_handle EXCEPT ![h].current_pos = stop]
        /\ owed' = [owed EXCEPT ![h] = @ \ {s \in sel : s < stop}]
    BY <1>5, <2>1 DEF kv_iter_read
  <2>5. PICK new : new = [it EXCEPT !.current_pos = stop]
    OBVIOUS
  <2>6. new \in Iterators /\ new.prefix = it.prefix /\ new.current_pos = stop
    BY <2>2, <2>3, <2>5 DEF Iterators
  <2>7. iter_handle' = [iter_handle EXCEPT ![h] = new]
    BY <1>1, <2>1, <2>4, <2>5
  <2>8. owed[h] \ {s \in sel : s < stop} \subseteq Selected(it.prefix, stop)
    <3> SUFFICES ASSUME NEW s \in owed[h], ~(s \in sel /\ s < stop)
                 PROVE  s \in Selected(it.prefix, stop)
      OBVIOUS
    <3>1. s \in sel
      BY <1>3, <2>1, <2>2
    <3>2. s \in Slots /\ Occupied(s) /\ kv_mapping_table[s].key \in it.prefix
      BY <2>1, <3>1 DEF Selected
    <3>3. s >= stop
      BY <2>3, <3>1, <3>2, HashAssumption DEF Slots
    <3> QED
      BY <3>2, <3>3 DEF Selected
  <2>9. iter_handle' \in [Handles -> Iterators \cup {NULL, GARBAGE}]
    BY <1>1, <2>6, <2>7
  <2>10. owed' \in [Handles -> SUBSET Slots]
    BY <1>1, <2>4
  <2>11. ASSUME NEW g \in Handles, iter_handle'[g] \notin {NULL, GARBAGE}
         PROVE  owed'[g] \subseteq Selected(iter_handle'[g].prefix, iter_handle'[g].current_pos)
    <3>1. CASE g = h
      BY <1>1, <2>4, <2>6, <2>7, <2>8, <3>1
    <3>2. CASE g # h
      BY <1>1, <1>3, <2>4, <2>7, <2>11, <3>2
    <3> QED
      BY <3>1, <3>2
  <2> QED
    BY <2>9, <2>10, <2>11
<1>6. ASSUME NEW prefix \in Prefixes, kv_iter_open(i, prefix)
      PROVE  /\ iter_handle' \in [Handles -> Iterators \cup {NULL, GARBAGE}]
             /\ owed' \in [Handles -> SUBSET Slots]
             /\ \A g \in Handles : iter_handle'[g] \notin {NULL, GARBAGE} =>
                  owed'[g] \subseteq Selected(iter_handle'[g].prefix, iter_handle'[g].current_pos)
  <2>1. PICK n : n = CHOOSE x \in FreeHandles : \A y \in FreeHandles : x <= y
    OBVIOUS
  <2>2. PICK new : new = [prefix |-> prefix, current_pos |-> 0]
    OBVIOUS
  <2>3. new \in Iterators /\ new.prefix = prefix /\ new.current_pos = 0
    BY <2>2 DEF Iterators
  <2>4. iter_handle' = [iter_handle EXCEPT ![n] = new] /\ owed' = [owed EXCEPT ![n] = Selected(prefix, 0)]
    BY <1>6, <2>1, <2>2 DEF kv_iter_open
  <2>5. Selected(prefix, 0) \subseteq Slots
    BY DEF Selected
  <2>6. iter_handle' \in [Handles -> Iterators \cup {NULL, GARBAGE}] /\ owed' \in [Handles -> SUBSET Slots]
    BY <1>1, <2>3, <2>4, <2>5
  <2>7. ASSUME NEW g \in Handles, iter_handle'[g] \notin {NULL, GARBAGE}
        PROVE  owed'[g] \subseteq Selected(iter_handle'[g].prefix, iter_handle'[g].current_pos)
    <3>1. CASE g = n
      BY <1>1, <2>3, <2>4, <3>1
    <3>2. CASE g # n
      BY <1>1, <1>3, <2>4, <2>7, <3>2
    <3> QED
      BY <3>1, <3>2
  <2> QED
    BY <2>6, <2>7
<1> QED
  BY <1>4, <1>5, <1>6

LEMMA TableInit == Init => TableIInv
<1> SUFFICES ASSUME Init PROVE TableIInv
  OBVIOUS
<1>1. TypeOK
  <2>1. Empty \in Entries /\ Idle \in AtWork
    BY DEF Empty, Entries, Idle, AtWork
  <2>2. kv_mapping_table \in [Slots -> Entries] /\ w \in [Workers -> AtWork]
    BY <2>1 DEF Init
  <2>3. iter_handle \in [Handles -> Iterators \cup {NULL, GARBAGE}]
    BY DEF Init
  <2>4. /\ storage \in [Units -> Data \cup {NULL}]
        /\ bits \in [Classes -> SUBSET Nat] /\ last_pos \in [Classes -> Nat] /\ latest \in Nat
        /\ inserts \in Nat /\ kept \in [Keys -> Values \cup {NULL}]
        /\ born \in [Slots -> Nat] /\ fills \in Nat /\ owed \in [Handles -> SUBSET Slots]
    BY DEF Init
  <2> QED
    BY <2>2, <2>3, <2>4 DEF TypeOK
<1>2. \A s \in Slots : ~Occupied(s) /\ kv_mapping_table[s].next_slot = NULL
  BY DEF Init, Empty, Occupied
<1>3. EntriesWhole /\ ChainsLeadForward
  BY <1>2 DEF EntriesWhole, ChainsLeadForward
<1>4. FillsCounted
  BY DEF Init, FillsCounted
<1>5. InsertInOrder
  BY DEF Init, InsertInOrder, Idle
<1>6. OwedSelected
  BY DEF Init, OwedSelected
<1> QED
  BY <1>1, <1>3, <1>4, <1>5, <1>6 DEF TableIInv

LEMMA TableStep ==
    ASSUME OneWorker, TableIInv, [Next]_vars
    PROVE  TableIInv'
<1>1. CASE UNCHANGED vars
  <2>1. UNCHANGED <<tableVars, iterVars, w>> /\ TypeOK'
    BY <1>1 DEF vars, tableVars, allocVars, hostVars, iterVars, TableIInv, TypeOK
  <2>2. InsertInOrder'
    BY <2>1 DEF TableIInv, InsertInOrder, Occupied, tableVars
  <2> QED
    BY <2>1, <2>2, TableUntouched
<1>2. ASSUME NEW i \in Workers, Work(i)
      PROVE  TableIInv'
  BY <1>2, AllocKeepsTable, CopyKeepsTable, FindKeepsTable, WriteKeepsTable, ChainKeepsTable,
     UpdateKeepsTable, DeleteKeepsTable DEF Work
<1>3. ASSUME NEW i \in Workers, NEW cmd \in Commands, Begin(i, cmd)
      PROVE  TableIInv'
  BY <1>3, BeginKeepsTable
<1>4. ASSUME NEW i \in Workers, NEW prefix \in Prefixes, kv_iter_open(i, prefix)
      PROVE  TableIInv'
  <2>1. PICK h \in Handles : TRUE
    BY <1>4 DEF kv_iter_open, FreeHandles
  <2> QED
    BY <1>4, <2>1, IteratorKeepsTable
<1>5. ASSUME NEW i \in Workers, NEW h \in Handles, kv_iter_close(i, h) \/ kv_iter_read(i, h)
      PROVE  TableIInv'
  BY <1>5, IteratorKeepsTable
<1> QED
  BY <1>1, <1>2, <1>3, <1>4, <1>5 DEF Next

(* The invariant of the hash table and the iterators, with one worker.      *)
THEOREM TableInvariance == ASSUME OneWorker PROVE Spec => []TableIInv
<1>1. Init => TableIInv
  BY TableInit
<1>2. TableIInv /\ [Next]_vars => TableIInv'
  BY TableStep
<1> QED
  BY <1>1, <1>2, PTL DEF Spec

(* Types: entries, cells and cursors, iterators, and what a worker carries  *)
(* at each position of __do_perform_kv_io.                                  *)
THEOREM TypeCorrect == ASSUME OneWorker PROVE Spec => []TypeOK
<1>1. TableIInv => TypeOK
  BY DEF TableIInv
<1> QED
  BY <1>1, TableInvariance, PTL

(* Chains lead to entries filled later, whatever keys collide and whichever *)
(* are deleted from the middle of a chain: the unbounded loops of           *)
(* get_mapping_entry and its like end.                                      *)
THEOREM ChainsForward == ASSUME OneWorker PROVE Spec => []ChainsLeadForward
<1>1. TableIInv => ChainsLeadForward
  BY DEF TableIInv
<1> QED
  BY <1>1, TableInvariance, PTL

(* kv_iter_read has returned what it has passed, unless it was deleted.     *)
THEOREM IterationComplete == ASSUME OneWorker PROVE Spec => []IterationMissesNothing
<1>1. TableIInv => IterationMissesNothing
  BY DEF TableIInv, OwedSelected, IterationMissesNothing, Selected
<1> QED
  BY <1>1, TableInvariance, PTL

-----------------------------------------------------------------------------
(* Cells. *)
LEMMA LookupSame ==
    ASSUME UNCHANGED kv_mapping_table, NEW k \in Keys
    PROVE  get_mapping_entry(k)' = get_mapping_entry(k)
BY DEF get_mapping_entry, Visited, Holds, Occupied

(* Steps that leave table and allocator alone: the rest is what the worker  *)
(* goes on with.                                                            *)
LEMMA CellsUntouched ==
    ASSUME OneWorker, TableIInv, CellIInv, UNCHANGED <<kv_mapping_table, bits, last_pos, latest, inserts>>,
           NEW i \in Workers, NEW r \in AtWork, w' = [w EXCEPT ![i] = r],
           Inserting(r) => PendingCell(r),
           r.pc = "mark" => Free(Class(r.cmd.length), r.off),
           Allocating(r) => inserts < MaxInserts,
           Updating(r) => SmallUpdate(r)
    PROVE  CellIInv'
<1>1. \A j \in Workers : w'[j] = r
  BY WorkerMoves DEF TableIInv
<1>2. \A s : Occupied(s)' <=> Occupied(s)
  BY DEF Occupied
<1>3. \A o, len : Taken(o, len)' <=> Taken(o, len)
  BY DEF Taken
<1>4. CellsTaken' /\ CellsApart'
  BY <1>2, <1>3 DEF CellIInv, CellsTaken, CellsApart
<1>5. PendingApart'
  <2>1. PendingCell(r)' <=> PendingCell(r)
    BY <1>2, <1>3 DEF PendingCell
  <2>2. \A j \in Workers : w[j]' = r
    BY <1>1
  <2> QED
    BY <1>2, <1>3, <2>2 DEF PendingApart, PendingCell
<1>6. FoundFree'
  BY <1>1 DEF FoundFree, Free
<1>7. AllocationsCounted'
  BY <1>1 DEF CellIInv, AllocationsCounted
<1>8. UpdatesSmall'
  <2>1. ASSUME NEW j \in Workers, Updating(w[j])' PROVE SmallUpdate(w[j])'
    <3>1. w'[j] = r /\ Updating(r)
      BY <1>1, <2>1 DEF Updating
    <3>2. r.cmd \in StoreCmds /\ r.cmd.key \in Keys
      BY <3>1, CarriesCmd, StoreCmdFields DEF Updating
    <3>3. get_mapping_entry(r.cmd.key)' = get_mapping_entry(r.cmd.key)
      BY <3>2, LookupSame
    <3>4. SmallUpdate(r)'
      BY <3>1, <3>3 DEF SmallUpdate
    <3> QED
      BY <3>1, <3>4 DEF SmallUpdate
  <2> QED
    BY <2>1 DEF UpdatesSmall
<1> QED
  BY <1>4, <1>5, <1>6, <1>7, <1>8 DEF CellIInv

(* Steps of the iterators and of nobody. *)
LEMMA CellsIdle ==
    ASSUME CellIInv, TypeOK, UNCHANGED <<kv_mapping_table, bits, last_pos, latest, inserts, w>>
    PROVE  CellIInv'
<1>1. \A s : Occupied(s)' <=> Occupied(s)
  BY DEF Occupied
<1>2. \A o, len : Taken(o, len)' <=> Taken(o, len)
  BY DEF Taken
<1>3. CellsTaken' /\ CellsApart' /\ PendingApart' /\ FoundFree' /\ AllocationsCounted'
  BY <1>1, <1>2 DEF CellIInv, CellsTaken, CellsApart, PendingApart, PendingCell, FoundFree, Free,
                    AllocationsCounted
<1>4. UpdatesSmall'
  <2>1. ASSUME NEW j \in Workers, Updating(w[j]) PROVE SmallUpdate(w[j])'
    <3>1. w[j].cmd.key \in Keys
      <4>1. w[j] \in AtWork
        BY DEF TypeOK
      <4> QED
        BY <2>1, <4>1, CarriesCmd, StoreCmdFields DEF Updating
    <3>2. PICK k : k = w[j].cmd.key
      OBVIOUS
    <3>3. get_mapping_entry(k)' = get_mapping_entry(k)
      BY <3>1, <3>2, LookupSame
    <3>4. SmallUpdate(w[j])
      BY <2>1 DEF CellIInv, UpdatesSmall
    <3> QED
      BY <3>2, <3>3, <3>4 DEF SmallUpdate
  <2> QED
    BY <2>1 DEF UpdatesSmall, Updating
<1> QED
  BY <1>3, <1>4 DEF CellIInv

(* Steps after which a worker has nothing in hand and every cell is one     *)
(* that was in the table before.                                            *)
SameCell(m, n) == Class(m) = Class(n) /\ (Allocator = "append_only" => m = n)

LEMMA CellsKept ==
    ASSUME OneWorker, TableIInv, CellIInv, UNCHANGED <<bits, last_pos, latest, inserts>>,
           NEW i \in Workers, NEW r \in AtWork, w' = [w EXCEPT ![i] = r],
           r.pc \in {"idle", "batch", "spin", "chain"},
           \A s \in Slots : kv_mapping_table'[s].mem_offset # NULL =>
              /\ Occupied(s) /\ kv_mapping_table'[s].mem_offset = kv_mapping_table[s].mem_offset
              /\ SameCell(kv_mapping_table'[s].length, kv_mapping_table[s].length)
    PROVE  CellIInv'
<1>1. \A j \in Workers : w'[j] = r
  BY WorkerMoves DEF TableIInv
<1>2. \A j \in Workers : ~Inserting(w'[j]) /\ ~Updating(w'[j]) /\ ~Allocating(w'[j]) /\ w'[j].pc # "mark"
  BY <1>1 DEF Inserting, Updating, Allocating
<1>3. \A m, n : SameCell(m, n) => Reserved(m) = Reserved(n) /\ \A o : Taken(o, m)' <=> Taken(o, n)
  BY DEF SameCell, Reserved, Taken
<1>4. CellsTaken'
  BY <1>3 DEF CellIInv, CellsTaken, Occupied
<1>5. CellsApart'
  BY <1>3 DEF CellIInv, CellsApart, Occupied, Apart
<1>6. PendingApart' /\ FoundFree' /\ UpdatesSmall'
  BY <1>2 DEF PendingApart, FoundFree, UpdatesSmall, Inserting, Updating
<1>7. AllocationsCounted'
  BY <1>2 DEF CellIInv, AllocationsCounted, Allocating
<1> QED
  BY <1>4, <1>5, <1>6, <1>7 DEF CellIInv

LEMMA BeginKeepsCells ==
    ASSUME OneWorker, TableIInv, CellIInv, NEW i \in Workers, NEW cmd \in Commands, Begin(i, cmd)
    PROVE  CellIInv'
<1>1. UNCHANGED <<kv_mapping_table, bits, last_pos, latest, inserts>>
  BY DEF Begin, tableVars, allocVars
<1>2. PICK r : r = w'[i]
  OBVIOUS
<1>3. r \in AtWork /\ w' = [w EXCEPT ![i] = r]
  <2>1. w \in [Workers -> AtWork] /\ w' \in [Workers -> AtWork]
    BY BeginKeepsTable DEF TableIInv, TypeOK
  <2>2. \E x : w' = [w EXCEPT ![i] = x]
    BY BeginWork DEF TableIInv
  <2> QED
    BY <1>2, <2>1, <2>2
<1>4. PICK s : s = get_mapping_entry(cmd.key)
  OBVIOUS
<1>5. \/ r.pc \in {"spin", "idle", "retrieve", "delete"}
      \/ r.pc = "alloc" /\ inserts < MaxInserts
      \/ /\ r.pc = "copy" /\ r.is_insert = 0
      \/ /\ r.pc = "copy" /\ r.is_insert = 2 /\ r.cmd = cmd
         /\ cmd.length <= SMALL_LENGTH /\ kv_mapping_table[s].length <= SMALL_LENGTH
  <2>1. w \in [Workers -> AtWork]
    BY DEF TableIInv, TypeOK
  <2> QED
    BY <1>2, <1>4, <2>1, BeginWork DEF TableIInv, Idle
<1>6. ~Inserting(r) /\ r.pc # "mark" /\ (Allocating(r) => inserts < MaxInserts)
  BY <1>5 DEF Inserting, Allocating
<1>7. Updating(r) => SmallUpdate(r)
  BY <1>4, <1>5 DEF Updating, SmallUpdate
<1> QED
  BY <1>1, <1>3, <1>6, <1>7, CellsUntouched

LEMMA AllocFindKeepsCells ==
    ASSUME OneWorker, TableIInv, CellIInv, CellsSuffice, NEW i \in Workers, AllocFind(i)
    PROVE  CellIInv'
<1> DEFINE c == Class(w[i].cmd.length)
           off == IF Allocator = "append_only" THEN latest ELSE bitmap_find_next_zero_area(c)
           r == [pc |-> "mark", cmd |-> w[i].cmd, off |-> off]
<1>1. /\ w[i].pc = "alloc" /\ w' = [w EXCEPT ![i] = r]
      /\ UNCHANGED <<kv_mapping_table, bits, last_pos, latest, inserts>>
  BY DEF AllocFind, tableVars, allocVars
<1>2. r \in AtWork
  <2>1. w \in [Workers -> AtWork] /\ w' \in [Workers -> AtWork]
    BY AllocKeepsTable DEF TableIInv, TypeOK
  <2> QED
    BY <1>1, <2>1
<1>3. inserts < MaxInserts
  BY <1>1 DEF CellIInv, AllocationsCounted, Allocating
<1>4. Free(c, off)
  <2>1. CASE Allocator = "append_only"
    BY <2>1 DEF Free
  <2>2. CASE Allocator # "append_only"
    <3>1. c \in Classes
      BY DEF Class, Classes
    <3>2. off = bitmap_find_next_zero_area(c)
      BY <2>2
    <3>3. PICK b, z : b = off /\ z = c
      OBVIOUS
    <3>4. /\ z \in Classes /\ b \in Nat
          /\ \/ /\ b \in last_pos[z]..NBits(z) - 1 /\ b \notin bits[z]
                /\ \A x \in last_pos[z]..b - 1 : x \in bits[z]
             \/ /\ b = NBits(z) + 1
                /\ \A x \in last_pos[z]..NBits(z) - 1 : x \in bits[z]
      BY <3>1, <3>2, <3>3, ZeroAreaFound DEF TableIInv
    <3>5. last_pos[z] \in Nat /\ NBits(z) \in Nat /\ inserts \in Nat /\ MaxInserts \in Nat
      BY <3>4, GeometryAssumption DEF TableIInv, TypeOK, NBits
    <3>6. ASSUME z = "large" PROVE Free(z, b)
      BY <2>2, <3>4, <3>5, <3>6 DEF Free
    <3>7. ASSUME z = "small" PROVE Free(z, b)
      <4>1. NBits(z) = SmallBits /\ MaxInserts <= SmallBits
        BY <2>2, <3>7 DEF NBits, CellsSuffice
      <4>2. last_pos[z] <= inserts /\ bits[z] = 0..last_pos[z] - 1
        BY <2>2, <3>7 DEF CellIInv, AllocationsCounted
      <4>3. last_pos[z] < NBits(z) /\ last_pos[z] \notin bits[z]
        BY <1>3, <3>5, <4>1, <4>2
      <4>4. ~(\A x \in last_pos[z]..NBits(z) - 1 : x \in bits[z])
        BY <3>5, <4>3
      <4>5. b \in last_pos[z]..NBits(z) - 1 /\ b \notin bits[z]
            /\ \A x \in last_pos[z]..b - 1 : x \in bits[z]
        BY <3>4, <4>4
      <4>6. b = last_pos[z]
        BY <3>4, <3>5, <4>3, <4>5
      <4> QED
        BY <2>2, <3>5, <4>3, <4>6 DEF Free
    <3> QED
      BY <3>3, <3>4, <3>6, <3>7 DEF Classes
  <2> QED
    BY <2>1, <2>2
<1>5. /\ r.pc = "mark" /\ r.cmd = w[i].cmd /\ r.off = off
      /\ ~Inserting(r) /\ ~Updating(r)
  BY DEF Inserting, Updating
<1> HIDE DEF r, off
<1>6. Free(Class(r.cmd.length), r.off)
  BY <1>4, <1>5
<1> QED
  BY <1>1, <1>2, <1>3, <1>5, <1>6, CellsUntouched

(* Cells of the two bitmaps: bits of one class are a cell apart, cells of   *)
(* the two classes are in different halves, and all are in the device.      *)
LEMMA CellPlace ==
    ASSUME NEW c \in Classes, NEW b \in Nat, b < NBits(c)
    PROVE  /\ CellLength(c) \in Nat \ {0} /\ CellOffset(c, b) \in Nat
           /\ c = "small" => CellOffset(c, b) + CellLength(c) <= DevSize \div 2
           /\ c = "large" => DevSize \div 2 <= CellOffset(c, b)
           /\ CellOffset(c, b) + CellLength(c) <= DevSize
<1> DEFINE half == DevSize \div 2
           base == IF c = "large" THEN half ELSE 0
           n == b * CellLength(c)
           all == NBits(c) * CellLength(c)
<1>1. half \in Nat /\ DevSize = 2 * half
  BY Half
<1>2. CellLength(c) \in Nat \ {0} /\ NBits(c) \in Nat
  BY GeometryAssumption DEF CellLength, NBits
<1>3. all = half
  BY Half DEF CellLength, NBits, Classes
<1>4. \A x, y, l \in Nat : x < y => x * l + l <= y * l /\ x * l \in Nat
  <2> SUFFICES ASSUME NEW x \in Nat, NEW y \in Nat, NEW l \in Nat, x < y
               PROVE  x * l + l <= y * l /\ x * l \in Nat
    OBVIOUS
  <2>1. (x + 1) * l <= y * l
    BY SMT
  <2>2. (x + 1) * l = x * l + l
    BY SMT
  <2>3. x * l \in Nat
    BY SMT
  <2> QED
    BY <2>1, <2>2, <2>3
<1>5. n + CellLength(c) <= all /\ n \in Nat
  BY <1>2, <1>4
<1>6. CellOffset(c, b) = base + n
  BY DEF CellOffset
<1>7. base \in {0, half} /\ (c = "large" => base = half) /\ (c = "small" => base = 0)
  BY DEF Classes
<1> HIDE DEF half, base, n, all
<1>8. CellOffset(c, b) \in Nat /\ CellOffset(c, b) + CellLength(c) <= base + half
  BY <1>1, <1>2, <1>3, <1>5, <1>6, <1>7
<1> QED
  BY <1>1, <1>2, <1>5, <1>6, <1>7, <1>8 DEF half

LEMMA CellsOfTwoBits ==
    ASSUME NEW c \in Classes, NEW d \in Classes, NEW a \in Nat, NEW b \in Nat,
           a < NBits(c), b < NBits(d), c # d \/ a # b
    PROVE  \/ CellOffset(c, a) + CellLength(c) <= CellOffset(d, b)
           \/ CellOffset(d, b) + CellLength(d) <= CellOffset(c, a)
<1>1. CASE c # d
  <2>1. DevSize \div 2 \in Nat
    BY Half
  <2> QED
    BY <1>1, <2>1, CellPlace DEF Classes
<1>2. CASE c = d /\ a # b
  <2>1. PICK l, base : l = CellLength(c) /\ base = (IF c = "large" THEN DevSize \div 2 ELSE 0)
    OBVIOUS
  <2>2. l \in Nat /\ base \in Nat
    BY <2>1, Half, GeometryAssumption DEF CellLength
  <2>3. CellOffset(c, a) = base + a * l /\ CellOffset(d, b) = base + b * l
    BY <1>2, <2>1 DEF CellOffset
  <2>4. \A x, y \in Nat : x < y => x * l + l <= y * l /\ x * l \in Nat /\ y * l \in Nat
    <3> SUFFICES ASSUME NEW x \in Nat, NEW y \in Nat, x < y
                 PROVE  x * l + l <= y * l /\ x * l \in Nat /\ y * l \in Nat
      OBVIOUS
    <3>1. (x + 1) * l <= y * l
      BY <2>2, SMT
    <3>2. (x + 1) * l = x * l + l
      BY <2>2, SMT
    <3>3. x * l \in Nat /\ y * l \in Nat
      BY <2>2, SMT
    <3> QED
      BY <2>2, <3>1, <3>2, <3>3
  <2>5. a < b \/ b < a
    BY <1>2
  <2>6. CASE a < b
    <3>1. a * l + l <= b * l /\ a * l \in Nat /\ b * l \in Nat
      BY <2>4, <2>6
    <3> QED
      BY <1>2, <2>1, <2>2, <2>3, <3>1
  <2>7. CASE b < a
    <3>1. b * l + l <= a * l /\ a * l \in Nat /\ b * l \in Nat
      BY <2>4, <2>7
    <3> QED
      BY <1>2, <2>1, <2>2, <2>3, <3>1
  <2> QED
    BY <2>5, <2>6, <2>7
<1> QED
  BY <1>1, <1>2

(* Whatever is marked, what was taken stays taken, and the new cell is      *)
(* apart from all taken ones.                                               *)
LEMMA MarkedCellApart ==
    ASSUME TypeOK, NEW len \in 1..LARGE_LENGTH, NEW off \in Nat,
           Free(Class(len), off),
           IF Allocator = "append_only" THEN append_only_allocate(len)
           ELSE bitmap_allocate(Class(len), off)
    PROVE  LET o == IF Allocator = "append_only" THEN off ELSE CellOffset(Class(len), off)
           IN  /\ Taken(o, len)' \/ (Allocator # "append_only" /\ o >= DevSize)
               /\ \A p \in Nat, n \in 1..LARGE_LENGTH : Taken(p, n) =>
                     Taken(p, n)' /\ Apart(o, len, p, n)
<1>1. len \in Nat /\ latest \in Nat /\ LARGE_LENGTH \in Nat
  BY GeometryAssumption DEF TypeOK
<1>2. CASE Allocator = "append_only"
  <2>1. off = latest /\ latest' = latest + len
    BY <1>2 DEF Free, append_only_allocate
  <2>2. ASSUME NEW p \in Nat, NEW n \in 1..LARGE_LENGTH, Taken(p, n)
        PROVE  Taken(p, n)' /\ Apart(off, len, p, n)
    <3>1. p + n <= latest /\ n \in Nat
      BY <1>1, <1>2, <2>2 DEF Taken
    <3>2. p + n <= latest'
      BY <1>1, <2>1, <3>1
    <3>3. Reserved(n) = n
      BY <1>2 DEF Reserved
    <3>4. Apart(off, len, p, n)
      BY <2>1, <3>1, <3>3 DEF Apart
    <3> QED
      BY <1>2, <3>2, <3>4 DEF Taken
  <2>3. Taken(off, len)'
    BY <1>1, <1>2, <2>1 DEF Taken
  <2> QED
    BY <1>2, <2>2, <2>3
<1>3. CASE Allocator # "append_only"
  <2>1. PICK c, o : c = Class(len) /\ o = CellOffset(c, off)
    OBVIOUS
  <2>2. c \in Classes
    BY <2>1 DEF Class, Classes
  <2>3. bits' = [bits EXCEPT ![c] = @ \cup {off}] /\ bits \in [Classes -> SUBSET Nat]
    BY <1>3, <2>1 DEF bitmap_allocate, TypeOK
  <2>4. off \in bits'[c] /\ \A d \in Classes : bits[d] \subseteq bits'[d]
    BY <2>2, <2>3
  <2>5. \/ off < NBits(c) /\ off \notin bits[c]
        \/ c = "large" /\ off = NBits(c) + 1
    BY <1>3, <2>1 DEF Free
  <2>6. ASSUME c = "large", off = NBits(c) + 1
        PROVE  o >= DevSize /\ o \in Nat
    <3>1. o = DevSize \div 2 + (LargeBits + 1) * LARGE_LENGTH
      BY <2>1, <2>6 DEF CellOffset, CellLength, NBits
    <3>2. (LargeBits + 1) * LARGE_LENGTH = LargeBits * LARGE_LENGTH + LARGE_LENGTH
      BY GeometryAssumption
    <3>3. PICK half \in Nat : half = DevSize \div 2 /\ half = LargeBits * LARGE_LENGTH /\ DevSize = 2 * half
      BY Half
    <3>4. o = half + (half + LARGE_LENGTH)
      BY <3>1, <3>2, <3>3
    <3> QED
      BY <1>1, <3>3, <3>4
  <2>7. Taken(o, len)' \/ o >= DevSize
    BY <1>3, <2>1, <2>4, <2>5, <2>6 DEF Taken
  <2>8. ASSUME NEW p \in Nat, NEW n \in 1..LARGE_LENGTH, Taken(p, n)
        PROVE  Taken(p, n)' /\ Apart(o, len, p, n)
    <3>1. PICK d, b : /\ d = Class(n) /\ d \in Classes
                      /\ b \in bits[d] /\ b \in Nat /\ b < NBits(d) /\ p = CellOffset(d, b)
      <4>1. Class(n) \in Classes
        BY DEF Class, Classes
      <4>2. \A z \in Classes : bits[z] \subseteq Nat
        BY <2>3
      <4> QED
        BY <1>3, <2>8, <4>1, <4>2 DEF Taken
    <3>2. Taken(p, n)'
      BY <1>3, <2>4, <3>1 DEF Taken
    <3>3. Reserved(len) = CellLength(c) /\ Reserved(n) = CellLength(d)
      BY <1>3, <2>1, <3>1 DEF Reserved
    <3>4. CASE off < NBits(c) /\ off \notin bits[c]
      <4>1. c # d \/ off # b
        BY <3>1, <3>4
      <4>2. o + CellLength(c) <= p \/ p + CellLength(d) <= o
        BY <2>1, <2>2, <3>1, <3>4, <4>1, CellsOfTwoBits
      <4> QED
        BY <3>2, <3>3, <4>2 DEF Apart
    <3>5. CASE c = "large" /\ off = NBits(c) + 1
      <4>1. p + CellLength(d) <= DevSize /\ CellLength(d) \in Nat
        BY <3>1, CellPlace
      <4>2. DevSize \in Nat
        BY Half
      <4>3. p + CellLength(d) <= o
        BY <2>6, <3>5, <4>1, <4>2
      <4> QED
        BY <3>2, <3>3, <4>3 DEF Apart
    <3> QED
      BY <2>5, <3>4, <3>5
  <2> QED
    BY <1>3, <2>1, <2>7, <2>8
<1> QED
  BY <1>2, <1>3

LEMMA EntryTypes ==
    ASSUME TableIInv, NEW s \in Slots, Occupied(s)
    PROVE  kv_mapping_table[s].mem_offset \in Nat /\ kv_mapping_table[s].length \in 1..LARGE_LENGTH
<1>1. kv_mapping_table[s] \in Entries
  BY DEF TableIInv, TypeOK
<1>2. kv_mapping_table[s].key \in Keys
      /\ kv_mapping_table[s].length \in Lengths(kv_mapping_table[s].key)
  BY DEF TableIInv, EntriesWhole
<1>3. \A k \in Keys : Lengths(k) \subseteq 1..LARGE_LENGTH
  BY LengthAssumption DEF Lengths
<1> QED
  BY <1>1, <1>2, <1>3 DEF Entries, Occupied

LEMMA AllocMarkKeepsCells ==
    ASSUME OneWorker, TableIInv, CellIInv, NEW i \in Workers, AllocMark(i)
    PROVE  CellIInv'
<1>0. PICK cmd, off, o, r : /\ cmd = w[i].cmd /\ off = w[i].off
                            /\ o = IF Allocator = "append_only" THEN off ELSE CellOffset(Class(cmd.length), off)
                            /\ r = [pc |-> "copy", cmd |-> cmd, is_insert |-> 1, offset |-> o]
  OBVIOUS
<1>1. w[i].pc = "mark" /\ w[i] \in AtWork
  BY DEF AllocMark, TableIInv, TypeOK
<1>2. cmd \in StoreCmds /\ off \in Nat /\ cmd.length \in 1..LARGE_LENGTH
  BY <1>0, <1>1, CarriesCmd, StoreCmdFields
<1>3. /\ w' = [w EXCEPT ![i] = r] /\ inserts' = inserts + 1 /\ UNCHANGED kv_mapping_table
      /\ IF Allocator = "append_only" THEN append_only_allocate(cmd.length)
         ELSE bitmap_allocate(Class(cmd.length), off)
  BY <1>0 DEF AllocMark, tableVars
<1>4. \A j \in Workers : w'[j] = r
  <2>1. w \in [Workers -> AtWork]
    BY DEF TableIInv, TypeOK
  <2> QED
    BY <1>3, <2>1 DEF OneWorker
<1>5. Free(Class(cmd.length), off)
  BY <1>0, <1>1 DEF CellIInv, FoundFree
<1>6. \A s : Occupied(s)' <=> Occupied(s)
  BY <1>3 DEF Occupied
<1>7. /\ Taken(o, cmd.length)' \/ (Allocator # "append_only" /\ o >= DevSize)
      /\ \A p \in Nat, n \in 1..LARGE_LENGTH : Taken(p, n) => Taken(p, n)' /\ Apart(o, cmd.length, p, n)
  BY <1>0, <1>2, <1>3, <1>5, MarkedCellApart DEF TableIInv
<1>8. ASSUME NEW s \in Slots, Occupied(s)
      PROVE  LET p == kv_mapping_table[s].mem_offset  n == kv_mapping_table[s].length
             IN  Taken(p, n)' /\ Apart(o, cmd.length, p, n)
  <2>1. PICK p, n : p = kv_mapping_table[s].mem_offset /\ n = kv_mapping_table[s].length
    OBVIOUS
  <2>2. p \in Nat /\ n \in 1..LARGE_LENGTH
    BY <1>8, <2>1, EntryTypes
  <2>3. Taken(p, n)
    BY <1>8, <2>1 DEF CellIInv, CellsTaken
  <2>4. Taken(p, n)' /\ Apart(o, cmd.length, p, n)
    BY <1>7, <2>2, <2>3
  <2>5. Taken(kv_mapping_table[s].mem_offset, kv_mapping_table[s].length)'
    BY <1>3, <2>1, <2>4 DEF Taken
  <2> QED
    BY <1>3, <2>1, <2>4, <2>5 DEF Taken
<1>9. CellsTaken'
  BY <1>3, <1>6, <1>8 DEF CellsTaken, Taken
<1>10. CellsApart'
  BY <1>3, <1>6 DEF CellIInv, CellsApart
<1>11. r.pc = "copy" /\ r.is_insert = 1 /\ r.offset = o /\ r.cmd = cmd
  BY <1>0
<1>12. PendingApart'
  <2>1. PendingCell(r)'
    BY <1>3, <1>6, <1>7, <1>8, <1>11 DEF PendingCell
  <2>2. \A j \in Workers : w[j]' = r
    BY <1>4
  <2> QED
    BY <2>1, <2>2 DEF PendingApart, PendingCell
<1>13. FoundFree' /\ UpdatesSmall'
  <2>1. \A j \in Workers : w[j]'.pc # "mark" /\ ~Updating(w[j])'
    BY <1>4, <1>11 DEF Updating
  <2> QED
    BY <2>1 DEF FoundFree, UpdatesSmall
<1>14. AllocationsCounted'
  <2>1. inserts < MaxInserts /\ inserts \in Nat /\ MaxInserts \in Nat
    BY <1>1, GeometryAssumption DEF CellIInv, AllocationsCounted, Allocating, TableIInv, TypeOK
  <2>2. \A j \in Workers : ~Allocating(w[j])'
    BY <1>4, <1>11 DEF Allocating
  <2>3. ASSUME Allocator # "append_only"
        PROVE  last_pos'["small"] <= inserts' /\ bits'["small"] = 0..last_pos'["small"] - 1
    <3>1. last_pos["small"] <= inserts /\ bits["small"] = 0..last_pos["small"] - 1
      BY <2>3 DEF CellIInv, AllocationsCounted
    <3>2. last_pos \in [Classes -> Nat] /\ bits \in [Classes -> SUBSET Nat] /\ "small" \in Classes
      BY DEF TableIInv, TypeOK, Classes
    <3>3. PICK c : c = Class(cmd.length)
      OBVIOUS
    <3>4. c \in Classes
      BY <3>3 DEF Class, Classes
    <3>5. /\ bits' = [bits EXCEPT ![c] = @ \cup {off}]
          /\ last_pos' = [last_pos EXCEPT ![c] = IF off + 1 > NBits(c) THEN 0 ELSE off + 1]
      BY <1>3, <2>3, <3>3 DEF bitmap_allocate
    <3>6. CASE c = "small"
      <4>1. off = last_pos["small"] /\ off < NBits(c) /\ NBits(c) \in Nat
        BY <1>5, <2>3, <3>3, <3>6, GeometryAssumption DEF Free, NBits
      <4>2. last_pos'["small"] = off + 1 /\ bits'["small"] = bits["small"] \cup {off}
        <5>1. ~(off + 1 > NBits(c))
          BY <1>2, <4>1
        <5> QED
          BY <3>2, <3>5, <3>6, <5>1
      <4>3. (0..off - 1) \cup {off} = 0..(off + 1) - 1
        BY <1>2
      <4> QED
        BY <1>2, <1>3, <2>1, <3>1, <4>1, <4>2, <4>3
    <3>7. CASE c # "small"
      <4>1. last_pos'["small"] = last_pos["small"] /\ bits'["small"] = bits["small"]
        BY <3>2, <3>5, <3>7
      <4>2. last_pos["small"] \in Nat
        BY <3>2
      <4> QED
        BY <1>3, <2>1, <3>1, <4>1, <4>2
    <3> QED
      BY <3>6, <3>7
  <2> QED
    BY <1>3, <2>1, <2>2, <2>3 DEF AllocationsCounted
<1> QED
  BY <1>9, <1>10, <1>12, <1>13, <1>14 DEF CellIInv

(* Steps of a worker that goes on without touching table or allocator. *)
LEMMA CopyKeepsCells ==
    ASSUME OneWorker, TableIInv, CellIInv, NEW i \in Workers,
           BatchEnd(i) \/ StoreWild(i) \/ StoreCopy(i) \/ RetrieveCopy(i)
    PROVE  CellIInv'
<1>1. UNCHANGED <<kv_mapping_table, bits, last_pos, latest, inserts>>
  BY DEF BatchEnd, StoreWild, StoreCopy, RetrieveCopy, tableVars, allocVars
<1>2. w \in [Workers -> AtWork] /\ w' \in [Workers -> AtWork]
  BY AllocKeepsTable, CopyKeepsTable, FindKeepsTable DEF TableIInv, TypeOK
<1>3. PICK r : /\ w' = [w EXCEPT ![i] = r]
               /\ \/ r.pc \in {"idle", "batch", "wild"}
                  \/ /\ StoreCopy(i) /\ r.cmd = w[i].cmd /\ r.offset = w[i].offset
                     /\ \/ r.pc = "map" /\ w[i].is_insert = 1
                        \/ r.pc = "update" /\ w[i].is_insert = 2
  <2>0. Idle.pc \in {"idle", "batch"}
    BY DEF Idle
  <2>1. CASE BatchEnd(i)
    <3>1. w' = [w EXCEPT ![i] = Idle]
      BY <2>1 DEF BatchEnd
    <3> QED
      BY <2>0, <3>1
  <2>2. CASE RetrieveCopy(i)
    <3>1. w' = [w EXCEPT ![i] = Idle]
      BY <1>2, <2>2, RetrieveEnds
    <3> QED
      BY <2>0, <3>1
  <2>3. CASE StoreCopy(i)
    <3> DEFINE cmd == w[i].cmd
               next == CASE w[i].is_insert = 1 -> "map"
                         [] w[i].is_insert = 2 /\ cmd.op = "store" -> "update"
                         [] OTHER -> "done"
    <3>1. \/ next = "done" /\ Done(i, cmd, "ok", << >>)
          \/ next # "done" /\ w' = [w EXCEPT ![i] = [pc |-> next, cmd |-> cmd, offset |-> w[i].offset]]
      BY <2>3 DEF StoreCopy
    <3>2. \/ next = "map" /\ w[i].is_insert = 1
          \/ next = "update" /\ w[i].is_insert = 2
          \/ next = "done"
      OBVIOUS
    <3> HIDE DEF next
    <3>3. CASE next = "done"
      <4> DEFINE r == IF cmd.op = "batch" THEN [pc |-> "batch"] ELSE Idle
      <4>1. r.pc \in {"idle", "batch"}
        BY DEF Idle
      <4>2. w' = [w EXCEPT ![i] = r]
        BY <3>1, <3>3 DEF Done
      <4> HIDE DEF r
      <4> QED
        BY <4>1, <4>2
    <3>4. CASE next # "done"
      <4> DEFINE r == [pc |-> next, cmd |-> cmd, offset |-> w[i].offset]
      <4>1. r.pc = next /\ r.cmd = cmd /\ r.offset = w[i].offset /\ w' = [w EXCEPT ![i] = r]
        BY <3>1, <3>4
      <4> HIDE DEF r
      <4> QED
        BY <2>3, <3>2, <3>4, <4>1
    <3> QED
      BY <3>3, <3>4
  <2>4. CASE StoreWild(i)
    <3> DEFINE r == [pc |-> "wild"]
    <3>1. r.pc = "wild" /\ w' = [w EXCEPT ![i] = r]
      BY <2>4, WildMoves DEF TableIInv
    <3> HIDE DEF r
    <3> QED
      BY <3>1
  <2> QED
    BY <2>1, <2>2, <2>3, <2>4
<1>4. r \in AtWork
  BY <1>2, <1>3
<1>5. StoreCopy(i) => w[i].pc = "copy" /\ w[i].offset + w[i].cmd.length <= DevSize
  BY DEF StoreCopy, Fits
<1>6. Inserting(r) => PendingCell(r)
  <2>1. ASSUME Inserting(r)
        PROVE  /\ r.pc = "map" /\ Inserting(w[i]) /\ r.cmd = w[i].cmd /\ r.offset = w[i].offset
               /\ w[i].pc = "copy" /\ w[i].offset + w[i].cmd.length <= DevSize
    BY <1>3, <1>5, <2>1 DEF Inserting
  <2>2. ASSUME Inserting(r) PROVE PendingCell(w[i])
    BY <2>1, <2>2 DEF CellIInv, PendingApart
  <2>3. ASSUME Inserting(r) PROVE ~(w[i].offset >= DevSize)
    <3>1. w[i].cmd \in StoreCmds /\ w[i].offset \in Nat
      BY <1>2, <2>1, <2>3, CarriesCmd
    <3>2. w[i].cmd.length \in 1..LARGE_LENGTH
      BY <3>1, StoreCmdFields
    <3> QED
      BY <2>1, <2>3, <3>1, <3>2, Half, GeometryAssumption
  <2> QED
    BY <2>1, <2>2, <2>3 DEF PendingCell
<1>7. Updating(r) => SmallUpdate(r)
  <2>1. ASSUME Updating(r)
        PROVE  r.pc = "update" /\ Updating(w[i]) /\ r.cmd = w[i].cmd
    BY <1>3, <1>5, <2>1 DEF Updating
  <2>2. ASSUME Updating(r) PROVE SmallUpdate(w[i])
    BY <2>1, <2>2 DEF CellIInv, UpdatesSmall
  <2> QED
    BY <2>1, <2>2 DEF SmallUpdate
<1>8. r.pc # "mark" /\ ~Allocating(r)
  BY <1>3 DEF Allocating
<1> QED
  BY <1>1, <1>3, <1>4, <1>6, <1>7, <1>8, CellsUntouched

LEMMA MapFindKeepsCells ==
    ASSUME OneWorker, TableIInv, CellIInv, NEW i \in Workers, MapFind(i)
    PROVE  CellIInv'
<1>1. UNCHANGED <<kv_mapping_table, bits, last_pos, latest, inserts>>
  BY DEF MapFind, tableVars, allocVars
<1>2. w \in [Workers -> AtWork] /\ w' \in [Workers -> AtWork] /\ w[i].pc = "map"
  BY FindKeepsTable DEF TableIInv, TypeOK, MapFind
<1>3. PICK r : /\ w' = [w EXCEPT ![i] = r]
               /\ \/ r.pc = "spin"
                  \/ r.pc = "entry" /\ r.cmd = w[i].cmd /\ r.offset = w[i].offset
  <2> DEFINE e == [pc |-> "entry", cmd |-> w[i].cmd, offset |-> w[i].offset,
                   slot |-> find_next_slot(w[i].cmd.key)]
             x == [pc |-> "spin"]
  <2>1. e.pc = "entry" /\ e.cmd = w[i].cmd /\ e.offset = w[i].offset /\ x.pc = "spin"
    OBVIOUS
  <2>2. w' = [w EXCEPT ![i] = x] \/ w' = [w EXCEPT ![i] = e]
    BY MapFinds
  <2> HIDE DEF e, x
  <2> QED
    BY <2>1, <2>2
<1>4. r \in AtWork
  BY <1>2, <1>3
<1>5. Inserting(r) => PendingCell(r)
  <2>1. PendingCell(w[i])
    BY <1>2 DEF CellIInv, PendingApart, Inserting
  <2>2. Inserting(r) => r.pc = "entry"
    BY <1>3 DEF Inserting
  <2> QED
    BY <1>2, <1>3, <2>1, <2>2 DEF PendingCell
<1>6. r.pc # "mark" /\ ~Allocating(r) /\ ~Updating(r)
  BY <1>3 DEF Allocating, Updating
<1> QED
  BY <1>1, <1>3, <1>4, <1>5, <1>6, CellsUntouched

(* The entry written: its cell is taken, and apart from the others since    *)
(* the value was given it.                                                  *)
LEMMA WriteKeepsCells ==
    ASSUME OneWorker, TableIInv, CellIInv, NEW i \in Workers, MapWrite(i)
    PROVE  CellIInv'
<1>0. PICK cmd, slot, o : cmd = w[i].cmd /\ slot = w[i].slot /\ o = w[i].offset
  OBVIOUS
<1>1. /\ w[i].pc = "entry" /\ slot \in Slots /\ ~Occupied(slot) /\ o \in Nat
      /\ kv_mapping_table'[slot].mem_offset = o /\ kv_mapping_table'[slot].length = cmd.length
      /\ \A s \in Slots : s # slot => kv_mapping_table'[s] = kv_mapping_table[s]
  BY <1>0, MapWrites
<1>2. UNCHANGED <<bits, last_pos, latest, inserts>>
  BY DEF MapWrite, allocVars
<1>3. w \in [Workers -> AtWork] /\ w' \in [Workers -> AtWork]
  BY WriteKeepsTable DEF TableIInv, TypeOK
<1>4. PICK r : w' = [w EXCEPT ![i] = r] /\ r.pc \in {"idle", "batch", "chain"}
  <2>1. \/ w' = [w EXCEPT ![i] = IF cmd.op = "batch" THEN [pc |-> "batch"] ELSE Idle]
        \/ w' = [w EXCEPT ![i] = [pc |-> "chain", cmd |-> cmd, slot |-> slot]]
    BY <1>0 DEF MapWrite, Done
  <2> DEFINE a == IF cmd.op = "batch" THEN [pc |-> "batch"] ELSE Idle
             b == [pc |-> "chain", cmd |-> cmd, slot |-> slot]
  <2>2. a.pc \in {"idle", "batch"} /\ b.pc = "chain"
    BY DEF Idle
  <2>3. w' = [w EXCEPT ![i] = a] \/ w' = [w EXCEPT ![i] = b]
    BY <2>1
  <2> HIDE DEF a, b
  <2> QED
    BY <2>2, <2>3
<1>5. \A j \in Workers : w'[j] = r
  BY <1>3, <1>4 DEF OneWorker
<1>6. \A j \in Workers : ~Inserting(w'[j]) /\ ~Updating(w'[j]) /\ ~Allocating(w'[j]) /\ w'[j].pc # "mark"
  BY <1>4, <1>5 DEF Inserting, Updating, Allocating
<1>7. \A p, n : Taken(p, n)' <=> Taken(p, n)
  BY <1>2 DEF Taken
<1>8. /\ Taken(o, cmd.length)
      /\ \A s \in Slots : Occupied(s) =>
            Apart(o, cmd.length, kv_mapping_table[s].mem_offset, kv_mapping_table[s].length)
  <2>1. PendingCell(w[i])
    BY <1>1 DEF CellIInv, PendingApart, Inserting
  <2> QED
    BY <1>0, <1>1, <2>1 DEF PendingCell
<1>9. \A s \in Slots : s # slot => (Occupied(s)' <=> Occupied(s))
  BY <1>1 DEF Occupied
<1>10. CellsTaken'
  BY <1>1, <1>7, <1>8, <1>9 DEF CellIInv, CellsTaken
<1>11. \A p, m, q, n : Apart(p, m, q, n) <=> Apart(q, n, p, m)
  BY DEF Apart
<1>12. CellsApart'
  <2>1. ASSUME NEW s \in Slots, NEW t \in Slots, s # t, Occupied(s)', Occupied(t)'
        PROVE  Apart(kv_mapping_table'[s].mem_offset, kv_mapping_table'[s].length,
                     kv_mapping_table'[t].mem_offset, kv_mapping_table'[t].length)
    <3>1. CASE s = slot
      <4>1. t # slot /\ Occupied(t) /\ kv_mapping_table'[t] = kv_mapping_table[t]
        BY <1>1, <1>9, <2>1, <3>1
      <4> QED
        BY <1>1, <1>8, <3>1, <4>1
    <3>2. CASE t = slot
      <4>1. s # slot /\ Occupied(s) /\ kv_mapping_table'[s] = kv_mapping_table[s]
        BY <1>1, <1>9, <2>1, <3>2
      <4> QED
        BY <1>1, <1>8, <1>11, <3>2, <4>1
    <3>3. CASE s # slot /\ t # slot
      <4>1. Occupied(s) /\ Occupied(t) /\ kv_mapping_table'[s] = kv_mapping_table[s]
            /\ kv_mapping_table'[t] = kv_mapping_table[t]
        BY <1>1, <1>9, <2>1, <3>3
      <4> QED
        BY <2>1, <4>1 DEF CellIInv, CellsApart
    <3> QED
      BY <3>1, <3>2, <3>3
  <2> QED
    BY <2>1 DEF CellsApart, Apart, Reserved
<1>13. PendingApart' /\ FoundFree' /\ UpdatesSmall'
  BY <1>6 DEF PendingApart, FoundFree, UpdatesSmall, Inserting, Updating
<1>14. AllocationsCounted'
  BY <1>2, <1>6 DEF CellIInv, AllocationsCounted, Allocating
<1> QED
  BY <1>10, <1>12, <1>13, <1>14 DEF CellIInv

LEMMA DoneWith ==
    ASSUME NEW i \in Workers, NEW cmd, NEW status, NEW data, Done(i, cmd, status, data)
    PROVE  \E r : w' = [w EXCEPT ![i] = r] /\ r.pc \in {"idle", "batch"}
<1> DEFINE r == IF cmd.op = "batch" THEN [pc |-> "batch"] ELSE Idle
<1>1. r.pc \in {"idle", "batch"} /\ w' = [w EXCEPT ![i] = r]
  BY DEF Idle, Done
<1> HIDE DEF r
<1> QED
  BY <1>1

(* Steps that change entries and no cell. *)
LEMMA ChangeKeepsCells ==
    ASSUME OneWorker, TableIInv, CellIInv, CellsSuffice, NEW i \in Workers,
           chain_mapping(i) \/ update_mapping_entry(i) \/ delete_mapping_entry(i)
    PROVE  CellIInv'
<1>1. UNCHANGED <<bits, last_pos, latest, inserts>>
  BY DEF chain_mapping, update_mapping_entry, delete_mapping_entry, allocVars
<1>2. /\ w \in [Workers -> AtWork] /\ w' \in [Workers -> AtWork]
      /\ kv_mapping_table \in [Slots -> Entries]
  BY ChainKeepsTable, UpdateKeepsTable, DeleteKeepsTable DEF TableIInv, TypeOK
<1>3. \A n : SameCell(n, n)
  BY DEF SameCell
<1>4. CASE chain_mapping(i)
  <2>1. PICK home : kv_mapping_table' = [kv_mapping_table EXCEPT ![home].next_slot = w[i].slot]
    BY <1>4 DEF chain_mapping
  <2>2. \A s \in Slots : /\ kv_mapping_table'[s].mem_offset = kv_mapping_table[s].mem_offset
                         /\ kv_mapping_table'[s].length = kv_mapping_table[s].length
    <3>1. ASSUME NEW s \in Slots
          PROVE  kv_mapping_table'[s].mem_offset = kv_mapping_table[s].mem_offset
                 /\ kv_mapping_table'[s].length = kv_mapping_table[s].length
      <4>1. kv_mapping_table[s] \in Entries
        BY <1>2
      <4> QED
        BY <1>2, <2>1, <4>1 DEF Entries
    <3> QED
      BY <3>1
  <2>3. PICK r : w' = [w EXCEPT ![i] = r] /\ r.pc \in {"idle", "batch"}
    BY <1>4, DoneWith DEF chain_mapping
  <2>4. r \in AtWork
    BY <1>2, <2>3
  <2>5. \A s \in Slots : kv_mapping_table'[s].mem_offset # NULL =>
           /\ Occupied(s) /\ kv_mapping_table'[s].mem_offset = kv_mapping_table[s].mem_offset
           /\ SameCell(kv_mapping_table'[s].length, kv_mapping_table[s].length)
    BY <1>3, <2>2 DEF Occupied
  <2> QED
    BY <1>1, <2>3, <2>4, <2>5, CellsKept
<1>5. CASE update_mapping_entry(i)
  <2>1. PICK cmd, s : cmd = w[i].cmd /\ s = get_mapping_entry(cmd.key)
    OBVIOUS
  <2>2. /\ w[i].pc = "update" /\ cmd.key \in Keys /\ cmd.length \in Lengths(cmd.key)
        /\ \/ kv_mapping_table' = kv_mapping_table
           \/ /\ s \in Slots /\ Holds(s, cmd.key)
              /\ kv_mapping_table'[s].mem_offset = kv_mapping_table[s].mem_offset
              /\ kv_mapping_table'[s].length = cmd.length
              /\ \A t \in Slots : t # s => kv_mapping_table'[t] = kv_mapping_table[t]
        /\ \/ w' = [w EXCEPT ![i] = [pc |-> "spin"]]
           \/ Done(i, cmd, "ok", << >>)
    BY <1>5, <2>1, UpdateWrites
  <2>3. PICK r : w' = [w EXCEPT ![i] = r] /\ r.pc \in {"idle", "batch", "spin"}
    <3> DEFINE x == [pc |-> "spin"]
    <3>1. x.pc = "spin" /\ (w' = [w EXCEPT ![i] = x] \/ Done(i, cmd, "ok", << >>))
      BY <2>2
    <3> HIDE DEF x
    <3> QED
      BY <3>1, DoneWith
  <2>4. r \in AtWork
    BY <1>2, <2>3
  <2>5. ASSUME s \in Slots, Holds(s, cmd.key)
        PROVE  SameCell(cmd.length, kv_mapping_table[s].length)
    <3>1. SmallUpdate(w[i])
      BY <2>2 DEF CellIInv, UpdatesSmall, Updating
    <3>2. s # NULL /\ Occupied(s) /\ kv_mapping_table[s].key = cmd.key
      BY <2>5 DEF Holds
    <3>3. cmd.length <= SMALL_LENGTH /\ kv_mapping_table[s].length <= SMALL_LENGTH
      BY <2>1, <3>1, <3>2 DEF SmallUpdate
    <3>4. kv_mapping_table[s].length \in Lengths(cmd.key)
      BY <2>5, <3>2 DEF TableIInv, EntriesWhole
    <3>5. cmd.length \in Nat /\ kv_mapping_table[s].length \in Nat /\ SMALL_LENGTH \in Nat
      BY <2>2, <3>4, LengthAssumption, GeometryAssumption DEF Lengths
    <3>6. Class(cmd.length) = Class(kv_mapping_table[s].length)
      BY <3>3, <3>5 DEF Class
    <3>7. Allocator = "append_only" => cmd.length = kv_mapping_table[s].length
      BY <2>2, <3>3, <3>4 DEF CellsSuffice
    <3> QED
      BY <3>6, <3>7 DEF SameCell
  <2>6. \A t \in Slots : kv_mapping_table'[t].mem_offset # NULL =>
           /\ Occupied(t) /\ kv_mapping_table'[t].mem_offset = kv_mapping_table[t].mem_offset
           /\ SameCell(kv_mapping_table'[t].length, kv_mapping_table[t].length)
    BY <1>3, <2>2, <2>5 DEF Occupied
  <2> QED
    BY <1>1, <2>3, <2>4, <2>6, CellsKept
<1>6. CASE delete_mapping_entry(i)
  <2>1. PICK cmd, s : cmd = w[i].cmd /\ s = get_mapping_entry(cmd.key)
    OBVIOUS
  <2>2. \/ w' = [w EXCEPT ![i] = [pc |-> "spin"]] /\ kv_mapping_table' = kv_mapping_table
        \/ /\ w' = [w EXCEPT ![i] = Idle]
           /\ \/ kv_mapping_table' = kv_mapping_table
              \/ s \in Slots /\ kv_mapping_table' = [kv_mapping_table EXCEPT ![s] = Empty]
    BY <1>6, <2>1, DeleteWrites
  <2>3. PICK r : w' = [w EXCEPT ![i] = r] /\ r.pc \in {"idle", "spin"}
    <3> DEFINE x == [pc |-> "spin"]
    <3>1. x.pc = "spin" /\ Idle.pc = "idle" /\ (w' = [w EXCEPT ![i] = x] \/ w' = [w EXCEPT ![i] = Idle])
      BY <2>2 DEF Idle
    <3> HIDE DEF x
    <3> QED
      BY <3>1
  <2>4. r \in AtWork
    BY <1>2, <2>3
  <2>5. Empty.mem_offset = NULL
    BY DEF Empty
  <2>6. \A t \in Slots : kv_mapping_table'[t].mem_offset # NULL =>
           kv_mapping_table'[t] = kv_mapping_table[t]
    BY <1>2, <2>2, <2>5
  <2>7. \A t \in Slots : kv_mapping_table'[t].mem_offset # NULL =>
           /\ Occupied(t) /\ kv_mapping_table'[t].mem_offset = kv_mapping_table[t].mem_offset
           /\ SameCell(kv_mapping_table'[t].length, kv_mapping_table[t].length)
    BY <1>3, <2>6 DEF Occupied
  <2> QED
    BY <1>1, <2>3, <2>4, <2>7, CellsKept
<1> QED
  BY <1>4, <1>5, <1>6

LEMMA CellInit == Init => CellIInv
<1> SUFFICES ASSUME Init PROVE CellIInv
  OBVIOUS
<1>1. \A s \in Slots : ~Occupied(s)
  BY DEF Init, Empty, Occupied
<1>2. CellsTaken /\ CellsApart
  BY <1>1 DEF CellsTaken, CellsApart
<1>3. \A i \in Workers : ~Inserting(w[i]) /\ ~Updating(w[i]) /\ ~Allocating(w[i]) /\ w[i].pc # "mark"
  BY DEF Init, Idle, Inserting, Updating, Allocating
<1>4. PendingApart /\ FoundFree /\ UpdatesSmall
  BY <1>3 DEF PendingApart, FoundFree, UpdatesSmall
<1>5. AllocationsCounted
  <2>1. inserts = 0 /\ last_pos["small"] = 0 /\ bits["small"] = {} /\ MaxInserts \in Nat
    BY GeometryAssumption DEF Init, Classes
  <2>2. {} = 0..0 - 1
    OBVIOUS
  <2> QED
    BY <1>3, <2>1, <2>2 DEF AllocationsCounted
<1> QED
  BY <1>2, <1>4, <1>5 DEF CellIInv

LEMMA CellStep ==
    ASSUME OneWorker, CellsSuffice, TableIInv, CellIInv, [Next]_vars
    PROVE  CellIInv'
<1>1. CASE UNCHANGED vars
  BY <1>1, CellsIdle DEF vars, tableVars, allocVars, TableIInv
<1>2. ASSUME NEW i \in Workers, Work(i)
      PROVE  CellIInv'
  BY <1>2, AllocFindKeepsCells, AllocMarkKeepsCells, CopyKeepsCells, MapFindKeepsCells,
     WriteKeepsCells, ChangeKeepsCells DEF Work
<1>3. ASSUME NEW i \in Workers, NEW cmd \in Commands, Begin(i, cmd)
      PROVE  CellIInv'
  BY <1>3, BeginKeepsCells
<1>4. ASSUME NEW i \in Workers, NEW prefix \in Prefixes, kv_iter_open(i, prefix)
      PROVE  CellIInv'
  BY <1>4, CellsIdle DEF kv_iter_open, tableVars, allocVars, TableIInv
<1>5. ASSUME NEW i \in Workers, NEW h \in Handles, kv_iter_close(i, h) \/ kv_iter_read(i, h)
      PROVE  CellIInv'
  BY <1>5, CellsIdle DEF kv_iter_close, kv_iter_read, tableVars, allocVars, TableIInv
<1> QED
  BY <1>1, <1>2, <1>3, <1>4, <1>5 DEF Next

(* The invariant of the allocator: every entry's cell is one the allocator  *)
(* has handed out, cells are apart, and so is the one of an insertion that  *)
(* has not written its entry yet.                                           *)
LEMMA CellInvariance == ASSUME OneWorker, CellsSuffice PROVE Spec => []CellIInv
<1>1. Init => CellIInv
  BY CellInit
<1>2. TableIInv /\ CellIInv /\ [Next]_vars => CellIInv'
  BY CellStep
<1> QED
  BY <1>1, <1>2, TableInvariance, PTL DEF Spec

(* No part of the device is handed out twice: the cells of two entries do   *)
(* not overlap, while the cells suffice.                                    *)
THEOREM CellsApartAlways == ASSUME OneWorker, CellsSuffice PROVE Spec => []CellsDisjoint
<1>1. TableIInv /\ CellIInv => CellsDisjoint
  <2>1. ASSUME TableIInv, CellIInv, NEW s \in Slots, NEW t \in Slots, s # t, Occupied(s), Occupied(t)
        PROVE  LET a == kv_mapping_table[s]  b == kv_mapping_table[t]
               IN  \/ a.mem_offset + a.length <= b.mem_offset
                   \/ b.mem_offset + b.length <= a.mem_offset
    <3>1. PICK o, m, p, n : /\ o = kv_mapping_table[s].mem_offset /\ m = kv_mapping_table[s].length
                            /\ p = kv_mapping_table[t].mem_offset /\ n = kv_mapping_table[t].length
      OBVIOUS
    <3>2. o \in Nat /\ p \in Nat /\ m \in 1..LARGE_LENGTH /\ n \in 1..LARGE_LENGTH
          /\ LARGE_LENGTH \in Nat /\ SMALL_LENGTH \in Nat
      BY <2>1, <3>1, EntryTypes, GeometryAssumption
    <3>3. \A x \in 1..LARGE_LENGTH : x <= Reserved(x) /\ Reserved(x) \in Nat /\ x \in Nat
      BY <3>2 DEF Reserved, Class, CellLength
    <3>4. Apart(o, m, p, n)
      BY <2>1, <3>1 DEF CellIInv, CellsApart
    <3>5. o + Reserved(m) <= p \/ p + Reserved(n) <= o
      BY <3>4 DEF Apart
    <3>6. m <= Reserved(m) /\ n <= Reserved(n) /\ Reserved(m) \in Nat /\ Reserved(n) \in Nat
          /\ m \in Nat /\ n \in Nat
      BY <3>2, <3>3
    <3>7. o + m <= p \/ p + n <= o
      BY <3>2, <3>5, <3>6
    <3> QED
      BY <3>1, <3>7
  <2> QED
    BY <2>1 DEF CellsDisjoint
<1> QED
  BY <1>1, TableInvariance, CellInvariance, PTL

-----------------------------------------------------------------------------
(* The map. *)
LEMMA EntryFound ==
    ASSUME TypeOK, KeyMappedOnce, NEW x, EntriesReached(x), x.pc # "chain", NEW k \in Keys
    PROVE  /\ get_mapping_entry(k) = NULL => \A s \in Slots : ~Has(s, k)
           /\ get_mapping_entry(k) # NULL =>
                 get_mapping_entry(k) \in Slots /\ Has(get_mapping_entry(k), k)
           /\ \A s \in Slots : Has(s, k) => s = get_mapping_entry(k)
<1>1. ASSUME NEW s \in Slots, Has(s, k)
      PROVE  get_mapping_entry(k) # NULL
  <2>1. Holds(s, k) /\ kv_mapping_table[s].key = k /\ Occupied(s)
    BY <1>1, NullApart DEF Holds, Has
  <2>2. Reached(s)
    BY <2>1 DEF EntriesReached, InHand
  <2>3. CASE s = Hash[k]
    BY <2>1, <2>3, LookupFinds, NullApart
  <2>4. CASE Occupied(Hash[k]) /\ kv_mapping_table[Hash[k]].next_slot = s
    BY <2>1, <2>4, LookupFollows
  <2> QED
    BY <2>1, <2>2, <2>3, <2>4 DEF Reached
<1>2. get_mapping_entry(k) # NULL =>
         get_mapping_entry(k) \in Slots /\ Has(get_mapping_entry(k), k)
  BY LookupFinds DEF Holds, Has
<1>3. ASSUME NEW s \in Slots, Has(s, k)
      PROVE  s = get_mapping_entry(k)
  <2>1. PICK g : g = get_mapping_entry(k)
    OBVIOUS
  <2>2. g \in Slots /\ Has(g, k)
    BY <1>1, <1>2, <1>3, <2>1
  <2> QED
    BY <1>3, <2>1, <2>2 DEF KeyMappedOnce, Has
<1> QED
  BY <1>1, <1>2, <1>3

(* The invariant, from what is so of the worker that has moved.             *)
LEMMA MapReassembled ==
    ASSUME OneWorker, TableIInv, NEW i \in Workers, NEW r \in AtWork, w' = [w EXCEPT ![i] = r],
           KeyMappedOnce', EntriesReached(r)', TableIsMap(r)', MatchesMap(r)'
    PROVE  MapIInv'
<1>1. \A j \in Workers : w[j]' = r
  BY WorkerMoves DEF TableIInv
<1>2. ASSUME NEW j \in Workers
      PROVE  (EntriesReached(w[j]) /\ TableIsMap(w[j]) /\ MatchesMap(w[j]))'
  <2>1. w[j]' = r
    BY <1>1
  <2> QED
    BY <2>1 DEF EntriesReached, TableIsMap, MatchesMap, InHand, BeingUpdated, Allocating, Inserting
<1> QED
  BY <1>2 DEF MapIInv

(* Steps that touch neither table nor storage. *)
LEMMA MapUntouched ==
    ASSUME OneWorker, TableIInv, MapIInv, UNCHANGED <<kv_mapping_table, storage, kept>>,
           NEW i \in Workers, NEW r \in AtWork, w' = [w EXCEPT ![i] = r],
           w[i].pc \notin {"update", "chain"}, r.pc # "chain", MatchesMap(r)
    PROVE  MapIInv'
<1>1. \A s : Occupied(s)' <=> Occupied(s)
  BY DEF Occupied
<1>2. KeyMappedOnce'
  BY <1>1 DEF MapIInv, KeyMappedOnce
<1>3. \A o, n, d : Filled(o, n, d)' <=> Filled(o, n, d)
  BY DEF Filled
<1>4. /\ \A s, k : Has(s, k)' <=> Has(s, k)
      /\ \A s : Reached(s)' <=> Reached(s)
      /\ \A s, v : IsValue(s, v)' <=> IsValue(s, v)
  BY <1>1, <1>3 DEF Has, Reached, IsValue
<1>5. \A s : ~InHand(r, s) /\ ~InHand(w[i], s)
  BY DEF InHand
<1>6. EntriesReached(r)'
  BY <1>1, <1>4, <1>5 DEF MapIInv, EntriesReached, InHand
<1>7. TableIsMap(r)'
  <2>1. ASSUME NEW k \in Keys
        PROVE  /\ kept[k] # NULL <=> \E s \in Slots : Has(s, k)
               /\ \A s \in Slots : Has(s, k) => IsValue(s, kept[k])
    <3>1. ~BeingUpdated(w[i], k) /\ TableIsMap(w[i])
      BY DEF BeingUpdated, MapIInv
    <3> QED
      BY <1>5, <3>1 DEF TableIsMap
  <2>2. ASSUME NEW k \in Keys
        PROVE  /\ kept'[k] # NULL <=> \E s \in Slots : Has(s, k)'
               /\ \A s \in Slots : Has(s, k)' => IsValue(s, kept[k])'
    BY <1>4, <2>1
  <2> QED
    BY <1>5, <2>2 DEF TableIsMap, InHand
<1>8. MatchesMap(r)'
  BY <1>3, <1>4 DEF MatchesMap
<1> QED
  BY <1>2, <1>6, <1>7, <1>8, MapReassembled

(* What the host sees of a step. *)
MapStep == [Map!Next]_(Map!mapVars)

LEMMA Unseen == UNCHANGED <<kept, reply, mishaps>> => MapStep
BY DEF MapStep, Map!mapVars

LEMMA Lost == mishaps' # {} => MapStep
BY DEF MapStep, Map!Next

LEMMA Seen == mishaps' = mishaps /\ Map!Operation => MapStep
BY Zenon DEF MapStep, Map!Next

LEMMA BeginRefines ==
    ASSUME OneWorker, TableIInv, MapIInv, NEW i \in Workers, NEW cmd \in Commands, Begin(i, cmd)
    PROVE  MapIInv' /\ MapStep
<1>1. UNCHANGED <<kv_mapping_table, storage, kept, mishaps>> /\ w[i].pc \in {"idle", "batch"}
  BY DEF Begin, tableVars
<1>2. w \in [Workers -> AtWork] /\ w' \in [Workers -> AtWork] /\ TypeOK
  BY BeginKeepsTable DEF TableIInv, TypeOK
<1>3. PICK k, s : k = cmd.key /\ s = get_mapping_entry(k)
  OBVIOUS
<1>4. k \in Keys
  BY <1>3, CommandKinds
<1>5. /\ s = NULL => kept[k] = NULL
      /\ s # NULL => s \in Slots /\ Has(s, k) /\ kept[k] # NULL
  <2>1. EntriesReached(w[i]) /\ TableIsMap(w[i]) /\ KeyMappedOnce
    BY DEF MapIInv
  <2>2. /\ s = NULL => \A t \in Slots : ~Has(t, k)
        /\ s # NULL => s \in Slots /\ Has(s, k)
    BY <1>1, <1>2, <1>3, <1>4, <2>1, EntryFound
  <2>3. \A t : ~InHand(w[i], t)
    BY <1>1 DEF InHand
  <2> QED
    BY <1>4, <2>1, <2>2, <2>3 DEF TableIsMap
<1>6. ASSUME NEW r, w' = [w EXCEPT ![i] = r], r.pc # "chain", MatchesMap(r)
      PROVE  MapIInv'
  <2>1. r \in AtWork
    BY <1>2, <1>6
  <2> QED
    BY <1>1, <1>6, <2>1, MapUntouched
<1>7. /\ MatchesMap([pc |-> "spin"]) /\ [pc |-> "spin"].pc # "chain"
      /\ MatchesMap(Idle) /\ Idle.pc # "chain"
  BY DEF MatchesMap, Idle, Allocating, Inserting
<1>8. CASE w' = [w EXCEPT ![i] = [pc |-> "spin"]] /\ reply' = reply
  <2>1. PICK r : r = [pc |-> "spin"]
    OBVIOUS
  <2> QED
    BY <1>1, <1>6, <1>7, <1>8, <2>1, Unseen
<1>9. CASE s = NULL /\ w' = [w EXCEPT ![i] = [pc |-> "alloc", cmd |-> cmd]] /\ reply' = reply
  <2>1. PICK r : r = [pc |-> "alloc", cmd |-> cmd]
    OBVIOUS
  <2>2. MatchesMap(r) /\ r.pc # "chain"
    BY <1>3, <1>5, <1>9, <2>1 DEF MatchesMap, Allocating, Inserting
  <2> QED
    BY <1>1, <1>6, <1>9, <2>1, <2>2, Unseen
<1>10. CASE /\ s # NULL /\ reply' = reply
            /\ w' = [w EXCEPT ![i] =
                        [pc |-> "copy", cmd |-> cmd, offset |-> kv_mapping_table[s].mem_offset,
                         is_insert |-> IF /\ kv_mapping_table[s].length # cmd.length
                                          /\ cmd.length <= SMALL_LENGTH
                                          /\ kv_mapping_table[s].length <= SMALL_LENGTH
                                       THEN 2 ELSE 0]]
  <2>1. PICK x : x = IF /\ kv_mapping_table[s].length # cmd.length
                        /\ cmd.length <= SMALL_LENGTH
                        /\ kv_mapping_table[s].length <= SMALL_LENGTH
                     THEN 2 ELSE 0
    OBVIOUS
  <2>2. PICK r : r = [pc |-> "copy", cmd |-> cmd, offset |-> kv_mapping_table[s].mem_offset, is_insert |-> x]
    OBVIOUS
  <2>3. /\ r.pc = "copy" /\ r.cmd = cmd /\ r.is_insert = x /\ x # 1
        /\ r.offset = kv_mapping_table[s].mem_offset /\ w' = [w EXCEPT ![i] = r]
    BY <1>10, <2>1, <2>2
  <2>4. MatchesMap(r) /\ r.pc # "chain"
    BY <1>3, <1>5, <1>10, <2>3 DEF MatchesMap, Allocating, Inserting
  <2> QED
    BY <1>1, <1>6, <1>10, <2>3, <2>4, Unseen
<1>11. CASE /\ cmd.op \in {"retrieve", "delete"} /\ s # NULL /\ reply' = reply
            /\ w' = [w EXCEPT ![i] = [pc |-> cmd.op, cmd |-> cmd, entry |-> kv_mapping_table[s]]]
  <2>1. PICK r : r = [pc |-> cmd.op, cmd |-> cmd, entry |-> kv_mapping_table[s]]
    OBVIOUS
  <2>2. r.pc \in {"retrieve", "delete"} /\ r.cmd = cmd /\ r.entry = kv_mapping_table[s]
    BY <1>11, <2>1
  <2>3. MatchesMap(r) /\ r.pc # "chain"
    BY <1>3, <1>5, <1>11, <2>2 DEF MatchesMap, Allocating, Inserting
  <2> QED
    BY <1>1, <1>6, <1>11, <2>1, <2>3, Unseen
<1>12. CASE /\ cmd.op \notin {"store", "batch"} /\ s = NULL
            /\ w' = [w EXCEPT ![i] = Idle]
            /\ reply' = [op |-> cmd.op, key |-> cmd.key,
                         asked |-> IF cmd.op = "retrieve" THEN cmd.length ELSE 0,
                         status |-> "not_exist", data |-> << >>]
  <2>1. kept[k] = NULL /\ kept' = kept /\ kept \in [Keys -> Values \cup {NULL}]
    BY <1>1, <1>5, <1>12 DEF TableIInv, TypeOK
  <2>2. kept' = [kept EXCEPT ![k] = NULL]
    BY <1>4, <2>1
  <2>3. \/ cmd.op = "retrieve" /\ cmd.length \in 1..LARGE_LENGTH
        \/ cmd.op = "exist"
        \/ cmd.op = "delete"
    BY <1>12, CommandKinds DEF RetrieveCmds, KeyCmds
  <2>4. CASE cmd.op = "retrieve" /\ cmd.length \in 1..LARGE_LENGTH
    <3>1. Map!Retrieve(k, cmd.length)
      BY <1>3, <1>12, <2>1, <2>4 DEF Map!Retrieve, Map!Reply
    <3>2. Map!Operation
      BY <1>4, <2>4, <3>1 DEF Map!Operation
    <3> QED
      BY <1>1, <1>6, <1>7, <1>12, <3>2, Seen
  <2>5. CASE cmd.op = "exist"
    <3>1. Map!Exist(k)
      BY <1>3, <1>12, <2>1, <2>5 DEF Map!Exist, Map!Reply
    <3>2. Map!Operation
      BY <1>4, <3>1 DEF Map!Operation
    <3> QED
      BY <1>1, <1>6, <1>7, <1>12, <3>2, Seen
  <2>6. CASE cmd.op = "delete"
    <3>1. Map!Delete(k)
      BY <1>3, <1>12, <2>1, <2>2, <2>6 DEF Map!Delete, Map!Reply
    <3>2. Map!Operation
      BY <1>4, <3>1 DEF Map!Operation
    <3> QED
      BY <1>1, <1>6, <1>7, <1>12, <3>2, Seen
  <2> QED
    BY <2>3, <2>4, <2>5, <2>6
<1>13. CASE /\ cmd.op = "exist" /\ s # NULL
            /\ w' = [w EXCEPT ![i] = Idle]
            /\ reply' = [op |-> "exist", key |-> cmd.key, asked |-> 0, status |-> "ok", data |-> << >>]
  <2>1. kept[k] # NULL /\ kept' = kept
    BY <1>1, <1>5, <1>13
  <2>2. Map!Exist(k)
    BY <1>3, <1>13, <2>1 DEF Map!Exist, Map!Reply
  <2>3. Map!Operation
    BY <1>4, <2>2 DEF Map!Operation
  <2> QED
    BY <1>1, <1>6, <1>7, <1>13, <2>3, Seen
<1> QED
  BY <1>2, <1>3, <1>8, <1>9, <1>10, <1>11, <1>12, <1>13, BeginWork

LEMMA AllocRefines ==
    ASSUME OneWorker, TableIInv, MapIInv, NEW i \in Workers,
           BatchEnd(i) \/ StoreWild(i) \/ AllocFind(i) \/ AllocMark(i)
    PROVE  MapIInv' /\ MapStep
<1>1. /\ UNCHANGED <<kv_mapping_table, storage, kept, reply, mishaps>>
      /\ w[i].pc \notin {"update", "chain"}
  BY DEF BatchEnd, StoreWild, AllocFind, AllocMark, tableVars, hostVars
<1>2. w \in [Workers -> AtWork] /\ w' \in [Workers -> AtWork]
  BY AllocKeepsTable DEF TableIInv, TypeOK
<1>3. MatchesMap(w[i])
  BY DEF MapIInv
<1>4. PICK r : w' = [w EXCEPT ![i] = r] /\ MatchesMap(r) /\ r.pc # "chain"
  <2>1. CASE BatchEnd(i)
    <3>1. MatchesMap(Idle) /\ Idle.pc # "chain" /\ w' = [w EXCEPT ![i] = Idle]
      BY <2>1 DEF BatchEnd, MatchesMap, Idle, Allocating, Inserting
    <3> QED
      BY <3>1
  <2>2. CASE StoreWild(i)
    <3>1. PICK r : r = [pc |-> "wild"]
      OBVIOUS
    <3>2. r.pc = "wild" /\ w' = [w EXCEPT ![i] = r]
      BY <2>2, <3>1, WildMoves DEF TableIInv
    <3>3. MatchesMap(r)
      BY <3>2 DEF MatchesMap, Allocating, Inserting
    <3> QED
      BY <3>2, <3>3
  <2>3. CASE AllocFind(i)
    <3>1. PICK off : w' = [w EXCEPT ![i] = [pc |-> "mark", cmd |-> w[i].cmd, off |-> off]]
      BY <2>3 DEF AllocFind
    <3>2. PICK r : r = [pc |-> "mark", cmd |-> w[i].cmd, off |-> off]
      OBVIOUS
    <3>3. kept[w[i].cmd.key] = NULL
      BY <1>3, <2>3 DEF AllocFind, MatchesMap, Allocating
    <3>4. MatchesMap(r) /\ r.pc # "chain"
      BY <3>2, <3>3 DEF MatchesMap, Allocating, Inserting
    <3> QED
      BY <3>1, <3>2, <3>4
  <2>4. CASE AllocMark(i)
    <3>1. PICK o : w' = [w EXCEPT ![i] = [pc |-> "copy", cmd |-> w[i].cmd, is_insert |-> 1, offset |-> o]]
      BY <2>4 DEF AllocMark
    <3>2. PICK r : r = [pc |-> "copy", cmd |-> w[i].cmd, is_insert |-> 1, offset |-> o]
      OBVIOUS
    <3>3. kept[w[i].cmd.key] = NULL
      BY <1>3, <2>4 DEF AllocMark, MatchesMap, Allocating
    <3>4. MatchesMap(r) /\ r.pc # "chain"
      BY <3>2, <3>3 DEF MatchesMap, Allocating, Inserting
    <3> QED
      BY <3>1, <3>2, <3>4
  <2> QED
    BY <2>1, <2>2, <2>3, <2>4
<1>5. r \in AtWork
  BY <1>2, <1>4
<1> QED
  BY <1>1, <1>4, <1>5, MapUntouched, Unseen

LEMMA MapFindRefines ==
    ASSUME OneWorker, TableIInv, MapIInv, NEW i \in Workers, MapFind(i)
    PROVE  MapIInv' /\ MapStep
<1>1. w[i].pc = "map" /\ UNCHANGED <<kv_mapping_table, storage, kept, reply, mishaps>>
  BY DEF MapFind, tableVars, hostVars
<1>2. w \in [Workers -> AtWork] /\ w' \in [Workers -> AtWork]
  BY FindKeepsTable DEF TableIInv, TypeOK
<1>3. PICK cmd, o, slot : cmd = w[i].cmd /\ o = w[i].offset /\ slot = find_next_slot(cmd.key)
  OBVIOUS
<1>4. kept[cmd.key] = NULL /\ Filled(o, cmd.length, cmd.data)
  <2>1. MatchesMap(w[i])
    BY DEF MapIInv
  <2> QED
    BY <1>1, <1>3, <2>1 DEF MatchesMap, Inserting
<1>5. PICK r : w' = [w EXCEPT ![i] = r] /\ MatchesMap(r) /\ r.pc # "chain"
  <2>1. PICK x, e : /\ x = [pc |-> "spin"]
                    /\ e = [pc |-> "entry", cmd |-> cmd, offset |-> o, slot |-> slot]
    OBVIOUS
  <2>2. /\ x.pc = "spin" /\ e.pc = "entry" /\ e.cmd = cmd /\ e.offset = o
    BY <2>1
  <2>3. MatchesMap(x)
    BY <2>2 DEF MatchesMap, Allocating, Inserting
  <2>4. MatchesMap(e)
    BY <1>4, <2>2 DEF MatchesMap, Allocating, Inserting
  <2>5. w' = [w EXCEPT ![i] = x] \/ w' = [w EXCEPT ![i] = e]
    BY <1>3, <2>1, MapFinds
  <2> QED
    BY <2>2, <2>3, <2>4, <2>5
<1>6. r \in AtWork
  BY <1>2, <1>5
<1> QED
  BY <1>1, <1>5, <1>6, MapUntouched, Unseen

(* The step that ends a store. *)
LEMMA StoreEnds ==
    ASSUME TableIInv, NEW i \in Workers, NEW cmd \in StoreCmds, mishaps' = mishaps,
           Done(i, cmd, "ok", << >>), kept' = [kept EXCEPT ![cmd.key] = Stored(cmd)]
    PROVE  /\ MapStep
           /\ kept'[cmd.key] # NULL /\ kept'[cmd.key].data = cmd.data /\ kept'[cmd.key].length = cmd.length
           /\ \A l \in Keys : l # cmd.key => kept'[l] = kept[l]
<1>1. /\ cmd.data \in Data /\ cmd.op \in {"store", "batch"} /\ cmd.key \in Keys
      /\ cmd.length \in 1..LARGE_LENGTH
      /\ Stored(cmd) = [data |-> cmd.data, length |-> cmd.length]
      /\ Stored(cmd) \in Values /\ Stored(cmd) # NULL
      /\ Stored(cmd).data = cmd.data /\ Stored(cmd).length = cmd.length
  BY StoreCmdFields, NullApart DEF Stored, Values
<1>2. kept'[cmd.key] = Stored(cmd) /\ \A l \in Keys : l # cmd.key => kept'[l] = kept[l]
  BY <1>1 DEF TableIInv, TypeOK
<1>3. reply' = [op |-> "store", key |-> cmd.key, asked |-> 0, status |-> "ok", data |-> << >>]
  BY <1>1 DEF Done
<1>4. Map!Store(cmd.key, Stored(cmd)) /\ Stored(cmd) \in Map!Values
  BY <1>1, <1>3 DEF Map!Store, Map!Reply, Map!Values, Values
<1>5. Map!Operation
  BY <1>1, <1>4 DEF Map!Operation
<1> QED
  BY <1>1, <1>2, <1>5, Seen

(* A key that had no entry, or had this one, has one.                       *)
LEMMA OnceMore ==
    ASSUME KeyMappedOnce, NEW k \in Keys, NEW t \in Slots,
           \A s \in Slots : s # t => ~Has(s, k)',
           \A s \in Slots, l \in Keys : l # k => (Has(s, l)' <=> Has(s, l)),
           \A s \in Slots : Occupied(s)' => kv_mapping_table'[s].key \in Keys
    PROVE  KeyMappedOnce'
<1>1. ASSUME NEW s \in Slots, NEW u \in Slots, s # u, Occupied(s)', Occupied(u)',
             kv_mapping_table'[s].key = kv_mapping_table'[u].key
      PROVE  FALSE
  <2>1. PICK l : l = kv_mapping_table'[s].key
    OBVIOUS
  <2>2. l \in Keys /\ Has(s, l)' /\ Has(u, l)'
    BY <1>1, <2>1 DEF Has
  <2>3. l # k
    BY <1>1, <2>2
  <2>4. Has(s, l) /\ Has(u, l)
    BY <2>2, <2>3
  <2> QED
    BY <1>1, <2>4 DEF KeyMappedOnce, Has
<1> QED
  BY <1>1 DEF KeyMappedOnce

(* A step sets the key to v: slot t is the one entry of the key and holds   *)
(* the value, and the entries of other keys are as they were.               *)
Sets(x, k, t, v) ==
    /\ x.pc = "update" => x.cmd.key = k
    /\ \A s \in Slots : InHand(x, s) => s = t
    /\ v # NULL /\ kept'[k] = v /\ \A l \in Keys : l # k => kept'[l] = kept[l]
    /\ Has(t, k)' /\ IsValue(t, v)'
    /\ \A s \in Slots : s # t => ~Has(s, k)'
    /\ \A s \in Slots, l \in Keys : l # k => (Has(s, l)' <=> Has(s, l))
    /\ \A s \in Slots, l \in Keys : l # k /\ Has(s, l) => \A u : IsValue(s, u) => IsValue(s, u)'
    /\ \A s \in Slots : Occupied(s)' => kv_mapping_table'[s].key \in Keys
    /\ \A s \in Slots : Occupied(s)' => Reached(s)'

LEMMA KeySet ==
    ASSUME OneWorker, TableIInv, MapIInv, NEW i \in Workers, NEW r \in AtWork,
           w' = [w EXCEPT ![i] = r], r.pc \in {"idle", "batch"},
           NEW k \in Keys, NEW t \in Slots, NEW v, Sets(w[i], k, t, v)
    PROVE  MapIInv'
<1> USE DEF Sets
<1>1. KeyMappedOnce'
  BY OnceMore DEF MapIInv
<1>2. \A s : ~InHand(r, s)
  BY DEF InHand
<1>3. EntriesReached(r)'
  BY <1>2 DEF EntriesReached, InHand
<1>4. TableIsMap(r)'
  <2>1. TableIsMap(w[i])
    BY DEF MapIInv
  <2>2. ASSUME NEW l \in Keys, l # k
        PROVE  /\ kept'[l] # NULL <=> \E s \in Slots : Has(s, l)'
               /\ \A s \in Slots : Has(s, l)' => IsValue(s, kept[l])'
    <3>1. ASSUME NEW s \in Slots, Has(s, l) PROVE ~InHand(w[i], s)
      <4>1. CASE s = t
        <5>1. Has(t, l)'
          BY <2>2, <3>1, <4>1
        <5> QED
          BY <2>2, <5>1 DEF Has
      <4>2. CASE s # t
        BY <4>2
      <4> QED
        BY <4>1, <4>2
    <3>2. ~BeingUpdated(w[i], l)
      BY <2>2 DEF BeingUpdated
    <3>3. /\ kept[l] # NULL <=> \E s \in Slots : Has(s, l)
          /\ \A s \in Slots : Has(s, l) => IsValue(s, kept[l])
      BY <2>1, <3>1, <3>2 DEF TableIsMap
    <3>4. kept'[l] = kept[l] /\ \A s \in Slots : Has(s, l)' <=> Has(s, l)
      BY <2>2
    <3>5. ASSUME NEW s \in Slots, Has(s, l) PROVE IsValue(s, kept[l])'
      <4>1. PICK x : x = kept[l]
        OBVIOUS
      <4>2. IsValue(s, x)'
        BY <2>2, <3>3, <3>5, <4>1
      <4> QED
        BY <3>4, <4>1, <4>2 DEF IsValue
    <3> QED
      BY <3>3, <3>4, <3>5
  <2>3. /\ kept'[k] # NULL <=> \E s \in Slots : Has(s, k)'
        /\ \A s \in Slots : Has(s, k)' => IsValue(s, kept[k])'
    BY DEF IsValue
  <2>4. ASSUME NEW l \in Keys
        PROVE  /\ kept'[l] # NULL <=> \E s \in Slots : Has(s, l)'
               /\ \A s \in Slots : Has(s, l)' => IsValue(s, kept[l])'
    BY <2>2, <2>3
  <2> QED
    BY <1>2, <2>4 DEF TableIsMap, InHand
<1>5. MatchesMap(r)'
  BY DEF MatchesMap, Allocating, Inserting
<1> QED
  BY <1>1, <1>3, <1>4, <1>5, MapReassembled

(* A value that is copied fills its place, and leaves the values of other   *)
(* keys as they are unless it overwrites one.                               *)
LEMMA CopyFills ==
    ASSUME TypeOK, NEW k, NEW o \in Nat, NEW len \in 1..LARGE_LENGTH, NEW data, o + len <= DevSize,
           kv_mapping_table' = kv_mapping_table, ~Overwrites(k, o..o + len - 1, data),
           \A u \in Units : storage'[u] = IF u \in o..o + len - 1 THEN data ELSE storage[u]
    PROVE  /\ Filled(o, len, data)'
           /\ \A s \in Slots : Occupied(s) /\ kv_mapping_table[s].key # k =>
                 \A v : IsValue(s, v) => IsValue(s, v)'
<1>1. DevSize \in Nat /\ LARGE_LENGTH \in Nat /\ len \in Nat
  BY Half, GeometryAssumption
<1>2. Filled(o, len, data)'
  BY <1>1 DEF Filled, Units
<1>3. ASSUME NEW s \in Slots, Occupied(s), kv_mapping_table[s].key # k, NEW v, IsValue(s, v)
      PROVE  IsValue(s, v)'
  <2>1. PICK p, n : p = kv_mapping_table[s].mem_offset /\ n = kv_mapping_table[s].length
    OBVIOUS
  <2>2. n = v.length /\ \A u \in p..p + n - 1 : u \in Units /\ storage[u] = v.data
    BY <1>3, <2>1 DEF IsValue, Filled
  <2>3. \A u \in (o..o + len - 1) \cap Units : u \in p..p + n - 1 => storage[u] = data
    BY <1>3, <2>1 DEF Overwrites
  <2>4. ASSUME NEW u \in p..p + n - 1
        PROVE  u \in Units /\ storage'[u] = v.data
    <3>1. u \in Units /\ storage[u] = v.data
      BY <2>2
    <3>2. storage'[u] = IF u \in o..o + len - 1 THEN data ELSE storage[u]
      BY <3>1
    <3> QED
      BY <2>3, <3>1, <3>2
  <2> QED
    BY <2>1, <2>2, <2>4 DEF IsValue, Filled
<1> QED
  BY <1>2, <1>3

LEMMA CopyRefines ==
    ASSUME OneWorker, TableIInv, MapIInv, mishaps = {}, mishaps' = {}, NEW i \in Workers, StoreCopy(i)
    PROVE  MapIInv' /\ MapStep
<1>0. PICK cmd, o, k : cmd = w[i].cmd /\ o = w[i].offset /\ k = cmd.key
  OBVIOUS
<1>1. w[i].pc = "copy" /\ UNCHANGED <<kv_mapping_table, mishaps>> /\ w[i] \in AtWork /\ TypeOK
  BY DEF StoreCopy, tableVars, TableIInv, TypeOK
<1>2. /\ cmd \in StoreCmds /\ k \in Keys /\ o \in Nat /\ cmd.length \in 1..LARGE_LENGTH
      /\ w[i].is_insert \in {0, 1, 2} /\ cmd.op \in {"store", "batch"}
  BY <1>0, <1>1, CarriesCmd, StoreCmdFields
<1>3. /\ EntriesReached(w[i]) /\ TableIsMap(w[i]) /\ MatchesMap(w[i]) /\ KeyMappedOnce
      /\ \A s : ~InHand(w[i], s) /\ \A l : ~BeingUpdated(w[i], l)
  BY <1>1 DEF MapIInv, InHand, BeingUpdated
<1>4. PICK next : next = CASE w[i].is_insert = 1 -> "map"
                           [] w[i].is_insert = 2 /\ cmd.op = "store" -> "update"
                           [] OTHER -> "done"
  OBVIOUS
<1>5. /\ o + cmd.length <= DevSize
      /\ storage' = [u \in Units |-> IF u \in o..o + cmd.length - 1 THEN cmd.data ELSE storage[u]]
      /\ ~Overwrites(k, o..o + cmd.length - 1, cmd.data)
      /\ next = "done" => ~KeepsLength(k, cmd.length)
      /\ IF next = "done"
         THEN Done(i, cmd, "ok", << >>) /\ kept' = [kept EXCEPT ![k] = Stored(cmd)]
         ELSE /\ w' = [w EXCEPT ![i] = [pc |-> next, cmd |-> cmd, offset |-> o]]
              /\ UNCHANGED <<kept, reply>>
  BY <1>0, <1>4 DEF StoreCopy, Fits, hostVars
<1>6. /\ Filled(o, cmd.length, cmd.data)'
      /\ \A s \in Slots : Occupied(s) /\ kv_mapping_table[s].key # k =>
            \A v : IsValue(s, v) => IsValue(s, v)'
  <2>1. PICK len, data : len = cmd.length /\ data = cmd.data
    OBVIOUS
  <2>2. /\ o + len <= DevSize /\ len \in 1..LARGE_LENGTH
        /\ \A u \in Units : storage'[u] = IF u \in o..o + len - 1 THEN data ELSE storage[u]
        /\ ~Overwrites(k, o..o + len - 1, data)
        /\ kv_mapping_table' = kv_mapping_table
    BY <1>1, <1>2, <1>5, <2>1
  <2>3. /\ Filled(o, len, data)'
        /\ \A s \in Slots : Occupied(s) /\ kv_mapping_table[s].key # k =>
              \A v : IsValue(s, v) => IsValue(s, v)'
    <3>1. TypeOK /\ o \in Nat /\ len \in 1..LARGE_LENGTH
      BY <1>1, <1>2, <2>2
    <3> QED
      BY <2>2, <3>1, CopyFills, ZenonT(30)
  <2> QED
    BY <2>1, <2>3
<1>7. /\ \A s : Occupied(s)' <=> Occupied(s)
      /\ \A s, l : Has(s, l)' <=> Has(s, l)
      /\ \A s : Reached(s)' <=> Reached(s)
  BY <1>1 DEF Occupied, Has, Reached
<1>8. \A s \in Slots : \A l : l # k /\ Has(s, l) => \A v : IsValue(s, v) => IsValue(s, v)'
  BY <1>6 DEF Has
<1>9. CASE next # "done"
  <2>1. PICK r : r = [pc |-> next, cmd |-> cmd, offset |-> o]
    OBVIOUS
  <2>2. /\ r.cmd = cmd /\ r.offset = o /\ w' = [w EXCEPT ![i] = r]
        /\ \/ r.pc = "map" /\ w[i].is_insert = 1
           \/ r.pc = "update" /\ w[i].is_insert = 2 /\ cmd.op = "store"
        /\ UNCHANGED <<kept, reply>>
    BY <1>2, <1>4, <1>5, <1>9, <2>1
  <2>3. r \in AtWork
    <3>1. w' \in [Workers -> AtWork]
      BY CopyKeepsTable DEF TableIInv, TypeOK
    <3> QED
      BY <1>1, <2>2, <3>1 DEF TypeOK
  <2>4. KeyMappedOnce'
    BY <1>1, <1>3, <1>7 DEF KeyMappedOnce
  <2>5. \A s : ~InHand(r, s)
    BY <2>2 DEF InHand
  <2>6. EntriesReached(r)'
    BY <1>3, <1>7, <2>5 DEF EntriesReached, InHand
  <2>7. TableIsMap(r)'
    <3>1. ASSUME NEW l \in Keys
          PROVE  /\ kept[l] # NULL <=> \E s \in Slots : Has(s, l)
                 /\ \A s \in Slots : Has(s, l) => IsValue(s, kept[l])
      BY <1>3 DEF TableIsMap
    <3>2. r.pc = "map" => kept[k] = NULL
      BY <1>0, <1>1, <1>3, <2>2 DEF MatchesMap, Inserting
    <3>3. ASSUME NEW l \in Keys, ~BeingUpdated(r, l), NEW s \in Slots, Has(s, l)
          PROVE  IsValue(s, kept[l])' /\ kept'[l] = kept[l]
      <4>1. l # k
        BY <1>0, <2>2, <3>1, <3>2, <3>3 DEF BeingUpdated
      <4>2. IsValue(s, kept[l])
        BY <3>1, <3>3
      <4>3. PICK v : v = kept[l]
        OBVIOUS
      <4>4. IsValue(s, v)'
        BY <1>8, <3>3, <4>1, <4>2, <4>3
      <4> QED
        BY <2>2, <4>3, <4>4 DEF IsValue, Filled
    <3>4. ASSUME NEW l \in Keys
          PROVE  /\ kept'[l] # NULL <=> \E s \in Slots : Has(s, l)'
                 /\ ~BeingUpdated(r, l) => \A s \in Slots : Has(s, l)' => IsValue(s, kept[l])'
      BY <1>7, <2>2, <3>1, <3>3
    <3> QED
      BY <2>5, <3>4 DEF TableIsMap, InHand, BeingUpdated
  <2>8. MatchesMap(r)'
    <3>1. CASE r.pc = "map"
      BY <1>0, <1>1, <1>3, <1>6, <2>2, <3>1 DEF MatchesMap, Allocating, Inserting, Filled
    <3>2. CASE r.pc = "update"
      <4>1. PICK s \in Slots : Has(s, k) /\ o = kv_mapping_table[s].mem_offset
        BY <1>0, <1>1, <1>3, <2>2, <3>2 DEF MatchesMap
      <4>2. Has(s, k)' /\ o = kv_mapping_table'[s].mem_offset
        BY <1>1, <1>7, <4>1
      <4> QED
        BY <1>0, <1>6, <2>2, <3>2, <4>2 DEF MatchesMap, Allocating, Inserting, Filled
    <3> QED
      BY <2>2, <3>1, <3>2
  <2> QED
    BY <1>1, <2>2, <2>3, <2>4, <2>6, <2>7, <2>8, MapReassembled, Unseen
<1>10. CASE next = "done"
  <2>1. w[i].is_insert # 1
    BY <1>4, <1>10
  <2>2. Done(i, cmd, "ok", << >>) /\ kept' = [kept EXCEPT ![cmd.key] = Stored(cmd)]
    BY <1>0, <1>5, <1>10
  <2>3. /\ MapStep
        /\ kept'[cmd.key] # NULL /\ kept'[cmd.key].data = cmd.data
        /\ kept'[cmd.key].length = cmd.length
        /\ \A l \in Keys : l # cmd.key => kept'[l] = kept[l]
    BY <1>1, <1>2, <2>2, StoreEnds
  <2>4. /\ kept'[k] # NULL /\ kept'[k].data = cmd.data /\ kept'[k].length = cmd.length
        /\ \A l \in Keys : l # k => kept'[l] = kept[l]
    BY <1>0, <2>3
  <2>5. PICK r : w' = [w EXCEPT ![i] = r] /\ r.pc \in {"idle", "batch"}
    BY <2>2, DoneWith
  <2>6. r \in AtWork
    <3>1. w' \in [Workers -> AtWork]
      BY CopyKeepsTable DEF TableIInv, TypeOK
    <3> QED
      BY <1>1, <2>5, <3>1 DEF TypeOK
  <2>7. PICK t \in Slots : Has(t, k) /\ o = kv_mapping_table[t].mem_offset
    BY <1>0, <1>1, <1>3, <2>1 DEF MatchesMap
  <2>8. \A s \in Slots : Has(s, k) => s = get_mapping_entry(k)
    BY <1>1, <1>2, <1>3, EntryFound
  <2>9. kv_mapping_table[t].length = cmd.length
    BY <1>5, <1>10, <2>7, <2>8 DEF KeepsLength
  <2>10. PICK v : v = kept'[k]
    OBVIOUS
  <2>11. IsValue(t, v)' /\ v # NULL
    BY <1>1, <1>6, <2>4, <2>7, <2>9, <2>10 DEF IsValue, Filled
  <2>12. \A s \in Slots : s # t => ~Has(s, k)'
    BY <1>7, <2>7, <2>8
  <2>13. \A s \in Slots : Occupied(s)' => kv_mapping_table'[s].key \in Keys
    BY <1>1, <1>7 DEF TableIInv, EntriesWhole
  <2>14. \A s \in Slots : Occupied(s)' => Reached(s)'
    BY <1>3, <1>7 DEF EntriesReached
  <2>15. \A s \in Slots, l \in Keys : l # k => (Has(s, l)' <=> Has(s, l))
    BY <1>7
  <2>16. \A s \in Slots, l \in Keys : l # k /\ Has(s, l) => \A x : IsValue(s, x) => IsValue(s, x)'
    BY <1>8
  <2>17. w[i].pc = "update" => w[i].cmd.key = k
    BY <1>0
  <2>18. \A s \in Slots : InHand(w[i], s) => s = t
    BY <1>3
  <2>19. Has(t, k)'
    BY <1>7, <2>7
  <2>20. MapIInv'
    <3>1. Sets(w[i], k, t, v)
      BY <2>4, <2>10, <2>11, <2>12, <2>13, <2>14, <2>15, <2>16, <2>17, <2>18, <2>19 DEF Sets
    <3> QED
      BY <1>2, <2>5, <2>6, <3>1, KeySet
  <2> QED
    BY <2>3, <2>20
<1> QED
  BY <1>9, <1>10

(* The entry written: in the home slot it can be found, in another one it   *)
(* is in the worker's hand.                                                 *)
LEMMA WriteRefines ==
    ASSUME OneWorker, TableIInv, MapIInv, NEW i \in Workers, MapWrite(i)
    PROVE  MapIInv' /\ MapStep
<1>0. PICK cmd, o, k, t : cmd = w[i].cmd /\ o = w[i].offset /\ k = cmd.key /\ t = w[i].slot
  OBVIOUS
<1>1. w[i].pc = "entry" /\ UNCHANGED <<storage, mishaps>>
  BY DEF MapWrite
<1>2. /\ cmd \in StoreCmds /\ k \in Keys /\ t \in Slots /\ o \in Nat /\ ~Occupied(t)
      /\ kv_mapping_table'[t].key = k /\ kv_mapping_table'[t].mem_offset = o
      /\ kv_mapping_table'[t].length = cmd.length
      /\ \A s \in Slots : s # t => kv_mapping_table'[s] = kv_mapping_table[s]
  BY <1>0, MapWrites
<1>3. /\ EntriesReached(w[i]) /\ TableIsMap(w[i]) /\ MatchesMap(w[i]) /\ KeyMappedOnce
      /\ \A s : ~InHand(w[i], s) /\ \A l : ~BeingUpdated(w[i], l)
  BY <1>1 DEF MapIInv, InHand, BeingUpdated
<1>4. kept[k] = NULL /\ Filled(o, cmd.length, cmd.data)
  BY <1>0, <1>1, <1>3 DEF MatchesMap, Inserting
<1>5. \A s \in Slots : ~Has(s, k)
  BY <1>2, <1>3, <1>4 DEF TableIsMap
<1>6. o # NULL
  BY <1>2, NullApart
<1>7. /\ Has(t, k)' /\ Occupied(t)'
      /\ \A s \in Slots : s # t => (Occupied(s)' <=> Occupied(s))
      /\ \A s \in Slots : s # t => \A l : Has(s, l)' <=> Has(s, l)
  BY <1>2, <1>6 DEF Has, Occupied
<1>8. \A s \in Slots : s # t => ~Has(s, k)'
  BY <1>5, <1>7
<1>9. \A s \in Slots, l \in Keys : l # k => (Has(s, l)' <=> Has(s, l))
  BY <1>2, <1>7 DEF Has
<1>10. \A s \in Slots, l \in Keys : l # k /\ Has(s, l) => \A x : IsValue(s, x) => IsValue(s, x)'
  <2>1. ASSUME NEW s \in Slots, NEW l \in Keys, l # k, Has(s, l), NEW x, IsValue(s, x)
        PROVE  IsValue(s, x)'
    <3>1. kv_mapping_table'[s] = kv_mapping_table[s]
      BY <1>2, <2>1 DEF Has
    <3> QED
      BY <1>1, <2>1, <3>1 DEF IsValue, Filled
  <2> QED
    BY <2>1
<1>11. \A s \in Slots : Occupied(s)' => kv_mapping_table'[s].key \in Keys
  BY <1>2, <1>7 DEF TableIInv, EntriesWhole
<1>12. \A s \in Slots : s # t /\ Occupied(s)' => Reached(s)'
  <2>1. ASSUME NEW s \in Slots, s # t, Occupied(s)'
        PROVE  Reached(s)'
    <3>1. PICK h : h = Hash[kv_mapping_table[s].key]
      OBVIOUS
    <3>2. Occupied(s) /\ kv_mapping_table'[s] = kv_mapping_table[s]
      BY <1>2, <1>7, <2>1
    <3>3. h \in Slots
      BY <3>1, <3>2, HashAssumption DEF TableIInv, EntriesWhole
    <3>4. s = h \/ (Occupied(h) /\ kv_mapping_table[h].next_slot = s)
      BY <1>3, <3>1, <3>2 DEF EntriesReached, Reached
    <3>5. Occupied(h) => h # t /\ Occupied(h)' /\ kv_mapping_table'[h] = kv_mapping_table[h]
      BY <1>2, <1>7, <3>3
    <3> QED
      BY <3>1, <3>2, <3>4, <3>5 DEF Reached
  <2> QED
    BY <2>1
<1>13. KeyMappedOnce'
  BY <1>2, <1>3, <1>8, <1>9, <1>11, OnceMore
<1>14. CASE t = Hash[k]
  <2>1. Done(i, cmd, "ok", << >>) /\ kept' = [kept EXCEPT ![cmd.key] = Stored(cmd)]
    BY <1>0, <1>14 DEF MapWrite
  <2>2. /\ MapStep
        /\ kept'[cmd.key] # NULL /\ kept'[cmd.key].data = cmd.data
        /\ kept'[cmd.key].length = cmd.length
        /\ \A l \in Keys : l # cmd.key => kept'[l] = kept[l]
    BY <1>1, <1>2, <2>1, StoreEnds
  <2>3. PICK r : w' = [w EXCEPT ![i] = r] /\ r.pc \in {"idle", "batch"}
    BY <2>1, DoneWith
  <2>4. r \in AtWork
    BY <2>3, WriteKeepsTable DEF TableIInv, TypeOK
  <2>5. PICK v : v = kept'[k]
    OBVIOUS
  <2>6. v # NULL /\ IsValue(t, v)' /\ \A l \in Keys : l # k => kept'[l] = kept[l]
    BY <1>0, <1>1, <1>2, <1>4, <2>2, <2>5 DEF IsValue, Filled
  <2>7. Reached(t)'
    BY <1>2, <1>14 DEF Reached
  <2>8. \A s \in Slots : Occupied(s)' => Reached(s)'
    BY <1>12, <2>7
  <2>9. w[i].pc = "update" => w[i].cmd.key = k
    BY <1>0
  <2>10. \A s \in Slots : InHand(w[i], s) => s = t
    BY <1>3
  <2>11. MapIInv'
    <3>1. Sets(w[i], k, t, v)
      BY <1>7, <1>8, <1>9, <1>10, <1>11, <2>5, <2>6, <2>8, <2>9, <2>10 DEF Sets
    <3> QED
      BY <1>2, <2>3, <2>4, <3>1, KeySet
  <2> QED
    BY <2>2, <2>11
<1>15. CASE t # Hash[k]
  <2>1. PICK r : r = [pc |-> "chain", cmd |-> cmd, slot |-> t]
    OBVIOUS
  <2>2. /\ r.pc = "chain" /\ r.cmd = cmd /\ r.slot = t
        /\ w' = [w EXCEPT ![i] = r] /\ UNCHANGED <<kept, reply>>
    BY <1>0, <1>15, <2>1 DEF MapWrite, hostVars
  <2>3. r \in AtWork
    BY <2>2, WriteKeepsTable DEF TableIInv, TypeOK
  <2>4. \A s : InHand(r, s) <=> s = t
    BY <2>2 DEF InHand
  <2>5. EntriesReached(r)'
    BY <1>12, <2>4 DEF EntriesReached, InHand
  <2>6. TableIsMap(r)'
    <3>1. ASSUME NEW l \in Keys, l # k
          PROVE  /\ kept'[l] # NULL <=> \E s \in Slots : Has(s, l)' /\ s # t
                 /\ \A s \in Slots : Has(s, l)' /\ s # t => IsValue(s, kept[l])'
      <4>1. /\ kept[l] # NULL <=> \E s \in Slots : Has(s, l)
            /\ \A s \in Slots : Has(s, l) => IsValue(s, kept[l])
        BY <1>3 DEF TableIsMap
      <4>2. \A s \in Slots : (Has(s, l)' <=> Has(s, l)) /\ (Has(s, l) => s # t)
        BY <1>2, <1>9, <3>1 DEF Has
      <4>3. ASSUME NEW s \in Slots, Has(s, l)' PROVE IsValue(s, kept[l])'
        <5>1. PICK x : x = kept[l]
          OBVIOUS
        <5>2. IsValue(s, x)'
          BY <1>10, <3>1, <4>1, <4>2, <4>3, <5>1
        <5> QED
          BY <2>2, <5>1, <5>2 DEF IsValue
      <4> QED
        BY <2>2, <4>1, <4>2, <4>3
    <3>2. ASSUME NEW l \in Keys
          PROVE  /\ kept'[l] # NULL <=> \E s \in Slots : Has(s, l)' /\ s # t
                 /\ \A s \in Slots : Has(s, l)' /\ s # t => IsValue(s, kept[l])'
      BY <1>4, <1>8, <2>2, <3>1
    <3> QED
      BY <2>4, <3>2 DEF TableIsMap, InHand
  <2>7. MatchesMap(r)'
    BY <1>0, <1>1, <1>2, <1>4, <1>7, <2>2 DEF MatchesMap, Allocating, Inserting, Filled
  <2> QED
    BY <1>1, <1>13, <2>2, <2>3, <2>5, <2>6, <2>7, MapReassembled, Unseen
<1> QED
  BY <1>14, <1>15

(* The home slot's next_slot leads to the entry; the one that was behind it *)
(* would be lost.                                                           *)
LEMMA ChainRefines ==
    ASSUME OneWorker, TableIInv, MapIInv, mishaps = {}, mishaps' = {}, NEW i \in Workers, chain_mapping(i)
    PROVE  MapIInv' /\ MapStep
<1>0. PICK cmd, k, t, h : cmd = w[i].cmd /\ k = cmd.key /\ t = w[i].slot /\ h = Hash[k]
  OBVIOUS
<1>1. /\ w[i].pc = "chain" /\ UNCHANGED <<storage, mishaps>> /\ w[i] \in AtWork
      /\ ~CutsLink(h, t)
      /\ kv_mapping_table' = [kv_mapping_table EXCEPT ![h].next_slot = t]
      /\ Done(i, cmd, "ok", << >>) /\ kept' = [kept EXCEPT ![cmd.key] = Stored(cmd)]
  BY <1>0 DEF chain_mapping, TableIInv, TypeOK
<1>2. cmd \in StoreCmds /\ k \in Keys /\ t \in Slots /\ h \in Slots
  BY <1>0, <1>1, CarriesCmd, StoreCmdFields, HashAssumption
<1>3. /\ EntriesReached(w[i]) /\ TableIsMap(w[i]) /\ MatchesMap(w[i]) /\ KeyMappedOnce
      /\ \A s : InHand(w[i], s) <=> s = t
  BY <1>0, <1>1 DEF MapIInv, InHand
<1>4. /\ kept[k] = NULL /\ Has(t, k) /\ kv_mapping_table[t].length = cmd.length
      /\ Filled(kv_mapping_table[t].mem_offset, cmd.length, cmd.data)
  BY <1>0, <1>1, <1>3 DEF MatchesMap
<1>5. t # h /\ Occupied(h)
  BY <1>0, <1>1 DEF TableIInv, InsertInOrder
<1>6. /\ \A s \in Slots : /\ kv_mapping_table'[s].key = kv_mapping_table[s].key
                          /\ kv_mapping_table'[s].mem_offset = kv_mapping_table[s].mem_offset
                          /\ kv_mapping_table'[s].length = kv_mapping_table[s].length
                          /\ s # h => kv_mapping_table'[s].next_slot = kv_mapping_table[s].next_slot
      /\ kv_mapping_table'[h].next_slot = t
  <2>1. PICK e : e = [kv_mapping_table[h] EXCEPT !.next_slot = t]
    OBVIOUS
  <2>2. kv_mapping_table \in [Slots -> Entries] /\ kv_mapping_table[h] \in Entries
    BY <1>2 DEF TableIInv, TypeOK
  <2>3. /\ e.key = kv_mapping_table[h].key /\ e.mem_offset = kv_mapping_table[h].mem_offset
        /\ e.length = kv_mapping_table[h].length /\ e.next_slot = t
    BY <2>1, <2>2 DEF Entries
  <2>4. kv_mapping_table' = [kv_mapping_table EXCEPT ![h] = e]
    BY <1>1, <1>2, <2>1, <2>2
  <2> QED
    BY <1>2, <2>2, <2>3, <2>4
<1>7. /\ \A s \in Slots : Occupied(s)' <=> Occupied(s)
      /\ \A s \in Slots : \A l : Has(s, l)' <=> Has(s, l)
      /\ \A s \in Slots : \A x : IsValue(s, x)' <=> IsValue(s, x)
  BY <1>1, <1>6 DEF Occupied, Has, IsValue, Filled
<1>8. /\ MapStep
      /\ kept'[cmd.key] # NULL /\ kept'[cmd.key].data = cmd.data
      /\ kept'[cmd.key].length = cmd.length
      /\ \A l \in Keys : l # cmd.key => kept'[l] = kept[l]
  BY <1>1, <1>2, StoreEnds
<1>9. PICK r : w' = [w EXCEPT ![i] = r] /\ r.pc \in {"idle", "batch"}
  BY <1>1, DoneWith
<1>10. r \in AtWork
  BY <1>9, ChainKeepsTable DEF TableIInv, TypeOK
<1>11. PICK v : v = kept'[k]
  OBVIOUS
<1>12. v # NULL /\ IsValue(t, v)' /\ \A l \in Keys : l # k => kept'[l] = kept[l]
  <2>1. v # NULL /\ v.length = cmd.length /\ v.data = cmd.data /\ IsValue(t, v)
    BY <1>0, <1>4, <1>8, <1>11 DEF IsValue
  <2> QED
    BY <1>0, <1>2, <1>7, <1>8, <2>1
<1>13. \A s \in Slots : s # t => ~Has(s, k)'
  BY <1>2, <1>3, <1>4, <1>7 DEF TableIsMap
<1>14. \A s \in Slots : Occupied(s)' => Reached(s)'
  <2>1. ASSUME NEW s \in Slots, Occupied(s), NEW g, g = Hash[kv_mapping_table[s].key]
        PROVE  s = g \/ (Occupied(g)' /\ kv_mapping_table'[g].next_slot = s)
    <3>1. g \in Slots
      BY <2>1, HashAssumption DEF TableIInv, EntriesWhole
    <3>2. CASE s = t
      BY <1>0, <1>2, <1>4, <1>5, <1>6, <1>7, <2>1, <3>2 DEF Has
    <3>3. CASE s # t
      <4>1. s = g \/ (Occupied(g) /\ kv_mapping_table[g].next_slot = s)
        BY <1>3, <2>1, <3>3 DEF EntriesReached, Reached
      <4>2. CASE g = h
        <5>1. s \notin {NULL, h, t} /\ kv_mapping_table[h].next_slot = s => CutsLink(h, t)
          BY <2>1, <4>2 DEF CutsLink
        <5> QED
          BY <1>1, <2>1, <3>3, <4>1, <4>2, <5>1, NullApart
      <4>3. CASE g # h
        BY <1>6, <1>7, <3>1, <4>1, <4>3
      <4> QED
        BY <4>2, <4>3
    <3> QED
      BY <3>2, <3>3
  <2>2. ASSUME NEW s \in Slots, Occupied(s)' PROVE Reached(s)'
    <3>1. PICK g : g = Hash[kv_mapping_table[s].key]
      OBVIOUS
    <3>2. Occupied(s) /\ g = Hash[kv_mapping_table'[s].key]
      BY <1>6, <1>7, <2>2, <3>1
    <3>3. s = g \/ (Occupied(g)' /\ kv_mapping_table'[g].next_slot = s)
      BY <2>1, <3>1, <3>2
    <3> QED
      BY <3>2, <3>3 DEF Reached
  <2> QED
    BY <2>2
<1>15. \A s \in Slots : Occupied(s)' => kv_mapping_table'[s].key \in Keys
  BY <1>6, <1>7 DEF TableIInv, EntriesWhole
<1>16. \A s \in Slots, l \in Keys : l # k => (Has(s, l)' <=> Has(s, l))
  BY <1>7
<1>17. \A s \in Slots, l \in Keys : l # k /\ Has(s, l) => \A x : IsValue(s, x) => IsValue(s, x)'
  BY <1>7
<1>18. w[i].pc = "update" => w[i].cmd.key = k
  BY <1>0
<1>19. \A s \in Slots : InHand(w[i], s) => s = t
  BY <1>3
<1>20. Has(t, k)'
  BY <1>2, <1>4, <1>7
<1>21. MapIInv'
  <2>1. Sets(w[i], k, t, v)
    BY <1>11, <1>12, <1>13, <1>14, <1>15, <1>16, <1>17, <1>18, <1>19, <1>20 DEF Sets
  <2> QED
    BY <1>2, <1>9, <1>10, <2>1, KeySet
<1> QED
  BY <1>8, <1>21

(* The entry gets the length of the value that has been copied. *)
LEMMA UpdateRefines ==
    ASSUME OneWorker, TableIInv, MapIInv, NEW i \in Workers, update_mapping_entry(i)
    PROVE  MapIInv' /\ MapStep
<1>0. PICK cmd, k, t, o : cmd = w[i].cmd /\ k = cmd.key /\ t = get_mapping_entry(k) /\ o = w[i].offset
  OBVIOUS
<1>1. /\ w[i].pc = "update" /\ cmd \in StoreCmds /\ k \in Keys /\ UNCHANGED <<storage, mishaps>>
      /\ w \in [Workers -> AtWork]
  BY <1>0, UpdateWrites DEF update_mapping_entry, TableIInv, TypeOK
<1>2. /\ EntriesReached(w[i]) /\ TableIsMap(w[i]) /\ MatchesMap(w[i]) /\ KeyMappedOnce
      /\ \A s : ~InHand(w[i], s)
      /\ \A l : BeingUpdated(w[i], l) <=> l = k
  BY <1>0, <1>1 DEF MapIInv, InHand, BeingUpdated
<1>3. Filled(o, cmd.length, cmd.data) /\ \E s \in Slots : Has(s, k) /\ o = kv_mapping_table[s].mem_offset
  BY <1>0, <1>1, <1>2 DEF MatchesMap
<1>4. /\ t \in Slots /\ Has(t, k) /\ t # NULL /\ o = kv_mapping_table[t].mem_offset
      /\ \A s \in Slots : Has(s, k) => s = t
  <2>1. \A s \in Slots : Has(s, k) => s = t
    BY <1>0, <1>1, <1>2, EntryFound DEF TableIInv
  <2>2. t # NULL
    BY <1>0, <1>1, <1>2, <1>3, EntryFound DEF TableIInv
  <2> QED
    BY <1>3, <2>1, <2>2
<1>5. /\ kv_mapping_table' = [kv_mapping_table EXCEPT ![t].length = cmd.length]
      /\ Done(i, cmd, "ok", << >>) /\ kept' = [kept EXCEPT ![cmd.key] = Stored(cmd)]
  <2>1. ~NeverEnds(k)
    BY <1>0, <1>4 DEF NeverEnds
  <2> QED
    BY <1>0, <1>4, <2>1 DEF update_mapping_entry
<1>6. /\ \A s \in Slots : /\ kv_mapping_table'[s].key = kv_mapping_table[s].key
                          /\ kv_mapping_table'[s].mem_offset = kv_mapping_table[s].mem_offset
                          /\ kv_mapping_table'[s].next_slot = kv_mapping_table[s].next_slot
                          /\ s # t => kv_mapping_table'[s] = kv_mapping_table[s]
      /\ kv_mapping_table'[t].length = cmd.length
  <2>1. PICK e : e = [kv_mapping_table[t] EXCEPT !.length = cmd.length]
    OBVIOUS
  <2>2. kv_mapping_table \in [Slots -> Entries] /\ kv_mapping_table[t] \in Entries
    BY <1>4 DEF TableIInv, TypeOK
  <2>3. /\ e.key = kv_mapping_table[t].key /\ e.mem_offset = kv_mapping_table[t].mem_offset
        /\ e.next_slot = kv_mapping_table[t].next_slot /\ e.length = cmd.length
    BY <2>1, <2>2 DEF Entries
  <2>4. kv_mapping_table' = [kv_mapping_table EXCEPT ![t] = e]
    BY <1>4, <1>5, <2>1, <2>2
  <2> QED
    BY <1>4, <2>2, <2>3, <2>4
<1>7. /\ \A s \in Slots : Occupied(s)' <=> Occupied(s)
      /\ \A s \in Slots : \A l : Has(s, l)' <=> Has(s, l)
  BY <1>6 DEF Occupied, Has
<1>8. /\ MapStep
      /\ kept'[cmd.key] # NULL /\ kept'[cmd.key].data = cmd.data
      /\ kept'[cmd.key].length = cmd.length
      /\ \A l \in Keys : l # cmd.key => kept'[l] = kept[l]
  BY <1>1, <1>5, StoreEnds
<1>9. PICK r : w' = [w EXCEPT ![i] = r] /\ r.pc \in {"idle", "batch"}
  BY <1>5, DoneWith
<1>10. r \in AtWork
  <2>1. w' \in [Workers -> AtWork]
    BY UpdateKeepsTable DEF TableIInv, TypeOK
  <2> QED
    BY <1>1, <1>9, <2>1
<1>11. PICK v : v = kept'[k]
  OBVIOUS
<1>12. v # NULL /\ IsValue(t, v)' /\ \A l \in Keys : l # k => kept'[l] = kept[l]
  BY <1>0, <1>1, <1>3, <1>4, <1>6, <1>8, <1>11 DEF IsValue, Filled
<1>13. \A s \in Slots : s # t => ~Has(s, k)'
  BY <1>4, <1>7
<1>14. \A s \in Slots : Occupied(s)' => Reached(s)'
  <2>1. ASSUME NEW s \in Slots, Occupied(s)' PROVE Reached(s)'
    <3>1. PICK g : g = Hash[kv_mapping_table[s].key]
      OBVIOUS
    <3>2. Occupied(s) /\ g = Hash[kv_mapping_table'[s].key]
      BY <1>6, <1>7, <2>1, <3>1
    <3>3. g \in Slots
      BY <3>1, <3>2, HashAssumption DEF TableIInv, EntriesWhole
    <3>4. s = g \/ (Occupied(g) /\ kv_mapping_table[g].next_slot = s)
      BY <1>2, <3>1, <3>2 DEF EntriesReached, Reached
    <3>5. s = g \/ (Occupied(g)' /\ kv_mapping_table'[g].next_slot = s)
      BY <1>6, <1>7, <3>3, <3>4
    <3> QED
      BY <3>2, <3>5 DEF Reached
  <2> QED
    BY <2>1
<1>15. \A s \in Slots : Occupied(s)' => kv_mapping_table'[s].key \in Keys
  BY <1>6, <1>7 DEF TableIInv, EntriesWhole
<1>16. \A s \in Slots, l \in Keys : l # k => (Has(s, l)' <=> Has(s, l))
  BY <1>7
<1>17. \A s \in Slots, l \in Keys : l # k /\ Has(s, l) => \A x : IsValue(s, x) => IsValue(s, x)'
  <2>1. ASSUME NEW s \in Slots, NEW l \in Keys, l # k, Has(s, l), NEW x, IsValue(s, x)
        PROVE  IsValue(s, x)'
    <3>1. kv_mapping_table'[s] = kv_mapping_table[s]
      BY <1>4, <1>6, <2>1 DEF Has
    <3> QED
      BY <1>1, <2>1, <3>1 DEF IsValue, Filled
  <2> QED
    BY <2>1
<1>18. w[i].pc = "update" => w[i].cmd.key = k
  BY <1>0
<1>19. \A s \in Slots : InHand(w[i], s) => s = t
  BY <1>2
<1>20. Has(t, k)'
  BY <1>4, <1>7
<1>21. MapIInv'
  <2>1. Sets(w[i], k, t, v)
    BY <1>11, <1>12, <1>13, <1>14, <1>15, <1>16, <1>17, <1>18, <1>19, <1>20 DEF Sets
  <2> QED
    BY <1>1, <1>4, <1>9, <1>10, <2>1, KeySet
<1> QED
  BY <1>8, <1>21

(* The entry is emptied; the one behind it would be lost. *)
LEMMA DeleteRefines ==
    ASSUME OneWorker, TableIInv, MapIInv, mishaps = {}, mishaps' = {}, NEW i \in Workers,
           delete_mapping_entry(i)
    PROVE  MapIInv' /\ MapStep
<1>0. PICK cmd, k, t : cmd = w[i].cmd /\ k = cmd.key /\ t = get_mapping_entry(k)
  OBVIOUS
<1>1. /\ w[i].pc = "delete" /\ cmd \in KeyCmds /\ k \in Keys /\ storage' = storage
      /\ w \in [Workers -> AtWork] /\ kept \in [Keys -> Values \cup {NULL}]
  BY <1>0, DeleteWrites DEF delete_mapping_entry, TableIInv, TypeOK
<1>2. /\ EntriesReached(w[i]) /\ TableIsMap(w[i]) /\ MatchesMap(w[i]) /\ KeyMappedOnce
      /\ \A s : ~InHand(w[i], s)
      /\ \A l : ~BeingUpdated(w[i], l)
  BY <1>1 DEF MapIInv, InHand, BeingUpdated
<1>3. \E s \in Slots : Has(s, k)
  BY <1>0, <1>1, <1>2 DEF MatchesMap
<1>4. t \in Slots /\ Has(t, k) /\ t # NULL /\ \A s \in Slots : Has(s, k) => s = t
  <2>1. \A s \in Slots : Has(s, k) => s = t
    BY <1>0, <1>1, <1>2, EntryFound DEF TableIInv
  <2>2. t # NULL
    BY <1>0, <1>1, <1>2, <1>3, EntryFound DEF TableIInv
  <2> QED
    BY <1>3, <2>1, <2>2
<1>5. /\ kv_mapping_table' = [kv_mapping_table EXCEPT ![t] = Empty]
      /\ w' = [w EXCEPT ![i] = Idle] /\ kept' = [kept EXCEPT ![k] = NULL]
      /\ reply' = [op |-> "delete", key |-> k, asked |-> 0, status |-> "ok", data |-> << >>]
      /\ ~CutsLink(t, NULL)
  <2>1. ~NeverEnds(k)
    BY <1>0, <1>4 DEF NeverEnds
  <2>2. cmd.op = "delete"
    BY <1>0, <1>1, CarriesCmd
  <2> QED
    BY <1>0, <1>4, <2>1, <2>2 DEF delete_mapping_entry, Done
<1>6. /\ kv_mapping_table'[t] = Empty
      /\ \A s \in Slots : s # t => kv_mapping_table'[s] = kv_mapping_table[s]
  BY <1>4, <1>5 DEF TableIInv, TypeOK
<1>7. /\ \A s \in Slots : Occupied(s)' <=> Occupied(s) /\ s # t
      /\ \A s \in Slots : \A l : Has(s, l)' <=> Has(s, l) /\ s # t
  BY <1>6 DEF Occupied, Has, Empty
<1>8. kept'[k] = NULL /\ \A l \in Keys : l # k => kept'[l] = kept[l]
  BY <1>1, <1>5
<1>9. KeyMappedOnce'
  BY <1>2, <1>6, <1>7 DEF KeyMappedOnce
<1>10. \A s : ~InHand(Idle, s) /\ \A l : ~BeingUpdated(Idle, l)
  BY DEF InHand, BeingUpdated, Idle
<1>11. EntriesReached(Idle)'
  <2>1. ASSUME NEW s \in Slots, Occupied(s)' PROVE Reached(s)'
    <3>1. PICK g : g = Hash[kv_mapping_table[s].key]
      OBVIOUS
    <3>2. Occupied(s) /\ s # t /\ g = Hash[kv_mapping_table'[s].key]
      BY <1>6, <1>7, <2>1, <3>1
    <3>3. g \in Slots /\ s # NULL
      BY <3>1, <3>2, HashAssumption, NullApart DEF TableIInv, EntriesWhole, Slots
    <3>4. s = g \/ (Occupied(g) /\ kv_mapping_table[g].next_slot = s)
      BY <1>2, <3>1, <3>2 DEF EntriesReached, Reached
    <3>5. s # g => g # t
      BY <1>5, <3>1, <3>2, <3>3, <3>4 DEF CutsLink
    <3>6. s = g \/ (Occupied(g)' /\ kv_mapping_table'[g].next_slot = s)
      BY <1>6, <1>7, <3>3, <3>4, <3>5
    <3> QED
      BY <3>2, <3>6 DEF Reached
  <2> QED
    BY <2>1 DEF EntriesReached
<1>12. TableIsMap(Idle)'
  <2>1. ASSUME NEW l \in Keys
        PROVE  /\ kept[l] # NULL <=> \E s \in Slots : Has(s, l)
               /\ \A s \in Slots : Has(s, l) => IsValue(s, kept[l])
    BY <1>2 DEF TableIsMap
  <2>2. ASSUME NEW l \in Keys, l # k
        PROVE  /\ kept'[l] # NULL <=> \E s \in Slots : Has(s, l)'
               /\ \A s \in Slots : Has(s, l)' => IsValue(s, kept[l])'
    <3>1. \A s \in Slots : Has(s, l)' <=> Has(s, l)
      BY <1>4, <1>7, <2>2 DEF Has
    <3>2. ASSUME NEW s \in Slots, Has(s, l) PROVE IsValue(s, kept[l])'
      <4>1. kv_mapping_table'[s] = kv_mapping_table[s] /\ kept'[l] = kept[l] /\ IsValue(s, kept[l])
        BY <1>6, <1>7, <1>8, <2>1, <2>2, <3>1, <3>2
      <4> QED
        BY <1>1, <4>1 DEF IsValue, Filled
    <3> QED
      BY <1>8, <2>1, <2>2, <3>1, <3>2
  <2>3. kept'[k] = NULL /\ \A s \in Slots : ~Has(s, k)'
    BY <1>4, <1>7, <1>8
  <2>4. ASSUME NEW l \in Keys
        PROVE  /\ kept'[l] # NULL <=> \E s \in Slots : Has(s, l)'
               /\ \A s \in Slots : Has(s, l)' => IsValue(s, kept[l])'
    BY <2>2, <2>3
  <2> QED
    BY <1>10, <2>4 DEF TableIsMap, InHand
<1>13. MatchesMap(Idle)'
  BY DEF MatchesMap, Idle, Allocating, Inserting
<1>14. MapStep
  <2>1. kept[k] # NULL
    BY <1>1, <1>2, <1>3 DEF TableIsMap
  <2>2. Map!Delete(k)
    BY <1>5, <2>1 DEF Map!Delete, Map!Reply
  <2>3. Map!Operation
    BY <1>1, <2>2 DEF Map!Operation
  <2> QED
    BY <2>3, Seen
<1>15. Idle \in AtWork
  BY DEF AtWork, Idle
<1> QED
  BY <1>5, <1>9, <1>11, <1>12, <1>13, <1>14, <1>15, MapReassembled

(* A retrieval returns the value, cut to the buffer. *)
LEMMA RetrieveRefines ==
    ASSUME OneWorker, TableIInv, MapIInv, NEW i \in Workers, RetrieveCopy(i)
    PROVE  MapIInv' /\ MapStep
<1>0. PICK cmd, k, e : cmd = w[i].cmd /\ k = cmd.key /\ e = w[i].entry
  OBVIOUS
<1>1. /\ MatchesMap(w[i]) /\ TableIsMap(w[i]) /\ w[i].pc = "retrieve" /\ w[i] \in AtWork
      /\ UNCHANGED <<kv_mapping_table, storage, kept, mishaps>>
  BY DEF MapIInv, RetrieveCopy, tableVars, TableIInv, TypeOK
<1>2. PICK s \in Slots : Has(s, k) /\ e = kv_mapping_table[s]
  BY <1>0, <1>1 DEF MatchesMap
<1>3. k \in Keys /\ cmd.length \in 1..LARGE_LENGTH /\ cmd.op = "retrieve"
  BY <1>0, <1>1, CarriesCmd DEF RetrieveCmds
<1>4. ~BeingUpdated(w[i], k) /\ ~InHand(w[i], s)
  BY <1>1 DEF BeingUpdated, InHand
<1>5. kept[k] # NULL /\ e.length = kept[k].length /\ Filled(e.mem_offset, e.length, kept[k].data)
  BY <1>1, <1>2, <1>3, <1>4 DEF TableIsMap, IsValue
<1>6. PICK o, len, v, n : /\ o = e.mem_offset /\ len = e.length /\ v = kept[k]
                          /\ n = IF len < cmd.length THEN len ELSE cmd.length
  OBVIOUS
<1>7. o \in Nat /\ len \in 1..LARGE_LENGTH
  BY <1>2, <1>6, EntryTypes DEF Has
<1>8. reply' = [op |-> "retrieve", key |-> k, asked |-> cmd.length, status |-> "ok",
                data |-> [j \in 1..n |-> IF o + (j - 1) \in Units THEN storage[o + (j - 1)] ELSE NULL]]
  <2> DEFINE x == w[i].entry
             m == IF x.length < w[i].cmd.length THEN x.length ELSE w[i].cmd.length
             copied == [j \in 1..m |-> IF x.mem_offset + j - 1 \in Units
                                       THEN storage[x.mem_offset + j - 1] ELSE NULL]
  <2>1. reply' = [op |-> IF w[i].cmd.op = "batch" THEN "store" ELSE w[i].cmd.op,
                  key |-> w[i].cmd.key,
                  asked |-> IF w[i].cmd.op = "retrieve" THEN w[i].cmd.length ELSE 0,
                  status |-> "ok", data |-> copied]
    BY Zenon DEF RetrieveCopy, Done
  <2>2. x.mem_offset = o /\ m = n
    BY <1>0, <1>6
  <2>3. copied = [j \in 1..n |-> IF o + (j - 1) \in Units THEN storage[o + (j - 1)] ELSE NULL]
    BY <2>2
  <2> HIDE DEF copied
  <2> QED
    BY <1>0, <1>3, <2>1, <2>3
<1>9. n = IF cmd.length < len THEN cmd.length ELSE len
  BY <1>3, <1>6, <1>7, GeometryAssumption
<1>10. \A j \in 1..n : o + (j - 1) \in Units /\ storage[o + (j - 1)] = v.data
  <2>1. \A u \in o..o + len - 1 : u \in Units /\ storage[u] = v.data
    BY <1>5, <1>6 DEF Filled
  <2>2. \A j \in 1..n : o + (j - 1) \in o..o + len - 1
    BY <1>3, <1>7, <1>9, GeometryAssumption
  <2> QED
    BY <2>1, <2>2
<1>11. [j \in 1..n |-> IF o + (j - 1) \in Units THEN storage[o + (j - 1)] ELSE NULL]
         = [j \in 1..n |-> v.data]
  BY <1>10
<1>12. Map!Prefix(v, cmd.length) = [j \in 1..n |-> v.data]
  BY <1>5, <1>6, <1>9 DEF Map!Prefix
<1>13. Map!Retrieve(k, cmd.length)
  BY <1>1, <1>5, <1>6, <1>8, <1>11, <1>12 DEF Map!Retrieve, Map!Reply
<1>14. MapStep
  <2>1. Map!Operation
    BY <1>3, <1>13 DEF Map!Operation
  <2> QED
    BY <1>1, <2>1, Seen
<1>15. w' = [w EXCEPT ![i] = Idle]
  BY <1>1, RetrieveEnds
<1>16. Idle \in AtWork /\ MatchesMap(Idle) /\ Idle.pc # "chain"
  BY DEF AtWork, Idle, MatchesMap, Allocating, Inserting
<1> QED
  BY <1>1, <1>14, <1>15, <1>16, MapUntouched

LEMMA MapIdle ==
    ASSUME MapHolds, UNCHANGED <<kv_mapping_table, storage, kept, reply, w, mishaps>>
    PROVE  MapHolds' /\ MapStep
<1>1. \A s : Occupied(s)' <=> Occupied(s)
  BY DEF Occupied
<1>2. \A o, n, d : Filled(o, n, d)' <=> Filled(o, n, d)
  BY DEF Filled
<1>3. /\ \A s, k : Has(s, k)' <=> Has(s, k)
      /\ \A s : Reached(s)' <=> Reached(s)
      /\ \A s, v : IsValue(s, v)' <=> IsValue(s, v)
  BY <1>1, <1>2 DEF Has, Reached, IsValue
<1>4. KeyMappedOnce => KeyMappedOnce'
  BY <1>1 DEF KeyMappedOnce
<1>5. ASSUME NEW i \in Workers, EntriesReached(w[i]), TableIsMap(w[i]), MatchesMap(w[i])
      PROVE  (EntriesReached(w[i]) /\ TableIsMap(w[i]) /\ MatchesMap(w[i]))'
  <2>1. PICK x : x = w[i] /\ x = w'[i]
    OBVIOUS
  <2>2. EntriesReached(x)'
    BY <1>1, <1>3, <1>5, <2>1 DEF EntriesReached, InHand
  <2>3. TableIsMap(x)'
    <3>1. TableIsMap(x)
      BY <1>5, <2>1
    <3>2. ASSUME NEW k \in Keys, NEW s \in Slots, IsValue(s, kept[k])
          PROVE  IsValue(s, kept[k])'
      BY <3>2 DEF IsValue, Filled
    <3> QED
      BY <1>3, <3>1, <3>2 DEF TableIsMap, InHand, BeingUpdated
  <2>4. MatchesMap(x)'
    BY <1>2, <1>3, <1>5, <2>1 DEF MatchesMap
  <2> QED
    BY <2>1, <2>2, <2>3, <2>4 DEF EntriesReached, TableIsMap, MatchesMap, InHand, BeingUpdated,
                                  Allocating, Inserting
<1>6. MapIInv => MapIInv'
  BY <1>4, <1>5 DEF MapIInv
<1> QED
  BY <1>6, Unseen DEF MapHolds

LEMMA MapInit == Init => MapHolds /\ Map!Init
<1> SUFFICES ASSUME Init PROVE MapHolds /\ Map!Init
  OBVIOUS
<1>1. \A s \in Slots : ~Occupied(s) /\ \A k : ~Has(s, k)
  BY DEF Init, Empty, Occupied, Has
<1>2. \A i \in Workers : w[i] = Idle
  BY DEF Init
<1>3. EntriesReached(Idle) /\ KeyMappedOnce
  BY <1>1 DEF EntriesReached, KeyMappedOnce
<1>4. TableIsMap(Idle)
  BY <1>1 DEF TableIsMap, Init
<1>5. MatchesMap(Idle)
  BY DEF Idle, MatchesMap, Allocating, Inserting
<1>6. Map!Init
  BY DEF Init, Map!Init, Map!NoReply
<1> QED
  BY <1>2, <1>3, <1>4, <1>5, <1>6 DEF MapIInv, MapHolds

LEMMA MapKept ==
    ASSUME OneWorker, TableIInv, MapHolds, [Next]_vars
    PROVE  MapHolds' /\ MapStep
<1>1. CASE UNCHANGED vars
  BY <1>1, MapIdle DEF vars, tableVars, hostVars
<1>2. ASSUME NEW i \in Workers, mishaps' = {},
             Work(i) \/ \E cmd \in Commands : Begin(i, cmd)
      PROVE  MapIInv' /\ MapStep
  <2>1. mishaps = {}
    BY <1>2 DEF Work, Begin, BatchEnd, StoreWild, AllocFind, AllocMark, StoreCopy, MapFind,
                MapWrite, chain_mapping, update_mapping_entry, RetrieveCopy, delete_mapping_entry
  <2>2. MapIInv
    BY <2>1 DEF MapHolds
  <2>3. CASE Work(i)
    BY <1>2, <2>1, <2>2, <2>3, AllocRefines, CopyRefines, MapFindRefines, WriteRefines,
       ChainRefines, UpdateRefines, RetrieveRefines, DeleteRefines DEF Work
  <2>4. CASE \E cmd \in Commands : Begin(i, cmd)
    BY <2>2, <2>4, BeginRefines
  <2> QED
    BY <1>2, <2>3, <2>4
<1>3. ASSUME NEW i \in Workers, Work(i) \/ \E cmd \in Commands : Begin(i, cmd)
      PROVE  MapHolds' /\ MapStep
  BY <1>2, <1>3, Lost DEF MapHolds
<1>4. ASSUME NEW i \in Workers, NEW prefix \in Prefixes, kv_iter_open(i, prefix)
      PROVE  MapHolds' /\ MapStep
  BY <1>4, MapIdle DEF kv_iter_open, tableVars, hostVars
<1>5. ASSUME NEW i \in Workers, NEW h \in Handles, kv_iter_close(i, h) \/ kv_iter_read(i, h)
      PROVE  MapHolds' /\ MapStep
  BY <1>5, MapIdle DEF kv_iter_close, kv_iter_read, tableVars, hostVars
<1> QED
  BY <1>1, <1>3, <1>4, <1>5 DEF Next

(* The hash table implements the map, whatever the keys hash to: every step *)
(* of the worker is a step of the map on the host's key or is not seen,     *)
(* until it loses something.  A store takes effect with the copy of its     *)
(* value, the write or the chaining of its entry, or the change of its      *)
(* length.                                                                  *)
THEOREM MapImplemented == ASSUME OneWorker PROVE Spec => ImplementsMap
<1>1. Init => MapHolds /\ Map!Init
  BY MapInit
<1>2. TableIInv /\ MapHolds /\ [Next]_vars => MapHolds' /\ [Map!Next]_(Map!mapVars)
  BY MapKept DEF MapStep
<1> QED
  BY <1>1, <1>2, TableInvariance, PTL DEF Spec, ImplementsMap, Map!Spec
=============================================================================
