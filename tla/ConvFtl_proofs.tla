--------------------------- MODULE ConvFtl_proofs ---------------------------
(***************************************************************************)
(* Proofs about ConvFtl, for any geometry, any size of the hotness table   *)
(* and any contents of the uninitialised write pointers, and about PQueue, *)
(* the queue of its victim lines, for any number of lines.                 *)
(*                                                                         *)
(* In the conventional build everything follows from the order in which    *)
(* the write pointer visits the pages of a line (WrittenBefore): exactly   *)
(* the pages before the write pointer carry an lpn, and mapped pages are   *)
(* among them.  In the hybrid build the hotness table is right because no  *)
(* entry ever changes its lpn: the slots that probing passes on its way to *)
(* an entry stay occupied by others.                                       *)
(*                                                                         *)
(* The heap: an operation moves one item along the path between a position *)
(* and the root, and every item on the way by one, so the items are        *)
(* permuted (Permutes); along a path a position, its parent and its child  *)
(* follow each other (PathWell), which is what keeps the order.            *)
(***************************************************************************)
EXTENDS ConvFtl, PQueue, FiniteSetTheorems, WellFoundedInduction, TLAPS

(* The one-shot page that a page of a block belongs to.                     *)
OneShot(p) == p.pg \div pgs_per_oneshotpg

(* p comes before q on the write pointer's way through a line.              *)
WrittenBefore(p, q) ==
  \/ OneShot(p) < OneShot(q)
  \/ OneShot(p) = OneShot(q) /\ p.lun < q.lun
  \/ OneShot(p) = OneShot(q) /\ p.lun = q.lun /\ p.ch < q.ch
  \/ OneShot(p) = OneShot(q) /\ p.lun = q.lun /\ p.ch = q.ch /\ p.pg < q.pg

(* Write pointers; past the last page of the line only to stop there.       *)
WritePointers == [ch : 0..nchs - 1, lun : 0..luns_per_ch - 1, blk : {0}, pg : 0..pgs_per_blk]
LunWritePointers == [ch : Nat, lun : Nat, blk : Nat, pg : Nat, pl : Nat]
Pages == [ch : Nat, lun : Nat, blk : Nat, pg : Nat]   \* of either build, not all of them on the device
HotnessEntries == [lpn : Lpns \cup {INVALID_LPN}, recent_access : Int, last_access_time : Nat,
                   storage_type : {"SLC"}]

TypeOK ==
  /\ Hybrid \in BOOLEAN
  /\ maptbl = [l \in Lpns |-> maptbl[l]]
  /\ \A l \in Lpns : maptbl[l] = UNMAPPED \/ maptbl[l] \in Pages
  /\ rmap \in [0..tt_pgs - 1 -> Lpns \cup {INVALID_LPN}]
  /\ wp \in WritePointers
  /\ Hybrid => lunwp \in [0..SlcLuns - 1 -> LunWritePointers]
  /\ hotness \in [Slots -> HotnessEntries]
  /\ now \in Nat
  /\ cmd \in [lpn : Nat, left : Nat] /\ cmd.lpn + cmd.left <= NLpns
  /\ bug \in IF Hybrid THEN {"none", "pg_valid", "pl", "pgidx", "check_addr", "curline"}
             ELSE {"none", "ipc"}

(* The conventional build: the dispatcher stops when the line is used up,   *)
(* mapped pages have been written, under the lpn they are mapped from, and  *)
(* every page that has been written carries one.                            *)
LineInOrder ==
  ~Hybrid =>
    /\ bug = "none" => wp.pg < pgs_per_blk
    /\ bug = "ipc" => wp.pg = pgs_per_blk
    /\ \A l \in Lpns : maptbl[l] # UNMAPPED =>
          /\ maptbl[l] \in Ppas /\ maptbl[l].blk = 0 /\ WrittenBefore(maptbl[l], wp)
          /\ rmap[ppa2pgidx(maptbl[l])] = l
    /\ \A p \in Ppas : p.blk = 0 /\ WrittenBefore(p, wp) => rmap[ppa2pgidx(p)] # INVALID_LPN

(* The hybrid build: an entry is where probing finds it first, and a mapped *)
(* page has an entry, or can have none.                                     *)
FoundAt(l, s) ==
  \E i \in 0..HotnessSize - 1 :
      /\ s = (l + i) % HotnessSize
      /\ \A j \in 0..i - 1 : hotness[(l + j) % HotnessSize].lpn \notin {l, INVALID_LPN}
ProbesFull ==
  \A s \in Slots : hotness[s].lpn # INVALID_LPN => FoundAt(hotness[s].lpn, s)
MappedSeen ==
  Hybrid => \A l \in Lpns : maptbl[l] # UNMAPPED =>
                Candidates(l) = {} \/ \E s \in Slots : hotness[s].lpn = l

ConvIInv == TypeOK /\ LineInOrder /\ ProbesFull /\ MappedSeen

-----------------------------------------------------------------------------
(* Geometry.  The sizes are what ssd_init_params makes of them.             *)
LEMMA Sizes ==
    /\ NLpns \in Nat \ {0} /\ secs_per_pg \in Nat \ {0} /\ nchs \in Nat \ {0} /\ luns_per_ch \in Nat \ {0}
    /\ blks_per_pl \in Nat \ {0} /\ pgs_per_blk \in Nat \ {0} /\ pgs_per_oneshotpg \in Nat \ {0}
    /\ HotnessSize \in Nat \ {0} /\ pgs_per_blk % pgs_per_oneshotpg = 0
    /\ slc_channels \in Nat \ {0} /\ slc_luns_per_ch \in Nat \ {0} /\ slc_pgs_per_blk \in Nat \ {0}
    /\ MigrationInterval \in Nat /\ AgingInterval \in Nat /\ MaxTime \in Nat
    /\ LunWps \subseteq LunWritePointers
    /\ SecsPerCmd \in Nat /\ PL_RANGE \in Nat \ {0}
  BY GeometryAssumption DEF LunWritePointers

(* Division with remainder, as the one-shot pages of a block need it.       *)
LEMMA Division ==
    ASSUME NEW n \in Nat \ {0}, NEW q \in Nat
    PROVE  /\ q \div n \in Nat /\ q % n \in 0..n - 1
           /\ q = (q \div n) * n + (q % n)
  OBVIOUS

LEMMA DivisionUnique ==
    ASSUME NEW n \in Nat \ {0}, NEW k \in Nat, NEW m \in Nat, NEW r \in 0..n - 1, NEW s \in 0..n - 1,
           k * n + r = m * n + s
    PROVE  k = m /\ r = s
<1>1. CASE k < m
  <2>1. PICK c \in Nat : m = k + 1 + c
    <3>1. m - k - 1 \in Nat /\ m = k + 1 + (m - k - 1)
      BY <1>1
    <3> QED
      BY <3>1
  <2>2. m * n = k * n + n + c * n /\ c * n \in Nat /\ k * n \in Nat
    BY <2>1
  <2> QED
    BY <2>2
<1>2. CASE m < k
  <2>1. PICK c \in Nat : k = m + 1 + c
    <3>1. k - m - 1 \in Nat /\ k = m + 1 + (k - m - 1)
      BY <1>2
    <3> QED
      BY <3>1
  <2>2. k * n = m * n + n + c * n /\ c * n \in Nat /\ m * n \in Nat
    BY <2>1
  <2> QED
    BY <2>2
<1>3. CASE k = m
  <2>1. k * n \in Nat
    OBVIOUS
  <2> QED
    BY <1>3, <2>1
<1> QED
  BY <1>1, <1>2, <1>3

(* The pages a write command maps are pages of the namespace: rounding the  *)
(* start and the length down each for itself never adds a page.             *)
LEMMA PagesOfCommand ==
    ASSUME NEW s \in Nat \ {0}, NEW lba \in Nat, NEW n \in Nat, NEW h \in Nat, lba + n <= h * s
    PROVE  lba \div s \in Nat /\ n \div s \in Nat /\ (lba \div s) + (n \div s) <= h
<1>1. PICK a, b : a = lba \div s /\ b = n \div s
  OBVIOUS
<1>2. /\ a \in Nat /\ lba = a * s + (lba % s) /\ lba % s \in 0..s - 1
      /\ b \in Nat /\ n = b * s + (n % s) /\ n % s \in 0..s - 1
  BY <1>1, Division
<1>3. PICK x, y : x = lba % s /\ y = n % s
  OBVIOUS
<1>4. a * s + b * s <= h * s /\ a * s \in Nat /\ b * s \in Nat
  <2>1. a * s \in Nat /\ b * s \in Nat /\ h * s \in Nat
    BY <1>2
  <2> DEFINE as == a * s
             bs == b * s
             hs == h * s
  <2>2. as \in Nat /\ bs \in Nat /\ hs \in Nat /\ lba = as + x /\ n = bs + y /\ lba + n <= hs
        /\ x \in Nat /\ y \in Nat
    BY <1>2, <1>3, <2>1
  <2> HIDE DEF as, bs, hs
  <2>3. \A e, f, g, u, v \in Nat : (e + u) + (f + v) <= g => e + f <= g
    OBVIOUS
  <2>4. as + bs <= hs
    BY <2>2, <2>3
  <2> QED
    BY <2>1, <2>4 DEF as, bs, hs
<1>5. ASSUME a + b > h PROVE FALSE
  <2>1. PICK c \in Nat : a + b = h + 1 + c
    <3>1. a + b - h - 1 \in Nat /\ a + b = h + 1 + (a + b - h - 1)
      BY <1>2, <1>5
    <3> QED
      BY <3>1
  <2>2. (a + b) * s = h * s + s + c * s /\ (a + b) * s = a * s + b * s
    BY <1>2, <2>1
  <2>3. c * s \in Nat /\ h * s \in Nat
    OBVIOUS
  <2> QED
    BY <1>4, <2>2, <2>3
<1> QED
  BY <1>1, <1>2, <1>5

(* The fields of struct ppa hold a number they are wide enough for.         *)
LEMMA FieldKeeps ==
    ASSUME NEW r \in Nat, NEW x \in Nat, x < r
    PROVE  x % r = x
<1>1. r \in Nat \ {0} /\ x \in 0..r - 1
  OBVIOUS
<1>2. x \div r \in Nat /\ x % r \in 0..r - 1 /\ x = (x \div r) * r + (x % r)
  BY <1>1, Division
<1>3. PICK k, m : k = x \div r /\ m = x % r
  OBVIOUS
<1>4. k \in Nat /\ m \in 0..r - 1 /\ 0 \in Nat /\ k * r + m = 0 * r + x
  BY <1>1, <1>2, <1>3
<1> QED
  BY <1>1, <1>3, <1>4, DivisionUnique

(* get_new_page: a page of the device fits the fields, and any address      *)
(* becomes one of numbers.                                                  *)
LEMMA Addressed ==
    /\ \A p \in Ppas : get_new_page(p) = p
    /\ \A p : p.ch \in Nat /\ p.lun \in Nat /\ p.blk \in Nat /\ p.pg \in Nat => get_new_page(p) \in Pages
<1>1. /\ CH_RANGE \in Nat /\ LUN_RANGE \in Nat /\ BLK_RANGE \in Nat /\ PG_RANGE \in Nat
      /\ nchs <= CH_RANGE /\ luns_per_ch <= LUN_RANGE
      /\ blks_per_pl <= BLK_RANGE /\ pgs_per_blk <= PG_RANGE
  BY FieldAssumption
<1>2. ASSUME NEW p \in Ppas PROVE get_new_page(p) = p
  <2>1. /\ p.ch \in Nat /\ p.ch < CH_RANGE /\ p.lun \in Nat /\ p.lun < LUN_RANGE
        /\ p.blk \in Nat /\ p.blk < BLK_RANGE /\ p.pg \in Nat /\ p.pg < PG_RANGE
        /\ p = [ch |-> p.ch, lun |-> p.lun, blk |-> p.blk, pg |-> p.pg]
    BY <1>1, Sizes DEF Ppas
  <2>2. /\ p.ch % CH_RANGE = p.ch /\ p.lun % LUN_RANGE = p.lun
        /\ p.blk % BLK_RANGE = p.blk /\ p.pg % PG_RANGE = p.pg
    BY <1>1, <2>1, FieldKeeps
  <2> QED
    BY <2>1, <2>2 DEF get_new_page
<1>3. ASSUME NEW p, p.ch \in Nat, p.lun \in Nat, p.blk \in Nat, p.pg \in Nat
      PROVE  get_new_page(p) \in Pages
  <2>1. CH_RANGE \in Nat \ {0} /\ LUN_RANGE \in Nat \ {0} /\ BLK_RANGE \in Nat \ {0} /\ PG_RANGE \in Nat \ {0}
    BY <1>1, Sizes
  <2>2. ASSUME NEW x \in Nat, NEW r \in Nat \ {0} PROVE x % r \in Nat
    BY <2>2, Division
  <2>3. p.ch % CH_RANGE \in Nat /\ p.lun % LUN_RANGE \in Nat /\ p.blk % BLK_RANGE \in Nat /\ p.pg % PG_RANGE \in Nat
    BY <1>3, <2>1, <2>2
  <2> QED
    BY <2>3 DEF get_new_page, Pages
<1> QED
  BY <1>2, <1>3

(* A digit more: a place among n * m.                                       *)
LEMMA Digit ==
    ASSUME NEW m \in Nat \ {0}, NEW n \in Nat \ {0}, NEW a \in 0..m - 1, NEW r \in 0..n - 1
    PROVE  a * n + r \in 0..m * n - 1
<1>1. PICK c \in Nat : m = a + 1 + c
  <2>1. m - a - 1 \in Nat /\ m = a + 1 + (m - a - 1)
    OBVIOUS
  <2> QED
    BY <2>1
<1>2. m * n = a * n + n + c * n /\ c * n \in Nat /\ a * n \in Nat
  BY <1>1
<1> QED
  BY <1>2

(* ppa2pgidx gives every page of the device a place of its own in rmap.     *)
LEMMA PageIndex ==
    ASSUME NEW p \in Ppas, NEW q \in Ppas
    PROVE  /\ ppa2pgidx(p) \in 0..tt_pgs - 1
           /\ ppa2pgidx(p) = ppa2pgidx(q) => p = q
<1> DEFINE L(x) == x.ch * luns_per_ch + x.lun
           B(x) == L(x) * blks_per_pl + x.blk
           I(x) == B(x) * pgs_per_blk + x.pg
           NL == nchs * luns_per_ch
           NB == NL * blks_per_pl
<1>1. ASSUME NEW x \in Ppas
      PROVE  /\ x.ch \in 0..nchs - 1 /\ x.lun \in 0..luns_per_ch - 1
             /\ x.blk \in 0..blks_per_pl - 1 /\ x.pg \in 0..pgs_per_blk - 1
  BY <1>1 DEF Ppas
<1>2. NL \in Nat \ {0} /\ NB \in Nat \ {0}
  BY Sizes
<1>3. tt_pgs = NB * pgs_per_blk
  BY Sizes DEF tt_pgs, pgs_per_ch, pgs_per_lun
<1>4. ASSUME NEW x \in Ppas
      PROVE  ppa2pgidx(x) = I(x)
  BY <1>1, Sizes DEF ppa2pgidx, pgs_per_ch, pgs_per_lun
<1> HIDE DEF NL, NB
<1>5. ASSUME NEW x \in Ppas
      PROVE  L(x) \in 0..NL - 1
  BY <1>1, Digit, Sizes DEF NL
<1> HIDE DEF L
<1>6. ASSUME NEW x \in Ppas
      PROVE  B(x) \in 0..NB - 1
  BY <1>1, <1>2, <1>5, Digit, Sizes DEF NB
<1> HIDE DEF B
<1>7. ASSUME NEW x \in Ppas
      PROVE  I(x) \in 0..tt_pgs - 1
  BY <1>1, <1>2, <1>3, <1>6, Digit, Sizes
<1>8. ASSUME I(p) = I(q)
      PROVE  p = q
  <2>1. B(p) \in Nat /\ B(q) \in Nat
    BY <1>2, <1>6
  <2>2. B(p) = B(q) /\ p.pg = q.pg
    BY <1>1, <1>8, <2>1, DivisionUnique, Sizes
  <2>3. L(p) \in Nat /\ L(q) \in Nat
    BY <1>2, <1>5
  <2>4. L(p) = L(q) /\ p.blk = q.blk
    <3>1. /\ p.blk \in 0..blks_per_pl - 1 /\ q.blk \in 0..blks_per_pl - 1 /\ blks_per_pl \in Nat \ {0}
          /\ L(p) * blks_per_pl + p.blk = L(q) * blks_per_pl + q.blk
      BY <1>1, <2>2, Sizes DEF B
    <3> QED
      BY <2>3, <3>1, DivisionUnique
  <2>5. p.ch = q.ch /\ p.lun = q.lun
    <3>1. /\ p.ch \in Nat /\ q.ch \in Nat
          /\ p.ch * luns_per_ch + p.lun = q.ch * luns_per_ch + q.lun
      BY <1>1, <2>4, Sizes DEF L
    <3>2. p.lun \in 0..luns_per_ch - 1 /\ q.lun \in 0..luns_per_ch - 1 /\ luns_per_ch \in Nat \ {0}
      BY <1>1, Sizes
    <3> QED
      BY <3>1, <3>2, DivisionUnique
  <2> QED
    BY <2>2, <2>4, <2>5 DEF Ppas
<1> QED
  BY <1>4, <1>7, <1>8

(* The one-shot pages a page and the next one belong to.                    *)
LEMMA NextOneShot ==
    ASSUME NEW w \in Nat
    PROVE  LET o == pgs_per_oneshotpg IN
           /\ (w + 1) % o # 0 => (w + 1) \div o = w \div o
           /\ (w + 1) % o = 0 =>
                /\ (w + 1) \div o = w \div o + 1
                /\ (w + 1) - o \in Nat /\ ((w + 1) - o) \div o = w \div o
                /\ \A g \in Nat : g \div o = w \div o => (w + 1) - o <= g /\ g <= w
<1> DEFINE o == pgs_per_oneshotpg
<1>1. o \in Nat \ {0}
  BY Sizes
<1> HIDE DEF o
<1> DEFINE k == w \div o
           r == w % o
<1>2. k \in Nat /\ r \in 0..o - 1 /\ w = k * o + r /\ k * o \in Nat /\ (k + 1) * o = k * o + o
  <2>1. k \in Nat /\ r \in 0..o - 1 /\ w = k * o + r
    BY <1>1, Division
  <2> HIDE DEF k, r
  <2> QED
    BY <1>1, <2>1
<1>3. (w + 1) \div o \in Nat /\ (w + 1) % o \in 0..o - 1
      /\ w + 1 = ((w + 1) \div o) * o + ((w + 1) % o)
  <2>1. w + 1 \in Nat
    OBVIOUS
  <2> DEFINE v == w + 1
  <2>2. v \in Nat
    BY <2>1
  <2> HIDE DEF v
  <2>3. v \div o \in Nat /\ v % o \in 0..o - 1 /\ v = (v \div o) * o + (v % o)
    BY <1>1, <2>2, Division
  <2> QED
    BY <2>3 DEF v
<1>4. CASE r + 1 < o
  <2>1. (w + 1) \div o = k /\ (w + 1) % o = r + 1
    <3>1. r + 1 \in 0..o - 1 /\ k * o + (r + 1) = ((w + 1) \div o) * o + ((w + 1) % o)
      BY <1>1, <1>2, <1>3, <1>4
    <3> HIDE DEF k, r
    <3> QED
      BY <1>1, <1>2, <1>3, <3>1, DivisionUnique
  <2> QED
    BY <1>1, <1>2, <2>1 DEF o
<1>5. CASE r + 1 = o
  <2>1. (w + 1) \div o = k + 1 /\ (w + 1) % o = 0
    <3>1. 0 \in 0..o - 1 /\ k + 1 \in Nat /\ (k + 1) * o + 0 = ((w + 1) \div o) * o + ((w + 1) % o)
      BY <1>1, <1>2, <1>3, <1>5
    <3> HIDE DEF k, r
    <3> QED
      BY <1>1, <1>2, <1>3, <3>1, DivisionUnique
  <2>2. (w + 1) - o = k * o
    BY <1>1, <1>2, <1>5
  <2>3. ((w + 1) - o) \div o = k
    <3>1. (k * o) \div o \in Nat /\ (k * o) % o \in 0..o - 1
          /\ k * o = ((k * o) \div o) * o + ((k * o) % o)
      BY <1>1, <1>2, Division
    <3>2. 0 \in 0..o - 1 /\ k * o + 0 = ((k * o) \div o) * o + ((k * o) % o)
      BY <1>1, <1>2, <3>1
    <3> HIDE DEF k, r
    <3> QED
      BY <1>1, <1>2, <2>2, <3>1, <3>2, DivisionUnique
  <2>4. ASSUME NEW g \in Nat, g \div o = k
        PROVE  (w + 1) - o <= g /\ g <= w
    <3>1. g % o \in 0..o - 1 /\ g = k * o + (g % o)
      BY <1>1, <2>4, Division
    <3> QED
      BY <1>1, <1>2, <1>5, <3>1
  <2> QED
    BY <1>2, <2>1, <2>2, <2>3, <2>4 DEF o
<1> QED
  BY <1>1, <1>2, <1>4, <1>5

(* Behind the last page of the blocks come no pages: those of the block are *)
(* whole one-shot pages.                                                    *)
LEMMA LastBefore ==
    ASSUME NEW n, n.pg = pgs_per_blk, NEW p \in Ppas
    PROVE  WrittenBefore(p, n)
<1> DEFINE o == pgs_per_oneshotpg
           k == n.pg \div o
           m == p.pg \div o
<1>1. p.pg \in Nat /\ p.pg < n.pg /\ n.pg \in Nat /\ o \in Nat \ {0} /\ n.pg % o = 0
  BY Sizes DEF Ppas
<1> HIDE DEF o
<1>2. k \in Nat /\ m \in Nat /\ n.pg = k * o + (n.pg % o) /\ p.pg = m * o + (p.pg % o)
      /\ p.pg % o \in 0..o - 1
  BY <1>1, Division
<1>3. k = OneShot(n) /\ m = OneShot(p)
  BY DEF OneShot, o
<1> HIDE DEF k, m
<1>4. ASSUME NEW c \in Nat, m = k + c
      PROVE  FALSE
  <2>1. m * o = k * o + c * o /\ c * o \in Nat /\ k * o \in Nat
    BY <1>1, <1>2, <1>4
  <2> DEFINE mo == m * o
             ko == k * o
             co == c * o
  <2>2. mo = ko + co /\ co \in Nat /\ ko \in Nat /\ p.pg = mo + (p.pg % o) /\ n.pg = ko
    BY <1>1, <1>2, <2>1
  <2>3. p.pg % o \in 0..o - 1 /\ p.pg \in Nat /\ p.pg < n.pg
    BY <1>1, <1>2
  <2> HIDE DEF mo, ko, co
  <2> QED
    BY <1>1, <2>2, <2>3
<1>5. m < k
  <2> SUFFICES ASSUME ~(m < k)
               PROVE  FALSE
    OBVIOUS
  <2>1. m - k \in Nat /\ m = k + (m - k)
    BY <1>2
  <2> QED
    BY <1>4, <2>1
<1> QED
  BY <1>3, <1>5 DEF WrittenBefore

(* advance_write_pointer goes through a line in the order WrittenBefore:    *)
(* one page more is before it.                                              *)
LEMMA AdvanceOrder ==
    ASSUME NEW w \in WritePointers, w.pg < pgs_per_blk
    PROVE  LET n == advance_write_pointer(w) IN
           /\ w \in Ppas /\ n \in WritePointers
           /\ \A p \in Ppas : p.blk = 0 => (WrittenBefore(p, n) <=> WrittenBefore(p, w) \/ p = w)
<1> DEFINE n == advance_write_pointer(w)
           o == pgs_per_oneshotpg
<1>1. /\ w.ch \in 0..nchs - 1 /\ w.lun \in 0..luns_per_ch - 1 /\ w.blk = 0 /\ w.pg \in Nat
      /\ w = [ch |-> w.ch, lun |-> w.lun, blk |-> w.blk, pg |-> w.pg]
  BY DEF WritePointers
<1>2. w \in Ppas
  BY <1>1, Sizes DEF Ppas
<1>3. ASSUME NEW p \in Ppas
      PROVE  /\ p.ch \in 0..nchs - 1 /\ p.lun \in 0..luns_per_ch - 1 /\ p.pg \in 0..pgs_per_blk - 1
             /\ p.pg \in Nat /\ OneShot(p) \in Nat
             /\ p.blk = 0 => (p = w <=> p.ch = w.ch /\ p.lun = w.lun /\ p.pg = w.pg)
  <2>1. p.ch \in 0..nchs - 1 /\ p.lun \in 0..luns_per_ch - 1 /\ p.pg \in 0..pgs_per_blk - 1
        /\ p = [ch |-> p.ch, lun |-> p.lun, blk |-> p.blk, pg |-> p.pg]
    BY DEF Ppas
  <2>2. p.pg \in Nat
    BY <2>1, Sizes
  <2>3. OneShot(p) \in Nat
    BY <2>2, Division, Sizes DEF OneShot
  <2> QED
    BY <1>1, <2>1, <2>2, <2>3
<1>4. /\ (w.pg + 1) % o # 0 => (w.pg + 1) \div o = w.pg \div o
      /\ (w.pg + 1) % o = 0 =>
           /\ (w.pg + 1) \div o = w.pg \div o + 1
           /\ (w.pg + 1) - o \in Nat /\ ((w.pg + 1) - o) \div o = w.pg \div o
           /\ \A g \in Nat : g \div o = w.pg \div o => (w.pg + 1) - o <= g /\ g <= w.pg
  BY <1>1, NextOneShot
<1>5. OneShot(w) \in Nat /\ OneShot(w) = w.pg \div o
  BY <1>1, Division, Sizes DEF OneShot
<1>6. nchs \in Nat \ {0} /\ luns_per_ch \in Nat \ {0} /\ pgs_per_blk \in Nat \ {0} /\ o \in Nat \ {0}
  BY Sizes
<1> HIDE DEF o
<1>12. ASSUME (w.pg + 1) % o = 0
       PROVE  (w.pg + 1) - o \in Nat /\ (w.pg + 1) - o <= w.pg /\ (w.pg + 1) - o < pgs_per_blk
  <2>1. (w.pg + 1) - o \in Nat
    BY <1>4, <1>12
  <2> QED
    BY <1>1, <1>6, <2>1
<1>13. ASSUME (w.pg + 1) % o = 0, NEW p \in Ppas, OneShot(p) = OneShot(w)
       PROVE  (w.pg + 1) - o <= p.pg /\ p.pg <= w.pg
  <2>1. p.pg \in Nat /\ p.pg \div o = w.pg \div o
    BY <1>3, <1>5, <1>13 DEF OneShot, o
  <2> QED
    BY <1>4, <1>13, <2>1
<1>7. ASSUME NEW c, NEW u, NEW g, n = [ch |-> c, lun |-> u, blk |-> 0, pg |-> g]
      PROVE  n.ch = c /\ n.lun = u /\ n.blk = 0 /\ n.pg = g /\ OneShot(n) = g \div o
  BY <1>7 DEF OneShot, o
<1>8. CASE (w.pg + 1) % o # 0
  <2>1. n = [ch |-> w.ch, lun |-> w.lun, blk |-> 0, pg |-> w.pg + 1]
    <3>1. n = [w EXCEPT !.pg = w.pg + 1]
      BY <1>8 DEF advance_write_pointer, o
    <3> QED
      BY <1>1, <3>1
  <2> HIDE DEF n
  <2>2. n.ch = w.ch /\ n.lun = w.lun /\ n.pg = w.pg + 1 /\ OneShot(n) = OneShot(w)
    BY <1>4, <1>5, <1>7, <1>8, <2>1
  <2>3. n \in WritePointers
    BY <1>1, <1>6, <2>1 DEF WritePointers
  <2>4. ASSUME NEW p \in Ppas, p.blk = 0
        PROVE  WrittenBefore(p, n) <=> WrittenBefore(p, w) \/ p = w
    <3>1. p.pg = w.pg => OneShot(p) = OneShot(w)
      BY DEF OneShot
    <3> QED
      BY <1>1, <1>3, <1>5, <2>2, <2>4, <3>1 DEF WrittenBefore
  <2> QED
    BY <1>2, <2>3, <2>4 DEF n
<1>9. CASE (w.pg + 1) % o = 0 /\ w.ch + 1 < nchs
  <2>1. n = [ch |-> w.ch + 1, lun |-> w.lun, blk |-> 0, pg |-> (w.pg + 1) - o]
    <3>1. n = [w EXCEPT !.pg = (w.pg + 1) - o, !.ch = @ + 1]
      BY <1>1, <1>6, <1>9, SMTT(30) DEF advance_write_pointer, o
    <3> QED
      BY <1>1, <3>1
  <2> HIDE DEF n
  <2>2. n.ch = w.ch + 1 /\ n.lun = w.lun /\ n.pg = (w.pg + 1) - o /\ OneShot(n) = OneShot(w)
    BY <1>4, <1>5, <1>7, <1>9, <2>1
  <2>3. n \in WritePointers
    BY <1>1, <1>6, <1>9, <1>12, <2>1 DEF WritePointers
  <2>4. ASSUME NEW p \in Ppas, p.blk = 0
        PROVE  WrittenBefore(p, n) <=> WrittenBefore(p, w) \/ p = w
    <3>1. OneShot(p) = OneShot(w) => (w.pg + 1) - o <= p.pg /\ p.pg <= w.pg
      BY <1>9, <1>13
    <3>2. p.pg = w.pg => OneShot(p) = OneShot(w)
      BY DEF OneShot
    <3> QED
      BY <1>1, <1>3, <1>5, <1>6, <1>9, <1>12, <2>2, <2>4, <3>1, <3>2 DEF WrittenBefore
  <2> QED
    BY <1>2, <2>3, <2>4 DEF n
<1>10. CASE (w.pg + 1) % o = 0 /\ w.ch + 1 = nchs /\ w.lun + 1 < luns_per_ch
  <2>1. n = [ch |-> 0, lun |-> w.lun + 1, blk |-> 0, pg |-> (w.pg + 1) - o]
    <3>1. n = [w EXCEPT !.pg = (w.pg + 1) - o, !.ch = 0, !.lun = @ + 1]
      BY <1>1, <1>6, <1>10, SMTT(30) DEF advance_write_pointer, o
    <3> QED
      BY <1>1, <3>1
  <2> HIDE DEF n
  <2>2. n.ch = 0 /\ n.lun = w.lun + 1 /\ n.pg = (w.pg + 1) - o /\ OneShot(n) = OneShot(w)
    BY <1>4, <1>5, <1>7, <1>10, <2>1
  <2>3. n \in WritePointers
    BY <1>1, <1>6, <1>10, <1>12, <2>1 DEF WritePointers
  <2>4. ASSUME NEW p \in Ppas, p.blk = 0
        PROVE  WrittenBefore(p, n) <=> WrittenBefore(p, w) \/ p = w
    <3>1. OneShot(p) = OneShot(w) => (w.pg + 1) - o <= p.pg /\ p.pg <= w.pg
      BY <1>10, <1>13
    <3>2. p.pg = w.pg => OneShot(p) = OneShot(w)
      BY DEF OneShot
    <3>3. /\ p.ch \in Nat /\ p.ch <= w.ch /\ p.lun \in Nat /\ p.pg \in Nat /\ OneShot(p) \in Nat
          /\ p = w <=> p.ch = w.ch /\ p.lun = w.lun /\ p.pg = w.pg
          /\ w.ch \in Nat /\ w.lun \in Nat
      BY <1>1, <1>3, <1>6, <1>10, <2>4
    <3> QED
      BY <1>1, <1>5, <1>10, <1>12, <2>2, <3>1, <3>2, <3>3 DEF WrittenBefore
  <2> QED
    BY <1>2, <2>3, <2>4 DEF n
<1>11. CASE (w.pg + 1) % o = 0 /\ w.ch + 1 = nchs /\ w.lun + 1 = luns_per_ch
  <2>1. n = [ch |-> 0, lun |-> 0, blk |-> 0, pg |-> w.pg + 1]
    <3>1. n = [w EXCEPT !.pg = w.pg + 1, !.ch = 0, !.lun = 0]
      BY <1>1, <1>6, <1>11 DEF advance_write_pointer, o
    <3> QED
      BY <1>1, <3>1
  <2> HIDE DEF n
  <2>2. n.ch = 0 /\ n.lun = 0 /\ n.pg = w.pg + 1 /\ OneShot(n) = OneShot(w) + 1
    BY <1>4, <1>5, <1>7, <1>11, <2>1
  <2>3. n \in WritePointers
    BY <1>1, <1>6, <2>1 DEF WritePointers
  <2>4. ASSUME NEW p \in Ppas, p.blk = 0
        PROVE  WrittenBefore(p, n) <=> WrittenBefore(p, w) \/ p = w
    <3>1. OneShot(p) = OneShot(w) => p.pg <= w.pg
      BY <1>11, <1>13
    <3>2. p.pg = w.pg => OneShot(p) = OneShot(w)
      BY DEF OneShot
    <3>3. OneShot(p) = OneShot(w) + 1 => w.pg < p.pg
      <4>1. OneShot(p) = p.pg \div o
        BY DEF OneShot, o
      <4>2. p.pg = (p.pg \div o) * o + (p.pg % o) /\ p.pg % o \in 0..o - 1
            /\ w.pg = (w.pg \div o) * o + (w.pg % o) /\ w.pg % o \in 0..o - 1
        BY <1>1, <1>3, <1>6, Division
      <4> DEFINE k == w.pg \div o
                 m == p.pg \div o
      <4>3. k \in Nat /\ m \in Nat
        BY <1>1, <1>3, <1>6, Division
      <4> HIDE DEF k, m
      <4>4. m = k + 1 => m * o = k * o + o /\ k * o \in Nat
        BY <1>6, <4>3
      <4>5. p.pg = m * o + (p.pg % o) /\ w.pg = k * o + (w.pg % o)
        BY <4>2 DEF k, m
      <4>6. m = k + 1 => w.pg < p.pg
        <5> DEFINE mo == m * o
                   ko == k * o
        <5>1. (m = k + 1 => mo = ko + o) /\ ko \in Nat /\ p.pg = mo + (p.pg % o) /\ w.pg = ko + (w.pg % o)
          BY <1>6, <4>3, <4>4, <4>5
        <5>2. p.pg % o \in 0..o - 1 /\ w.pg % o \in 0..o - 1
          BY <4>2
        <5> HIDE DEF mo, ko
        <5> QED
          BY <1>6, <5>1, <5>2
      <4> QED
        BY <1>5, <4>1, <4>6 DEF k, m
    <3> QED
      BY <1>1, <1>3, <1>5, <1>6, <1>11, <2>2, <2>4, <3>1, <3>2, <3>3 DEF WrittenBefore
  <2> QED
    BY <1>2, <2>3, <2>4 DEF n
<1> QED
  BY <1>1, <1>6, <1>8, <1>9, <1>10, <1>11

-----------------------------------------------------------------------------
(* The conventional build writes a page.                                    *)

(* What is left of a command lies in the namespace as the command did.      *)
LEMMA RestTypes ==
    ASSUME NEW l \in Nat, NEW k, k \in Nat, l + k <= NLpns
    PROVE  Rest(l, k) \in [lpn : Nat, left : Nat] /\ Rest(l, k).lpn + Rest(l, k).left <= NLpns
BY Sizes DEF Rest

LEMMA ConvPageStep ==
    ASSUME ConvIInv, conv_write_page
    PROVE  ConvIInv'
<1> DEFINE p == advance_write_pointer(wp)
           l == cmd.lpn
<1>1. ~Hybrid /\ ~Hybrid' /\ Hybrid' \in BOOLEAN /\ bug = "none" /\ wp \in WritePointers /\ wp.pg < pgs_per_blk
  BY DEF conv_write_page, Alive, ConvIInv, TypeOK, LineInOrder
<1>2. /\ wp \in Ppas /\ p \in WritePointers
      /\ \A q \in Ppas : q.blk = 0 => (WrittenBefore(q, p) <=> WrittenBefore(q, wp) \/ q = wp)
  BY <1>1, AdvanceOrder
<1>3. wp' = p /\ bug' = (IF LineUsedUp(p) THEN "ipc" ELSE bug)
  BY DEF conv_write_page
<1> HIDE DEF p
<1>4. l \in Lpns
  BY Sizes, SMTT(30) DEF conv_write_page, ConvIInv, TypeOK, Lpns
<1>5. ppa2pgidx(wp) \in 0..tt_pgs - 1
  BY <1>2, PageIndex
<1>6. /\ maptbl' = [maptbl EXCEPT ![l] = wp] /\ rmap' = [rmap EXCEPT ![ppa2pgidx(wp)] = l]
      /\ maptbl = [k \in Lpns |-> maptbl[k]] /\ rmap \in [0..tt_pgs - 1 -> Lpns \cup {INVALID_LPN}]
  <2>1. MapPage(l, get_new_page(wp)) /\ get_new_page(wp) = wp
    BY <1>2, Addressed DEF conv_write_page
  <2> QED
    BY <2>1 DEF MapPage, ConvIInv, TypeOK
<1>7. wp \in Pages /\ wp.blk = 0
  <2>1. \A q \in Ppas : q \in Pages
    BY Sizes DEF Ppas, Pages
  <2> QED
    BY <1>1, <1>2, <2>1 DEF WritePointers
<1> HIDE DEF l
<1>8. /\ DOMAIN maptbl' = Lpns /\ maptbl' = [k \in Lpns |-> maptbl'[k]]
      /\ maptbl'[l] = wp /\ \A k \in Lpns : k # l => maptbl'[k] = maptbl[k]
  BY <1>4, <1>6
<1>9. /\ rmap' \in [0..tt_pgs - 1 -> Lpns \cup {INVALID_LPN}]
      /\ rmap'[ppa2pgidx(wp)] = l
      /\ \A q \in Ppas : q # wp => rmap'[ppa2pgidx(q)] = rmap[ppa2pgidx(q)]
  <2>1. \A q \in Ppas : q # wp => ppa2pgidx(q) \in 0..tt_pgs - 1 /\ ppa2pgidx(q) # ppa2pgidx(wp)
    BY <1>2, PageIndex
  <2> QED
    BY <1>4, <1>5, <1>6, <2>1
<1>10. TypeOK'
  <2>1. \A k \in Lpns : maptbl'[k] = UNMAPPED \/ maptbl'[k] \in Pages
    BY <1>7, <1>8 DEF ConvIInv, TypeOK
  <2>2. cmd' \in [lpn : Nat, left : Nat] /\ cmd'.lpn + cmd'.left <= NLpns
    <3>1. /\ cmd.lpn \in Nat /\ cmd.left \in Nat /\ cmd.left > 0 /\ cmd.lpn + cmd.left <= NLpns
          /\ cmd' = Rest(cmd.lpn + 1, cmd.left - 1)
      BY DEF conv_write_page, Finish, ConvIInv, TypeOK
    <3> QED
      BY <3>1, RestTypes
  <2>3. bug' \in {"none", "ipc"}
    BY <1>1, <1>3
  <2>4. UNCHANGED <<Hybrid, hotness, now>>
    BY DEF conv_write_page, hotVars
  <2> QED
    BY <1>1, <1>2, <1>3, <1>8, <1>9, <2>1, <2>2, <2>3, <2>4 DEF ConvIInv, TypeOK
<1>11. LineInOrder'
  <2>1. bug' = "none" => wp'.pg < pgs_per_blk
    <3>1. p.pg \in 0..pgs_per_blk
      BY <1>2 DEF WritePointers
    <3> QED
      BY <1>3, <3>1, Sizes DEF LineUsedUp
  <2>2. bug' = "ipc" => wp'.pg = pgs_per_blk
    BY <1>1, <1>3 DEF LineUsedUp
  <2>3. ASSUME NEW k \in Lpns, maptbl'[k] # UNMAPPED
        PROVE  /\ maptbl'[k] \in Ppas /\ maptbl'[k].blk = 0 /\ WrittenBefore(maptbl'[k], p)
               /\ rmap'[ppa2pgidx(maptbl'[k])] = k
    <3>1. CASE k = l
      BY <1>2, <1>7, <1>8, <1>9, <3>1
    <3>2. CASE k # l
      <4>1. /\ maptbl[k] \in Ppas /\ maptbl[k].blk = 0 /\ WrittenBefore(maptbl[k], wp)
            /\ rmap[ppa2pgidx(maptbl[k])] = k /\ maptbl'[k] = maptbl[k]
        BY <1>1, <1>8, <2>3, <3>2 DEF ConvIInv, LineInOrder
      <4>2. ~WrittenBefore(wp, wp)
        <5>1. wp.ch \in Int /\ wp.lun \in Int /\ wp.pg \in Int /\ OneShot(wp) \in Int
          <6>1. wp.ch \in Int /\ wp.lun \in Int /\ wp.pg \in Nat
            BY <1>7, Sizes DEF Pages
          <6>2. OneShot(wp) \in Nat
            BY <6>1, Division, Sizes DEF OneShot
          <6> QED
            BY <6>1, <6>2
        <5> QED
          BY <5>1 DEF WrittenBefore
      <4>3. maptbl[k] # wp
        BY <4>1, <4>2
      <4> QED
        BY <1>2, <1>9, <4>1, <4>3
    <3> QED
      BY <3>1, <3>2
  <2>4. ASSUME NEW q \in Ppas, q.blk = 0, WrittenBefore(q, p)
        PROVE  rmap'[ppa2pgidx(q)] # INVALID_LPN
    <3>1. CASE q = wp
      BY <1>4, <1>9, <3>1, SpecialAssumption
    <3>2. CASE q # wp
      BY <1>1, <1>2, <1>9, <2>4, <3>2 DEF ConvIInv, LineInOrder
    <3> QED
      BY <3>1, <3>2
  <2> QED
    BY <1>3, <2>1, <2>2, <2>3, <2>4 DEF LineInOrder, WrittenBefore, OneShot, ppa2pgidx
<1>12. ProbesFull'
  BY DEF conv_write_page, hotVars, ConvIInv, ProbesFull, FoundAt
<1>13. MappedSeen'
  BY <1>1 DEF MappedSeen
<1> QED
  BY <1>10, <1>11, <1>12, <1>13 DEF ConvIInv

-----------------------------------------------------------------------------
(* The hotness table.                                                       *)

(* A set of natural numbers has a least element.                            *)
LEMMA LeastElement ==
    ASSUME NEW T \in SUBSET Nat, T # {}
    PROVE  \E x \in T : \A y \in T : x <= y
<1> DEFINE Less == {p \in Nat \X Nat : p[1] < p[2]}
<1>1. OpToRel(<, Nat) = Less
  BY DEF OpToRel
<1>2. IsWellFoundedOn(OpToRel(<, Nat), Nat)
  BY NatLessThanWellFounded
<1>3. \E x \in T : \A y \in T : ~ (<<y, x>> \in Less)
  BY <1>1, <1>2, WFMin, ZenonT(30)
<1>4. \A x, y \in Nat : ~ (<<y, x>> \in Less) => x <= y
  OBVIOUS
<1> HIDE DEF Less
<1> QED
  BY <1>3, <1>4

LEMMA SlotOf ==
    ASSUME NEW l \in Nat, NEW i \in Nat
    PROVE  (l + i) % HotnessSize \in Slots
<1> DEFINE n == l + i
<1>1. n \in Nat
  OBVIOUS
<1> HIDE DEF n
<1>2. n % HotnessSize \in 0..HotnessSize - 1
  BY <1>1, Division, Sizes
<1> QED
  BY <1>2 DEF n, Slots

(* get_hotness_entry returns the first slot the probe may take: all slots   *)
(* before it on the way are occupied by others.                             *)
LEMMA ProbeFindsFirst ==
    ASSUME NEW l \in Lpns, Candidates(l) # {}
    PROVE  /\ get_hotness_entry(l) \in Slots
           /\ hotness[get_hotness_entry(l)].lpn \in {l, INVALID_LPN}
           /\ FoundAt(l, get_hotness_entry(l))
<1>1. Candidates(l) \in SUBSET Nat /\ l \in Nat
  BY Sizes DEF Candidates, Lpns
<1>2. \E i \in Candidates(l) : \A j \in Candidates(l) : i <= j
  <2> DEFINE C == Candidates(l)
  <2> HIDE DEF C
  <2>1. C \in SUBSET Nat /\ C # {}
    BY <1>1 DEF C
  <2>2. \E i \in C : \A j \in C : i <= j
    BY <2>1, LeastElement
  <2> QED
    BY <2>2 DEF C
<1> DEFINE i == CHOOSE i \in Candidates(l) : \A j \in Candidates(l) : i <= j
<1>3. /\ i \in Candidates(l) /\ \A j \in Candidates(l) : i <= j
      /\ get_hotness_entry(l) = (l + i) % HotnessSize
  BY <1>2 DEF get_hotness_entry
<1> HIDE DEF i
<1>4. i \in 0..HotnessSize - 1 /\ i \in Nat /\ hotness[(l + i) % HotnessSize].lpn \in {l, INVALID_LPN}
  BY <1>3, Sizes DEF Candidates
<1>5. \A j \in 0..i - 1 : hotness[(l + j) % HotnessSize].lpn \notin {l, INVALID_LPN}
  <2> SUFFICES ASSUME NEW j \in 0..i - 1, hotness[(l + j) % HotnessSize].lpn \in {l, INVALID_LPN}
               PROVE  FALSE
    OBVIOUS
  <2>1. j \in 0..HotnessSize - 1 /\ ~(i <= j)
    BY <1>4, Sizes
  <2> QED
    BY <1>3, <2>1 DEF Candidates
<1> QED
  BY <1>1, <1>3, <1>4, <1>5, SlotOf DEF FoundAt

(* An entry is the first thing its probe finds: no page has two, and        *)
(* get_hotness_entry returns it.                                            *)
LEMMA EntryIsFound ==
    ASSUME TypeOK, ProbesFull, NEW l \in Lpns, NEW s \in Slots, hotness[s].lpn = l
    PROVE  /\ \A t \in Slots : hotness[t].lpn = l => t = s
           /\ Candidates(l) # {} /\ get_hotness_entry(l) = s
<1>1. l # INVALID_LPN
  BY SpecialAssumption
<1>2. ASSUME NEW t \in Slots, hotness[t].lpn = l, NEW u, FoundAt(l, u), hotness[u].lpn \in {l, INVALID_LPN}
      PROVE  t = u
  <2>1. PICK i \in 0..HotnessSize - 1 :
             /\ t = (l + i) % HotnessSize
             /\ \A k \in 0..i - 1 : hotness[(l + k) % HotnessSize].lpn \notin {l, INVALID_LPN}
    BY <1>1, <1>2 DEF ProbesFull, FoundAt
  <2>2. PICK j \in 0..HotnessSize - 1 :
             /\ u = (l + j) % HotnessSize
             /\ \A k \in 0..j - 1 : hotness[(l + k) % HotnessSize].lpn \notin {l, INVALID_LPN}
    BY <1>2 DEF FoundAt
  <2>3. ~(i < j)
    BY <1>2, <2>1, <2>2
  <2>4. ~(j < i)
    BY <1>2, <2>1, <2>2
  <2>5. i = j
    BY <2>3, <2>4
  <2> QED
    BY <2>1, <2>2, <2>5
<1>3. Candidates(l) # {}
  <2>1. PICK i \in 0..HotnessSize - 1 : s = (l + i) % HotnessSize
    BY <1>1 DEF ProbesFull, FoundAt
  <2> QED
    BY <2>1 DEF Candidates
<1>4. FoundAt(l, s)
  BY <1>1 DEF ProbesFull
<1>5. \A t \in Slots : hotness[t].lpn = l => t = s
  BY <1>2, <1>4
<1>6. get_hotness_entry(l) = s
  BY <1>2, <1>3, ProbeFindsFirst
<1> QED
  BY <1>3, <1>5, <1>6

(* What an update does: nothing when the table is full of other pages, or   *)
(* it writes the page's entry, which it had or which was free.              *)
LEMMA Updated ==
    ASSUME TypeOK, NEW l \in Lpns, update_page_hotness(l)
    PROVE  \/ hotness' = hotness /\ Candidates(l) = {}
           \/ \E s \in Slots, e \in HotnessEntries :
                 /\ hotness' = [hotness EXCEPT ![s] = e]
                 /\ e.lpn = l /\ hotness[s].lpn \in {l, INVALID_LPN} /\ FoundAt(l, s)
<1>1. CASE Candidates(l) = {}
  BY <1>1 DEF update_page_hotness
<1>2. CASE Candidates(l) # {}
  <2> DEFINE s == get_hotness_entry(l)
             old == IF hotness[s].lpn = l THEN hotness[s] ELSE [FreeEntry EXCEPT !.lpn = l]
             seen == [old EXCEPT !.recent_access = @ + 1, !.last_access_time = now]
             aged == IF now - seen.last_access_time > AgingInterval
                     THEN [seen EXCEPT !.recent_access = @ - 1] ELSE seen
  <2>1. hotness' = [hotness EXCEPT ![s] = aged]
    BY <1>2 DEF update_page_hotness
  <2>2. s \in Slots /\ hotness[s].lpn \in {l, INVALID_LPN} /\ FoundAt(l, s)
    BY <1>2, ProbeFindsFirst
  <2> HIDE DEF s
  <2>3. old \in HotnessEntries /\ old.lpn = l
    <3>1. hotness[s] \in HotnessEntries
      BY <2>2 DEF TypeOK
    <3>2. [FreeEntry EXCEPT !.lpn = l] = [lpn |-> l, recent_access |-> 0, last_access_time |-> 0,
                                           storage_type |-> "SLC"]
      BY DEF FreeEntry
    <3>3. [FreeEntry EXCEPT !.lpn = l] \in HotnessEntries /\ [FreeEntry EXCEPT !.lpn = l].lpn = l
      BY <3>2 DEF HotnessEntries
    <3> QED
      BY <3>1, <3>3
  <2> HIDE DEF old
  <2>4. seen \in HotnessEntries /\ seen.lpn = l
    <3>1. now \in Nat /\ old.recent_access + 1 \in Int
      BY <2>3 DEF TypeOK, HotnessEntries
    <3> QED
      BY <2>3, <3>1 DEF HotnessEntries
  <2> HIDE DEF seen
  <2>5. aged \in HotnessEntries /\ aged.lpn = l
    <3>1. seen.recent_access - 1 \in Int
      BY <2>4 DEF HotnessEntries
    <3>2. [seen EXCEPT !.recent_access = @ - 1] \in HotnessEntries
          /\ [seen EXCEPT !.recent_access = @ - 1].lpn = l
      BY <2>4, <3>1 DEF HotnessEntries
    <3> QED
      BY <2>4, <3>2
  <2> HIDE DEF aged
  <2> QED
    BY <2>1, <2>2, <2>5
<1> QED
  BY <1>1, <1>2

(* An update keeps every entry findable: no slot that a probe passes        *)
(* becomes free or changes its page.                                        *)
LEMMA HotnessStep ==
    ASSUME TypeOK, ProbesFull, NEW l \in Lpns, update_page_hotness(l)
    PROVE  /\ hotness' \in [Slots -> HotnessEntries] /\ ProbesFull'
           /\ \A k \in Lpns : Candidates(k) = {} \/ (\E t \in Slots : hotness[t].lpn = k) \/ k = l
                => Candidates(k)' = {} \/ \E t \in Slots : hotness'[t].lpn = k
<1>1. CASE hotness' = hotness /\ Candidates(l) = {}
  <2>1. hotness' \in [Slots -> HotnessEntries] /\ ProbesFull'
    BY <1>1 DEF TypeOK, ProbesFull, FoundAt
  <2>2. \A k \in Lpns : Candidates(k)' = Candidates(k)
    BY <1>1 DEF Candidates
  <2> QED
    BY <1>1, <2>1, <2>2
<1>2. ASSUME NEW s \in Slots, NEW e \in HotnessEntries,
             hotness' = [hotness EXCEPT ![s] = e],
             e.lpn = l, hotness[s].lpn \in {l, INVALID_LPN}, FoundAt(l, s)
      PROVE  /\ hotness' \in [Slots -> HotnessEntries] /\ ProbesFull'
             /\ \A k \in Lpns : Candidates(k) = {} \/ (\E t \in Slots : hotness[t].lpn = k) \/ k = l
                  => Candidates(k)' = {} \/ \E t \in Slots : hotness'[t].lpn = k
  <2>1. /\ hotness \in [Slots -> HotnessEntries] /\ hotness' \in [Slots -> HotnessEntries]
        /\ hotness'[s] = e /\ \A t \in Slots : t # s => hotness'[t] = hotness[t]
    BY <1>2 DEF TypeOK
  <2>2. l # INVALID_LPN
    BY SpecialAssumption
  <2>3. ASSUME NEW k \in Lpns, NEW t \in Slots, hotness[t].lpn \notin {k, INVALID_LPN}
        PROVE  hotness'[t].lpn \notin {k, INVALID_LPN}
    BY <1>2, <2>1, <2>2, <2>3
  <2>4. \A k \in Lpns, j \in 0..HotnessSize - 1 : (k + j) % HotnessSize \in Slots
    BY SlotOf, Sizes DEF Lpns
  <2>5. ASSUME NEW k \in Lpns, NEW t \in Slots, FoundAt(k, t)
        PROVE  FoundAt(k, t)'
    <3>1. PICK i \in 0..HotnessSize - 1 :
               /\ t = (k + i) % HotnessSize
               /\ \A j \in 0..i - 1 : hotness[(k + j) % HotnessSize].lpn \notin {k, INVALID_LPN}
      BY <2>5 DEF FoundAt
    <3>2. \A j \in 0..i - 1 : hotness'[(k + j) % HotnessSize].lpn \notin {k, INVALID_LPN}
      <4> SUFFICES ASSUME NEW j \in 0..i - 1
                   PROVE  hotness'[(k + j) % HotnessSize].lpn \notin {k, INVALID_LPN}
        OBVIOUS
      <4>1. j \in 0..HotnessSize - 1
        BY Sizes
      <4>2. (k + j) % HotnessSize \in Slots
        BY <2>4, <4>1
      <4> QED
        BY <2>3, <3>1, <4>2
    <3> QED
      BY <3>1, <3>2 DEF FoundAt
  <2>6. ProbesFull'
    <3> SUFFICES ASSUME NEW t \in Slots, NEW k, k = hotness'[t].lpn, k # INVALID_LPN
                 PROVE  FoundAt(k, t)'
      BY DEF ProbesFull, FoundAt
    <3>1. k = hotness'[t].lpn
      OBVIOUS
    <3>2. k \in Lpns
      BY <2>1, <3>1 DEF HotnessEntries
    <3>3. FoundAt(k, t)
      BY <1>2, <2>1, <3>1 DEF ProbesFull
    <3> QED
      BY <2>5, <3>2, <3>3
  <2>7. ASSUME NEW k \in Lpns, Candidates(k) = {}
        PROVE  Candidates(k)' = {}
    <3>1. \A j \in 0..HotnessSize - 1 : hotness[(k + j) % HotnessSize].lpn \notin {k, INVALID_LPN}
      BY <2>7 DEF Candidates
    <3>2. \A j \in 0..HotnessSize - 1 : hotness'[(k + j) % HotnessSize].lpn \notin {k, INVALID_LPN}
      BY <2>3, <2>4, <3>1
    <3> QED
      BY <3>2 DEF Candidates
  <2>8. ASSUME NEW k \in Lpns, NEW t \in Slots, hotness[t].lpn = k
        PROVE  hotness'[t].lpn = k
    <3>1. k # INVALID_LPN
      BY SpecialAssumption
    <3> QED
      BY <1>2, <2>1, <2>8, <3>1
  <2> QED
    BY <1>2, <2>1, <2>6, <2>7, <2>8
<1> QED
  BY <1>1, <1>2, Updated

-----------------------------------------------------------------------------
(* The hybrid build writes a page.                                          *)

LEMMA HybridPageStep ==
    ASSUME ConvIInv, hybrid_write_page
    PROVE  ConvIInv'
<1> DEFINE l == cmd.lpn
<1>1. Hybrid /\ Hybrid' /\ Hybrid' \in BOOLEAN /\ TypeOK /\ ProbesFull /\ MappedSeen
  BY DEF hybrid_write_page, ConvIInv, TypeOK
<1>2. l \in Lpns
  BY Sizes, SMTT(30) DEF hybrid_write_page, ConvIInv, TypeOK, Lpns
<1>3. update_page_hotness(l)
  BY DEF hybrid_write_page
<1>4. /\ hotness' \in [Slots -> HotnessEntries] /\ ProbesFull'
      /\ \A k \in Lpns : Candidates(k) = {} \/ (\E t \in Slots : hotness[t].lpn = k) \/ k = l
           => Candidates(k)' = {} \/ \E t \in Slots : hotness'[t].lpn = k
  <2> HIDE DEF l
  <2> QED
    BY <1>1, <1>2, <1>3, HotnessStep
<1> DEFINE g == l % SlcLuns
           p == lunwp[g]
           q == get_new_page_DA(p)
<1>5. g \in 0..SlcLuns - 1
  <2>1. SlcLuns \in Nat \ {0}
    BY Sizes DEF SlcLuns
  <2>2. l \in Nat
    BY <1>2, Sizes DEF Lpns
  <2> HIDE DEF l
  <2> QED
    BY <2>1, <2>2, Division
<1>6. p \in LunWritePointers /\ lunwp \in [0..SlcLuns - 1 -> LunWritePointers]
  BY <1>1, <1>5 DEF TypeOK
<1>7. q \in Pages
  <2>1. p.ch \in Nat /\ p.lun \in Nat /\ p.blk \in Nat /\ p.pg \in Nat
    BY <1>6 DEF LunWritePointers
  <2>2. p.ch % slc_channels \in Nat /\ p.lun % slc_luns_per_ch \in Nat
    <3> DEFINE c == p.ch
               u == p.lun
    <3>1. c \in Nat /\ u \in Nat
      BY <2>1
    <3> HIDE DEF c, u
    <3>2. c % slc_channels \in 0..slc_channels - 1 /\ u % slc_luns_per_ch \in 0..slc_luns_per_ch - 1
      BY <3>1, Division, Sizes
    <3> QED
      BY <3>2, Sizes DEF c, u
  <2> DEFINE a == [ch |-> p.ch % slc_channels, lun |-> p.lun % slc_luns_per_ch, blk |-> p.blk, pg |-> p.pg]
  <2>3. a.ch \in Nat /\ a.lun \in Nat /\ a.blk \in Nat /\ a.pg \in Nat /\ q = get_new_page(a)
    BY <2>1, <2>2 DEF get_new_page_DA
  <2> HIDE DEF a, q
  <2> QED
    BY <2>3, Addressed
<1>8. bug' = HybridBug(p)
  BY DEF hybrid_write_page
<1>9. bug' \in {"none", "pg_valid", "pl", "pgidx", "check_addr", "curline"}
  <2>1. MigrationFails \in BOOLEAN
    BY DEF MigrationFails
  <2>2. ppa2pgidx(q) \in Int /\ tt_pgs \in Int
    BY <1>7, Sizes DEF Pages, ppa2pgidx, pgs_per_ch, pgs_per_lun, tt_pgs
  <2> HIDE DEF p
  <2> QED
    BY <1>8, <2>1, <2>2 DEF HybridBug
<1>10. \/ UNCHANGED <<maptbl, rmap, lunwp>>
       \/ MapPage(l, q) /\ lunwp' = [lunwp EXCEPT ![g].pg = @ + 1]
  BY DEF hybrid_write_page
<1> HIDE DEF l, g, q
<1>11. /\ maptbl' = [k \in Lpns |-> maptbl'[k]]
       /\ \A k \in Lpns : maptbl'[k] = UNMAPPED \/ maptbl'[k] \in Pages
       /\ \A k \in Lpns : maptbl'[k] # UNMAPPED => maptbl[k] # UNMAPPED \/ k = l
       /\ rmap' \in [0..tt_pgs - 1 -> Lpns \cup {INVALID_LPN}]
  <2>1. /\ maptbl = [k \in Lpns |-> maptbl[k]] /\ rmap \in [0..tt_pgs - 1 -> Lpns \cup {INVALID_LPN}]
        /\ \A k \in Lpns : maptbl[k] = UNMAPPED \/ maptbl[k] \in Pages
    BY <1>1 DEF TypeOK
  <2>2. CASE UNCHANGED <<maptbl, rmap, lunwp>>
    BY <2>1, <2>2
  <2>3. CASE MapPage(l, q)
    <3>1. maptbl' = [maptbl EXCEPT ![l] = q] /\ rmap' = [rmap EXCEPT ![ppa2pgidx(q)] = l]
      BY <2>3 DEF MapPage
    <3>2. DOMAIN maptbl = Lpns
      BY <2>1
    <3>3. maptbl' = [k \in Lpns |-> IF k = l THEN q ELSE maptbl[k]]
      BY <3>1, <3>2
    <3>4. rmap' \in [0..tt_pgs - 1 -> Lpns \cup {INVALID_LPN}]
      BY <1>2, <2>1, <3>1
    <3> HIDE DEF q
    <3> QED
      BY <1>7, <2>1, <3>3, <3>4
  <2> QED
    BY <1>10, <2>2, <2>3
<1>12. lunwp' \in [0..SlcLuns - 1 -> LunWritePointers]
  <2>1. CASE UNCHANGED lunwp
    BY <1>6, <2>1
  <2>2. CASE lunwp' = [lunwp EXCEPT ![g].pg = @ + 1]
    <3>1. lunwp' = [lunwp EXCEPT ![g] = [p EXCEPT !.pg = @ + 1]]
      BY <2>2
    <3>2. [p EXCEPT !.pg = @ + 1] \in LunWritePointers
      BY <1>6 DEF LunWritePointers
    <3> HIDE DEF p
    <3> QED
      BY <1>5, <1>6, <3>1, <3>2
  <2> QED
    BY <1>10, <2>1, <2>2
<1>13. TypeOK'
  <2>1. cmd' \in [lpn : Nat, left : Nat] /\ cmd'.lpn + cmd'.left <= NLpns
    <3>1. /\ cmd.lpn \in Nat /\ cmd.left \in Nat /\ cmd.left > 0 /\ cmd.lpn + cmd.left <= NLpns
          /\ cmd' = Rest(cmd.lpn + 1, cmd.left - 1)
      BY DEF hybrid_write_page, Finish, ConvIInv, TypeOK
    <3> QED
      BY <3>1, RestTypes
  <2>2. UNCHANGED <<wp, now>>
    BY DEF hybrid_write_page
  <2> QED
    BY <1>1, <1>4, <1>9, <1>11, <1>12, <2>1, <2>2 DEF TypeOK
<1>14. LineInOrder'
  BY <1>1 DEF LineInOrder
<1>15. MappedSeen'
  <2> SUFFICES ASSUME NEW k \in Lpns, maptbl'[k] # UNMAPPED
               PROVE  Candidates(k)' = {} \/ \E t \in Slots : hotness'[t].lpn = k
    BY DEF MappedSeen, Candidates
  <2>1. maptbl[k] # UNMAPPED \/ k = l
    BY <1>11
  <2> QED
    BY <1>1, <1>4, <2>1 DEF MappedSeen
<1> QED
  BY <1>4, <1>13, <1>14, <1>15 DEF ConvIInv

-----------------------------------------------------------------------------
(* The whole FTL.                                                           *)

LEMMA ConvIInvInit ==
    Init => ConvIInv
<1> SUFFICES ASSUME Init
             PROVE  ConvIInv
  OBVIOUS
<1>1. /\ Hybrid \in BOOLEAN
      /\ maptbl = [l \in Lpns |-> UNMAPPED] /\ rmap = [i \in 0..tt_pgs - 1 |-> INVALID_LPN]
      /\ wp = [ch |-> 0, lun |-> 0, blk |-> 0, pg |-> 0] /\ hotness = [s \in Slots |-> FreeEntry]
      /\ now \in Nat /\ cmd = [lpn |-> 0, left |-> 0] /\ bug = "none"
  BY GeometryAssumption, Sizes DEF Init, NoCmd, Rest
<1>2. Hybrid => lunwp \in [0..SlcLuns - 1 -> LunWritePointers]
  BY Sizes DEF Init
<1>3. FreeEntry \in HotnessEntries /\ FreeEntry.lpn = INVALID_LPN
  BY DEF FreeEntry, HotnessEntries
<1>4. TypeOK
  <2>1. wp \in WritePointers
    BY <1>1, Sizes DEF WritePointers
  <2>2. hotness \in [Slots -> HotnessEntries]
    BY <1>1, <1>3
  <2>3. cmd \in [lpn : Nat, left : Nat] /\ cmd.lpn + cmd.left <= NLpns
    BY <1>1, Sizes
  <2> QED
    BY <1>1, <1>2, <2>1, <2>2, <2>3 DEF TypeOK
<1>5. LineInOrder
  <2>1. ASSUME NEW p \in Ppas
        PROVE  ~WrittenBefore(p, wp)
    <3>1. /\ p.ch \in Nat /\ p.lun \in Nat /\ p.pg \in Nat
          /\ wp.ch = 0 /\ wp.lun = 0 /\ wp.pg = 0
      BY <1>1, Sizes DEF Ppas
    <3>2. OneShot(p) \in Nat
      BY <3>1, Division, Sizes DEF OneShot
    <3>3. OneShot(wp) = 0
      BY <3>1, Sizes DEF OneShot
    <3> QED
      BY <3>1, <3>2, <3>3 DEF WrittenBefore
  <2> QED
    BY <1>1, <2>1, Sizes DEF LineInOrder
<1>6. ProbesFull
  BY <1>1, <1>3 DEF ProbesFull
<1>7. MappedSeen
  BY <1>1 DEF MappedSeen
<1> QED
  BY <1>4, <1>5, <1>6, <1>7 DEF ConvIInv

(* The actions that touch neither maps nor table.                           *)
LEMMA MapsUntouched ==
    ASSUME ConvIInv, UNCHANGED <<Hybrid, mapVars, hotness, bug>>,
           now' \in Nat, cmd' \in [lpn : Nat, left : Nat], cmd'.lpn + cmd'.left <= NLpns
    PROVE  ConvIInv'
<1>1. UNCHANGED <<Hybrid, maptbl, rmap, wp, lunwp, hotness, bug>>
  BY DEF mapVars
<1>2. TypeOK'
  BY <1>1 DEF ConvIInv, TypeOK
<1>3. LineInOrder'
  BY <1>1 DEF ConvIInv, LineInOrder, WrittenBefore, OneShot, ppa2pgidx
<1>4. ProbesFull'
  BY <1>1 DEF ConvIInv, ProbesFull, FoundAt
<1>5. MappedSeen'
  BY <1>1 DEF ConvIInv, MappedSeen, Candidates
<1> QED
  BY <1>2, <1>3, <1>4, <1>5 DEF ConvIInv

LEMMA ConvIInvStep ==
    ConvIInv /\ [Next]_vars => ConvIInv'
<1> SUFFICES ASSUME ConvIInv, [Next]_vars
             PROVE  ConvIInv'
  OBVIOUS
<1>1. now \in Nat /\ cmd \in [lpn : Nat, left : Nat] /\ cmd.lpn + cmd.left <= NLpns
  BY DEF ConvIInv, TypeOK
<1>2. ASSUME NEW lba \in Lbas, NEW n \in 1..SecsPerCmd, conv_write(lba, n)
      PROVE  ConvIInv'
  <2>1. cmd' \in [lpn : Nat, left : Nat] /\ cmd'.lpn + cmd'.left <= NLpns
    <3>1. cmd' = cmd \/ cmd' = Rest(lba \div secs_per_pg, n \div secs_per_pg)
      BY <1>2 DEF conv_write
    <3>2. PICK h : h = HostLpns[Hybrid]
      OBVIOUS
    <3>3. lba + n <= h * secs_per_pg /\ h \in Nat /\ h <= NLpns
      <4>1. h \in 1..NLpns
        BY <3>2, GeometryAssumption DEF ConvIInv, TypeOK
      <4>2. lba + n <= h * secs_per_pg
        BY <1>2, <3>2 DEF conv_write
      <4> QED
        BY <4>1, <4>2, Sizes
    <3>4. lba \in Nat /\ n \in Nat
      BY Sizes DEF Lbas
    <3>5. /\ lba \div secs_per_pg \in Nat /\ n \div secs_per_pg \in Nat
          /\ (lba \div secs_per_pg) + (n \div secs_per_pg) <= h
      BY <3>3, <3>4, PagesOfCommand, Sizes
    <3>6. (lba \div secs_per_pg) + (n \div secs_per_pg) <= NLpns
      BY <3>3, <3>5, Sizes
    <3> QED
      BY <1>1, <3>1, <3>5, <3>6, RestTypes
  <2>2. UNCHANGED <<Hybrid, mapVars, hotness, bug, now>>
    BY <1>2 DEF conv_write, hotVars
  <2> QED
    BY <1>1, <2>1, <2>2, MapsUntouched
<1>3. CASE conv_write_page
  BY <1>3, ConvPageStep
<1>4. CASE hybrid_write_page
  BY <1>4, HybridPageStep
<1>5. CASE WritebackDone
  BY <1>1, <1>5, MapsUntouched DEF WritebackDone, hotVars
<1>6. CASE Tick
  BY <1>1, <1>6, MapsUntouched DEF Tick, hotVars
<1>7. CASE UNCHANGED vars
  BY <1>1, <1>7, MapsUntouched DEF vars, hotVars
<1> QED
  BY <1>2, <1>3, <1>4, <1>5, <1>6, <1>7 DEF Next

(* The inductive invariant holds in every reachable state.                  *)
THEOREM Invariance == Spec => []ConvIInv
<1> QED
  BY ConvIInvInit, ConvIInvStep, PTL DEF Spec

(* The types of the FTL's state: the write pointer stays in its line, a     *)
(* command is never longer than the namespace, and the conventional build   *)
(* stops nowhere but at the end of a line.                                  *)
THEOREM TypeCorrect == Spec => []TypeOK
<1>1. ConvIInv => TypeOK
  BY DEF ConvIInv
<1> QED
  BY <1>1, Invariance, PTL

(* set_rmap_ent keeps rmap the inverse of maptbl in the conventional build, *)
(* for any geometry: no page of a line is handed out twice.                 *)
THEOREM RmapInvertsMaptbl == Spec => []MapsInverse
<1>1. ConvIInv => MapsInverse
  BY DEF ConvIInv, LineInOrder, MapsInverse
<1> QED
  BY <1>1, Invariance, PTL

(* advance_write_pointer leaves a line only when every page of it, on every *)
(* channel and LUN, carries an lpn.                                         *)
THEOREM LinesFilled == Spec => []LineFilledCompletely
<1>1. ConvIInv => LineFilledCompletely
  <2> SUFFICES ASSUME ConvIInv, bug = "ipc", NEW p \in Ppas, p.blk = wp.blk
               PROVE  rmap[ppa2pgidx(p)] # INVALID_LPN
    BY DEF LineFilledCompletely
  <2>1. ~Hybrid /\ wp \in WritePointers /\ wp.blk = 0
    BY DEF ConvIInv, TypeOK, WritePointers
  <2>2. wp.pg = pgs_per_blk
    BY <2>1 DEF ConvIInv, LineInOrder
  <2>3. WrittenBefore(p, wp)
    BY <2>2, LastBefore
  <2> QED
    BY <2>1, <2>3 DEF ConvIInv, LineInOrder
<1> QED
  BY <1>1, Invariance, PTL

(* Every page the hybrid build maps has one entry in the hotness table,     *)
(* and probing finds it, unless the table was full when it was written.     *)
THEOREM HotnessRight == Spec => []HotnessTracksPages
<1>1. ConvIInv => HotnessTracksPages
  <2> SUFFICES ASSUME ConvIInv, Hybrid
               PROVE  HotnessTracksPages
    BY DEF HotnessTracksPages
  <2>1. TypeOK /\ ProbesFull /\ MappedSeen
    BY DEF ConvIInv
  <2>2. ASSUME NEW s \in Slots, NEW t \in Slots, s # t, hotness[s].lpn # INVALID_LPN
        PROVE  hotness[s].lpn # hotness[t].lpn
    <3>1. PICK l : l = hotness[s].lpn
      OBVIOUS
    <3>2. l \in Lpns
      BY <2>1, <2>2, <3>1 DEF TypeOK, HotnessEntries
    <3> QED
      BY <2>1, <2>2, <3>1, <3>2, EntryIsFound
  <2>3. ASSUME NEW l \in Lpns, maptbl[l] # UNMAPPED, Candidates(l) # {}
        PROVE  hotness[get_hotness_entry(l)].lpn = l
    <3>1. PICK s \in Slots : hotness[s].lpn = l
      BY <2>1, <2>3 DEF MappedSeen
    <3>2. get_hotness_entry(l) = s
      BY <2>1, <3>1, EntryIsFound
    <3> QED
      BY <3>1, <3>2
  <2> QED
    BY <2>2, <2>3 DEF HotnessTracksPages
<1> QED
  BY <1>1, Invariance, PTL

-----------------------------------------------------------------------------
(* The heap of PQueue.  Positions are numbers from 1 to avail - 1; Path(i)  *)
(* holds one position of every level from the root down to i.               *)
LEMMA HeapSize ==
    /\ avail \in Nat /\ avail >= 1
    /\ Positions = 1..avail - 1
    /\ Cardinality(Items) = avail - 1
<1>1. Cardinality(Items) \in Nat
  BY ItemsAssumption, FS_CardinalityType
<1> DEFINE c == Cardinality(Items)
<1>2. c \in Nat /\ avail = c + 1 /\ Positions = 1..avail - 1
  BY <1>1 DEF avail, Positions
<1> HIDE DEF c
<1>3. avail \in Nat /\ avail >= 1 /\ c = avail - 1
  BY <1>2
<1> QED
  BY <1>2, <1>3 DEF c

(* Positions 2j and 2j + 1 have the parent j.                               *)
LEMMA Parent ==
    ASSUME NEW j \in Nat, j >= 1
    PROVE  /\ parent(j) \in Nat /\ parent(j) < j
           /\ j > 1 => parent(j) >= 1
           /\ j = 2 * parent(j) \/ j = 2 * parent(j) + 1
BY DEF parent

Ancestors(up) == up = [j \in 0..avail |-> IF j = 0 THEN {} ELSE {j} \cup up[parent(j)]]

(* The recursive functions of Path, bubble_up and percolate_down exist: by  *)
(* least counterexample over the part of their domain they are defined on.  *)
LEMMA AncestorsExist == \E up : Ancestors(up)
<1> DEFINE S == SUBSET Nat
           Part(n, f) == \A j \in 0..n : f[j] = IF j = 0 THEN {} ELSE {j} \cup f[parent(j)]
           T == {n \in Nat : ~ \E f \in [0..n -> S] : Part(n, f)}
<1>1. \A n \in Nat : \E f \in [0..n -> S] : Part(n, f)
  <2>1. SUFFICES ASSUME T # {} PROVE FALSE
    OBVIOUS
  <2>2. PICK n \in T : \A y \in T : n <= y
    <3> HIDE DEF T
    <3>1. T \in SUBSET Nat
      BY DEF T
    <3> QED
      BY <2>1, <3>1, LeastElement
  <2>3. n \in Nat /\ ~ \E f \in [0..n -> S] : Part(n, f)
    BY <2>2
  <2>4. CASE n = 0
    <3> DEFINE f == [j \in 0..0 |-> {}]
    <3>1. f \in [0..0 -> S] /\ Part(0, f)
      OBVIOUS
    <3> QED
      BY <2>3, <2>4, <3>1
  <2>5. CASE n # 0
    <3>1. n - 1 \in Nat /\ n - 1 < n /\ n >= 1
      BY <2>3, <2>5
    <3>2. n - 1 \notin T
      <4> HIDE DEF T
      <4> QED
        BY <2>2, <2>3, <3>1
    <3>3. PICK g \in [0..n - 1 -> S] : Part(n - 1, g)
      BY <3>1, <3>2
    <3>4. parent(n) \in 0..n - 1
      BY <2>3, <3>1, Parent
    <3> DEFINE f == [j \in 0..n |-> IF j = n THEN {n} \cup g[parent(n)] ELSE g[j]]
    <3>5. f \in [0..n -> S]
      <4>1. {n} \cup g[parent(n)] \in S
        BY <2>3, <3>3, <3>4
      <4>2. \A j \in 0..n : j # n => j \in 0..n - 1 /\ g[j] \in S
        BY <2>3, <3>1, <3>3
      <4> QED
        BY <4>1, <4>2
    <3>6. ASSUME NEW j \in 0..n PROVE f[j] = IF j = 0 THEN {} ELSE {j} \cup f[parent(j)]
      <4>1. CASE j = n
        <5>1. parent(n) \in 0..n /\ parent(n) # n
          BY <2>3, <3>1, <3>4
        <5>2. j # 0 /\ f[j] = {n} \cup g[parent(n)] /\ f[parent(j)] = g[parent(n)]
          BY <2>5, <4>1, <5>1
        <5> HIDE DEF f
        <5> QED
          BY <4>1, <5>2
      <4>2. CASE j # n
        <5>1. j \in 0..n - 1 /\ f[j] = g[j]
          BY <2>3, <3>1, <4>2
        <5>2. j # 0 => parent(j) \in 0..n /\ parent(j) # n
          BY <2>3, <5>1, Parent
        <5>3. j # 0 => f[parent(j)] = g[parent(j)]
          BY <5>2
        <5> HIDE DEF f
        <5> QED
          BY <3>3, <5>1, <5>3
      <4> QED
        BY <4>1, <4>2
    <3>7. Part(n, f)
      BY <3>6
    <3> QED
      BY <2>3, <3>5, <3>7
  <2> QED
    BY <2>4, <2>5
<1>2. PICK f \in [0..avail -> S] : Part(avail, f)
  BY <1>1, HeapSize
<1>3. f = [j \in 0..avail |-> f[j]]
  BY <1>2
<1>4. [j \in 0..avail |-> f[j]] = [j \in 0..avail |-> IF j = 0 THEN {} ELSE {j} \cup f[parent(j)]]
  BY <1>2
<1> QED
  BY <1>3, <1>4 DEF Ancestors

(* The recursion of Path.                                                   *)
LEMMA PathStep ==
    /\ Path(0) = {}
    /\ \A i \in 1..avail : Path(i) = {i} \cup Path(parent(i))
<1>1. PICK up : up = CHOOSE f : Ancestors(f)
  OBVIOUS
<1>2. Ancestors(up)
  BY <1>1, AncestorsExist
<1>3. \A i \in 0..avail : Path(i) = up[i]
  BY <1>1 DEF Path, Ancestors
<1>4. \A j \in 0..avail : up[j] = IF j = 0 THEN {} ELSE {j} \cup up[parent(j)]
  BY <1>2 DEF Ancestors
<1>5. Path(0) = {}
  <2>1. 0 \in 0..avail
    BY HeapSize
  <2>2. up[0] = {}
    BY <1>4, <2>1
  <2> QED
    BY <1>3, <2>1, <2>2
<1>6. ASSUME NEW i \in 1..avail PROVE Path(i) = {i} \cup Path(parent(i))
  <2>1. i \in 0..avail /\ i # 0 /\ parent(i) \in 0..avail
    BY <1>6, HeapSize, Parent
  <2> QED
    BY <1>3, <1>4, <2>1
<1> QED
  BY <1>5, <1>6

(* A path holds the position it starts from, with every position but the    *)
(* root its parent, with every position but the last one child, and no      *)
(* position between a child and its parent.                                 *)
PathWell(i) ==
    /\ i \in Path(i)
    /\ \A j \in Path(i) : j \in 1..i
    /\ \A j \in Path(i) : j > 1 => parent(j) \in Path(i)
    /\ \A j \in Path(i) : j < i => \E k \in Path(i) : k > 1 /\ parent(k) = j
    /\ \A j, k \in Path(i) : j < k => j <= parent(k)

LEMMA PathIsWell ==
    ASSUME NEW i \in 1..avail
    PROVE  PathWell(i)
<1> DEFINE T == {j \in 1..avail : ~PathWell(j)}
<1>1. SUFFICES ASSUME T # {} PROVE FALSE
  OBVIOUS
<1>2. PICK n \in T : \A y \in T : n <= y
  <2> HIDE DEF T
  <2>1. T \in SUBSET Nat
    BY HeapSize DEF T
  <2> QED
    BY <1>1, <2>1, LeastElement
<1>3. n \in 1..avail /\ ~PathWell(n) /\ n \in Nat /\ avail \in Nat
  BY <1>2, HeapSize
<1>4. PICK q : q = parent(n)
  OBVIOUS
<1>5. q \in Nat /\ q < n /\ (n > 1 => q >= 1)
  BY <1>3, <1>4, Parent
<1>6. Path(n) = {n} \cup Path(q)
  BY <1>3, <1>4, PathStep
<1>7. CASE n = 1
  <2>1. Path(n) = {n}
    <3>1. q = 0
      BY <1>5, <1>7
    <3> QED
      BY <1>6, <3>1, PathStep
  <2> QED
    BY <1>3, <1>7, <2>1 DEF PathWell
<1>8. CASE n > 1
  <2>1. q \in 1..avail /\ q \notin T
    <3> HIDE DEF T
    <3> QED
      BY <1>2, <1>3, <1>5, <1>8
  <2>2. PathWell(q)
    BY <2>1
  <2> DEFINE P == Path(n)
             Q == Path(q)
  <2>3. q \in Q
        /\ (\A j \in Q : j \in 1..q)
        /\ (\A j \in Q : j > 1 => parent(j) \in Q)
        /\ (\A j \in Q : j < q => \E k \in Q : k > 1 /\ parent(k) = j)
        /\ (\A j, k \in Q : j < k => j <= parent(k))
    BY <2>2 DEF PathWell
  <2>4. P = {n} \cup Q
    BY <1>6
  <2> HIDE DEF P, Q
  <2>5. n \in P /\ \A j \in P : j \in 1..n
    BY <1>3, <1>5, <1>8, <2>3, <2>4
  <2>6. \A j \in P : j > 1 => parent(j) \in P
    BY <1>4, <2>3, <2>4
  <2>7. ASSUME NEW j \in P, j < n PROVE \E k \in P : k > 1 /\ parent(k) = j
    <3>1. j \in Q
      BY <1>3, <2>4, <2>7
    <3>2. CASE j = q
      BY <1>4, <1>8, <2>4, <3>2
    <3>3. CASE j # q
      <4>1. j < q
        BY <1>5, <2>3, <3>1, <3>3
      <4> QED
        BY <2>3, <2>4, <3>1, <4>1
    <3> QED
      BY <3>2, <3>3
  <2>8. ASSUME NEW j \in P, NEW k \in P, j < k PROVE j <= parent(k)
    <3>1. j # n
      BY <1>3, <2>5, <2>8
    <3>2. j \in Q
      BY <2>4, <3>1
    <3>3. CASE k = n
      BY <1>4, <2>3, <3>2, <3>3
    <3>4. CASE k # n
      BY <2>3, <2>4, <2>8, <3>2, <3>4
    <3> QED
      BY <3>3, <3>4
  <2>9. PathWell(n)
    BY <2>5, <2>6, <2>7, <2>8 DEF PathWell, P
  <2> QED
    BY <1>3, <2>9
<1> QED
  BY <1>3, <1>7, <1>8

(* The next position down the path.                                         *)
LEMMA PathChild ==
    ASSUME NEW i \in 1..avail, NEW j \in Path(i), j < i
    PROVE  \E k \in Path(i) : /\ k > j /\ k > 1 /\ parent(k) = j
                              /\ Least({m \in Path(i) : m > j}) = k
                              /\ \A m \in Path(i) : m > j => k <= m
<1>1. PathWell(i) /\ avail \in Nat
  BY PathIsWell, HeapSize
<1>2. PICK k \in Path(i) : k > 1 /\ parent(k) = j
  BY <1>1 DEF PathWell
<1>3. \A m \in Path(i) : m \in Nat /\ m >= 1
  BY <1>1 DEF PathWell
<1>4. k > j
  BY <1>2, <1>3, Parent
<1>5. ASSUME NEW m \in Path(i), m > j PROVE k <= m
  <2>1. ~(m < k)
    BY <1>1, <1>2, <1>3, <1>5 DEF PathWell
  <2> QED
    BY <1>3, <2>1
<1> DEFINE S == {m \in Path(i) : m > j}
<1>6. k \in S /\ (\A m \in S : k <= m) /\ \A m \in S : m \in Nat
  BY <1>3, <1>4, <1>5
<1> HIDE DEF S
<1>7. Least(S) = k
  <2>1. Least(S) \in S /\ \A m \in S : Least(S) <= m
    BY <1>6 DEF Least
  <2> QED
    BY <1>6, <2>1
<1> QED
  BY <1>2, <1>4, <1>5, <1>7 DEF S

(* bubble_up stops at the first position on the way to the root where it    *)
(* need not go on.                                                          *)
Rises(a, p, x, j) == j > 1 /\ cmppri(p[a[parent(j)]], p[x])

Climbs(a, p, x, f) == f = [j \in Positions |-> IF Rises(a, p, x, j) THEN f[parent(j)] ELSE j]

LEMMA ClimbExists ==
    ASSUME NEW a, NEW p, NEW x
    PROVE  \E f : Climbs(a, p, x, f)
<1> DEFINE S == Nat
           Step(f, j) == IF Rises(a, p, x, j) THEN f[parent(j)] ELSE j
           Part(n, f) == \A j \in 1..n : f[j] = Step(f, j)
           T == {n \in Nat : ~ \E f \in [1..n -> S] : Part(n, f)}
<1>1. \A n \in Nat : \E f \in [1..n -> S] : Part(n, f)
  <2>1. SUFFICES ASSUME T # {} PROVE FALSE
    OBVIOUS
  <2>2. PICK n \in T : \A y \in T : n <= y
    <3> HIDE DEF T
    <3>1. T \in SUBSET Nat
      BY DEF T
    <3> QED
      BY <2>1, <3>1, LeastElement
  <2>3. n \in Nat /\ ~ \E f \in [1..n -> S] : Part(n, f)
    BY <2>2
  <2>4. CASE n = 0
    <3> DEFINE f == [j \in 1..0 |-> 0]
    <3>1. f \in [1..0 -> S] /\ Part(0, f)
      OBVIOUS
    <3> QED
      BY <2>3, <2>4, <3>1
  <2>5. CASE n # 0
    <3>1. n - 1 \in Nat /\ n - 1 < n /\ n >= 1
      BY <2>3, <2>5
    <3>2. n - 1 \notin T
      <4> HIDE DEF T
      <4> QED
        BY <2>2, <2>3, <3>1
    <3>3. PICK g \in [1..n - 1 -> S] : Part(n - 1, g)
      BY <3>1, <3>2
    <3>4. Rises(a, p, x, n) => parent(n) \in 1..n - 1
      BY <2>3, <3>1, Parent DEF Rises
    <3> DEFINE f == [j \in 1..n |-> IF j = n THEN Step(g, n) ELSE g[j]]
    <3>5. f \in [1..n -> S]
      <4>1. Step(g, n) \in S
        BY <2>3, <3>3, <3>4
      <4>2. \A j \in 1..n : j # n => j \in 1..n - 1 /\ g[j] \in S
        BY <2>3, <3>1, <3>3
      <4> QED
        BY <4>1, <4>2
    <3>6. ASSUME NEW j \in 1..n PROVE f[j] = Step(f, j)
      <4>1. j \in Nat /\ j >= 1
        BY <2>3
      <4>2. Rises(a, p, x, j) => parent(j) \in 1..n /\ parent(j) # n /\ f[parent(j)] = g[parent(j)]
        <5>1. Rises(a, p, x, j) => parent(j) \in 1..n /\ parent(j) # n
          BY <2>3, <4>1, Parent DEF Rises
        <5> QED
          BY <5>1
      <4>3. Step(f, j) = Step(g, j)
        BY <4>2
      <4>4. CASE j = n
        <5>1. f[j] = Step(g, j)
          BY <4>4
        <5> HIDE DEF f
        <5> QED
          BY <4>3, <5>1
      <4>5. CASE j # n
        <5>1. j \in 1..n - 1 /\ f[j] = g[j]
          BY <2>3, <3>1, <4>5
        <5> HIDE DEF f, Step
        <5> QED
          BY <3>3, <4>3, <5>1
      <4> QED
        BY <4>4, <4>5
    <3>7. Part(n, f)
      BY <3>6
    <3> QED
      BY <2>3, <3>5, <3>7
  <2> QED
    BY <2>4, <2>5
<1>2. PICK f \in [Positions -> S] : \A j \in Positions : f[j] = Step(f, j)
  BY <1>1, HeapSize, SMTT(30)
<1>3. f = [j \in Positions |-> f[j]]
  BY <1>2
<1>4. [j \in Positions |-> f[j]] = [j \in Positions |-> Step(f, j)]
  BY <1>2
<1> QED
  BY <1>3, <1>4 DEF Climbs

(* The positions from s to i, s on the way from i to the root.              *)
UpTo(i, s) == {j \in Path(i) : j >= s}

LEMMA BubbleStops ==
    ASSUME NEW a, NEW p, NEW i \in Positions
    PROVE  \E s \in Path(i) :
              /\ bubble_up(a, p, i) = [array |-> MovedUp(a, i, s), moved |-> UpTo(i, s)]
              /\ \A k \in Path(i) : k > s => Rises(a, p, a[i], k)
              /\ ~Rises(a, p, a[i], s)
<1> DEFINE x == a[i]
<1>1. PICK f : f = CHOOSE g : Climbs(a, p, x, g)
  OBVIOUS
<1>2. Climbs(a, p, x, f)
  BY <1>1, ClimbExists
<1>3. bubble_up(a, p, i) = [array |-> MovedUp(a, i, f[i]), moved |-> UpTo(i, f[i])]
  BY <1>1 DEF bubble_up, Climbs, Rises, UpTo
<1>4. \A j \in Positions : f[j] = IF Rises(a, p, x, j) THEN f[parent(j)] ELSE j
  BY <1>2 DEF Climbs
<1> DEFINE Good(j) == /\ f[j] \in Path(j)
                      /\ \A k \in Path(j) : k > f[j] => Rises(a, p, x, k)
                      /\ ~Rises(a, p, x, f[j])
           T == {j \in Positions : ~Good(j)}
<1>5. ASSUME T # {} PROVE FALSE
  <2>1. T \in SUBSET Nat
    BY HeapSize
  <2>2. PICK n \in T : \A y \in T : n <= y
    <3> HIDE DEF T
    <3> QED
      BY <1>5, <2>1, LeastElement
  <2>3. n \in Positions /\ ~Good(n) /\ n \in Nat /\ n >= 1 /\ n \in 1..avail
    BY <2>2, HeapSize
  <2>4. PathWell(n)
    BY <2>3, PathIsWell
  <2>5. CASE ~Rises(a, p, x, n)
    <3>1. f[n] = n
      BY <1>4, <2>3, <2>5
    <3>2. n \in Path(n) /\ \A k \in Path(n) : ~(k > n)
      BY <2>3, <2>4 DEF PathWell
    <3> QED
      BY <2>3, <2>5, <3>1, <3>2
  <2>6. CASE Rises(a, p, x, n)
    <3> DEFINE q == parent(n)
    <3>1. q \in Positions /\ q < n /\ f[n] = f[q]
      <4>1. n > 1
        BY <2>6 DEF Rises
      <4>2. q \in Nat /\ q >= 1 /\ q < n
        BY <2>3, <4>1, Parent
      <4>3. q \in Positions
        BY <2>3, <4>2, HeapSize
      <4> QED
        BY <1>4, <2>3, <2>6, <4>2, <4>3
    <3>2. Good(q)
      <4>1. q \notin T
        <5> HIDE DEF T, q
        <5> QED
          BY <2>1, <2>2, <2>3, <3>1, HeapSize
      <4> QED
        BY <3>1, <4>1
    <3>3. Path(n) = {n} \cup Path(q)
      BY <2>3, PathStep
    <3> QED
      BY <2>3, <2>6, <3>1, <3>2, <3>3
  <2> QED
    BY <2>5, <2>6
<1>6. Good(i)
  BY <1>5
<1> QED
  BY <1>3, <1>6

-----------------------------------------------------------------------------
(* percolate_down.  maxchild is the child with the least priority.          *)
LEMMA MaxChild ==
    ASSUME NEW a, NEW p, NEW n \in 1..avail, NEW j \in Positions
    PROVE  /\ maxchild(a, p, n, j) # 0 =>
                 /\ maxchild(a, p, n, j) \in 2..n - 1
                 /\ maxchild(a, p, n, j) \in Positions
                 /\ parent(maxchild(a, p, n, j)) = j
                 /\ maxchild(a, p, n, j) > j
           /\ \A k \in 2..n - 1 : parent(k) = j => maxchild(a, p, n, j) # 0
<1>1. n \in Nat /\ j \in Nat /\ j >= 1 /\ avail \in Nat /\ n <= avail
  BY HeapSize
<1>2. CASE 2 * j >= n
  <2>1. maxchild(a, p, n, j) = 0
    BY <1>2 DEF maxchild, left
  <2>2. ASSUME NEW k \in 2..n - 1, parent(k) = j PROVE FALSE
    BY <1>1, <1>2, <2>2, Parent
  <2> QED
    BY <2>1, <2>2
<1>3. CASE 2 * j < n
  <2>1. \/ maxchild(a, p, n, j) = 2 * j
        \/ maxchild(a, p, n, j) = 2 * j + 1 /\ 2 * j + 1 < n
    BY <1>1, <1>3 DEF maxchild, left, right
  <2>2. parent(2 * j) = j /\ parent(2 * j + 1) = j
    BY <1>1 DEF parent
  <2> QED
    BY <1>1, <1>3, <2>1, <2>2, HeapSize
<1> QED
  BY <1>1, <1>2, <1>3

LEMMA MaxChildLeast ==
    ASSUME NEW a, NEW p, NEW n \in 1..avail, NEW j \in Positions,
           NEW k \in 2..n - 1, parent(k) = j,
           \A m \in 2..n - 1 : p[a[m]] \in Nat
    PROVE  p[a[maxchild(a, p, n, j)]] <= p[a[k]]
<1>1. n \in Nat /\ j \in Nat /\ j >= 1 /\ k \in Nat /\ k >= 2 /\ k < n
  BY HeapSize
<1>2. k = 2 * j \/ k = 2 * j + 1
  BY <1>1, Parent
<1>3. 2 * j \in 2..n - 1 /\ ~(2 * j >= n)
  BY <1>1, <1>2
<1>4. p[a[2 * j]] \in Nat /\ (2 * j + 1 < n => p[a[2 * j + 1]] \in Nat)
  <2>1. 2 * j + 1 < n => 2 * j + 1 \in 2..n - 1
    BY <1>1
  <2> QED
    BY <1>3, <2>1
<1>5. maxchild(a, p, n, j) = IF 2 * j + 1 < n /\ p[a[2 * j]] > p[a[2 * j + 1]] THEN 2 * j + 1 ELSE 2 * j
  BY <1>3 DEF maxchild, left, right, cmppri
<1>6. CASE k = 2 * j
  BY <1>1, <1>4, <1>5, <1>6
<1>7. CASE k = 2 * j + 1
  BY <1>1, <1>4, <1>5, <1>7
<1> QED
  BY <1>2, <1>6, <1>7

Falls(a, p, n, x, j) == maxchild(a, p, n, j) # 0 /\ cmppri(p[x], p[a[maxchild(a, p, n, j)]])

Sinks(a, p, n, x, f) == f = [j \in Positions |-> IF Falls(a, p, n, x, j) THEN f[maxchild(a, p, n, j)] ELSE j]

LEMMA SinkExists ==
    ASSUME NEW a, NEW p, NEW n \in 1..avail, NEW x
    PROVE  \E f : Sinks(a, p, n, x, f)
<1> DEFINE S == Nat
           Last(m) == {j \in Positions : j > avail - 1 - m}
           Step(f, j) == IF Falls(a, p, n, x, j) THEN f[maxchild(a, p, n, j)] ELSE j
           Part(m, f) == \A j \in Last(m) : f[j] = Step(f, j)
           T == {m \in Nat : ~ \E f \in [Last(m) -> S] : Part(m, f)}
<1>1. \A m \in Nat : \E f \in [Last(m) -> S] : Part(m, f)
  <2>1. SUFFICES ASSUME T # {} PROVE FALSE
    OBVIOUS
  <2>2. PICK m \in T : \A y \in T : m <= y
    <3> HIDE DEF T
    <3>1. T \in SUBSET Nat
      BY DEF T
    <3> QED
      BY <2>1, <3>1, LeastElement
  <2>3. m \in Nat /\ ~ \E f \in [Last(m) -> S] : Part(m, f)
    BY <2>2
  <2>4. CASE m = 0
    <3>1. Last(m) = {}
      BY <2>4, HeapSize
    <3> DEFINE f == [j \in Last(m) |-> 0]
    <3>2. f \in [Last(m) -> S] /\ Part(m, f)
      BY <3>1
    <3> QED
      BY <2>3, <3>2
  <2>5. CASE m # 0
    <3>1. m - 1 \in Nat /\ m - 1 < m
      BY <2>3, <2>5
    <3>2. m - 1 \notin T
      <4> HIDE DEF T
      <4> QED
        BY <2>2, <2>3, <3>1
    <3>3. PICK g \in [Last(m - 1) -> S] : Part(m - 1, g)
      BY <3>1, <3>2
    <3>4. ASSUME NEW j \in Last(m), Falls(a, p, n, x, j)
          PROVE  maxchild(a, p, n, j) \in Last(m) /\ maxchild(a, p, n, j) \in Last(m - 1)
      <4>1. PICK c : c = maxchild(a, p, n, j)
        OBVIOUS
      <4>2. c \in Positions /\ c > j
        BY <3>4, <4>1, MaxChild DEF Falls
      <4> QED
        BY <2>3, <4>1, <4>2, HeapSize
    <3> DEFINE f == [j \in Last(m) |-> Step(g, j)]
    <3>5. f \in [Last(m) -> S]
      <4>1. \A j \in Last(m) : Step(g, j) \in S
        BY <3>3, <3>4, HeapSize
      <4> QED
        BY <4>1
    <3>6. ASSUME NEW j \in Last(m) PROVE f[j] = Step(f, j)
      <4>1. CASE Falls(a, p, n, x, j)
        <5>1. PICK c : c = maxchild(a, p, n, j)
          OBVIOUS
        <5>2. c \in Last(m) /\ c \in Last(m - 1)
          BY <3>4, <4>1, <5>1
        <5>3. f[j] = g[c] /\ f[c] = Step(g, c)
          BY <4>1, <5>1, <5>2
        <5>4. g[c] = Step(g, c)
          BY <3>3, <5>2
        <5>5. Step(f, j) = f[c]
          BY <4>1, <5>1
        <5> QED
          BY <5>3, <5>4, <5>5
      <4>2. CASE ~Falls(a, p, n, x, j)
        BY <4>2
      <4> QED
        BY <4>1, <4>2
    <3>7. Part(m, f)
      BY <3>6
    <3> QED
      BY <2>3, <3>5, <3>7
  <2> QED
    BY <2>4, <2>5
<1>2. Last(avail - 1) = Positions /\ avail - 1 \in Nat
  BY HeapSize
<1>3. PICK f \in [Positions -> S] : \A j \in Positions : f[j] = Step(f, j)
  BY <1>1, <1>2
<1>4. f = [j \in Positions |-> f[j]]
  BY <1>3
<1>5. [j \in Positions |-> f[j]] = [j \in Positions |-> Step(f, j)]
  BY <1>3
<1> QED
  BY <1>4, <1>5 DEF Sinks

(* percolate_down stops at the first position, following the child with the *)
(* least priority, from which it need not go on.                            *)
LEMMA PercolateStops ==
    ASSUME NEW a, NEW p, NEW n \in 1..avail, NEW i \in Positions
    PROVE  \E t \in Positions :
              /\ percolate_down(a, p, n, i) = [array |-> MovedDown(a, i, t), moved |-> UpTo(t, i)]
              /\ i \in Path(t)
              /\ t = i \/ t < n
              /\ \A k \in Path(t) : k > i => /\ k = maxchild(a, p, n, parent(k))
                                             /\ Falls(a, p, n, a[i], parent(k))
              /\ ~Falls(a, p, n, a[i], t)
<1> DEFINE x == a[i]
<1>1. PICK f : f = CHOOSE g : Sinks(a, p, n, x, g)
  OBVIOUS
<1>2. Sinks(a, p, n, x, f)
  BY <1>1, SinkExists
<1>3. percolate_down(a, p, n, i) = [array |-> MovedDown(a, i, f[i]), moved |-> UpTo(f[i], i)]
  BY <1>1 DEF percolate_down, Sinks, Falls, UpTo
<1>4. \A j \in Positions : f[j] = IF Falls(a, p, n, x, j) THEN f[maxchild(a, p, n, j)] ELSE j
  BY <1>2 DEF Sinks
<1> DEFINE Good(j) == /\ f[j] \in Positions
                      /\ j \in Path(f[j])
                      /\ f[j] = j \/ f[j] < n
                      /\ \A k \in Path(f[j]) : k > j => /\ k = maxchild(a, p, n, parent(k))
                                                        /\ Falls(a, p, n, x, parent(k))
                      /\ ~Falls(a, p, n, x, f[j])
           T == {m \in Nat : avail - m \in Positions /\ ~Good(avail - m)}
<1>5. ASSUME T # {} PROVE FALSE
  <2>1. T \in SUBSET Nat
    OBVIOUS
  <2>2. PICK m \in T : \A y \in T : m <= y
    <3> HIDE DEF T
    <3> QED
      BY <1>5, <2>1, LeastElement
  <2>3. PICK j : j = avail - m
    OBVIOUS
  <2>4. j \in Positions /\ ~Good(j) /\ j \in Nat /\ j >= 1 /\ j \in 1..avail /\ m \in Nat /\ avail \in Nat
    BY <2>2, <2>3, HeapSize
  <2>5. CASE ~Falls(a, p, n, x, j)
    <3>1. f[j] = j
      BY <1>4, <2>4, <2>5
    <3>2. j \in Path(j) /\ \A k \in Path(j) : ~(k > j)
      BY <2>4, PathIsWell DEF PathWell
    <3> QED
      BY <2>4, <2>5, <3>1, <3>2
  <2>6. CASE Falls(a, p, n, x, j)
    <3>1. PICK c : c = maxchild(a, p, n, j)
      OBVIOUS
    <3>2. c \in Positions /\ c > j /\ c < n /\ c > 1 /\ parent(c) = j /\ c \in Nat /\ n \in Nat
      BY <2>4, <2>6, <3>1, MaxChild, HeapSize DEF Falls
    <3>3. f[j] = f[c]
      BY <1>4, <2>4, <2>6, <3>1
    <3>4. Good(c)
      <4>1. avail - c \in Nat /\ avail - c < m /\ avail - (avail - c) = c
        BY <2>3, <2>4, <3>2, HeapSize
      <4>2. avail - c \notin T
        <5> HIDE DEF T
        <5> QED
          BY <2>2, <2>4, <4>1
      <4> QED
        BY <3>2, <4>1, <4>2
    <3>5. PICK t : t = f[c]
      OBVIOUS
    <3>6. /\ t \in Positions /\ c \in Path(t) /\ (t = c \/ t < n)
          /\ \A k \in Path(t) : k > c => /\ k = maxchild(a, p, n, parent(k))
                                         /\ Falls(a, p, n, x, parent(k))
          /\ ~Falls(a, p, n, x, t)
      BY <3>4, <3>5
    <3>7. PathWell(t) /\ t \in Nat
      BY <3>6, PathIsWell, HeapSize
    <3>8. j \in Path(t) /\ t < n
      BY <3>2, <3>6, <3>7 DEF PathWell
    <3>9. ASSUME NEW k \in Path(t), k > j
          PROVE  k = maxchild(a, p, n, parent(k)) /\ Falls(a, p, n, x, parent(k))
      <4>1. k \in Nat
        BY <3>7 DEF PathWell
      <4>2. CASE k > c
        BY <3>6, <4>2
      <4>3. CASE k = c
        BY <2>6, <3>1, <3>2, <4>3
      <4>4. CASE k < c
        <5>1. k <= parent(c)
          BY <3>6, <3>7, <4>4 DEF PathWell
        <5> QED
          BY <2>4, <3>2, <3>9, <4>1, <5>1
      <4> QED
        BY <3>2, <4>1, <4>2, <4>3, <4>4
    <3>10. Good(j)
      BY <3>3, <3>5, <3>6, <3>8, <3>9
    <3> QED
      BY <2>4, <3>10
  <2> QED
    BY <2>5, <2>6
<1>6. Good(i)
  <2>1. avail - i \in Nat /\ avail - (avail - i) = i
    BY HeapSize
  <2>2. avail - i \notin T
    BY <1>5
  <2> QED
    BY <2>1, <2>2
<1> QED
  BY <1>3, <1>6

-----------------------------------------------------------------------------
(* What moving one item along a path does to the array: the items of the    *)
(* path's positions change places, M, and all others stay.                  *)
Permutes(G, M, m) ==
    /\ G \in [1..m -> 1..m]
    /\ \A j \in M : j \in 1..m /\ G[j] \in M
    /\ \A j \in 1..m : j \notin M => G[j] = j
    /\ \A k \in M : \E j \in M : G[j] = k
    /\ \A j, k \in 1..m : G[j] = G[k] => j = k

GoesUp(i, s, m) ==
    [j \in 1..m |-> IF j = s THEN i ELSE IF j \in UpTo(i, s) THEN parent(j) ELSE j]

(* Moving up permutes the positions from s to i.                            *)
LEMMA UpPermutes ==
    ASSUME NEW m \in Nat, m < avail, NEW i \in 1..m, NEW s \in Path(i)
    PROVE  /\ Permutes(GoesUp(i, s, m), UpTo(i, s), m)
           /\ s \in 1..m /\ s <= i /\ i \in UpTo(i, s) /\ s \in UpTo(i, s)
<1> DEFINE G == GoesUp(i, s, m)
           M == UpTo(i, s)
<1>1. i \in 1..avail /\ i \in Nat /\ i <= m
  BY HeapSize
<1>2. PathWell(i)
  BY <1>1, PathIsWell
<1>3. /\ i \in Path(i)
      /\ \A j \in Path(i) : j \in 1..i
      /\ \A j \in Path(i) : j > 1 => parent(j) \in Path(i)
      /\ \A j, k \in Path(i) : j < k => j <= parent(k)
  BY <1>2 DEF PathWell
<1>4. s \in 1..m /\ s <= i /\ s \in M /\ i \in M
  BY <1>1, <1>3 DEF UpTo
<1>5. ASSUME NEW j \in M PROVE j \in 1..m /\ j <= i /\ j >= s /\ j \in Nat /\ j \in Path(i)
  BY <1>1, <1>3, <1>5 DEF UpTo
<1>6. ASSUME NEW j \in M, j # s PROVE parent(j) \in M /\ parent(j) < j /\ j > 1
  <2>1. s < j /\ j > 1 /\ j \in Nat /\ s \in Nat
    BY <1>4, <1>5, <1>6
  <2>2. parent(j) \in Path(i) /\ s <= parent(j)
    BY <1>3, <1>5, <2>1
  <2> QED
    BY <2>1, <2>2, Parent DEF UpTo
<1>7. \A j \in 1..m : G[j] = IF j = s THEN i ELSE IF j \in M THEN parent(j) ELSE j
  BY DEF GoesUp
<1>8. \A j \in M : G[j] \in M
  BY <1>4, <1>5, <1>6, <1>7
<1>9. \A j \in 1..m : j \notin M => G[j] = j
  BY <1>4, <1>7
<1>10. G \in [1..m -> 1..m]
  <2>1. \A j \in 1..m : G[j] \in 1..m
    BY <1>5, <1>8, <1>9
  <2>2. G = [j \in 1..m |-> G[j]]
    BY DEF GoesUp
  <2> HIDE DEF G
  <2> QED
    BY <2>1, <2>2
<1>11. ASSUME NEW k \in M PROVE \E j \in M : G[j] = k
  <2>1. CASE k = i
    BY <1>4, <1>7, <2>1
  <2>2. CASE k # i
    <3>1. k \in Path(i) /\ k < i /\ k >= s
      BY <1>1, <1>4, <1>5, <1>11, <2>2
    <3>2. PICK j \in Path(i) : j > k /\ parent(j) = k
      BY <1>1, <3>1, PathChild
    <3>3. j \in M /\ j # s
      BY <1>3, <1>4, <3>1, <3>2 DEF UpTo
    <3>4. j \in 1..m
      BY <1>5, <3>3
    <3>5. G[j] = k
      BY <1>7, <3>2, <3>3, <3>4
    <3> QED
      BY <3>3, <3>5
  <2> QED
    BY <2>1, <2>2
<1>12. ASSUME NEW j \in M, NEW k \in M, G[j] = G[k], j < k PROVE FALSE
  <2>1. k # s /\ G[k] = parent(k) /\ parent(k) < k /\ k <= i /\ j \in Nat /\ k \in Nat
    BY <1>4, <1>5, <1>6, <1>7, <1>12
  <2>2. CASE j = s
    BY <1>1, <1>4, <1>7, <1>12, <2>1, <2>2
  <2>3. CASE j # s
    <3>1. G[j] = parent(j) /\ parent(j) < j /\ j <= parent(k)
      BY <1>3, <1>5, <1>6, <1>7, <1>12, <2>3
    <3>2. parent(k) = parent(j) /\ parent(j) \in Nat
      BY <1>12, <2>1, <3>1, <1>5, <1>6, <2>3
    <3> QED
      BY <2>1, <3>1, <3>2
  <2> QED
    BY <2>2, <2>3
<1>13. ASSUME NEW j \in 1..m, NEW k \in 1..m, G[j] = G[k] PROVE j = k
  <2>1. CASE j \in M /\ k \in M
    <3>1. ~(j < k) /\ ~(k < j)
      BY <1>12, <1>13, <2>1
    <3> QED
      BY <3>1
  <2>2. CASE j \notin M \/ k \notin M
    BY <1>8, <1>9, <1>13, <2>2
  <2> QED
    BY <2>1, <2>2
<1>14. Permutes(G, M, m)
  <2> HIDE DEF G, M
  <2> QED
    BY <1>5, <1>8, <1>9, <1>10, <1>11, <1>13 DEF Permutes
<1> QED
  BY <1>4, <1>14

(* The array after moving up is the array before, rearranged by GoesUp.     *)
LEMMA MovedUpAt ==
    ASSUME NEW a, NEW m \in Nat, m < avail, NEW i \in 1..m, NEW s \in Path(i)
    PROVE  /\ MovedUp(a, i, s) = [j \in Positions |-> MovedUp(a, i, s)[j]]
           /\ \A j \in 1..m : MovedUp(a, i, s)[j] = a[GoesUp(i, s, m)[j]]
           /\ \A j \in Positions : j \notin 1..m => MovedUp(a, i, s)[j] = a[j]
<1>1. s \in 1..m /\ (\A j \in UpTo(i, s) : j \in 1..m) /\ 1..m \subseteq Positions
  <2>1. Permutes(GoesUp(i, s, m), UpTo(i, s), m)
    BY UpPermutes
  <2>2. s \in 1..m
    BY UpPermutes
  <2>3. \A j \in UpTo(i, s) : j \in 1..m
    BY <2>1 DEF Permutes
  <2>4. 1..m \subseteq Positions
    BY HeapSize
  <2> QED
    BY <2>2, <2>3, <2>4
<1>2. MovedUp(a, i, s) =
        [j \in Positions |-> CASE j = s -> a[i]
                               [] j \in UpTo(i, s) /\ j # s -> a[parent(j)]
                               [] OTHER -> a[j]]
  BY DEF MovedUp, UpTo
<1>3. \A j \in Positions : MovedUp(a, i, s)[j] =
        IF j = s THEN a[i] ELSE IF j \in UpTo(i, s) THEN a[parent(j)] ELSE a[j]
  BY <1>2
<1>4. \A j \in 1..m : GoesUp(i, s, m)[j] = IF j = s THEN i ELSE IF j \in UpTo(i, s) THEN parent(j) ELSE j
  BY DEF GoesUp
<1>5. \A j \in 1..m : MovedUp(a, i, s)[j] = a[GoesUp(i, s, m)[j]]
  BY <1>1, <1>3, <1>4
<1>6. \A j \in Positions : j \notin 1..m => MovedUp(a, i, s)[j] = a[j]
  BY <1>1, <1>3
<1>7. MovedUp(a, i, s) = [j \in Positions |-> MovedUp(a, i, s)[j]]
  BY DEF MovedUp
<1> QED
  BY <1>5, <1>6, <1>7

Below(t, j) == Least({k \in Path(t) : k > j})

GoesDown(i, t, m) ==
    [j \in 1..m |-> IF j = t THEN i ELSE IF j \in UpTo(t, i) THEN Below(t, j) ELSE j]

LEMMA BelowOnPath ==
    ASSUME NEW t \in 1..avail, NEW j \in Path(t), j < t
    PROVE  /\ Below(t, j) \in Path(t) /\ Below(t, j) > j /\ Below(t, j) > 1
           /\ parent(Below(t, j)) = j
BY PathChild DEF Below

(* Moving down permutes the positions from i to t.                          *)
LEMMA DownPermutes ==
    ASSUME NEW m \in Nat, m < avail, NEW t \in 1..m, NEW i \in Path(t)
    PROVE  /\ Permutes(GoesDown(i, t, m), UpTo(t, i), m)
           /\ i \in 1..m /\ i <= t /\ i \in UpTo(t, i) /\ t \in UpTo(t, i)
<1> DEFINE G == GoesDown(i, t, m)
           M == UpTo(t, i)
<1>1. t \in 1..avail /\ t \in Nat /\ t <= m
  BY HeapSize
<1>2. PathWell(t)
  BY <1>1, PathIsWell
<1>3. /\ t \in Path(t)
      /\ \A j \in Path(t) : j \in 1..t
      /\ \A j \in Path(t) : j > 1 => parent(j) \in Path(t)
      /\ \A j, k \in Path(t) : j < k => j <= parent(k)
  BY <1>2 DEF PathWell
<1>4. i \in 1..m /\ i <= t /\ i \in M /\ t \in M
  BY <1>1, <1>3 DEF UpTo
<1>5. ASSUME NEW j \in M PROVE j \in 1..m /\ j <= t /\ j >= i /\ j \in Nat /\ j \in Path(t)
  BY <1>1, <1>3, <1>5 DEF UpTo
<1>6. ASSUME NEW j \in M, j # t
      PROVE  Below(t, j) \in M /\ Below(t, j) > j /\ Below(t, j) > 1 /\ parent(Below(t, j)) = j
  <2>1. j < t /\ j \in Path(t) /\ j >= i /\ j \in Nat
    BY <1>1, <1>5, <1>6
  <2>2. Below(t, j) \in Path(t) /\ Below(t, j) > j /\ Below(t, j) > 1 /\ parent(Below(t, j)) = j
    BY <1>1, <2>1, BelowOnPath
  <2>3. PICK c : c = Below(t, j)
    OBVIOUS
  <2>4. c \in 1..t /\ i \in 1..m
    <3> HIDE DEF M
    <3> QED
      BY <1>3, <1>4, <2>2, <2>3
  <2>5. Below(t, j) >= i
    BY <1>1, <2>1, <2>2, <2>3, <2>4
  <2> QED
    BY <2>2, <2>5 DEF UpTo
<1>7. \A j \in 1..m : G[j] = IF j = t THEN i ELSE IF j \in M THEN Below(t, j) ELSE j
  BY DEF GoesDown
<1>8. \A j \in M : G[j] \in M
  BY <1>4, <1>5, <1>6, <1>7
<1>9. \A j \in 1..m : j \notin M => G[j] = j
  BY <1>4, <1>7
<1>10. G \in [1..m -> 1..m]
  <2>1. \A j \in 1..m : G[j] \in 1..m
    BY <1>5, <1>8, <1>9
  <2>2. G = [j \in 1..m |-> G[j]]
    BY DEF GoesDown
  <2> HIDE DEF G
  <2> QED
    BY <2>1, <2>2
<1>11. ASSUME NEW k \in M PROVE \E j \in M : G[j] = k
  <2>1. CASE k = i
    BY <1>4, <1>7, <2>1
  <2>2. CASE k # i
    <3>1. k \in Path(t) /\ k > i /\ k > 1 /\ k \in Nat /\ i \in Nat
      BY <1>1, <1>4, <1>5, <1>11, <2>2
    <3>2. PICK j : j = parent(k)
      OBVIOUS
    <3>3. j \in Path(t) /\ i <= j /\ j < k /\ j \in Nat
      BY <1>1, <1>3, <1>4, <3>1, <3>2, Parent DEF UpTo
    <3>4. j \in M /\ j \in 1..m /\ j # t
      BY <1>1, <1>5, <3>3, <1>11 DEF UpTo
    <3>5. PICK c : c = Below(t, j)
      OBVIOUS
    <3>6. c \in M /\ c > j /\ c > 1 /\ parent(c) = j /\ c \in Path(t) /\ c \in Nat
      BY <1>5, <1>6, <3>4, <3>5
    <3>7. ~(c < k) /\ ~(k < c)
      BY <1>3, <3>1, <3>2, <3>3, <3>6
    <3>8. G[j] = k
      BY <1>7, <3>1, <3>4, <3>5, <3>6, <3>7
    <3> QED
      BY <3>4, <3>8
  <2> QED
    BY <2>1, <2>2
<1>12. ASSUME NEW j \in M, j # t PROVE G[j] # i
  <2>1. G[j] = Below(t, j) /\ Below(t, j) > j /\ j >= i /\ Below(t, j) \in M
    BY <1>5, <1>6, <1>7, <1>12
  <2> QED
    BY <1>4, <1>5, <2>1
<1>13. ASSUME NEW j \in 1..m, NEW k \in 1..m, G[j] = G[k] PROVE j = k
  <2>1. CASE j \in M /\ k \in M /\ j # t /\ k # t
    <3>1. G[j] = Below(t, j) /\ G[k] = Below(t, k) /\ parent(Below(t, j)) = j /\ parent(Below(t, k)) = k
      BY <1>6, <1>7, <2>1
    <3> QED
      BY <1>13, <3>1
  <2>2. CASE j \in M /\ k \in M /\ (j = t \/ k = t)
    BY <1>4, <1>7, <1>12, <1>13, <2>2
  <2>3. CASE j \notin M \/ k \notin M
    BY <1>8, <1>9, <1>13, <2>3
  <2> QED
    BY <2>1, <2>2, <2>3
<1>14. Permutes(G, M, m)
  <2> HIDE DEF G, M
  <2> QED
    BY <1>5, <1>8, <1>9, <1>10, <1>11, <1>13 DEF Permutes
<1> QED
  BY <1>4, <1>14

(* The array after moving down is the array before, rearranged by GoesDown. *)
LEMMA MovedDownAt ==
    ASSUME NEW a, NEW m \in Nat, m < avail, NEW t \in 1..m, NEW i \in Path(t)
    PROVE  /\ MovedDown(a, i, t) = [j \in Positions |-> MovedDown(a, i, t)[j]]
           /\ \A j \in 1..m : MovedDown(a, i, t)[j] = a[GoesDown(i, t, m)[j]]
           /\ \A j \in Positions : j \notin 1..m => MovedDown(a, i, t)[j] = a[j]
<1> DEFINE M == UpTo(t, i)
           Under(j) == Least({k \in M : k > j})
<1>1. Permutes(GoesDown(i, t, m), M, m) /\ t \in Nat /\ t \in M /\ i \in Nat
  BY DownPermutes
<1>2. (\A j \in M : j \in 1..m) /\ 1..m \subseteq Positions
  <2>1. \A j \in M : j \in 1..m
    BY <1>1 DEF Permutes
  <2>2. 1..m \subseteq Positions
    BY HeapSize
  <2> QED
    BY <2>1, <2>2
<1>3. MovedDown(a, i, t) =
        [j \in Positions |-> CASE j = t -> a[i]
                               [] j \in M /\ j # t -> a[Under(j)]
                               [] OTHER -> a[j]]
  BY DEF MovedDown, UpTo
<1>4. ASSUME NEW j \in M PROVE Under(j) = Below(t, j)
  <2>1. j \in Nat /\ j >= i
    BY <1>2, <1>4 DEF UpTo
  <2>2. \A k \in Path(t) : k \in Nat
    BY PathIsWell, HeapSize DEF PathWell
  <2>3. ASSUME NEW k \in Path(t), k > j PROVE k \in M
    <3>1. k \in Nat /\ k >= i
      BY <1>1, <2>1, <2>2, <2>3
    <3> QED
      BY <3>1 DEF UpTo
  <2>4. M \subseteq Path(t)
    BY DEF UpTo
  <2>5. {k \in M : k > j} = {k \in Path(t) : k > j}
    <3> HIDE DEF M
    <3> QED
      BY <2>3, <2>4
  <2> QED
    BY <2>5 DEF Below
<1> HIDE DEF M, Under
<1>5. \A j \in Positions : MovedDown(a, i, t)[j] =
        IF j = t THEN a[i] ELSE IF j \in M THEN a[Under(j)] ELSE a[j]
  BY <1>3
<1>6. \A j \in 1..m : GoesDown(i, t, m)[j] = IF j = t THEN i ELSE IF j \in M THEN Below(t, j) ELSE j
  BY DEF GoesDown, M
<1>7. \A j \in 1..m : MovedDown(a, i, t)[j] = a[GoesDown(i, t, m)[j]]
  BY <1>2, <1>4, <1>5, <1>6
<1>8. \A j \in Positions : j \notin 1..m => MovedDown(a, i, t)[j] = a[j]
  BY <1>1, <1>2, <1>5
<1>9. MovedDown(a, i, t) = [j \in Positions |-> MovedDown(a, i, t)[j]]
  BY DEF MovedDown
<1> QED
  BY <1>7, <1>8, <1>9

-----------------------------------------------------------------------------
(* The order of the heap: no item comes before the one above it.  v is the  *)
(* priority at each position.                                               *)

(* Moving up: the order may fail between i and the position above it only.  *)
LEMMA UpOrders ==
    ASSUME NEW m \in Nat, m < avail, NEW i \in 1..m, NEW s \in Path(i), NEW v \in [1..m -> Nat],
           \A k \in Path(i) : k > s => v[parent(k)] > v[i],
           s > 1 => v[parent(s)] <= v[i],
           \A k \in 2..m : k # i => v[parent(k)] <= v[k],
           i > 1 => \A k \in 2..m : parent(k) = i => v[parent(i)] <= v[k],
           NEW k \in 2..m
    PROVE  v[GoesUp(i, s, m)[parent(k)]] <= v[GoesUp(i, s, m)[k]]
<1> DEFINE G == GoesUp(i, s, m)
           M == UpTo(i, s)
           q == parent(k)
<1>1. i \in 1..avail /\ i \in Nat /\ i <= m /\ k \in Nat /\ k >= 2 /\ k <= m
  BY HeapSize
<1>2. /\ i \in Path(i)
      /\ \A j \in Path(i) : j \in 1..i
      /\ \A j \in Path(i) : j > 1 => parent(j) \in Path(i)
      /\ \A j \in Path(i), l \in Path(i) : j < l => j <= parent(l)
  BY <1>1, PathIsWell DEF PathWell
<1>3. s \in 1..m /\ s <= i /\ s \in M /\ i \in M /\ s \in Nat /\ s >= 1
  BY UpPermutes
<1>4. q \in Nat /\ q >= 1 /\ q < k /\ q \in 1..m
  BY <1>1, Parent
<1>5. \A j \in 1..m : G[j] = IF j = s THEN i ELSE IF j \in M THEN parent(j) ELSE j
  BY DEF GoesUp
<1>6. \A j : j \in M <=> j \in Path(i) /\ j >= s
  BY DEF UpTo
<1>7. v[i] \in Nat /\ v[k] \in Nat /\ v[q] \in Nat
  BY <1>1, <1>4
<1> SUFFICES v[G[q]] <= v[G[k]]
  OBVIOUS
<1> HIDE DEF G, M, q
<1>8. CASE k \in M /\ k # s
  <2>1. k \in Path(i) /\ k > s /\ k <= i
    BY <1>1, <1>2, <1>3, <1>6, <1>8
  <2>2. q \in Path(i) /\ s <= q /\ q \in M
    BY <1>1, <1>2, <1>3, <1>6, <2>1 DEF q
  <2>3. G[k] = q
    BY <1>1, <1>5, <1>8 DEF q
  <2>4. v[q] > v[i]
    BY <2>1 DEF q
  <2>5. CASE q = s
    BY <1>4, <1>5, <1>7, <2>3, <2>4, <2>5 DEF q
  <2>6. CASE q # s
    <3>1. q > 1 /\ q # i /\ q \in 2..m
      BY <1>1, <1>3, <1>4, <2>1, <2>2, <2>6
    <3>2. G[q] = parent(q)
      BY <1>4, <1>5, <2>2, <2>6
    <3>3. v[parent(q)] <= v[q]
      BY <3>1
    <3> QED
      BY <2>3, <3>2, <3>3 DEF q
  <2> QED
    BY <2>5, <2>6
<1>9. CASE k = s
  <2>1. q \notin M
    BY <1>3, <1>4, <1>6, <1>9
  <2>2. G[q] = q /\ G[k] = i
    BY <1>1, <1>3, <1>4, <1>5, <1>9, <2>1
  <2>3. v[q] <= v[i]
    BY <1>1, <1>9 DEF q
  <2> QED
    BY <2>2, <2>3 DEF q
<1>10. CASE k \notin M
  <2>1. G[k] = k /\ k # i /\ v[q] <= v[k]
    BY <1>1, <1>3, <1>5, <1>10 DEF q
  <2>2. CASE q \notin M
    <3>1. G[q] = q
      BY <1>3, <1>4, <1>5, <2>2
    <3> QED
      BY <2>1, <3>1 DEF q
  <2>3. CASE q = s
    <3>1. G[q] = i
      BY <1>3, <1>5, <2>3
    <3>2. CASE s = i
      BY <2>1, <2>3, <3>1, <3>2 DEF q
    <3>3. CASE s # i
      <4>1. s < i
        BY <1>1, <1>3, <3>3
      <4>2. PICK c \in Path(i) : c > s /\ parent(c) = s
        BY <1>1, <4>1, PathChild
      <4>3. v[s] > v[i]
        BY <4>2
      <4> QED
        BY <1>7, <2>1, <2>3, <3>1, <4>3 DEF q
    <3> QED
      BY <3>2, <3>3
  <2>4. CASE q \in M /\ q # s
    <3>1. G[q] = parent(q) /\ q > 1 /\ q \in 2..m /\ q <= i
      BY <1>1, <1>2, <1>3, <1>4, <1>5, <1>6, <2>4
    <3>2. parent(q) \in 1..m
      BY <1>4, <3>1, Parent
    <3>3. v[parent(q)] \in Nat
      BY <3>2
    <3>4. CASE q = i
      BY <1>1, <2>1, <3>1, <3>4 DEF q
    <3>5. CASE q # i
      <4>1. v[parent(q)] <= v[q]
        BY <3>1, <3>5
      <4> QED
        BY <1>7, <2>1, <3>1, <3>3, <4>1 DEF q
    <3> QED
      BY <3>4, <3>5
  <2> QED
    BY <2>2, <2>3, <2>4
<1> QED
  BY <1>8, <1>9, <1>10

(* Moving down: the order may fail between i and the positions below it     *)
(* only.                                                                    *)
LEMMA DownOrders ==
    ASSUME NEW m \in Nat, m < avail, NEW t \in 1..m, NEW i \in Path(t), NEW v \in [1..m -> Nat],
           \A k \in Path(t) : k > i => v[i] > v[k],
           \A k \in Path(t), l \in 2..m : k > i /\ parent(l) = parent(k) => v[k] <= v[l],
           \A k \in 2..m : parent(k) = t => v[i] <= v[k],
           \A k \in 2..m : parent(k) # i => v[parent(k)] <= v[k],
           i > 1 => \A k \in 2..m : parent(k) = i => v[parent(i)] <= v[k],
           NEW k \in 2..m
    PROVE  v[GoesDown(i, t, m)[parent(k)]] <= v[GoesDown(i, t, m)[k]]
<1> DEFINE G == GoesDown(i, t, m)
           M == UpTo(t, i)
           q == parent(k)
<1>1. t \in 1..avail /\ t \in Nat /\ t <= m /\ k \in Nat /\ k >= 2 /\ k <= m
  BY HeapSize
<1>2. /\ t \in Path(t)
      /\ \A j \in Path(t) : j \in 1..t
      /\ \A j \in Path(t) : j > 1 => parent(j) \in Path(t)
      /\ \A j \in Path(t), l \in Path(t) : j < l => j <= parent(l)
  BY <1>1, PathIsWell DEF PathWell
<1>3. i \in 1..m /\ i <= t /\ i \in M /\ t \in M /\ i \in Nat /\ i >= 1
  BY DownPermutes
<1>4. q \in Nat /\ q >= 1 /\ q < k /\ q \in 1..m
  BY <1>1, Parent
<1>5. \A j \in 1..m : G[j] = IF j = t THEN i ELSE IF j \in M THEN Below(t, j) ELSE j
  BY DEF GoesDown
<1>6. \A j : j \in M <=> j \in Path(t) /\ j >= i
  BY DEF UpTo
<1>7. v[i] \in Nat /\ v[k] \in Nat /\ v[q] \in Nat
  BY <1>1, <1>3, <1>4
<1>8. ASSUME NEW j \in M, j # t
      PROVE  /\ G[j] \in Path(t) /\ G[j] > j /\ G[j] > 1 /\ parent(G[j]) = j /\ G[j] \in Nat
             /\ j \in Path(t) /\ G[j] \in 2..m /\ G[j] > i
  <2>1. j \in Path(t) /\ j >= i /\ j \in 1..t
    BY <1>2, <1>6, <1>8
  <2>2. j < t /\ j \in 1..m /\ j \in Nat
    BY <1>1, <1>8, <2>1
  <2>3. G[j] = Below(t, j)
    BY <1>5, <1>8, <2>2
  <2>4. G[j] \in Path(t) /\ G[j] > j /\ G[j] > 1 /\ parent(G[j]) = j
    BY <1>1, <2>1, <2>2, <2>3, BelowOnPath
  <2>5. PICK c : c = G[j]
    OBVIOUS
  <2>6. c \in 1..t
    BY <1>2, <2>4, <2>5
  <2>7. c \in Nat /\ c \in 2..m /\ c > i
    BY <1>1, <1>3, <2>1, <2>2, <2>4, <2>5, <2>6
  <2> QED
    BY <2>1, <2>4, <2>5, <2>7
<1> SUFFICES v[G[q]] <= v[G[k]]
  OBVIOUS
<1> HIDE DEF G, M, q
<1>9. CASE k \in M /\ k # i
  <2>1. k \in Path(t) /\ k > i
    BY <1>1, <1>3, <1>6, <1>9
  <2>2. q \in Path(t) /\ i <= q /\ q \in M /\ q # t
    <3>1. q \in Path(t) /\ i <= q /\ k <= t
      BY <1>1, <1>2, <1>3, <2>1 DEF q
    <3> QED
      BY <1>1, <1>4, <1>6, <3>1
  <2>3. G[q] = k
    <3>1. PICK c : c = G[q]
      OBVIOUS
    <3>2. c \in Path(t) /\ c > q /\ c > 1 /\ parent(c) = q /\ c \in Nat
      BY <1>8, <2>2, <3>1
    <3>3. ~(c < k) /\ ~(k < c)
      BY <1>1, <1>2, <1>4, <2>1, <3>2 DEF q
    <3> QED
      BY <1>1, <3>1, <3>2, <3>3
  <2>4. CASE k = t
    <3>1. G[k] = i /\ v[i] > v[k]
      BY <1>1, <1>5, <2>1, <2>4
    <3> QED
      BY <1>7, <2>3, <3>1 DEF q
  <2>5. CASE k # t
    <3>1. parent(G[k]) = k /\ G[k] \in 2..m
      BY <1>8, <1>9, <2>5
    <3>2. v[k] <= v[G[k]]
      BY <1>9, <3>1
    <3> QED
      BY <2>3, <3>2 DEF q
  <2> QED
    BY <2>4, <2>5
<1>10. CASE k = i
  <2>1. q \notin M /\ G[q] = q /\ q # i
    BY <1>3, <1>4, <1>5, <1>6, <1>10
  <2>2. CASE t = i
    <3>1. G[k] = i /\ v[q] <= v[k]
      BY <1>5, <1>10, <1>3, <2>1, <2>2 DEF q
    <3> QED
      BY <1>10, <2>1, <3>1 DEF q
  <2>3. CASE t # i
    <3>1. parent(G[k]) = i /\ G[k] \in 2..m
      BY <1>3, <1>8, <1>10, <2>3
    <3>2. v[q] <= v[G[k]]
      BY <1>1, <1>10, <3>1 DEF q
    <3> QED
      BY <2>1, <3>2 DEF q
  <2> QED
    BY <2>2, <2>3
<1>11. CASE k \notin M
  <2>1. G[k] = k
    BY <1>1, <1>3, <1>5, <1>11
  <2>2. CASE q \notin M
    <3>1. G[q] = q /\ q # i
      BY <1>3, <1>4, <1>5, <2>2
    <3> QED
      BY <2>1, <3>1 DEF q
  <2>3. CASE q = t
    <3>1. G[q] = i /\ v[i] <= v[k]
      BY <1>4, <1>5, <2>3 DEF q
    <3> QED
      BY <2>1, <3>1 DEF q
  <2>4. CASE q \in M /\ q # t
    <3>1. G[q] \in Path(t) /\ G[q] > i /\ parent(G[q]) = q
      BY <1>8, <2>4
    <3>2. v[G[q]] <= v[k]
      BY <3>1 DEF q
    <3> QED
      BY <2>1, <3>2 DEF q
  <2> QED
    BY <2>2, <2>3, <2>4
<1> QED
  BY <1>9, <1>10, <1>11

Ordered(a, p, m) == \A k \in 2..m : p[a[parent(k)]] <= p[a[k]]

Rearranged(h, a, m, i) ==
    \E G, M :
       /\ Permutes(G, M, m) /\ i \in M
       /\ h = [array |-> h.array, moved |-> M]
       /\ h.array = [j \in Positions |-> h.array[j]]
       /\ \A j \in 1..m : h.array[j] = a[G[j]]
       /\ \A j \in Positions : j \notin 1..m => h.array[j] = a[j]

(* bubble_up restores the order when only the item at i may have to rise.   *)
LEMMA BubbleUp ==
    ASSUME NEW a, NEW p, NEW m \in Nat, m < avail, NEW i \in 1..m,
           \A j \in 1..m : p[a[j]] \in Nat,
           \A k \in 2..m : k # i => p[a[parent(k)]] <= p[a[k]],
           i > 1 => \A k \in 2..m : parent(k) = i => p[a[parent(i)]] <= p[a[k]]
    PROVE  /\ Rearranged(bubble_up(a, p, i), a, m, i)
           /\ Ordered(bubble_up(a, p, i).array, p, m)
<1>1. i \in Positions /\ i \in 1..avail /\ i \in Nat
  BY HeapSize
<1>2. PICK s \in Path(i) :
              /\ bubble_up(a, p, i) = [array |-> MovedUp(a, i, s), moved |-> UpTo(i, s)]
              /\ \A k \in Path(i) : k > s => Rises(a, p, a[i], k)
              /\ ~Rises(a, p, a[i], s)
  BY <1>1, BubbleStops
<1> DEFINE h == bubble_up(a, p, i)
           b == MovedUp(a, i, s)
           G == GoesUp(i, s, m)
           M == UpTo(i, s)
<1>3. Permutes(G, M, m) /\ s \in 1..m /\ s <= i /\ i \in M
  BY UpPermutes
<1>4. /\ b = [j \in Positions |-> b[j]]
      /\ \A j \in 1..m : b[j] = a[G[j]]
      /\ \A j \in Positions : j \notin 1..m => b[j] = a[j]
  BY MovedUpAt
<1>5. h = [array |-> b, moved |-> M]
  BY <1>2
<1> HIDE DEF h, b, G, M
<1>6. h.array = b /\ h = [array |-> h.array, moved |-> M]
  BY <1>5
<1>7. Rearranged(h, a, m, i)
  BY <1>3, <1>4, <1>6 DEF Rearranged
<1>8. PICK v : v = [j \in 1..m |-> p[a[j]]]
  OBVIOUS
<1>9. v \in [1..m -> Nat] /\ \A j \in 1..m : v[j] = p[a[j]]
  BY <1>8
<1>10. \A k \in 2..m : parent(k) \in 1..m /\ k \in 1..m
  <2> SUFFICES ASSUME NEW k \in 2..m PROVE parent(k) \in 1..m /\ k \in 1..m
    OBVIOUS
  <2>1. k \in Nat /\ k > 1 /\ k <= m /\ k >= 1
    OBVIOUS
  <2>2. parent(k) \in Nat /\ parent(k) >= 1 /\ parent(k) < k
    BY <2>1, Parent
  <2> QED
    BY <2>1, <2>2
<1>11. /\ \A k \in Path(i) : k > s => v[parent(k)] > v[i]
       /\ s > 1 => v[parent(s)] <= v[i]
  <2>1. ASSUME NEW k \in Path(i), k > s PROVE v[parent(k)] > v[i]
    <3>1. k > 1 /\ cmppri(p[a[parent(k)]], p[a[i]])
      BY <1>2, <2>1 DEF Rises
    <3>2. k \in 1..i
      BY <1>1, PathIsWell DEF PathWell
    <3>3. k \in 2..m
      BY <3>1, <3>2
    <3>4. v[parent(k)] = p[a[parent(k)]] /\ v[i] = p[a[i]]
      BY <1>9, <1>10, <3>3
    <3> QED
      BY <3>1, <3>4 DEF cmppri
  <2>2. ASSUME s > 1 PROVE v[parent(s)] <= v[i]
    <3>1. s \in 2..m
      BY <1>3, <2>2
    <3>2. parent(s) \in 1..m
      BY <1>10, <3>1
    <3>3. ~ (p[a[parent(s)]] > p[a[i]])
      BY <1>2, <2>2 DEF Rises, cmppri
    <3>4. v[parent(s)] = p[a[parent(s)]] /\ v[i] = p[a[i]] /\ v[parent(s)] \in Nat /\ v[i] \in Nat
      BY <1>9, <3>2
    <3> QED
      BY <3>3, <3>4
  <2> QED
    BY <2>1, <2>2
<1>12. \A k \in 2..m : k # i => v[parent(k)] <= v[k]
  BY <1>9, <1>10
<1>13. i > 1 => \A k \in 2..m : parent(k) = i => v[parent(i)] <= v[k]
  <2> SUFFICES ASSUME i > 1, NEW k \in 2..m, parent(k) = i PROVE v[parent(i)] <= v[k]
    OBVIOUS
  <2>1. i \in 2..m
    BY <1>1
  <2>2. v[parent(i)] = p[a[parent(i)]] /\ v[k] = p[a[k]]
    BY <1>9, <1>10, <2>1
  <2> QED
    BY <2>2
<1>14. ASSUME NEW k \in 2..m PROVE p[b[parent(k)]] <= p[b[k]]
  <2>1. v[G[parent(k)]] <= v[G[k]]
    BY <1>9, <1>11, <1>12, <1>13, UpOrders DEF G
  <2>2. G[parent(k)] \in 1..m /\ G[k] \in 1..m
    BY <1>3, <1>10 DEF Permutes
  <2>3. b[parent(k)] = a[G[parent(k)]] /\ b[k] = a[G[k]]
    BY <1>4, <1>10
  <2>4. v[G[parent(k)]] = p[a[G[parent(k)]]] /\ v[G[k]] = p[a[G[k]]]
    BY <1>9, <2>2
  <2> QED
    BY <2>1, <2>3, <2>4
<1> QED
  BY <1>6, <1>7, <1>14 DEF Ordered, h

(* percolate_down restores it when only the item at i may have to sink.     *)
LEMMA PercolateDown ==
    ASSUME NEW a, NEW p, NEW m \in Nat, m < avail, NEW i \in 1..m,
           \A j \in 1..m : p[a[j]] \in Nat,
           \A k \in 2..m : parent(k) # i => p[a[parent(k)]] <= p[a[k]],
           i > 1 => \A k \in 2..m : parent(k) = i => p[a[parent(i)]] <= p[a[k]]
    PROVE  /\ Rearranged(percolate_down(a, p, m + 1, i), a, m, i)
           /\ Ordered(percolate_down(a, p, m + 1, i).array, p, m)
<1> DEFINE n == m + 1
<1>1. i \in Positions /\ i \in 1..avail /\ i \in Nat /\ n \in 1..avail /\ n - 1 = m
  BY HeapSize
<1>2. PICK t \in Positions :
              /\ percolate_down(a, p, n, i) = [array |-> MovedDown(a, i, t), moved |-> UpTo(t, i)]
              /\ i \in Path(t)
              /\ t = i \/ t < n
              /\ \A k \in Path(t) : k > i => /\ k = maxchild(a, p, n, parent(k))
                                             /\ Falls(a, p, n, a[i], parent(k))
              /\ ~Falls(a, p, n, a[i], t)
  BY <1>1, PercolateStops
<1>3. t \in 1..m /\ t \in 1..avail /\ t \in Nat
  BY <1>1, <1>2, HeapSize
<1> DEFINE h == percolate_down(a, p, n, i)
           b == MovedDown(a, i, t)
           G == GoesDown(i, t, m)
           M == UpTo(t, i)
<1>4. Permutes(G, M, m) /\ i <= t /\ i \in M
  BY <1>2, <1>3, DownPermutes
<1>5. /\ b = [j \in Positions |-> b[j]]
      /\ \A j \in 1..m : b[j] = a[G[j]]
      /\ \A j \in Positions : j \notin 1..m => b[j] = a[j]
  BY <1>2, <1>3, MovedDownAt
<1>6. h = [array |-> b, moved |-> M]
  BY <1>2
<1> HIDE DEF h, b, G, M, n
<1>7. h.array = b /\ h = [array |-> h.array, moved |-> M]
  BY <1>6
<1>8. Rearranged(h, a, m, i)
  BY <1>4, <1>5, <1>7 DEF Rearranged
<1>9. PICK v : v = [j \in 1..m |-> p[a[j]]]
  OBVIOUS
<1>10. v \in [1..m -> Nat] /\ \A j \in 1..m : v[j] = p[a[j]]
  BY <1>9
<1>11. \A k \in 2..m : parent(k) \in 1..m /\ k \in 1..m /\ parent(k) \in Positions
  <2> SUFFICES ASSUME NEW k \in 2..m PROVE parent(k) \in 1..m /\ k \in 1..m /\ parent(k) \in Positions
    OBVIOUS
  <2>1. k \in Nat /\ k > 1 /\ k <= m /\ k >= 1
    OBVIOUS
  <2>2. parent(k) \in Nat /\ parent(k) >= 1 /\ parent(k) < k
    BY <2>1, Parent
  <2> QED
    BY <2>1, <2>2, HeapSize
<1>12. ASSUME NEW j \in Positions, NEW l \in 2..m, parent(l) = j
       PROVE  /\ maxchild(a, p, n, j) # 0 /\ maxchild(a, p, n, j) \in 2..m
              /\ v[maxchild(a, p, n, j)] <= v[l]
  <2>1. l \in 2..n - 1 /\ \A k \in 2..n - 1 : p[a[k]] \in Nat
    BY <1>1
  <2>2. maxchild(a, p, n, j) # 0
    BY <1>1, <1>12, <2>1, MaxChild
  <2>3. maxchild(a, p, n, j) \in 2..n - 1
    BY <1>1, <2>2, MaxChild
  <2>4. p[a[maxchild(a, p, n, j)]] <= p[a[l]]
    BY <1>1, <1>12, <2>1, MaxChildLeast
  <2> QED
    BY <1>1, <1>10, <1>11, <2>2, <2>3, <2>4
<1>13. ASSUME NEW k \in Path(t), k > i
       PROVE  v[i] > v[k] /\ k \in 2..m /\ k = maxchild(a, p, n, parent(k))
  <2>1. k = maxchild(a, p, n, parent(k)) /\ cmppri(p[a[i]], p[a[k]])
    BY <1>2, <1>13 DEF Falls
  <2>2. k \in 1..t
    BY <1>3, PathIsWell DEF PathWell
  <2>3. k \in 2..m /\ k \in 1..m
    BY <1>1, <1>3, <1>13, <2>2
  <2>4. v[i] = p[a[i]] /\ v[k] = p[a[k]]
    BY <1>10, <2>3
  <2> QED
    BY <2>1, <2>3, <2>4 DEF cmppri
<1>14. ASSUME NEW k \in Path(t), NEW l \in 2..m, k > i, parent(l) = parent(k)
       PROVE  v[k] <= v[l]
  BY <1>11, <1>12, <1>13, <1>14
<1>15. ASSUME NEW k \in 2..m, parent(k) = t PROVE v[i] <= v[k]
  <2>1. PICK c : c = maxchild(a, p, n, t)
    OBVIOUS
  <2>2. c # 0 /\ c \in 2..m /\ v[c] <= v[k]
    BY <1>2, <1>12, <1>15, <2>1
  <2>3. ~ (p[a[i]] > p[a[c]])
    BY <1>2, <2>1, <2>2 DEF Falls, cmppri
  <2>4. v[i] = p[a[i]] /\ v[c] = p[a[c]] /\ v[i] \in Nat /\ v[c] \in Nat /\ v[k] \in Nat
    BY <1>10, <1>11, <2>2
  <2> QED
    BY <2>2, <2>3, <2>4
<1>16. \A k \in 2..m : parent(k) # i => v[parent(k)] <= v[k]
  BY <1>10, <1>11
<1>17. i > 1 => \A k \in 2..m : parent(k) = i => v[parent(i)] <= v[k]
  <2> SUFFICES ASSUME i > 1, NEW k \in 2..m, parent(k) = i PROVE v[parent(i)] <= v[k]
    OBVIOUS
  <2>1. i \in 2..m
    BY <1>1
  <2>2. v[parent(i)] = p[a[parent(i)]] /\ v[k] = p[a[k]]
    BY <1>10, <1>11, <2>1
  <2> QED
    BY <2>2
<1>18. ASSUME NEW k \in 2..m PROVE p[b[parent(k)]] <= p[b[k]]
  <2>1. v[G[parent(k)]] <= v[G[k]]
    <3>1. i \in Path(t) /\ \A l \in Path(t) : l > i => v[i] > v[l]
      BY <1>2, <1>13
    <3>2. \A j \in Path(t), l \in 2..m : j > i /\ parent(l) = parent(j) => v[j] <= v[l]
      BY <1>14
    <3>3. \A l \in 2..m : parent(l) = t => v[i] <= v[l]
      BY <1>15
    <3> QED
      BY <1>3, <1>10, <1>16, <1>17, <3>1, <3>2, <3>3, DownOrders DEF G
  <2>2. G[parent(k)] \in 1..m /\ G[k] \in 1..m
    BY <1>4, <1>11 DEF Permutes
  <2>3. b[parent(k)] = a[G[parent(k)]] /\ b[k] = a[G[k]]
    BY <1>5, <1>11
  <2>4. v[G[parent(k)]] = p[a[G[parent(k)]]] /\ v[G[k]] = p[a[G[k]]]
    BY <1>10, <2>2
  <2> QED
    BY <2>1, <2>3, <2>4
<1> QED
  BY <1>7, <1>8, <1>18 DEF Ordered, h, n

(* What setpos for every item that moved leaves behind: the items are the   *)
(* same, each stored position is right, and those of items not in the heap  *)
(* stay.                                                                    *)
Settled(b, r, a, m, q) ==
    /\ r \in [Items -> Nat]
    /\ \A j \in 1..m : b[j] \in Items /\ r[b[j]] = j
    /\ \A x \in Items : (\A k \in 1..m : a[k] # x) => r[x] = q[x]
    /\ {b[j] : j \in 1..m} = {a[j] : j \in 1..m}
    /\ b = [j \in Positions |-> b[j]]
    /\ \A j \in Positions : j \notin 1..m => b[j] = a[j]

LEMMA Settles ==
    ASSUME NEW h, NEW a, NEW m \in Nat, m < avail, NEW i \in 1..m, Rearranged(h, a, m, i),
           \A j \in 1..m : a[j] \in Items,
           \A j, k \in 1..m : a[j] = a[k] => j = k,
           NEW q \in [Items -> Nat],
           \A k \in 1..m : k # i => q[a[k]] = k
    PROVE  Settled(h.array, Repositioned(h, q), a, m, q)
<1>1. PICK G, M :
         /\ Permutes(G, M, m) /\ i \in M
         /\ h = [array |-> h.array, moved |-> M]
         /\ h.array = [j \in Positions |-> h.array[j]]
         /\ \A j \in 1..m : h.array[j] = a[G[j]]
         /\ \A j \in Positions : j \notin 1..m => h.array[j] = a[j]
  BY DEF Rearranged
<1>2. PICK b : b = h.array
  OBVIOUS
<1>3. PICK r : r = Repositioned(h, q)
  OBVIOUS
<1>4. (\A j \in 1..m : b[j] = a[G[j]] /\ a[j] \in Items) /\ (\A k \in 1..m : k \notin M => q[a[k]] = k)
  BY <1>1, <1>2
<1>5. h.array = b /\ h.moved = M
  BY <1>1, <1>2
<1>6. r = [x \in Items |-> IF \E j \in M : b[j] = x THEN CHOOSE j \in M : b[j] = x ELSE q[x]]
  BY <1>5, <1>3 DEF Repositioned
<1>7. /\ \A j \in 1..m : G[j] \in 1..m
      /\ \A j \in M : j \in 1..m /\ G[j] \in M
      /\ \A j \in 1..m : j \notin M => G[j] = j
      /\ \A k \in M : \E j \in M : G[j] = k
      /\ \A j, k \in 1..m : G[j] = G[k] => j = k
  BY <1>1 DEF Permutes
<1>8. \A j, k \in 1..m : b[j] = b[k] => j = k
  BY <1>7, <1>4
<1>9. ASSUME NEW x \in Items, \E j \in M : b[j] = x
      PROVE  r[x] \in M /\ b[r[x]] = x
  <2>1. r[x] = CHOOSE j \in M : b[j] = x
    BY <1>6, <1>9
  <2> QED
    BY <1>9, <2>1
<1>10. ASSUME NEW x \in Items, ~ \E j \in M : b[j] = x
      PROVE  r[x] = q[x]
  BY <1>6, <1>10
<1>11. r \in [Items -> Nat]
  <2>1. \A x \in Items : r[x] \in Nat
    BY <1>7, <1>9, <1>10
  <2>2. r = [x \in Items |-> r[x]]
    BY <1>6
  <2> QED
    BY <2>1, <2>2
<1>12. ASSUME NEW j \in 1..m PROVE b[j] \in Items /\ r[b[j]] = j
  <2>1. b[j] \in Items
    BY <1>7, <1>4
  <2>2. CASE j \in M
    <3>1. r[b[j]] \in M /\ b[r[b[j]]] = b[j]
      BY <1>9, <2>1, <2>2
    <3> QED
      BY <1>7, <1>8, <2>1, <3>1
  <2>3. CASE j \notin M
    <3>1. b[j] = a[j] /\ q[a[j]] = j
      BY <1>7, <1>4, <2>3
    <3>2. ~ \E k \in M : b[k] = b[j]
      BY <1>7, <1>8, <2>3
    <3> QED
      BY <1>10, <2>1, <3>1, <3>2
  <2> QED
    BY <2>1, <2>2, <2>3
<1>13. ASSUME NEW x \in Items, \A k \in 1..m : a[k] # x PROVE r[x] = q[x]
  <2>1. ASSUME NEW j \in M, b[j] = x PROVE FALSE
    <3>1. j \in 1..m /\ G[j] \in 1..m
      BY <1>7, <1>4
    <3>2. a[G[j]] = x
      BY <1>4, <2>1, <3>1
    <3> QED
      BY <1>13, <3>1, <3>2
  <2> QED
    BY <1>10, <2>1
<1>14. ASSUME NEW k \in 1..m PROVE \E j \in 1..m : b[j] = a[k]
  <2>1. CASE k \in M
    BY <1>7, <1>4, <2>1
  <2>2. CASE k \notin M
    BY <1>7, <1>4, <2>2
  <2> QED
    BY <2>1, <2>2
<1>15. ASSUME NEW x PROVE (\E j \in 1..m : b[j] = x) <=> (\E k \in 1..m : a[k] = x)
  <2>1. ASSUME NEW j \in 1..m, b[j] = x PROVE \E k \in 1..m : a[k] = x
    <3>1. G[j] \in 1..m /\ a[G[j]] = x
      BY <1>7, <1>4, <2>1
    <3> QED
      BY <3>1
  <2>2. ASSUME NEW k \in 1..m, a[k] = x PROVE \E j \in 1..m : b[j] = x
    BY <1>14, <2>2
  <2> QED
    BY <2>1, <2>2
<1>16. {b[j] : j \in 1..m} = {a[j] : j \in 1..m}
  <2>1. ASSUME NEW x PROVE x \in {b[j] : j \in 1..m} <=> x \in {a[j] : j \in 1..m}
    <3>1. x \in {b[j] : j \in 1..m} <=> \E j \in 1..m : b[j] = x
      OBVIOUS
    <3>2. x \in {a[j] : j \in 1..m} <=> \E j \in 1..m : a[j] = x
      OBVIOUS
    <3> QED
      BY <1>15, <3>1, <3>2
  <2> QED
    BY <2>1
<1>17. Settled(b, r, a, m, q)
  <2>1. b = [j \in Positions |-> b[j]] /\ \A j \in Positions : j \notin 1..m => b[j] = a[j]
    BY <1>1, <1>2
  <2> QED
    BY <1>11, <1>12, <1>13, <1>16, <2>1 DEF Settled
<1> QED
  BY <1>2, <1>3, <1>17

-----------------------------------------------------------------------------
(* The inductive invariant: the first size - 1 entries hold the queued      *)
(* items in heap order, every item knows its position, and those with none  *)
(* have position 0.                                                         *)
HeapOK ==
    /\ size \in 1..avail
    /\ d \in [Positions -> Items \cup {None}]
    /\ vpc \in [Items -> Priorities]
    /\ pos \in [Items -> Nat]
    /\ \A i \in 1..size - 1 : d[i] \in Items /\ pos[d[i]] = i
    /\ \A x \in Items : pos[x] # 0 => x \in Members
    /\ Ordered(d, vpc, size - 1)

(* An item is in the heap once, at the position stored in it.               *)
LEMMA QueuedOnce ==
    ASSUME HeapOK
    PROVE  /\ size - 1 \in Nat /\ size - 1 < avail /\ 1..size - 1 \subseteq Positions
           /\ \A j, k \in 1..size - 1 : d[j] = d[k] => j = k
           /\ \A x \in Members : x \in Items /\ pos[x] \in 1..size - 1 /\ d[pos[x]] = x
<1>1. size - 1 \in Nat /\ size - 1 < avail /\ 1..size - 1 \subseteq Positions
  BY HeapSize DEF HeapOK
<1>2. \A j, k \in 1..size - 1 : d[j] = d[k] => j = k
  BY DEF HeapOK
<1>3. ASSUME NEW x \in Members PROVE x \in Items /\ pos[x] \in 1..size - 1 /\ d[pos[x]] = x
  <2>1. PICK i \in 1..size - 1 : x = d[i]
    BY DEF Members
  <2> QED
    BY <2>1 DEF HeapOK
<1> QED
  BY <1>1, <1>2, <1>3

(* pqueue_insert finds room: the array has an entry for every item.         *)
LEMMA RoomForAll ==
    ASSUME HeapOK, NEW x \in Items, x \notin Members
    PROVE  size < avail
<1>1. SUFFICES ASSUME size = avail PROVE FALSE
  BY HeapSize DEF HeapOK
<1> DEFINE S == 1..avail - 1
           T == Items \ {x}
<1>2. IsFiniteSet(T) /\ Cardinality(T) = avail - 2
  <2>1. IsFiniteSet(Items) /\ Cardinality(Items) = avail - 1
    BY HeapSize, ItemsAssumption
  <2>2. IsFiniteSet(T) /\ Cardinality(T) = Cardinality(Items) - 1
    BY <2>1, FS_RemoveElement
  <2> QED
    BY <2>1, <2>2, HeapSize
<1>3. IsFiniteSet(S) /\ Cardinality(S) = avail - 1
  <2>1. 1 \in Int /\ avail - 1 \in Int
    BY HeapSize
  <2>2. IsFiniteSet(S) /\ Cardinality(S) = IF 1 > avail - 1 THEN 0 ELSE avail - 1 - 1 + 1
    BY <2>1, FS_Interval
  <2>3. avail - 1 >= 0
    BY HeapSize
  <2> QED
    BY <2>2, <2>3, HeapSize
<1>4. Cardinality(T) < Cardinality(S)
  BY <1>2, <1>3, HeapSize
<1>5. \A i \in S : d[i] \in T
  BY <1>1 DEF HeapOK, Members
<1>6. PICK f : f = [i \in S |-> d[i]]
  OBVIOUS
<1>7. f \in [S -> T]
  BY <1>5, <1>6
<1> HIDE DEF S, T
<1>8. \E i, j \in S : i # j /\ f[i] = f[j]
  BY <1>2, <1>3, <1>4, <1>7, FS_PigeonHole
<1>9. PICK i \in S, j \in S : i # j /\ f[i] = f[j]
  BY <1>8
<1>10. d[i] = d[j]
  BY <1>6, <1>9
<1> QED
  BY <1>1, <1>9, <1>10, QueuedOnce DEF S

(* After an insertion or a change of priority: a is the array before the    *)
(* item is moved.                                                           *)
LEMMA HeapKept ==
    ASSUME NEW m \in Nat, m < avail, size' = m + 1,
           NEW a, \A j \in Positions : a[j] \in Items \cup {None},
           Settled(d', pos', a, m, pos), Ordered(d', vpc', m),
           vpc' \in [Items -> Priorities],
           \A x \in Items : pos[x] # 0 => \E k \in 1..m : a[k] = x
    PROVE  HeapOK' /\ Members' = {a[j] : j \in 1..m}
<1>1. size' \in 1..avail /\ size' - 1 = m
  BY HeapSize
<1>2. /\ pos' \in [Items -> Nat]
      /\ \A j \in 1..m : d'[j] \in Items /\ pos'[d'[j]] = j
      /\ \A x \in Items : (\A k \in 1..m : a[k] # x) => pos'[x] = pos[x]
      /\ {d'[j] : j \in 1..m} = {a[j] : j \in 1..m}
      /\ d' = [j \in Positions |-> d'[j]]
      /\ \A j \in Positions : j \notin 1..m => d'[j] = a[j]
  BY DEF Settled
<1>3. d' \in [Positions -> Items \cup {None}]
  BY <1>2
<1>4. Members' = {a[j] : j \in 1..m}
  BY <1>1, <1>2 DEF Members
<1>5. ASSUME NEW x \in Items, pos'[x] # 0 PROVE x \in Members'
  BY <1>2, <1>4, <1>5
<1>6. HeapOK'
  BY <1>1, <1>2, <1>3, <1>5 DEF HeapOK
<1> QED
  BY <1>4, <1>6

(* An empty heap is a heap.                                                 *)
LEMMA HeapInit == PQueueInit => HeapOK
<1> SUFFICES ASSUME PQueueInit PROVE HeapOK
  OBVIOUS
<1>1. size = 1 /\ size \in 1..avail /\ size - 1 = 0
  BY HeapSize DEF PQueueInit
<1>2. d \in [Positions -> Items \cup {None}] /\ pos \in [Items -> Nat] /\ vpc \in [Items -> Priorities]
  BY DEF PQueueInit
<1>3. \A x \in Items : pos[x] = 0
  BY DEF PQueueInit
<1> QED
  BY <1>1, <1>2, <1>3 DEF HeapOK, Ordered

(* pqueue_insert puts the item last, where only it may have to              *)
(* rise.                                                                    *)
LEMMA Inserts ==
    ASSUME HeapOK, NEW x \in Items, NEW p \in Priorities, pqueue_insert(x, p)
    PROVE  HeapOK' /\ Members' = Members \cup {x}
<1>1. /\ x \notin Members /\ size' = size + 1
      /\ vpc' = [vpc EXCEPT ![x] = p]
  BY DEF pqueue_insert
<1>2. PICK a : a = [d EXCEPT ![size] = x]
  OBVIOUS
<1>3. PICK h : h = bubble_up(a, vpc', size)
  OBVIOUS
<1>4. d' = h.array /\ pos' = Repositioned(h, pos)
  BY <1>1, <1>2, <1>3 DEF pqueue_insert
<1>5. size < avail /\ size \in Nat /\ size >= 1 /\ size \in 1..size /\ size \in Positions
  BY <1>1, RoomForAll, HeapSize DEF HeapOK
<1>6. /\ a[size] = x
      /\ \A j \in Positions : j # size => a[j] = d[j]
      /\ \A j \in Positions : a[j] \in Items \cup {None}
  BY <1>2, <1>5 DEF HeapOK
<1>7. 1..size \subseteq Positions /\ \A j \in 1..size : j # size => j \in 1..size - 1
  BY <1>5, HeapSize
<1>8. \A j \in 1..size - 1 : d[j] \in Items /\ d[j] # x /\ pos[d[j]] = j
  BY <1>1 DEF HeapOK, Members
<1>9. vpc' \in [Items -> Priorities] /\ \A y \in Items : vpc'[y] \in Nat /\ (y # x => vpc'[y] = vpc[y])
  <2>1. vpc' \in [Items -> Priorities]
    BY <1>1 DEF HeapOK
  <2>2. \A y \in Items : y # x => vpc'[y] = vpc[y]
    BY <1>1 DEF HeapOK
  <2> QED
    BY <2>1, <2>2, PriorityAssumption
<1>10. \A j \in 1..size : a[j] \in Items
  BY <1>6, <1>7, <1>8
<1>11. \A k \in 1..size : k # size => pos[a[k]] = k
  BY <1>6, <1>7, <1>8
<1>12. \A j, k \in 1..size : a[j] = a[k] => j = k
  <2> SUFFICES ASSUME NEW j \in 1..size, NEW k \in 1..size, a[j] = a[k] PROVE j = k
    OBVIOUS
  <2>1. CASE j # size /\ k # size
    BY <1>11, <2>1
  <2>2. CASE j = size \/ k = size
    BY <1>6, <1>7, <1>8, <2>2
  <2> QED
    BY <2>1, <2>2
<1>13. ASSUME NEW k \in 2..size PROVE parent(k) \in 1..size - 1
  <2>1. k \in Nat /\ k > 1 /\ k >= 1 /\ k <= size
    BY <1>5
  <2>2. parent(k) \in Nat /\ parent(k) >= 1 /\ parent(k) < k
    BY <2>1, Parent
  <2> QED
    BY <1>5, <2>1, <2>2
<1>14. \A j \in 1..size : vpc'[a[j]] \in Nat
  BY <1>9, <1>10
<1>15. ASSUME NEW k \in 2..size, k # size PROVE vpc'[a[parent(k)]] <= vpc'[a[k]]
  <2>1. k \in 2..size - 1 /\ k \in 1..size - 1 /\ k \in Positions
    BY <1>5, <1>7, <1>15
  <2>2. parent(k) \in 1..size - 1 /\ parent(k) # size /\ parent(k) \in Positions
    <3>1. parent(k) \in 1..size - 1
      BY <1>13
    <3> QED
      BY <1>5, <3>1, HeapSize
  <2>3. vpc[d[parent(k)]] <= vpc[d[k]]
    BY <2>1 DEF HeapOK, Ordered
  <2>4. a[parent(k)] = d[parent(k)] /\ a[k] = d[k]
    BY <1>6, <1>15, <2>1, <2>2
  <2>5. vpc'[a[parent(k)]] = vpc[d[parent(k)]] /\ vpc'[a[k]] = vpc[d[k]]
    BY <1>8, <1>9, <2>1, <2>2, <2>4
  <2> QED
    BY <2>3, <2>5
<1>16. \A k \in 2..size : parent(k) # size
  BY <1>5, <1>13
<1>17. Rearranged(h, a, size, size) /\ Ordered(h.array, vpc', size)
  BY <1>3, <1>5, <1>14, <1>15, <1>16, BubbleUp
<1>18. pos \in [Items -> Nat]
  BY DEF HeapOK
<1>19. Settled(h.array, Repositioned(h, pos), a, size, pos)
  BY <1>5, <1>10, <1>11, <1>12, <1>17, <1>18, Settles
<1>20. ASSUME NEW y \in Items, pos[y] # 0 PROVE \E k \in 1..size : a[k] = y
  <2>1. y \in Members
    BY <1>20 DEF HeapOK
  <2>2. pos[y] \in 1..size - 1 /\ d[pos[y]] = y
    BY <2>1, QueuedOnce
  <2>3. pos[y] \in 1..size /\ pos[y] # size
    BY <1>5, <2>2
  <2> QED
    BY <1>6, <1>7, <2>2, <2>3
<1>21. HeapOK' /\ Members' = {a[j] : j \in 1..size}
  <2>1. Settled(d', pos', a, size, pos) /\ Ordered(d', vpc', size)
    BY <1>4, <1>17, <1>19
  <2>2. size \in Nat /\ size < avail /\ size' = size + 1
    BY <1>1, <1>5
  <2>3. \A j \in Positions : a[j] \in Items \cup {None}
    BY <1>6
  <2>4. vpc' \in [Items -> Priorities]
    BY <1>9
  <2>5. \A y \in Items : pos[y] # 0 => \E k \in 1..size : a[k] = y
    BY <1>20
  <2> QED
    BY <2>1, <2>2, <2>3, <2>4, <2>5, HeapKept
<1>22. {a[j] : j \in 1..size} = Members \cup {x}
  <2>1. ASSUME NEW j \in 1..size PROVE a[j] \in Members \cup {x}
    <3>1. CASE j = size
      BY <1>6, <3>1
    <3>2. CASE j # size
      BY <1>6, <1>7, <3>2 DEF Members
    <3> QED
      BY <3>1, <3>2
  <2>2. ASSUME NEW y \in Members PROVE \E j \in 1..size : a[j] = y
    <3>1. PICK j \in 1..size - 1 : d[j] = y
      BY DEF Members
    <3>2. j \in 1..size /\ j # size
      BY <1>5
    <3> QED
      BY <1>6, <1>7, <3>1, <3>2
  <2> QED
    BY <1>5, <1>6, <2>1, <2>2
<1> QED
  BY <1>21, <1>22

(* pqueue_change_priority moves the one item that changed, in the direction *)
(* its priority changed.                                                    *)
LEMMA Changes ==
    ASSUME HeapOK, NEW x \in Items, NEW p \in Priorities, pqueue_change_priority(x, p)
    PROVE  HeapOK' /\ Members' = Members
<1>1. x \in Members /\ size' = size /\ vpc' = [vpc EXCEPT ![x] = p]
  BY DEF pqueue_change_priority
<1>2. PICK m : m = size - 1
  OBVIOUS
<1>3. PICK i : i = pos[x]
  OBVIOUS
<1>4. PICK h : h = IF cmppri(vpc[x], p) THEN bubble_up(d, vpc', i) ELSE percolate_down(d, vpc', size, i)
  OBVIOUS
<1>5. d' = h.array /\ pos' = Repositioned(h, pos)
  BY <1>1, <1>3, <1>4 DEF pqueue_change_priority
<1>6. /\ m \in Nat /\ m < avail /\ i \in 1..m /\ d[i] = x /\ size = m + 1 /\ size' = m + 1
      /\ 1..m \subseteq Positions
      /\ \A j, k \in 1..m : d[j] = d[k] => j = k
  <2>1. size \in Nat
    BY HeapSize DEF HeapOK
  <2> QED
    BY <1>1, <1>2, <1>3, <2>1, QueuedOnce
<1>7. vpc' \in [Items -> Priorities] /\ vpc'[x] = p /\ \A y \in Items : vpc'[y] \in Nat /\ vpc[y] \in Nat
  <2>1. vpc' \in [Items -> Priorities] /\ vpc'[x] = p
    BY <1>1 DEF HeapOK
  <2>2. vpc \in [Items -> Priorities]
    BY DEF HeapOK
  <2> QED
    BY <2>1, <2>2, PriorityAssumption
<1>8. \A j \in 1..m : d[j] \in Items /\ pos[d[j]] = j
  BY <1>2 DEF HeapOK
<1>9. \A j \in 1..m : j # i => vpc'[d[j]] = vpc[d[j]]
  <2> SUFFICES ASSUME NEW j \in 1..m, j # i PROVE vpc'[d[j]] = vpc[d[j]]
    OBVIOUS
  <2>1. d[j] # x /\ d[j] \in Items
    BY <1>6, <1>8
  <2> QED
    BY <1>1, <2>1 DEF HeapOK
<1>10. ASSUME NEW k \in 2..m
       PROVE  /\ parent(k) \in 1..m /\ k \in 1..m /\ parent(k) < k /\ parent(k) \in Nat
              /\ vpc[d[parent(k)]] <= vpc[d[k]]
  <2>1. k \in Nat /\ k > 1 /\ k >= 1 /\ k <= m
    BY <1>6
  <2>2. parent(k) \in Nat /\ parent(k) >= 1 /\ parent(k) < k
    BY <2>1, Parent
  <2>3. vpc[d[parent(k)]] <= vpc[d[k]]
    BY <1>2 DEF HeapOK, Ordered
  <2> QED
    BY <1>6, <2>1, <2>2, <2>3
<1>11. \A j \in 1..m : vpc'[d[j]] \in Nat /\ vpc[d[j]] \in Nat
  BY <1>7, <1>8
<1>12. i > 1 => \A k \in 2..m : parent(k) = i => vpc'[d[parent(i)]] <= vpc'[d[k]]
  <2> SUFFICES ASSUME i > 1, NEW k \in 2..m, parent(k) = i PROVE vpc'[d[parent(i)]] <= vpc'[d[k]]
    OBVIOUS
  <2>1. i \in 2..m
    BY <1>6
  <2>2. /\ parent(i) \in 1..m /\ parent(i) # i /\ vpc[d[parent(i)]] <= vpc[d[i]]
        /\ k \in 1..m /\ k # i /\ vpc[d[i]] <= vpc[d[k]]
    <3>1. parent(i) \in 1..m /\ parent(i) < i /\ parent(i) \in Nat /\ vpc[d[parent(i)]] <= vpc[d[i]]
      BY <1>10, <2>1
    <3>2. k \in 1..m /\ i < k /\ vpc[d[i]] <= vpc[d[k]]
      BY <1>10
    <3> QED
      BY <2>1, <3>1, <3>2
  <2>3. vpc'[d[parent(i)]] = vpc[d[parent(i)]] /\ vpc'[d[k]] = vpc[d[k]]
    BY <1>9, <2>2
  <2>4. vpc[d[parent(i)]] \in Nat /\ vpc[d[i]] \in Nat /\ vpc[d[k]] \in Nat
    BY <1>6, <1>11, <2>2
  <2> QED
    BY <2>2, <2>3, <2>4
<1>13. Rearranged(h, d, m, i) /\ Ordered(h.array, vpc', m)
  <2>1. CASE cmppri(vpc[x], p)
    <3>1. h = bubble_up(d, vpc', i)
      BY <1>4, <2>1
    <3>2. ASSUME NEW k \in 2..m, k # i PROVE vpc'[d[parent(k)]] <= vpc'[d[k]]
      <4>1. vpc'[d[k]] = vpc[d[k]] /\ vpc[d[k]] \in Nat
        BY <1>9, <1>10, <1>11, <3>2
      <4>2. CASE parent(k) = i
        <5>1. vpc'[d[i]] = p /\ vpc[d[i]] > p /\ vpc[d[i]] <= vpc[d[k]] /\ p \in Nat /\ vpc[d[i]] \in Nat
          BY <1>6, <1>7, <1>10, <1>11, <2>1, <4>2, PriorityAssumption DEF cmppri
        <5> QED
          BY <4>1, <4>2, <5>1
      <4>3. CASE parent(k) # i
        BY <1>9, <1>10, <4>1, <4>3
      <4> QED
        BY <4>2, <4>3
    <3>3. \A j \in 1..m : vpc'[d[j]] \in Nat
      BY <1>11
    <3> QED
      BY <1>6, <1>12, <3>1, <3>2, <3>3, BubbleUp
  <2>2. CASE ~cmppri(vpc[x], p)
    <3>1. h = percolate_down(d, vpc', m + 1, i)
      BY <1>4, <1>6, <2>2
    <3>2. ASSUME NEW k \in 2..m, parent(k) # i PROVE vpc'[d[parent(k)]] <= vpc'[d[k]]
      <4>1. vpc'[d[parent(k)]] = vpc[d[parent(k)]] /\ vpc[d[parent(k)]] \in Nat
        BY <1>9, <1>10, <1>11, <3>2
      <4>2. CASE k = i
        <5>1. vpc'[d[k]] = p /\ vpc[d[k]] = vpc[x]
          BY <1>6, <1>7, <4>2
        <5>2. ~(vpc[x] > p) /\ vpc[x] \in Nat /\ p \in Nat
          BY <1>7, <2>2, PriorityAssumption DEF cmppri
        <5>3. vpc[d[parent(k)]] <= vpc[d[k]]
          BY <1>10
        <5> QED
          BY <4>1, <5>1, <5>2, <5>3
      <4>3. CASE k # i
        BY <1>9, <1>10, <4>1, <4>3
      <4> QED
        BY <4>2, <4>3
    <3>3. \A j \in 1..m : vpc'[d[j]] \in Nat
      BY <1>11
    <3> QED
      BY <1>6, <1>12, <3>1, <3>2, <3>3, PercolateDown
  <2> QED
    BY <2>1, <2>2
<1>14. Settled(h.array, Repositioned(h, pos), d, m, pos)
  <2>1. pos \in [Items -> Nat]
    BY DEF HeapOK
  <2>2. \A j \in 1..m : d[j] \in Items
    BY <1>8
  <2>3. \A k \in 1..m : k # i => pos[d[k]] = k
    BY <1>8
  <2> QED
    BY <1>6, <1>13, <2>1, <2>2, <2>3, Settles
<1>15. HeapOK' /\ Members' = {d[j] : j \in 1..m}
  <2>1. Settled(d', pos', d, m, pos) /\ Ordered(d', vpc', m)
    BY <1>5, <1>13, <1>14
  <2>2. m \in Nat /\ m < avail /\ size' = m + 1
    BY <1>6
  <2>3. \A j \in Positions : d[j] \in Items \cup {None}
    BY DEF HeapOK
  <2>4. vpc' \in [Items -> Priorities]
    BY <1>7
  <2>5. \A y \in Items : pos[y] # 0 => \E k \in 1..m : d[k] = y
    BY <1>2 DEF HeapOK, Members
  <2> QED
    BY <2>1, <2>2, <2>3, <2>4, <2>5, HeapKept
<1> QED
  BY <1>2, <1>15 DEF Members

(* The first item of the heap has the least priority of all.                *)
LEMMA RootIsLeast ==
    ASSUME HeapOK, NEW k \in 1..size - 1
    PROVE  vpc[d[1]] <= vpc[d[k]]
<1> DEFINE T == {j \in 1..size - 1 : ~(vpc[d[1]] <= vpc[d[j]])}
<1>1. SUFFICES ASSUME T # {} PROVE FALSE
  OBVIOUS
<1>2. size - 1 \in Nat
  BY QueuedOnce
<1>3. PICK j \in T : \A y \in T : j <= y
  <2> HIDE DEF T
  <2>1. T \in SUBSET Nat
    BY <1>2 DEF T
  <2> QED
    BY <1>1, <2>1, LeastElement
<1>4. j \in 1..size - 1 /\ ~(vpc[d[1]] <= vpc[d[j]]) /\ j \in Nat /\ j >= 1 /\ j <= size - 1
  BY <1>2, <1>3
<1>5. \A i \in 1..size - 1 : vpc[d[i]] \in Nat
  BY PriorityAssumption DEF HeapOK
<1>6. j # 1
  BY <1>4, <1>5
<1>7. parent(j) \in Nat /\ parent(j) >= 1 /\ parent(j) < j
  BY <1>4, <1>6, Parent
<1>8. parent(j) \in 1..size - 1 /\ j \in 2..size - 1
  BY <1>2, <1>4, <1>6, <1>7
<1>9. vpc[d[parent(j)]] <= vpc[d[j]]
  BY <1>8 DEF HeapOK, Ordered
<1>10. vpc[d[1]] <= vpc[d[parent(j)]]
  BY <1>3, <1>4, <1>7, <1>8
<1> QED
  BY <1>2, <1>4, <1>5, <1>8, <1>9, <1>10

(* pqueue_pop: the last item, put at the root, is the only one out of       *)
(* order; a heap of one item has nowhere to sink and becomes empty.         *)
LEMMA Pops ==
    ASSUME HeapOK, NEW force, select_victim_line(force)
    PROVE  /\ HeapOK'
           /\ d[1] \in Members /\ Members' = Members \ {d[1]}
           /\ popped' = d[1] /\ vpc' = vpc
<1>1. size > 1 /\ popped' = d[1] /\ size' = size - 1 /\ vpc' = vpc
  BY DEF select_victim_line
<1>2. /\ size \in Nat /\ size - 1 \in Nat /\ size - 1 < avail /\ 1..size - 1 \subseteq Positions
      /\ 1 \in 1..size - 1 /\ size - 1 \in 1..size - 1
  BY <1>1, QueuedOnce, HeapSize DEF HeapOK
<1>3. PICK x : x = d[1]
  OBVIOUS
<1>4. PICK a : a = [d EXCEPT ![1] = d[size - 1]]
  OBVIOUS
<1>5. PICK h : h = percolate_down(a, vpc, size - 1, 1)
  OBVIOUS
<1>6. PICK r : r = Repositioned(h, pos)
  OBVIOUS
<1>7. d' = Shrunk(h.array) /\ pos' = [r EXCEPT ![x] = 0]
  BY <1>3, <1>4, <1>5, <1>6 DEF select_victim_line
<1>8. /\ \A j \in 1..size - 1 : d[j] \in Items /\ pos[d[j]] = j
      /\ \A j, k \in 1..size - 1 : d[j] = d[k] => j = k
      /\ x \in Items /\ x \in Members
  BY <1>2, <1>3, QueuedOnce DEF HeapOK, Members
<1>9. pos \in [Items -> Nat] /\ vpc \in [Items -> Priorities] /\ d \in [Positions -> Items \cup {None}]
  BY DEF HeapOK
<1>10. a[1] = d[size - 1] /\ \A j \in Positions : j # 1 => a[j] = d[j]
  BY <1>2, <1>4, <1>9
<1>11. PICK m : m = size - 2
  OBVIOUS
<1>12. m + 1 = size - 1 /\ m \in Nat /\ m < avail
  BY <1>1, <1>2, <1>11, HeapSize
<1>13. \A j \in 1..m : j \in 1..size - 1 /\ j \in Positions /\ j # size - 1
  BY <1>2, <1>11, <1>12
<1>14. {a[j] : j \in 1..m} = Members \ {x} /\ \A j \in 1..m : a[j] \in Items /\ a[j] # x
  <2>1. ASSUME NEW j \in 1..m PROVE a[j] \in Members /\ a[j] \in Items /\ a[j] # x
    <3>1. CASE j = 1
      <4>1. a[j] = d[size - 1] /\ size - 1 # 1
        BY <1>10, <1>13, <3>1
      <4> QED
        BY <1>2, <1>3, <1>8, <4>1 DEF Members
    <3>2. CASE j # 1
      <4>1. a[j] = d[j]
        BY <1>10, <1>13, <3>2
      <4> QED
        BY <1>2, <1>3, <1>8, <1>13, <3>2, <4>1 DEF Members
    <3> QED
      BY <3>1, <3>2
  <2>2. ASSUME NEW y \in Members, y # x PROVE \E j \in 1..m : a[j] = y
    <3>1. PICK k \in 1..size - 1 : d[k] = y
      BY DEF Members
    <3>2. k # 1
      BY <1>3, <2>2, <3>1
    <3>3. CASE k = size - 1
      <4>1. 1 \in 1..m
        BY <1>2, <1>11, <3>2, <3>3
      <4> QED
        BY <1>10, <3>1, <3>3, <4>1
    <3>4. CASE k # size - 1
      <4>1. k \in 1..m
        BY <1>2, <1>11, <3>4
      <4> QED
        BY <1>10, <1>13, <3>1, <3>2, <4>1
    <3> QED
      BY <3>3, <3>4
  <2> QED
    BY <2>1, <2>2
<1>15. \A k \in 1..m : k # 1 => pos[a[k]] = k
  BY <1>8, <1>10, <1>13
<1>16. \A j, k \in 1..m : a[j] = a[k] => j = k
  <2> SUFFICES ASSUME NEW j \in 1..m, NEW k \in 1..m, a[j] = a[k] PROVE j = k
    OBVIOUS
  <2>1. CASE j # 1 /\ k # 1
    BY <1>15, <2>1
  <2>2. ASSUME NEW l \in 1..m, l # 1 PROVE a[l] # a[1]
    <3>1. a[l] = d[l] /\ a[1] = d[size - 1] /\ l # size - 1
      BY <1>10, <1>13, <2>2
    <3> QED
      BY <1>2, <1>8, <1>13, <3>1
  <2> QED
    BY <2>1, <2>2
<1>17. \A y \in Items : vpc[y] \in Nat
  BY <1>9, PriorityAssumption
<1>18. ASSUME NEW k \in 2..m, parent(k) # 1 PROVE vpc[a[parent(k)]] <= vpc[a[k]]
  <2>1. k \in Nat /\ k > 1 /\ k >= 1 /\ k <= m /\ k \in 1..m /\ k \in 2..size - 1
    BY <1>11, <1>12
  <2>2. parent(k) \in Nat /\ parent(k) >= 1 /\ parent(k) < k
    BY <2>1, Parent
  <2>3. parent(k) \in 1..m
    BY <1>12, <2>1, <2>2
  <2>4. a[parent(k)] = d[parent(k)] /\ a[k] = d[k]
    BY <1>10, <1>13, <1>18, <2>1, <2>3
  <2>5. vpc[d[parent(k)]] <= vpc[d[k]]
    BY <2>1 DEF HeapOK, Ordered
  <2> QED
    BY <2>4, <2>5
<1>19. /\ r \in [Items -> Nat]
       /\ \A j \in 1..m : h.array[j] \in Items /\ r[h.array[j]] = j
       /\ \A y \in Items : y # x /\ (\A k \in 1..m : a[k] # y) => r[y] = pos[y]
       /\ {h.array[j] : j \in 1..m} = {a[j] : j \in 1..m}
       /\ Ordered(h.array, vpc, m)
  <2>1. CASE m = 0
    <3>1. PICK t \in Positions :
              /\ percolate_down(a, vpc, 1, 1) = [array |-> MovedDown(a, 1, t), moved |-> UpTo(t, 1)]
              /\ 1 \in Path(t)
              /\ t = 1 \/ t < 1
      <4>1. 1 \in 1..avail /\ 1 \in Positions
        BY <1>2, HeapSize
      <4> QED
        BY <4>1, PercolateStops
    <3>2. t = 1 /\ 1 \in 1..1 /\ 1 \in Nat /\ 1 < avail /\ 1 \in Path(1)
      <4>1. t = 1
        BY <3>1, HeapSize
      <4>2. 1 < avail
        BY <1>1, <1>2, HeapSize
      <4> QED
        BY <3>1, <4>1, <4>2
    <3>3. h = [array |-> MovedDown(a, 1, 1), moved |-> UpTo(1, 1)]
      BY <1>5, <1>12, <2>1, <3>1, <3>2
    <3>4. PICK b : b = MovedDown(a, 1, 1)
      OBVIOUS
    <3>5. /\ Permutes(GoesDown(1, 1, 1), UpTo(1, 1), 1) /\ 1 \in UpTo(1, 1)
          /\ b = [j \in Positions |-> b[j]]
          /\ \A j \in 1..1 : b[j] = a[GoesDown(1, 1, 1)[j]]
          /\ \A j \in Positions : j \notin 1..1 => b[j] = a[j]
      BY <3>2, <3>4, DownPermutes, MovedDownAt
    <3>6. h.array = b /\ h = [array |-> h.array, moved |-> UpTo(1, 1)]
      BY <3>3, <3>4
    <3>7. Rearranged(h, a, 1, 1)
      BY <3>5, <3>6 DEF Rearranged
    <3>8. a[1] = x /\ \A j \in 1..1 : j = 1
      BY <1>3, <1>10, <1>12, <2>1
    <3>9. Settled(h.array, Repositioned(h, pos), a, 1, pos)
      <4>1. \A j \in 1..1 : a[j] \in Items
        BY <1>8, <3>8
      <4>2. \A j, k \in 1..1 : a[j] = a[k] => j = k
        BY <3>8
      <4>3. \A k \in 1..1 : k # 1 => pos[a[k]] = k
        BY <3>8
      <4> QED
        BY <1>9, <3>2, <3>7, <4>1, <4>2, <4>3, Settles
    <3>10. r \in [Items -> Nat] /\ \A y \in Items : (\A k \in 1..1 : a[k] # y) => r[y] = pos[y]
      BY <1>6, <3>9 DEF Settled
    <3>11. \A y \in Items : y # x => r[y] = pos[y]
      BY <3>8, <3>10
    <3>12. \A j : j \notin 1..m /\ j \notin 2..m
      BY <2>1
    <3> QED
      BY <3>10, <3>11, <3>12 DEF Ordered
  <2>2. CASE m # 0
    <3>1. 1 \in 1..m /\ h = percolate_down(a, vpc, m + 1, 1)
      BY <1>5, <1>12, <2>2
    <3>2. \A j \in 1..m : vpc[a[j]] \in Nat
      BY <1>14, <1>17
    <3>3. Rearranged(h, a, m, 1) /\ Ordered(h.array, vpc, m)
      BY <1>12, <1>18, <3>1, <3>2, PercolateDown
    <3>4. Settled(h.array, Repositioned(h, pos), a, m, pos)
      <4>1. \A j \in 1..m : a[j] \in Items
        BY <1>14
      <4> QED
        BY <1>9, <1>12, <1>15, <1>16, <3>1, <3>3, <4>1, Settles
    <3>5. Settled(h.array, r, a, m, pos)
      BY <1>6, <3>4
    <3> QED
      BY <3>3, <3>5 DEF Settled
  <2> QED
    BY <2>1, <2>2
<1>20. PICK b : b = h.array
  OBVIOUS
<1>21. /\ r \in [Items -> Nat]
       /\ \A j \in 1..m : b[j] \in Items /\ r[b[j]] = j
       /\ \A y \in Items : y # x /\ (\A k \in 1..m : a[k] # y) => r[y] = pos[y]
       /\ {b[j] : j \in 1..m} = {a[j] : j \in 1..m}
       /\ Ordered(b, vpc, m)
  BY <1>19, <1>20, ZenonT(30)
<1>22. d' = [j \in Positions |-> IF j < size - 1 THEN b[j] ELSE None]
  BY <1>7, <1>20 DEF Shrunk
<1>23. \A j \in 1..m : d'[j] = b[j]
  BY <1>2, <1>11, <1>12, <1>13, <1>22
<1>24. d' \in [Positions -> Items \cup {None}]
  <2>1. \A j \in Positions : j < size - 1 => j \in 1..m
    BY <1>2, <1>11, <1>12, HeapSize
  <2> QED
    BY <1>21, <1>22, <2>1
<1>25. size' - 1 = m /\ size' \in 1..avail
  BY <1>1, <1>2, <1>11, HeapSize
<1>26. Members' = Members \ {x}
  <2>1. Members' = {b[j] : j \in 1..m}
    BY <1>23, <1>25 DEF Members
  <2> QED
    BY <1>14, <1>21, <2>1
<1>27. pos' \in [Items -> Nat] /\ pos'[x] = 0 /\ \A y \in Items : y # x => pos'[y] = r[y]
  BY <1>7, <1>8, <1>21
<1>28. \A j \in 1..m : d'[j] \in Items /\ pos'[d'[j]] = j
  <2> SUFFICES ASSUME NEW j \in 1..m PROVE d'[j] \in Items /\ pos'[d'[j]] = j
    OBVIOUS
  <2>1. b[j] \in Items /\ r[b[j]] = j
    BY <1>21
  <2>2. b[j] # x
    <3>1. b[j] \in {a[k] : k \in 1..m}
      BY <1>21
    <3> QED
      BY <1>14, <3>1
  <2> QED
    BY <1>23, <1>27, <2>1, <2>2
<1>29. ASSUME NEW y \in Items, pos'[y] # 0 PROVE y \in Members'
  <2>1. y # x /\ r[y] # 0
    BY <1>27, <1>29
  <2>2. CASE \E k \in 1..m : a[k] = y
    BY <1>14, <1>26, <2>2
  <2>3. CASE \A k \in 1..m : a[k] # y
    <3>1. pos[y] # 0
      BY <1>21, <2>1, <2>3
    <3>2. y \in Members
      BY <3>1 DEF HeapOK
    <3> QED
      BY <1>26, <2>1, <3>2
  <2> QED
    BY <2>2, <2>3
<1>30. Ordered(d', vpc', m)
  <2> SUFFICES ASSUME NEW k \in 2..m PROVE vpc[d'[parent(k)]] <= vpc[d'[k]]
    BY <1>1 DEF Ordered
  <2>1. k \in Nat /\ k > 1 /\ k >= 1 /\ k <= m /\ k \in 1..m
    BY <1>12
  <2>2. parent(k) \in Nat /\ parent(k) >= 1 /\ parent(k) < k
    BY <2>1, Parent
  <2>3. parent(k) \in 1..m
    BY <1>12, <2>1, <2>2
  <2>4. vpc[b[parent(k)]] <= vpc[b[k]]
    BY <1>21 DEF Ordered
  <2> QED
    BY <1>23, <2>1, <2>3, <2>4
<1>31. HeapOK'
  <2>1. vpc' \in [Items -> Priorities]
    BY <1>1, <1>9
  <2> QED
    BY <1>24, <1>25, <1>27, <1>28, <1>29, <1>30, <2>1 DEF HeapOK
<1> QED
  BY <1>1, <1>3, <1>8, <1>26, <1>31

(* Looking for a victim and taking none changes nothing.                    *)
LEMMA EmptyPops ==
    ASSUME HeapOK, UNCHANGED <<d, size, vpc, pos>>
    PROVE  HeapOK' /\ Members' = Members
BY DEF HeapOK, Members, Ordered

LEMMA HeapNext ==
    ASSUME HeapOK, [PQueueNext]_pqueueVars
    PROVE  HeapOK'
<1>1. ASSUME NEW x \in Items, NEW p \in Priorities, pqueue_insert(x, p) PROVE HeapOK'
  BY <1>1, Inserts
<1>2. ASSUME NEW x \in Items, NEW p \in Priorities, pqueue_change_priority(x, p) PROVE HeapOK'
  BY <1>2, Changes
<1>3. ASSUME NEW force \in BOOLEAN, select_victim_line(force) PROVE HeapOK'
  BY <1>3, Pops
<1>4. ASSUME NEW force \in BOOLEAN, NoVictim(force) PROVE HeapOK'
  BY <1>4, EmptyPops DEF NoVictim
<1>5. CASE UNCHANGED pqueueVars
  BY <1>5, EmptyPops DEF pqueueVars
<1> QED
  BY <1>1, <1>2, <1>3, <1>4, <1>5 DEF PQueueNext

(* After any insertions, changes of priority and pops the array is a heap   *)
(* and every line knows its position.                                       *)
THEOREM HeapInvariance == PQueueSpec => []HeapOK
<1>1. HeapOK /\ [PQueueNext]_pqueueVars => HeapOK'
  BY HeapNext
<1> QED
  BY <1>1, HeapInit, PTL DEF PQueueSpec

(* The FTL may read a line's position as the flag that it is queued: for    *)
(* any number of lines and any calls, the position of a queued line is      *)
(* where it is, and that of every other line is 0.                          *)
THEOREM PositionsTell == PQueueSpec => []PosTellsMembership
<1>1. HeapOK => PosTellsMembership
  <2> SUFFICES ASSUME HeapOK PROVE PosTellsMembership
    OBVIOUS
  <2>1. \A x \in Members : pos[x] \in 1..size - 1
    BY QueuedOnce
  <2>2. \A x \in Items : pos[x] # 0 <=> x \in Members
    BY <2>1 DEF HeapOK
  <2>3. \A i \in 1..size - 1 : pos[d[i]] = i
    BY DEF HeapOK
  <2> QED
    BY <2>2, <2>3 DEF PosTellsMembership
<1> QED
  BY <1>1, HeapInvariance, PTL

(* Every operation on the heap is one on the set of queued lines: nothing   *)
(* is lost or doubled, and what is popped has the fewest valid pages.       *)
THEOREM HeapIsPriorityQueue == PQueueSpec => ImplementsPriorityQueue
<1>1. PQueueInit => Queue!Init
  <2> SUFFICES ASSUME PQueueInit PROVE Queue!Init
    OBVIOUS
  <2>1. Members = {}
    BY DEF PQueueInit, Members
  <2> QED
    BY <2>1 DEF PQueueInit, Queue!Init
<1>2. HeapOK /\ [PQueueNext]_pqueueVars => [Queue!Next]_Queue!pqVars
  <2> SUFFICES ASSUME HeapOK, [PQueueNext]_pqueueVars PROVE [Queue!Next]_Queue!pqVars
    OBVIOUS
  <2>1. ASSUME NEW x \in Items, NEW p \in Priorities, pqueue_insert(x, p)
        PROVE  Queue!Insert(x, p)
    <3>1. Members' = Members \cup {x}
      BY <2>1, Inserts
    <3> QED
      BY <2>1, <3>1 DEF pqueue_insert, Queue!Insert
  <2>2. ASSUME NEW x \in Items, NEW p \in Priorities, pqueue_change_priority(x, p)
        PROVE  Queue!ChangePriority(x, p)
    <3>1. Members' = Members
      BY <2>2, Changes
    <3> QED
      BY <2>2, <3>1 DEF pqueue_change_priority, Queue!ChangePriority
  <2>3. ASSUME NEW force \in BOOLEAN, select_victim_line(force) PROVE Queue!Pop(force)
    <3>1. d[1] \in Members /\ Members' = Members \ {d[1]} /\ popped' = d[1] /\ vpc' = vpc
      BY <2>3, Pops
    <3>2. \A y \in Members : vpc[d[1]] <= vpc[y]
      BY RootIsLeast DEF Members
    <3>3. force \/ vpc[d[1]] <= few_valid
      BY <2>3 DEF select_victim_line
    <3> QED
      BY <3>1, <3>2, <3>3 DEF Queue!Pop
  <2>4. ASSUME NEW force \in BOOLEAN, NoVictim(force) PROVE Queue!Pop(force)
    <3>1. Members' = Members /\ popped' = None /\ vpc' = vpc
      BY <2>4, EmptyPops DEF NoVictim
    <3>2. ASSUME NEW x \in Members
          PROVE  ~force /\ vpc[x] > few_valid
      <4>1. PICK k \in 1..size - 1 : d[k] = x
        BY DEF Members
      <4>2. size > 1 /\ 1 \in 1..size - 1
        <5>1. size - 1 \in Nat /\ size \in Nat
          BY QueuedOnce, HeapSize DEF HeapOK
        <5> QED
          BY <4>1, <5>1
      <4>3. ~force /\ vpc[d[1]] > few_valid
        BY <2>4, <4>2 DEF NoVictim
      <4>4. vpc[d[1]] <= vpc[x]
        BY <4>1, RootIsLeast
      <4>5. vpc[d[1]] \in Nat /\ vpc[x] \in Nat /\ few_valid \in Nat
        <5>1. d[1] \in Items /\ x \in Items
          BY <4>1, <4>2 DEF HeapOK
        <5>2. vpc[d[1]] \in Nat /\ vpc[x] \in Nat
          BY <5>1, PriorityAssumption DEF HeapOK
        <5>3. few_valid \in Nat
          BY PriorityAssumption DEF few_valid
        <5> QED
          BY <5>2, <5>3
      <4> QED
        BY <4>3, <4>4, <4>5
    <3> QED
      BY <3>1, <3>2 DEF Queue!Pop
  <2>5. CASE UNCHANGED pqueueVars
    BY <2>5, EmptyPops DEF pqueueVars, Queue!pqVars
  <2> QED
    BY <2>1, <2>2, <2>3, <2>4, <2>5 DEF PQueueNext, Queue!Next
<1> QED
  BY <1>1, <1>2, HeapInvariance, PTL DEF PQueueSpec, ImplementsPriorityQueue, Queue!Spec
=============================================================================
