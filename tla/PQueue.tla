------------------------------- MODULE PQueue -------------------------------
(***************************************************************************)
(* The priority queue of victim lines: a binary heap in an array whose     *)
(* entry 0 is unused, with the position of each item kept in the item.     *)
(* The FTL uses that position as a flag too: an item with position 0 is    *)
(* in no queue.  Items are lines, priorities their valid page counts; the  *)
(* line with the fewest valid pages is taken first.  Only the dispatcher   *)
(* uses the queue, so an operation is one step.  Nothing calls             *)
(* pqueue_remove.                                                          *)
(***************************************************************************)
EXTENDS Naturals, FiniteSets

CONSTANTS Items,         \* the lines of the device
          Priorities,    \* valid page counts
          pgs_per_line,
          None           \* NULL, and array entries not yet written

(* pqueue_init is called with the number of lines, n = tt_lines; one more  *)
(* entry is allocated because entry 0 is unused.                           *)
avail == Cardinality(Items) + 1
Positions == 1..avail - 1

ASSUME ItemsAssumption == IsFiniteSet(Items) /\ None \notin Items /\ 0 \notin Items
ASSUME PriorityAssumption == Priorities \subseteq Nat /\ pgs_per_line \in Nat

VARIABLES d, size,      \* struct pqueue_t; size counts the unused entry 0
          vpc, pos,     \* of each line: priority and position
          popped        \* history: the line the last operation returned

pqueueVars == <<d, size, vpc, pos, popped>>

(* init_lines *)
PQueueInit ==
    /\ d = [i \in Positions |-> None]
    /\ size = 1
    /\ vpc \in [Items -> Priorities]
    /\ pos = [x \in Items |-> 0]
    /\ popped = None

(* The last item has left: what its entry still contains is never read.    *)
Shrunk(a) == [i \in Positions |-> IF i < size - 1 THEN a[i] ELSE None]

Members == {d[i] : i \in 1..size - 1}

left(i) == 2 * i
right(i) == 2 * i + 1
parent(i) == i \div 2

(* victim_line_cmp_pri: whether next has to make way for curr. *)
cmppri(next, curr) == next > curr

-----------------------------------------------------------------------------
(* The positions from i up to the root. *)
Path(i) ==
    LET up[j \in 0..avail] == IF j = 0 THEN {} ELSE {j} \cup up[parent(j)]
    IN  up[i]

Least(S) == CHOOSE i \in S : \A j \in S : i <= j

(* The array a, its item moved from one end of a path to the other: the    *)
(* items between move by one.                                              *)
MovedUp(a, from, to) ==
    LET path == {j \in Path(from) : j >= to}
    IN  [j \in Positions |-> CASE j = to -> a[from]
                               [] j \in path /\ j # to -> a[parent(j)]
                               [] OTHER -> a[j]]

MovedDown(a, from, to) ==
    LET path == {j \in Path(to) : j >= from}
    IN  [j \in Positions |-> CASE j = to -> a[from]
                               [] j \in path /\ j # to -> a[Least({k \in path : k > j})]
                               [] OTHER -> a[j]]

(* bubble_up: the item at i moves up past every item it comes before. *)
bubble_up(a, p, i) ==
    LET stop[j \in Positions] ==
            IF j > 1 /\ cmppri(p[a[parent(j)]], p[a[i]]) THEN stop[parent(j)] ELSE j
    IN  [array |-> MovedUp(a, i, stop[i]),
         moved |-> {j \in Path(i) : j >= stop[i]}]

(* maxchild: the child that comes first, 0 without children. *)
maxchild(a, p, n, i) ==
    IF left(i) >= n THEN 0
    ELSE IF right(i) < n /\ cmppri(p[a[left(i)]], p[a[right(i)]]) THEN right(i) ELSE left(i)

(* percolate_down: the item at i moves down past every item that comes     *)
(* before it.                                                              *)
percolate_down(a, p, n, i) ==
    LET child(j) == maxchild(a, p, n, j)
        stop[j \in Positions] ==
            IF child(j) # 0 /\ cmppri(p[a[i]], p[a[child(j)]]) THEN stop[child(j)] ELSE j
    IN  [array |-> MovedDown(a, i, stop[i]),
         moved |-> {j \in Path(stop[i]) : j >= i}]

(* setpos is called for every item that moved. *)
Repositioned(h, positions) ==
    [x \in Items |-> IF \E j \in h.moved : h.array[j] = x
                     THEN CHOOSE j \in h.moved : h.array[j] = x
                     ELSE positions[x]]

-----------------------------------------------------------------------------
(* A line that is used up joins the queue with the count it has by then.   *)
pqueue_insert(x, p) ==
    LET count == [vpc EXCEPT ![x] = p]
        h == bubble_up([d EXCEPT ![size] = x], count, size)
    IN  /\ x \notin Members
        /\ size' = size + 1
        /\ vpc' = count
        /\ d' = h.array /\ pos' = Repositioned(h, pos)
        /\ popped' = None

(* Faulty variant: a changed item only ever moves up. *)
pqueue_change_priority_up(x, new) ==
    LET count == [vpc EXCEPT ![x] = new]
        h == bubble_up(d, count, pos[x])
    IN  /\ x \in Members
        /\ vpc' = count
        /\ d' = h.array /\ pos' = Repositioned(h, pos)
        /\ size' = size /\ popped' = None

(* mark_page_invalid lowers the count of a queued line; the interface      *)
(* allows any change.                                                      *)
pqueue_change_priority(x, new) ==
    LET count == [vpc EXCEPT ![x] = new]
        h == IF cmppri(vpc[x], new) THEN bubble_up(d, count, pos[x])
             ELSE percolate_down(d, count, size, pos[x])
    IN  /\ x \in Members
        /\ vpc' = count
        /\ d' = h.array /\ pos' = Repositioned(h, pos)
        /\ size' = size /\ popped' = None

(* With more valid pages than this, a line is collected only by force. *)
few_valid == pgs_per_line \div 8

(* select_victim_line finds no line, or none worth collecting. *)
NoVictim(force) ==
    /\ size > 1 => ~force /\ vpc[d[1]] > few_valid
    /\ popped' = None
    /\ UNCHANGED <<d, size, vpc, pos>>

(* Faulty variant: the line keeps the position it had. *)
select_victim_line_keeping_pos(force) ==
    LET h == percolate_down([d EXCEPT ![1] = d[size - 1]], vpc, size - 1, 1)
    IN  /\ size > 1 /\ (force \/ vpc[d[1]] <= few_valid)
        /\ popped' = d[1]
        /\ size' = size - 1
        /\ d' = Shrunk(h.array) /\ pos' = Repositioned(h, pos)
        /\ UNCHANGED vpc

(* select_victim_line: pqueue_pop puts the last item in place of the first *)
(* one and lets it sink; the line popped then gets position 0.             *)
select_victim_line(force) ==
    LET h == percolate_down([d EXCEPT ![1] = d[size - 1]], vpc, size - 1, 1)
    IN  /\ size > 1 /\ (force \/ vpc[d[1]] <= few_valid)
        /\ popped' = d[1]
        /\ size' = size - 1
        /\ d' = Shrunk(h.array) /\ pos' = [Repositioned(h, pos) EXCEPT ![d[1]] = 0]
        /\ UNCHANGED vpc

PQueueNext ==
    \/ \E x \in Items, p \in Priorities : pqueue_insert(x, p) \/ pqueue_change_priority(x, p)
    \/ \E force \in BOOLEAN : select_victim_line(force) \/ NoVictim(force)

PQueueSpec == PQueueInit /\ [][PQueueNext]_pqueueVars

-----------------------------------------------------------------------------
(* mark_page_invalid takes a position other than 0 to mean that the line    *)
(* is in the queue, and changes its priority there: after any sequence of   *)
(* insertions, changes and pops that is so, and it is the right item.       *)
PosTellsMembership ==
    /\ \A x \in Items : pos[x] # 0 <=> x \in Members
    /\ \A i \in 1..size - 1 : pos[d[i]] = i

(* The heap is a priority queue: what is popped is always an item of the   *)
(* smallest priority, no item is lost or doubled, and the collector is     *)
(* refused a line only when none is worth collecting.                      *)
Queue == INSTANCE PriorityQueue WITH members <- Members, pri <- vpc, Acceptable <- few_valid
ImplementsPriorityQueue == Queue!Spec
=============================================================================
