----------------------------- MODULE ProcTable -----------------------------
(***************************************************************************)
(* The request table one I/O worker shares with the dispatcher (io.c).     *)
(*                                                                         *)
(* A table of NR_MAX_PARALLEL_IO entries is threaded by next/prev into a   *)
(* FIFO free list and an I/O list.  The dispatcher thread is the only one  *)
(* that relinks entries: it takes an entry from the head of the free list, *)
(* fills it, links it into the I/O list, and later moves the completed     *)
(* prefix of the I/O list back to the tail of the free list.  The worker   *)
(* thread walks the I/O list along next, copies data, posts completions    *)
(* and sets is_completed.  No lock protects any of this; the code relies   *)
(* on two mb() calls.                                                      *)
(*                                                                         *)
(* Atomicity.  The stores with which the dispatcher fills an entry are     *)
(* separate steps wherever a worker standing on that entry can tell them   *)
(* apart, in program order (x86 keeps store order).  The link and reclaim  *)
(* steps are single actions: each publishes through one store that the     *)
(* worker reads (a next field or io_seq), and the conditions they walk     *)
(* over only ever become true while they run.                              *)
(*                                                                         *)
(* Time is an integer clock; a request's nsecs_target is any instant from  *)
(* its nsecs_start on, which is what the FTLs may return.                  *)
(***************************************************************************)
EXTENDS Integers, Sequences, FiniteSets

CONSTANTS
  NR_MAX_PARALLEL_IO,  \* table size
  NrReqs,              \* bound: requests, commands and writebacks together
  MaxWriteback,        \* bound: writebacks all commands together enqueue
  MaxTime              \* bound: the clock stops here

ASSUME TableSize == NR_MAX_PARALLEL_IO \in Nat /\ NR_MAX_PARALLEL_IO >= 2
ASSUME Bounds == NrReqs \in Nat /\ MaxWriteback \in Nat /\ MaxTime \in Nat

NIL == -1
Entries == 0 .. NR_MAX_PARALLEL_IO - 1
Cmds == 1 .. NrReqs
Times == 0 .. MaxTime

(* A request is the pair of its command and 0 for the command itself or the *)
(* number of a writeback the command enqueued.                              *)
Reqs == Cmds \X (0 .. MaxWriteback)
NoReq == <<0, 0>>
IsWriteback(r) == r[2] # 0

VARIABLES
  proc_table,    \* shared: the entries
  free_seq, free_seq_end, io_seq, io_seq_end,  \* written by the dispatcher only
  proc_io_nsecs, \* written by the worker only
  now,           \* the clock
  d,             \* the dispatcher: pc, requests to enqueue, entry in hand
  w,             \* the worker: pc and the entry it stands on
  fetched,       \* the requests of the commands fetched so far
  late,          \* history: some target was reached before its entry was linked
  torn,          \* history: the worker served an entry the dispatcher was filling
  dropped,       \* history: requests refused because the table was full
  copied,        \* history: commands whose data the worker has transferred
  posted         \* history: completions posted / buffers released per request

lists == <<free_seq, free_seq_end, io_seq, io_seq_end>>
vars == <<proc_table, lists, proc_io_nsecs, now, d, w, fetched, late, dropped, torn, copied, posted>>

(* NVMEV_IO_PROC_INIT: kzalloc, then the whole table on the free list.      *)
Init ==
  /\ proc_table = [i \in Entries |->
        [cmd |-> NoReq, wb |-> NoReq, nsecs_target |-> 0,
         is_completed |-> FALSE, is_copied |-> FALSE, writeback_cmd |-> FALSE,
         prev |-> i - 1,
         next |-> IF i = NR_MAX_PARALLEL_IO - 1 THEN NIL ELSE i + 1]]
  /\ free_seq = 0 /\ free_seq_end = NR_MAX_PARALLEL_IO - 1
  /\ io_seq = NIL /\ io_seq_end = NIL
  /\ proc_io_nsecs = 0 /\ now = 0
  /\ d = [pc |-> "idle", todo |-> <<>>, entry |-> NIL]
  /\ w = [pc |-> "start", curr |-> NIL]
  /\ fetched = {} /\ late = FALSE /\ torn = FALSE /\ dropped = {} /\ copied = {}
  /\ posted = [r \in Reqs \cup {NoReq} |-> 0]

-----------------------------------------------------------------------------
(* The dispatcher.                                                          *)

Current == Head(d.todo)

(* The entry the dispatcher has taken from the free list and not linked.    *)
InHand == {d.entry} \ {NIL}

(* The request in hand is done with: go on with the next one the command    *)
(* enqueues, or reclaim after the last.                                     *)
Advance(t) ==
  [pc |-> IF Len(t.todo) = 1 THEN "reclaim" ELSE "enqueue",
   todo |-> Tail(t.todo), entry |-> NIL]

FetchedCmds == {r \in fetched : ~IsWriteback(r)}

(* __nvmev_proc_io: proc_io_cmd computes the targets and enqueues k         *)
(* writebacks ahead of the command.                                         *)
Fetch(k, tio, twb) ==
  LET cmd == Cardinality(FetchedCmds) + 1
      todo == [i \in 1 .. k + 1 |->
                 IF i <= k THEN [req |-> <<cmd, i>>, target |-> twb]
                           ELSE [req |-> <<cmd, 0>>, target |-> tio]]
  IN  /\ d.pc = "idle" /\ Cardinality(fetched) + k < NrReqs
      /\ Cardinality(fetched \ FetchedCmds) + k <= MaxWriteback
      /\ tio >= now /\ twb >= now
      /\ fetched' = fetched \cup {todo[i].req : i \in DOMAIN todo}
      /\ late' = (late \/ \E i \in DOMAIN todo : todo[i].target = now)
      /\ d' = [pc |-> "enqueue", entry |-> NIL, todo |-> todo]
      /\ UNCHANGED <<proc_table, lists, proc_io_nsecs, now, w, dropped, torn, copied, posted>>

(* "IO queue is almost full": the last free entry is never handed out, and  *)
(* the request is forgotten.                                                *)
EnqueueFull ==
  /\ d.pc = "enqueue"
  /\ proc_table[free_seq].next = NIL
  /\ dropped' = dropped \cup {Current.req}
  /\ d' = Advance(d)
  /\ UNCHANGED <<proc_table, lists, proc_io_nsecs, now, w, fetched, late, torn, copied, posted>>

(* Faulty variant: is_completed and the like are not reset.                 *)
EnqueueFillStale ==
  /\ d.pc = "enqueue"
  /\ proc_table[free_seq].next # NIL
  /\ free_seq' = proc_table[free_seq].next
  /\ proc_table' = [proc_table EXCEPT ![free_seq].cmd = Current.req,
                                      ![free_seq].nsecs_target = Current.target]
  /\ d' = [d EXCEPT !.pc = "is_copied", !.entry = free_seq]
  /\ UNCHANGED <<free_seq_end, io_seq, io_seq_end, proc_io_nsecs, now, w,
                 fetched, late, dropped, torn, copied, posted>>

(* Take the head of the free list; fields down to is_completed = false.     *)
EnqueueFill ==
  /\ d.pc = "enqueue"
  /\ proc_table[free_seq].next # NIL
  /\ free_seq' = proc_table[free_seq].next
  /\ proc_table' = [proc_table EXCEPT
        ![free_seq].cmd = IF IsWriteback(Current.req) THEN @ ELSE Current.req,
        ![free_seq].nsecs_target = Current.target,
        ![free_seq].is_completed = FALSE]
  /\ d' = [d EXCEPT !.pc = "is_copied", !.entry = free_seq]
  /\ UNCHANGED <<free_seq_end, io_seq, io_seq_end, proc_io_nsecs, now, w,
                 fetched, late, dropped, torn, copied, posted>>

(* Faulty variant: is_copied is not reset.                                  *)
EnqueueIsCopiedStale ==
  /\ d.pc = "is_copied"
  /\ proc_table' = [proc_table EXCEPT ![d.entry].prev = NIL]
  /\ d' = [d EXCEPT !.pc = "next"]
  /\ UNCHANGED <<lists, proc_io_nsecs, now, w, fetched, late, dropped, torn, copied, posted>>

EnqueueIsCopied ==
  /\ d.pc = "is_copied"
  /\ proc_table' = [proc_table EXCEPT ![d.entry].is_copied = IsWriteback(Current.req),
                                      ![d.entry].prev = NIL]
  /\ d' = [d EXCEPT !.pc = "next"]
  /\ UNCHANGED <<lists, proc_io_nsecs, now, w, fetched, late, dropped, torn, copied, posted>>

EnqueueNext ==
  /\ d.pc = "next"
  /\ proc_table' = [proc_table EXCEPT ![d.entry].next = NIL]
  /\ d' = [d EXCEPT !.pc = "writeback_cmd"]
  /\ UNCHANGED <<lists, proc_io_nsecs, now, w, fetched, late, dropped, torn, copied, posted>>

EnqueueWritebackCmd ==
  /\ d.pc = "writeback_cmd"
  /\ proc_table' = [proc_table EXCEPT
        ![d.entry].writeback_cmd = IsWriteback(Current.req),
        ![d.entry].wb = IF IsWriteback(Current.req) THEN Current.req ELSE @]
  /\ d' = [d EXCEPT !.pc = "link"]
  /\ UNCHANGED <<lists, proc_io_nsecs, now, w, fetched, late, dropped, torn, copied, posted>>

(* Faulty variant: the comparison the wrong way round.                      *)
StopsAtLater(c, target) == proc_table[c].nsecs_target >= target

(* Walking back from io_seq_end stops at the first entry that is already    *)
(* due or that is due no later than the new one.                            *)
StopsAt(c, target) ==
  \/ proc_table[c].nsecs_target <= proc_io_nsecs
  \/ proc_table[c].nsecs_target <= target

InsertionPoint(target) ==
  LET walk[k \in 0 .. NR_MAX_PARALLEL_IO] ==
        IF k = 0 THEN io_seq_end
        ELSE IF walk[k-1] = NIL THEN NIL
        ELSE IF StopsAt(walk[k-1], target) THEN walk[k-1]
        ELSE proc_table[walk[k-1]].prev
  IN  walk[NR_MAX_PARALLEL_IO]

LinkEmpty ==
  /\ d.pc = "link" /\ io_seq = NIL
  /\ io_seq' = d.entry /\ io_seq_end' = d.entry
  /\ d' = Advance(d)
  /\ UNCHANGED <<proc_table, free_seq, free_seq_end, proc_io_nsecs, now, w,
                 fetched, late, dropped, torn, copied, posted>>

(* Faulty variant: the old head keeps its prev.                             *)
LinkHeadOneWay ==
  /\ d.pc = "link" /\ io_seq # NIL
  /\ InsertionPoint(Current.target) = NIL
  /\ proc_table' = [proc_table EXCEPT ![d.entry].next = io_seq]
  /\ io_seq' = d.entry
  /\ d' = Advance(d)
  /\ UNCHANGED <<free_seq, free_seq_end, io_seq_end, proc_io_nsecs, now, w,
                 fetched, late, dropped, torn, copied, posted>>

LinkHead ==
  /\ d.pc = "link" /\ io_seq # NIL
  /\ InsertionPoint(Current.target) = NIL
  /\ proc_table' = [proc_table EXCEPT ![io_seq].prev = d.entry, ![d.entry].next = io_seq]
  /\ io_seq' = d.entry
  /\ d' = Advance(d)
  /\ UNCHANGED <<free_seq, free_seq_end, io_seq_end, proc_io_nsecs, now, w,
                 fetched, late, dropped, torn, copied, posted>>

LinkAfter ==
  /\ d.pc = "link" /\ io_seq # NIL
  /\ LET curr == InsertionPoint(Current.target)
         succ == proc_table[curr].next
     IN  /\ curr # NIL
         /\ IF succ = NIL
            THEN /\ proc_table' = [proc_table EXCEPT ![d.entry].prev = curr,
                                                     ![curr].next = d.entry]
                 /\ io_seq_end' = d.entry
            ELSE /\ proc_table' = [proc_table EXCEPT ![d.entry].prev = curr,
                                                     ![d.entry].next = succ,
                                                     ![succ].prev = d.entry,
                                                     ![curr].next = d.entry]
                 /\ UNCHANGED io_seq_end
  /\ d' = Advance(d)
  /\ UNCHANGED <<free_seq, free_seq_end, io_seq, proc_io_nsecs, now, w,
                 fetched, late, dropped, torn, copied, posted>>

(* Faulty variant: is_completed is not asked.                               *)
FinishedByTime(i) ==
  proc_table[i].is_copied /\ proc_table[i].nsecs_target <= proc_io_nsecs

(* __reclaim_completed_reqs: the last entry of the finished prefix of the   *)
(* I/O list, NIL when its head is not finished.                             *)
Finished(i) ==
  /\ proc_table[i].is_completed /\ proc_table[i].is_copied
  /\ proc_table[i].nsecs_target <= proc_io_nsecs

LastFinished ==
  LET curr[k \in 0 .. NR_MAX_PARALLEL_IO] ==
        IF k = 0 THEN io_seq
        ELSE IF curr[k-1] = NIL THEN NIL
        ELSE IF Finished(curr[k-1]) THEN proc_table[curr[k-1]].next ELSE curr[k-1]
      last[k \in 0 .. NR_MAX_PARALLEL_IO] ==
        IF k = 0 THEN NIL
        ELSE IF curr[k] # curr[k-1] THEN curr[k-1] ELSE last[k-1]
  IN  last[NR_MAX_PARALLEL_IO]

Reclaim ==
  /\ d.pc = "reclaim"
  /\ LET last == LastFinished
         succ == proc_table[last].next
     IN IF last = NIL
        THEN UNCHANGED <<proc_table, io_seq, free_seq_end>>
        ELSE /\ io_seq' = succ
             /\ proc_table' = [i \in Entries |->
                  [proc_table[i] EXCEPT
                     !.prev = IF i = succ THEN NIL
                              ELSE IF i = io_seq THEN free_seq_end ELSE @,
                     !.next = IF i = free_seq_end THEN io_seq
                              ELSE IF i = last THEN NIL ELSE @]]
             /\ free_seq_end' = last
  /\ d' = [d EXCEPT !.pc = "idle"]
  /\ UNCHANGED <<free_seq, io_seq_end, proc_io_nsecs, now, w, fetched, late, dropped, torn, copied, posted>>

Dispatcher ==
  \/ EnqueueFull \/ EnqueueFill \/ EnqueueIsCopied \/ EnqueueNext
  \/ EnqueueWritebackCmd \/ LinkEmpty \/ LinkHead \/ LinkAfter \/ Reclaim

-----------------------------------------------------------------------------
(* The worker, nvmev_kthread_io.  pe is the entry it stands on.             *)

pe == proc_table[w.curr]
WorkerGoto(pc) == w' = [w EXCEPT !.pc = pc]
dispatcherVars == <<lists, now, d, fetched, late, dropped>>

(* A new pass starts at whatever io_seq is now; an empty list leaves the    *)
(* worker polling.                                                          *)
WorkerStart ==
  /\ w.pc = "start"
  /\ w' = [pc |-> IF io_seq = NIL THEN "start" ELSE "visit", curr |-> io_seq]
  /\ UNCHANGED <<proc_table, proc_io_nsecs, dispatcherVars, torn, copied, posted>>

(* Faulty variant: completed entries are not skipped.                       *)
WorkerVisitAll ==
  /\ w.pc = "visit"
  /\ proc_io_nsecs' = now
  /\ WorkerGoto("copy")
  /\ UNCHANGED <<proc_table, dispatcherVars, torn, copied, posted>>

WorkerVisit ==
  /\ w.pc = "visit"
  /\ proc_io_nsecs' = now
  /\ WorkerGoto(IF pe.is_completed THEN "next" ELSE "copy")
  /\ UNCHANGED <<proc_table, dispatcherVars, torn, copied, posted>>

(* The transfer reads the command again from its submission queue slot; of  *)
(* all it moves the model keeps that it was done.                           *)
__do_perform_io(r) == copied \cup {r}

WorkerCopy ==
  /\ w.pc = "copy"
  /\ IF pe.is_copied
     THEN UNCHANGED <<proc_table, copied>>
     ELSE /\ proc_table' = [proc_table EXCEPT ![w.curr].is_copied = TRUE]
          /\ copied' = IF pe.writeback_cmd THEN copied ELSE __do_perform_io(pe.cmd)
  /\ torn' = (torn \/ w.curr \in InHand)
  /\ WorkerGoto("check")
  /\ UNCHANGED <<proc_io_nsecs, dispatcherVars, posted>>

(* buffer_release for a writeback, __fill_cq_result for a command.          *)
WorkerCheck ==
  /\ w.pc = "check"
  /\ IF pe.nsecs_target <= proc_io_nsecs
     THEN /\ posted' = [posted EXCEPT ![IF pe.writeback_cmd THEN pe.wb ELSE pe.cmd] = @ + 1]
          /\ WorkerGoto("mark")
     ELSE /\ UNCHANGED posted
          /\ WorkerGoto("next")
  /\ UNCHANGED <<proc_table, proc_io_nsecs, dispatcherVars, torn, copied>>

WorkerMark ==
  /\ w.pc = "mark"
  /\ proc_table' = [proc_table EXCEPT ![w.curr].is_completed = TRUE]
  /\ WorkerGoto("next")
  /\ UNCHANGED <<proc_io_nsecs, dispatcherVars, torn, copied, posted>>

WorkerNext ==
  /\ w.pc = "next"
  /\ w' = [pc |-> IF pe.next = NIL THEN "start" ELSE "visit", curr |-> pe.next]
  /\ UNCHANGED <<proc_table, proc_io_nsecs, dispatcherVars, torn, copied, posted>>

Worker ==
  \/ WorkerStart \/ WorkerVisit \/ WorkerCopy \/ WorkerCheck \/ WorkerMark \/ WorkerNext

-----------------------------------------------------------------------------
(* The clock; late when it reaches a target of which the dispatcher still   *)
(* has to link the request.                                                 *)
Tick ==
  /\ now < MaxTime
  /\ now' = now + 1
  /\ late' = (late \/ \E i \in DOMAIN d.todo : d.todo[i].target <= now + 1)
  /\ UNCHANGED <<proc_table, lists, proc_io_nsecs, d, w, fetched, dropped, torn, copied, posted>>

Next ==
  \/ \E k \in 0 .. MaxWriteback, tio, twb \in Times : Fetch(k, tio, twb)
  \/ Dispatcher \/ Worker \/ Tick

Spec == Init /\ [][Next]_vars

(* Both threads are spinning kthreads bound to CPUs of their own, so each   *)
(* keeps taking its next step; nothing makes the host submit commands.      *)
FairSpec == Spec /\ WF_vars(Dispatcher) /\ WF_vars(Worker) /\ WF_vars(Tick)

-----------------------------------------------------------------------------
(* Properties.                                                              *)

(* The entries met from start along next, and whether that walk ends.       *)
NextWalk(start) ==
  LET f[j \in 0 .. NR_MAX_PARALLEL_IO] ==
        IF j = 0 THEN start
        ELSE IF f[j-1] = NIL THEN NIL ELSE proc_table[f[j-1]].next
  IN  f
OnList(start) ==
  LET f == NextWalk(start) IN {f[k] : k \in 0 .. NR_MAX_PARALLEL_IO} \ {NIL}
Ends(start) == NextWalk(start)[NR_MAX_PARALLEL_IO] = NIL

(* Whatever the worker does meanwhile, relinking without a lock keeps the   *)
(* free list, the I/O list and the entry in the dispatcher's hand a         *)
(* partition of the table, both lists acyclic, their end pointers right and *)
(* prev the inverse of next on the I/O list: no entry is ever lost, linked  *)
(* twice or given out while it is in use.                                   *)
ListsPartitionTable ==
  LET free == OnList(free_seq)
      io == OnList(io_seq)
  IN  /\ Ends(free_seq) /\ Ends(io_seq)
      /\ free \cup io \cup InHand = Entries
      /\ free \cap io = {} /\ InHand \cap (free \cup io) = {}
      /\ free_seq_end \in free /\ proc_table[free_seq_end].next = NIL
      /\ io_seq # NIL =>
           /\ io_seq_end \in io /\ proc_table[io_seq_end].next = NIL
           /\ proc_table[io_seq].prev = NIL
           /\ \A i \in io : LET n == proc_table[i].next
                            IN  n # NIL => proc_table[n].prev = i

(* The request an entry carries.                                            *)
RequestOf(i) == IF proc_table[i].writeback_cmd THEN proc_table[i].wb ELSE proc_table[i].cmd

(* The next four hold as long as no target has been reached before the      *)
(* dispatcher linked its entry; once one has, the worker may work on an     *)
(* entry that is half filled in.                                            *)

(* Reclaiming only takes entries whose request is over: on the free list    *)
(* there is no request that still waits for its completion, although the    *)
(* dispatcher reads is_completed, is_copied and proc_io_nsecs while the     *)
(* worker writes them.                                                      *)
FreeEntriesAreOver ==
  ~late => \A i \in OnList(free_seq) :
             RequestOf(i) # NoReq => posted[RequestOf(i)] >= 1

(* Every request is completed (a command by one completion entry, a         *)
(* writeback by one buffer_release) at most once.                           *)
CompletedAtMostOnce == ~late => \A r \in Reqs : posted[r] <= 1

(* A completion is posted only after the data of the command was            *)
(* transferred by the worker.                                               *)
CopiedBeforeCompleted ==
  ~torn => \A r \in Reqs : ~IsWriteback(r) /\ posted[r] >= 1 => r \in copied

(* io.c: "(END) -> (START) order, nsecs target ascending order".            *)
IoListAscending ==
  ~late => \A i \in OnList(io_seq) :
             LET n == proc_table[i].next
             IN  n # NIL => proc_table[i].nsecs_target <= proc_table[n].nsecs_target

(* Unless the worker has served an entry that was being filled, there is    *)
(* again and again no command left that was fetched and neither refused by  *)
(* a full table nor completed: none is stranded behind an entry that is     *)
(* never finished, even when targets are reached before their entries are   *)
(* linked.  (The host submits finitely many commands, so this is the same   *)
(* as each of them being completed.)  Without ~torn it fails: the worker    *)
(* takes the command for the writeback whose entry is being reused.         *)
AcceptedIsCompleted ==
  []<>(torn \/ \A r \in FetchedCmds \ dropped : posted[r] >= 1)

(* io.c: "IO worker shall see the updated pi at once": the worker never     *)
(* works on an entry that the dispatcher is still filling in.               *)
UpdatedPiSeenAtOnce ==
  ~ (w.pc \in {"copy", "check", "mark"} /\ w.curr \in InHand)
=============================================================================
