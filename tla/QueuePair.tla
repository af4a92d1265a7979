----------------------------- MODULE QueuePair -----------------------------
(***************************************************************************)
(* Submission queues that share a completion queue, from the host's        *)
(* doorbell to the host's interrupt handler (main.c, io.c).                *)
(*                                                                         *)
(* The dispatcher polls the doorbells (nvmev_proc_dbs), hands every new    *)
(* submission entry to an I/O worker and, when the host acknowledges       *)
(* completions, updates its count of commands in flight.  A worker writes  *)
(* the completion entry (__fill_cq_result) and, between two passes over    *)
(* its request list, raises the interrupt of a queue that is               *)
(* interrupt_ready.  ProcTable models the request list; here a worker      *)
(* completes the requests it was given in any order, which is what targets *)
(* computed by the FTLs come to.                                           *)
(*                                                                         *)
(* Atomicity.  The stores a polling host can tell apart (command_id and    *)
(* sq_id, then status, which holds the phase bit, then cq_head) are steps  *)
(* of their own, and so are the test of interrupt_ready, its reset and the *)
(* interrupt.  result0 and result1, which the code stores after the phase  *)
(* bit, are left out, as is cq_tail, which is stored and never read.       *)
(***************************************************************************)
EXTENDS Integers, FiniteSets

CONSTANTS
  nr_sq,       \* submission queues on the completion queue
  nr_io_cpu,   \* I/O workers
  sq_size, cq_size,
  cq_start,    \* completions consumed before the submission queues were created
  NrTags,      \* command ids the host uses per submission queue
  MaxCmds      \* bound: commands the host submits

(* The host keeps fewer commands outstanding than either ring has slots.    *)
(* The device relies on it: it never compares cq_head with the doorbell.    *)
ASSUME QueueSizes ==
  /\ nr_sq \in Nat \ {0} /\ nr_io_cpu \in Nat \ {0} /\ MaxCmds \in Nat
  /\ sq_size \in Nat /\ cq_size \in Nat /\ NrTags \in Nat \ {0}
  /\ NrTags < sq_size /\ nr_sq * NrTags < cq_size
  /\ cq_start \in Nat /\ cq_start < cq_size

Sqs == 1 .. nr_sq
Workers == 0 .. nr_io_cpu - 1
Tags == 1 .. NrTags
SqSlots == 0 .. sq_size - 1
CqSlots == 0 .. cq_size - 1
NoOne == -1
cqid == 1    \* the qid of the completion queue

VARIABLES
  sq,          \* submission rings: the command id in each slot
  dbs,         \* doorbells, written by the host: sq[q] and cq
  old_dbs,     \* the dispatcher's copies
  d,           \* the dispatcher: where in nvmev_proc_dbs, new_db, ring position
  nr_in_flight,
  inflight,    \* requests in the workers' tables
  cq,          \* struct nvmev_completion_queue
  w,           \* per worker: pc, request in hand, cq_head as read
  host,        \* external: the driver
  dispatched, received, \* history: commands fetched, completions consumed
  crossed      \* history: an entry was filled at a cq_head read before another fill

deviceVars == <<cq, w, inflight, crossed>>
dispatchVars == <<d, old_dbs, nr_in_flight, dispatched>>
vars == <<sq, dbs, old_dbs, d, nr_in_flight, inflight, cq, w, host,
          dispatched, received, crossed>>

NoRequest == [sqid |-> 0]
(* Local variables that are dead are 0.                                     *)
Walking == [pc |-> "walk", req |-> NoRequest, cq_head |-> 0]
Polling(at, qid) == [at |-> at, qid |-> qid, new_db |-> 0, pos |-> 0]

(* __nvmev_admin_create_cq and __nvmev_admin_create_sq; the host has        *)
(* cleared the ring, and expects phase 1 in the first round.  The           *)
(* submission queues may be new ones on a completion queue that has been    *)
(* in use: cq_start of its entries are from an earlier queue 1.             *)
Init ==
  /\ sq = [q \in Sqs |-> [i \in SqSlots |-> 0]]
  /\ dbs = [sq |-> [q \in Sqs |-> 0], cq |-> cq_start]
  /\ old_dbs = dbs
  /\ d = Polling("sq", 1)
  /\ nr_in_flight = [q \in Sqs |-> 0]
  /\ inflight = {}
  /\ cq = [entry |-> [i \in CqSlots |->
                         IF i < cq_start THEN [command_id |-> 1, sq_id |-> 1, phase |-> 1]
                         ELSE [command_id |-> 0, sq_id |-> 0, phase |-> 0]],
           cq_head |-> cq_start, phase |-> 1, interrupt_ready |-> FALSE,
           entry_lock |-> NoOne, irq_lock |-> NoOne]
  /\ w = [i \in Workers |-> Walking]
  /\ host = [busy |-> [q \in Sqs |-> {}], head |-> cq_start, phase |-> 1,
             irq |-> FALSE, handling |-> FALSE, submitted |-> 0]
  /\ dispatched = 0 /\ received = 0 /\ crossed = FALSE

-----------------------------------------------------------------------------
(* The host (external): a driver that reuses a command id once its          *)
(* completion was consumed.                                                 *)

HostSubmit(q, tag) ==
  LET tail == dbs.sq[q] IN
  /\ host.submitted < MaxCmds /\ tag \notin host.busy[q]
  /\ sq' = [sq EXCEPT ![q][tail] = tag]
  /\ dbs' = [dbs EXCEPT !.sq[q] = (tail + 1) % sq_size]
  /\ host' = [host EXCEPT !.busy[q] = @ \cup {tag}, !.submitted = @ + 1]
  /\ UNCHANGED <<dispatchVars, deviceVars, received>>

(* The handler starts on an interrupt, or because somebody polls.           *)
HostInterrupt ==
  /\ host.irq /\ ~host.handling
  /\ host' = [host EXCEPT !.irq = FALSE, !.handling = TRUE]
  /\ UNCHANGED <<sq, dbs, dispatchVars, deviceVars, received>>

HostPoll ==
  /\ ~host.handling /\ \E q \in Sqs : host.busy[q] # {}
  /\ host' = [host EXCEPT !.handling = TRUE]
  /\ UNCHANGED <<sq, dbs, dispatchVars, deviceVars, received>>

HostSeesEntry == cq.entry[host.head].phase = host.phase

HostConsume ==
  LET e == cq.entry[host.head]
      wraps == host.head + 1 = cq_size
  IN
  /\ host.handling /\ HostSeesEntry
  /\ host' = [host EXCEPT !.busy[e.sq_id] = @ \ {e.command_id},
                          !.head = IF wraps THEN 0 ELSE @ + 1,
                          !.phase = IF wraps THEN 1 - @ ELSE @]
  /\ received' = received + 1
  /\ UNCHANGED <<sq, dbs, dispatchVars, deviceVars>>

HostDone ==
  /\ host.handling /\ ~HostSeesEntry
  /\ dbs' = [dbs EXCEPT !.cq = host.head]
  /\ host' = [host EXCEPT !.handling = FALSE]
  /\ UNCHANGED <<sq, dispatchVars, deviceVars, received>>

Host == HostInterrupt \/ HostConsume \/ HostDone

-----------------------------------------------------------------------------
(* The dispatcher: nvmev_proc_dbs, round after round.                       *)

AfterSq == IF d.qid = nr_sq THEN Polling("cq", 1) ELSE Polling("sq", d.qid + 1)

SqPoll ==
  /\ d.at = "sq"
  /\ d' = IF dbs.sq[d.qid] = old_dbs.sq[d.qid] THEN AfterSq
          ELSE [d EXCEPT !.at = "sq_loop", !.new_db = dbs.sq[d.qid],
                         !.pos = old_dbs.sq[d.qid]]
  /\ UNCHANGED <<sq, dbs, old_dbs, nr_in_flight, dispatched, deviceVars,
                 host, received>>

(* CONFIG_NVMEV_IO_WORKER_BY_SQ; proc_turn, which this build stores and     *)
(* never reads, is left out.                                                *)
__get_io_worker(q) == (q - 1) % nr_io_cpu

(* __nvmev_proc_io accepts the entry; its command id is read here.          *)
SqAccept ==
  LET q == d.qid
      worker == __get_io_worker(q)
  IN
  /\ d.at = "sq_loop" /\ d.pos # d.new_db
  /\ inflight' = inflight \cup {[sqid |-> q, command_id |-> sq[q][d.pos],
                                 worker |-> worker, id |-> dispatched + 1]}
  /\ nr_in_flight' = [nr_in_flight EXCEPT ![q] = @ + 1]
  /\ dispatched' = dispatched + 1
  /\ d' = [d EXCEPT !.pos = (@ + 1) % sq_size]
  /\ UNCHANGED <<sq, dbs, old_dbs, cq, w, host, received, crossed>>

(* Faulty variants: a refused entry counts as processed; the entries        *)
(* accepted before it do not.                                               *)
SqStopSkipping ==
  /\ d.at = "sq_loop"
  /\ old_dbs' = [old_dbs EXCEPT !.sq[d.qid] = d.new_db]
  /\ d' = AfterSq
  /\ UNCHANGED <<sq, dbs, nr_in_flight, dispatched, deviceVars, host, received>>

SqStopRefetching ==
  /\ d.at = "sq_loop"
  /\ old_dbs' = IF d.pos = d.new_db THEN [old_dbs EXCEPT !.sq[d.qid] = d.pos] ELSE old_dbs
  /\ d' = AfterSq
  /\ UNCHANGED <<sq, dbs, nr_in_flight, dispatched, deviceVars, host, received>>

(* The loop ends at new_db, or early when proc_io_cmd returns false; the    *)
(* rest of the entries is met again in the next round.                      *)
SqStop ==
  /\ d.at = "sq_loop"
  /\ old_dbs' = [old_dbs EXCEPT !.sq[d.qid] = d.pos]
  /\ d' = AfterSq
  /\ UNCHANGED <<sq, dbs, nr_in_flight, dispatched, deviceVars, host, received>>

CqPoll ==
  /\ d.at = "cq"
  /\ d' = IF dbs.cq = old_dbs.cq THEN [d EXCEPT !.at = "sq"]
          ELSE [d EXCEPT !.at = "cq_loop", !.new_db = dbs.cq, !.pos = old_dbs.cq]
  /\ UNCHANGED <<sq, dbs, old_dbs, nr_in_flight, dispatched, deviceVars,
                 host, received>>

(* Faulty variant: the position is not wrapped at the end of the ring.      *)
CqAckLast ==
  /\ d.at = "cq_loop" /\ d.pos # d.new_db
  /\ nr_in_flight' = [nr_in_flight EXCEPT ![cq.entry[d.pos].sq_id] = @ - 1]
  /\ d' = [d EXCEPT !.pos = IF @ + 1 = cq_size THEN d.new_db ELSE @ + 1]
  /\ UNCHANGED <<sq, dbs, old_dbs, dispatched, deviceVars, host, received>>

(* nvmev_proc_io_cq: the entry may meanwhile hold a later completion.       *)
CqAck ==
  /\ d.at = "cq_loop" /\ d.pos # d.new_db
  /\ nr_in_flight' = [nr_in_flight EXCEPT ![cq.entry[d.pos].sq_id] = @ - 1]
  /\ d' = [d EXCEPT !.pos = (@ + 1) % cq_size]
  /\ UNCHANGED <<sq, dbs, old_dbs, dispatched, deviceVars, host, received>>

CqAckEnd ==
  /\ d.at = "cq_loop" /\ d.pos = d.new_db
  /\ old_dbs' = [old_dbs EXCEPT !.cq = d.new_db]
  /\ d' = Polling("sq", 1)
  /\ UNCHANGED <<sq, dbs, nr_in_flight, dispatched, deviceVars, host, received>>

Dispatcher == SqPoll \/ SqAccept \/ SqStop \/ CqPoll \/ CqAck \/ CqAckEnd

-----------------------------------------------------------------------------
(* The workers.                                                             *)

others == <<sq, dbs, dispatchVars, received>>

(* A request whose target is reached: __fill_cq_result reads cq_head before *)
(* it takes entry_lock.                                                     *)
FillBegin(i, r) ==
  /\ w[i].pc = "walk" /\ r.worker = i
  /\ w' = [w EXCEPT ![i] = [pc |-> "lock", req |-> r, cq_head |-> cq.cq_head]]
  /\ UNCHANGED <<others, cq, inflight, host, crossed>>

(* The entry filled is the one read before the lock: when another worker    *)
(* has filled it meanwhile, that completion is overwritten.                 *)
FillIds(i) ==
  /\ w[i].pc = "lock" /\ cq.entry_lock = NoOne
  /\ cq' = [cq EXCEPT !.entry_lock = i,
                      !.entry[w[i].cq_head].command_id = w[i].req.command_id,
                      !.entry[w[i].cq_head].sq_id = w[i].req.sqid]
  /\ w' = [w EXCEPT ![i].pc = "status"]
  /\ crossed' = (crossed \/ w[i].cq_head # cq.cq_head)
  /\ UNCHANGED <<others, inflight, host>>

FillStatus(i) ==
  /\ w[i].pc = "status"
  /\ cq' = [cq EXCEPT !.entry[w[i].cq_head].phase = cq.phase]
  /\ w' = [w EXCEPT ![i].pc = "unlock"]
  /\ UNCHANGED <<others, inflight, host, crossed>>

(* Faulty variant: the phase is not toggled.                                *)
FillEndSamePhase(i) ==
  /\ w[i].pc = "unlock"
  /\ cq' = [cq EXCEPT !.cq_head = (w[i].cq_head + 1) % cq_size,
                      !.interrupt_ready = TRUE, !.entry_lock = NoOne]
  /\ inflight' = inflight \ {w[i].req}
  /\ w' = [w EXCEPT ![i] = Walking]
  /\ UNCHANGED <<others, host, crossed>>

(* cq_head, phase, interrupt_ready, the unlock and, back in                 *)
(* nvmev_kthread_io, is_completed.                                          *)
FillEnd(i) ==
  LET wraps == w[i].cq_head + 1 = cq_size IN
  /\ w[i].pc = "unlock"
  /\ cq' = [cq EXCEPT !.cq_head = IF wraps THEN 0 ELSE w[i].cq_head + 1,
                      !.phase = IF wraps THEN 1 - @ ELSE @,
                      !.interrupt_ready = TRUE, !.entry_lock = NoOne]
  /\ inflight' = inflight \ {w[i].req}
  /\ w' = [w EXCEPT ![i] = Walking]
  /\ UNCHANGED <<others, host, crossed>>

(* After a pass over the list: only the worker that qid maps to looks at    *)
(* the queue, and only when nobody else holds irq_lock.                     *)
IrqTry(i) ==
  /\ w[i].pc = "walk" /\ i = __get_io_worker(cqid)
  /\ cq.irq_lock = NoOne /\ cq.interrupt_ready
  /\ cq' = [cq EXCEPT !.irq_lock = i]
  /\ w' = [w EXCEPT ![i].pc = "clear"]
  /\ UNCHANGED <<others, inflight, host, crossed>>

IrqClear(i) ==
  /\ w[i].pc = "clear"
  /\ cq' = [cq EXCEPT !.interrupt_ready = FALSE]
  /\ w' = [w EXCEPT ![i].pc = "signal"]
  /\ UNCHANGED <<others, inflight, host, crossed>>

(* nvmev_signal_irq, then the unlock.                                       *)
IrqSignal(i) ==
  /\ w[i].pc = "signal"
  /\ host' = [host EXCEPT !.irq = TRUE]
  /\ cq' = [cq EXCEPT !.irq_lock = NoOne]
  /\ w' = [w EXCEPT ![i].pc = "walk"]
  /\ UNCHANGED <<others, inflight, crossed>>

(* Faulty variant: the interrupt goes out before the mark is taken off.     *)
IrqSignalFirst(i) ==
  /\ w[i].pc = "clear"
  /\ host' = [host EXCEPT !.irq = TRUE]
  /\ w' = [w EXCEPT ![i].pc = "signal"]
  /\ UNCHANGED <<others, inflight, cq, crossed>>

IrqClearLast(i) ==
  /\ w[i].pc = "signal"
  /\ cq' = [cq EXCEPT !.interrupt_ready = FALSE, !.irq_lock = NoOne]
  /\ w' = [w EXCEPT ![i].pc = "walk"]
  /\ UNCHANGED <<others, inflight, host, crossed>>

WorkerSignalsFirst(i) ==
  \/ \E r \in inflight : FillBegin(i, r)
  \/ FillIds(i) \/ FillStatus(i) \/ FillEnd(i)
  \/ IrqTry(i) \/ IrqSignalFirst(i) \/ IrqClearLast(i)

Worker(i) ==
  \/ \E r \in inflight : FillBegin(i, r)
  \/ FillIds(i) \/ FillStatus(i) \/ FillEnd(i)
  \/ IrqTry(i) \/ IrqClear(i) \/ IrqSignal(i)

-----------------------------------------------------------------------------
Next ==
  \/ \E q \in Sqs, tag \in Tags : HostSubmit(q, tag)
  \/ HostPoll \/ Host
  \/ Dispatcher
  \/ \E i \in Workers : Worker(i)

Spec == Init /\ [][Next]_vars

(* Dispatcher and workers are spinning kthreads on CPUs of their own.  An   *)
(* FTL that returns false (a full write buffer) does not do so for ever.    *)
(* The driver's handler runs when it is interrupted; nothing makes it poll  *)
(* or submit.                                                               *)
Fairness ==
  /\ WF_vars(Dispatcher) /\ SF_vars(SqAccept)
  /\ \A i \in Workers : WF_vars(Worker(i))
  /\ WF_vars(Host)

FairSpec == Spec /\ Fairness

-----------------------------------------------------------------------------
(* Properties.                                                              *)

(* The slots of a ring from a up to, but not including, b.                  *)
Between(a, b, size) == {i \in 0 .. size - 1 : (i - a) % size < (b - a) % size}

(* Entries of a submission ring that the dispatcher has not fetched.        *)
Waiting(q) ==
  Between(IF d.at = "sq_loop" /\ d.qid = q THEN d.pos ELSE old_dbs.sq[q], dbs.sq[q], sq_size)

(* A completion is posted when its phase bit is stored.                     *)
Posting == {i \in Workers : w[i].pc = "unlock"}
NotPosted == inflight \ {w[i].req : i \in Posting}
Unread == Between(host.head, (cq.cq_head + Cardinality(Posting)) % cq_size, cq_size)

(* Nothing is lost and nothing happens twice: a command id the host has     *)
(* outstanding is in exactly one place -- an entry of its submission ring   *)
(* that will still be fetched, a request of a worker, or a completion entry *)
(* the host has yet to read -- and one that is not outstanding is nowhere.  *)
(* This, and what is said below of new entries and of every command, holds  *)
(* until two workers fill the same entry (crossed).                         *)
EveryCommandInOnePlace ==
  ~crossed => \A q \in Sqs, tag \in Tags :
    Cardinality({i \in Waiting(q) : sq[q][i] = tag})
      + Cardinality({r \in NotPosted : r.sqid = q /\ r.command_id = tag})
      + Cardinality({i \in Unread : /\ cq.entry[i].sq_id = q
                                    /\ cq.entry[i].command_id = tag})
    = IF tag \in host.busy[q] THEN 1 ELSE 0

(* The phase bit tells new entries from those of the previous round: the    *)
(* host takes the entry at its head for new exactly when a completion has   *)
(* been posted there, through any number of wraps of the ring.              *)
PhaseTellsNewEntries == ~crossed => (HostSeesEntry <=> Unread # {})

(* No entry that the host would take for new waits for an interrupt that    *)
(* will not come: the queue is marked, or a worker is on its way to mark or *)
(* to signal it, or the host has been interrupted or is still reading.      *)
(* interrupt_ready is set by any worker that fills an entry, under          *)
(* entry_lock, and cleared by the one that signals, under irq_lock.         *)
InterruptNotLost ==
  HostSeesEntry =>
    \/ cq.interrupt_ready \/ host.irq \/ host.handling
    \/ \E i \in Workers : w[i].pc \in {"unlock", "clear", "signal"}

(* nr_in_flight, summed over the queues, counts every command that the host *)
(* has not seen completed; once the dispatcher has caught up with the       *)
(* doorbell it is off by whole rounds of the ring at most, which it is when *)
(* the host acknowledges a round between two polls.  (A completion that was *)
(* overwritten counts as in flight for ever.)                               *)
InFlightCounted ==
  LET total[q \in 0 .. nr_sq] == IF q = 0 THEN 0 ELSE total[q-1] + nr_in_flight[q]
      excess == total[nr_sq] - (dispatched - received)
  IN  /\ excess >= 0
      /\ d.at # "cq_loop" /\ old_dbs.cq = host.head => excess % cq_size = 0

(* Every command the host submits is completed to the host, by interrupt    *)
(* alone, also when the FTL refuses it at first: as the host submits no     *)
(* more than MaxCmds, it comes back to having none outstanding.             *)
EveryCommandReceived == []<>(crossed \/ \A q \in Sqs : host.busy[q] = {})
=============================================================================
