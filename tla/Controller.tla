----------------------------- MODULE Controller -----------------------------
(***************************************************************************)
(* The controller as the host driver sees it: registers, admin queue,      *)
(* creation and deletion of I/O queues (pci.c, admin.c, main.c).           *)
(*                                                                         *)
(* Registers and doorbells are plain memory that the host writes whenever  *)
(* it likes.  The dispatcher thread finds out by comparing each with a     *)
(* shadow copy, one after the other: nvmev_proc_bars looks at aqa, asq,    *)
(* acq and cc, nvmev_proc_dbs at the doorbells.  Every comparison is a     *)
(* step here, and for cc every reading, so the host's writes fall between  *)
(* any two of them.  Admin commands are executed by the dispatcher itself; *)
(* the I/O requests it has handed out are served by workers, which look    *)
(* the queues up by their number when they get there.                      *)
(*                                                                         *)
(* The host is external: it starts the controller with the register writes *)
(* of the NVMe initialisation sequence, sends admin commands, and may shut *)
(* the controller down or reset it at any moment and start it again, with  *)
(* its admin queues at the same place or elsewhere.  A register is written *)
(* in one piece.  There is one I/O queue pair; the admin completion queue  *)
(* doorbell, which nothing looks at, is left out.                          *)
(***************************************************************************)
EXTENDS Integers, FiniteSets

CONSTANTS
  Depth,     \* entries of the admin queues (aqa.asqs + 1 = aqa.acqs + 1)
  MaxCmds,   \* bound: admin commands the host submits
  MaxIos,    \* bound: I/O commands submitted to one I/O queue
  MaxLives   \* bound: times the host starts the controller

ASSUME DepthAssumption == Depth \in Nat /\ Depth >= 2
ASSUME BoundAssumption == MaxCmds \in Nat /\ MaxIos \in Nat /\ MaxLives \in Nat

NULL == 0
Slots == 0 .. Depth - 1
NextSlot(s) == (s + 1) % Depth
(* Places in host memory for the admin queues: a start takes a new one or   *)
(* the one before.                                                          *)
Addrs == 1 .. MaxLives

(* The admin commands: "abort" stands for those to which the code writes no *)
(* completion entry (abort, get features, unknown opcodes and cns values),  *)
(* "identify" for those that leave the controller alone.                    *)
Kinds == {"identify", "abort", "features", "create_cq", "create_sq", "delete_sq", "delete_cq"}
NoCmd == [cid |-> 0, kind |-> "identify"]
NoAnswer == [cid |-> 0, phase |-> 0]

VARIABLES
  bar,       \* registers, written by the host: aqa, asq, acq, cc.en, cc.shn
  csts,      \* the status register, written by the dispatcher: rdy, shst
  dbs,       \* submission queue doorbells, admin and I/O
  sq_mem, cq_mem,    \* host memory: what lies at each place
  old_bar, old_dbs,  \* shadow copies of the dispatcher
  admin_q,   \* the admin queue: exists, places taken over, cq_head, phase
  sqes, cqes,        \* the I/O queues: command that created it, or NULL
  nr_sq,     \* number of I/O submission queues that are polled
  d,         \* the dispatcher: pc, next and last admin entry to process; history
             \* (missed): it has copied a cc that it did not act on
  work,      \* I/O requests the workers have been handed
  irq,       \* interrupt 0 signalled
  host,      \* the host driver
  trouble,   \* history: how host and controller have lost each other
  misused    \* history: a worker used a queue its request does not belong to

deviceVars == <<csts, old_bar, old_dbs, admin_q, sqes, cqes, nr_sq, d>>
hostVars == <<bar, sq_mem, host, trouble>>
vars == <<bar, csts, dbs, sq_mem, cq_mem, old_bar, old_dbs, admin_q, sqes, cqes,
          nr_sq, d, work, irq, host, trouble, misused>>

(* The ways in which the admin queue fails in one life.  Two marks are      *)
(* never taken back: "forced", a deletion or reset with I/O commands        *)
(* outstanding, and "misstarted", a life that began unqueued or stale.      *)
AdminTroubles == {"unqueued", "stale", "unanswered"}
AdminTrouble == trouble \cap AdminTroubles

EmptySq == [a \in Addrs |-> [s \in Slots |-> NoCmd]]
EmptyCq == [a \in Addrs |-> [s \in Slots |-> NoAnswer]]
NoRegs == [aqa |-> 0, asq |-> NULL, acq |-> NULL, en |-> 0, shn |-> 0]
NoQueues == [queues |-> "none", pending |-> NoCmd, sq |-> NULL, io |-> 0, done |-> 0]

Init ==
  /\ bar = NoRegs /\ old_bar = NoRegs
  /\ csts = [rdy |-> 0, shst |-> 0]
  /\ dbs = [admin |-> 0, io |-> 0] /\ old_dbs = dbs
  /\ sq_mem = EmptySq /\ cq_mem = EmptyCq
  /\ admin_q = [exists |-> FALSE, sq |-> NULL, cq |-> NULL, cq_head |-> 0, phase |-> 1]
  /\ sqes = NULL /\ cqes = NULL /\ nr_sq = 0
  /\ d = [pc |-> "aqa", curr |-> 0, new |-> 0, missed |-> FALSE]
  /\ work = {} /\ irq = FALSE
  /\ host = [pc |-> "down", life |-> 0, addr |-> NULL, tail |-> 0, head |-> 0,
             phase |-> 1, sent |-> 0, answered |-> 0, q |-> NoQueues]
  /\ trouble = {} /\ misused = FALSE

-----------------------------------------------------------------------------
(* The dispatcher: nvmev_proc_bars.                                         *)

Goto(pc) == d' = [d EXCEPT !.pc = pc]
ioVars == <<sqes, cqes, nr_sq, work, misused>>
hostMemory == <<bar, sq_mem, cq_mem, irq, host, trouble>>

(* dbs[0] = old_dbs[0] = 0                                                  *)
ResetAdminDoorbell ==
  dbs' = [dbs EXCEPT !.admin = 0] /\ old_dbs' = [old_dbs EXCEPT !.admin = 0]

ProcAqa ==
  /\ d.pc = "aqa"
  /\ Goto("asq")
  /\ old_bar' = [old_bar EXCEPT !.aqa = bar.aqa]
  /\ IF old_bar.aqa # bar.aqa /\ ~admin_q.exists
     THEN /\ admin_q' = [exists |-> TRUE, sq |-> NULL, cq |-> NULL, cq_head |-> 0, phase |-> 1]
          /\ ResetAdminDoorbell
     ELSE UNCHANGED <<admin_q, dbs, old_dbs>>
  /\ UNCHANGED <<csts, hostMemory, ioVars>>

(* A test that has no other effect.                                         *)
GoOn(pc, next, test) ==
  /\ d.pc = pc /\ test
  /\ Goto(next)
  /\ UNCHANGED <<csts, dbs, old_bar, old_dbs, admin_q, hostMemory, ioVars>>

(* Faulty variant: the shadow copy is updated before the test for aqa.      *)
RetryTaken(pc, changed) ==
  /\ d.pc = pc /\ changed /\ ~admin_q.exists
  /\ old_bar' = [old_bar EXCEPT !.asq = bar.asq, !.acq = bar.acq]
  /\ Goto("dbs")
  /\ UNCHANGED <<csts, dbs, old_dbs, admin_q, hostMemory, ioVars>>

(* "asq/acq triggered before aqa, retrying": leave the registers for this   *)
(* round.                                                                   *)
Retry(pc, changed) ==
  /\ d.pc = pc /\ changed /\ ~admin_q.exists
  /\ Goto("dbs")
  /\ UNCHANGED <<csts, dbs, old_bar, old_dbs, admin_q, hostMemory, ioVars>>

ProcAsq ==
  /\ d.pc = "asq" /\ old_bar.asq # bar.asq /\ admin_q.exists
  /\ old_bar' = [old_bar EXCEPT !.asq = bar.asq]
  /\ admin_q' = [admin_q EXCEPT !.sq = bar.asq]
  /\ ResetAdminDoorbell
  /\ Goto("acq")
  /\ UNCHANGED <<csts, hostMemory, ioVars>>

ProcAcq ==
  /\ d.pc = "acq" /\ old_bar.acq # bar.acq /\ admin_q.exists
  /\ old_bar' = [old_bar EXCEPT !.acq = bar.acq]
  /\ admin_q' = [admin_q EXCEPT !.cq = bar.acq, !.cq_head = 0]
  /\ Goto("cc")
  /\ UNCHANGED <<csts, dbs, old_dbs, hostMemory, ioVars>>

CcSame == old_bar.en = bar.en /\ old_bar.shn = bar.shn

(* The bits of cc are read again for each test: csts.rdy follows cc.en,     *)
CcEnable ==
  /\ d.pc = "en"
  /\ bar.en = 1 => admin_q.exists
  /\ csts' = [csts EXCEPT !.rdy = bar.en]
  /\ Goto("shn")
  /\ UNCHANGED <<dbs, old_bar, old_dbs, admin_q, hostMemory, ioVars>>

(* a shutdown is reported complete                                          *)
CcShutdown ==
  /\ d.pc = "shn" /\ bar.shn = 1
  /\ csts' = [csts EXCEPT !.shst = 2]
  /\ Goto("reset")
  /\ UNCHANGED <<dbs, old_bar, old_dbs, admin_q, hostMemory, ioVars>>

(* before the admin queue is reset,                                         *)
CcReset ==
  /\ d.pc = "reset"
  /\ ResetAdminDoorbell
  /\ admin_q' = [admin_q EXCEPT !.cq_head = 0]
  /\ Goto("save_shn")
  /\ UNCHANGED <<csts, old_bar, hostMemory, ioVars>>

(* and what is copied in the end is what cc contains by then: a write since *)
(* the tests is taken for one that has been acted on.                       *)
CcSave(pc, shn) ==
  /\ d.pc = pc
  /\ old_bar' = [old_bar EXCEPT !.en = bar.en, !.shn = bar.shn]
  /\ d' = [d EXCEPT !.pc = "dbs", !.missed = bar.en # csts.rdy \/ bar.shn # shn]
  /\ UNCHANGED <<csts, dbs, old_dbs, admin_q, hostMemory, ioVars>>

ProcCc ==
  \/ GoOn("cc", "dbs", CcSame)
  \/ GoOn("cc", "en", ~CcSame)
  \/ Retry("en", bar.en = 1)
  \/ CcEnable
  \/ GoOn("shn", "save", bar.shn = 0)
  \/ CcShutdown
  \/ CcReset
  \/ CcSave("save", 0) \/ CcSave("save_shn", 1)

ProcBars ==
  \/ ProcAqa
  \/ GoOn("asq", "acq", old_bar.asq = bar.asq)
  \/ Retry("asq", old_bar.asq # bar.asq)
  \/ ProcAsq
  \/ GoOn("acq", "cc", old_bar.acq = bar.acq)
  \/ Retry("acq", old_bar.acq # bar.acq)
  \/ ProcAcq
  \/ ProcCc

-----------------------------------------------------------------------------
(* The dispatcher: nvmev_proc_dbs and the admin commands.                   *)

deviceRegs == <<csts, old_bar>>

PollAdminSq ==
  /\ d.pc = "dbs"
  /\ d' = IF dbs.admin = old_dbs.admin THEN [d EXCEPT !.pc = "io"]
          ELSE [d EXCEPT !.pc = "exec", !.curr = old_dbs.admin, !.new = dbs.admin]
  /\ UNCHANGED <<deviceRegs, dbs, old_dbs, admin_q, hostMemory, ioVars>>

(* The entry being processed.                                               *)
Cmd == sq_mem[admin_q.sq][d.curr]

(* A queue page was never set up: nvme_sq or nvme_cq is dereferenced while  *)
(* it is NULL, and the dispatcher is gone.                                  *)
AdminCrash ==
  /\ d.pc = "exec" /\ (admin_q.sq = NULL \/ admin_q.cq = NULL)
  /\ Goto("crashed")
  /\ UNCHANGED <<deviceRegs, dbs, old_dbs, admin_q, hostMemory, ioVars>>

(* Faulty variant: only the doorbell itself is reset.                       *)
ResetIoDoorbellOnly == dbs' = [dbs EXCEPT !.io = 0] /\ UNCHANGED old_dbs

ResetIoDoorbell ==
  dbs' = [dbs EXCEPT !.io = 0] /\ old_dbs' = [old_dbs EXCEPT !.io = 0]

(* What a command does before its completion entry is written.              *)
AdminExec ==
  /\ d.pc = "exec" /\ admin_q.sq # NULL /\ admin_q.cq # NULL
  /\ Goto("post")
  /\ sqes' = CASE Cmd.kind = "create_sq" -> Cmd.cid
               [] Cmd.kind = "delete_sq" -> NULL [] OTHER -> sqes
  /\ cqes' = CASE Cmd.kind = "create_cq" -> Cmd.cid
               [] Cmd.kind = "delete_cq" -> NULL [] OTHER -> cqes
  /\ nr_sq' = IF Cmd.kind = "features" THEN 1 ELSE nr_sq
  /\ IF Cmd.kind = "create_sq" THEN ResetIoDoorbell ELSE UNCHANGED <<dbs, old_dbs>>
  /\ UNCHANGED <<deviceRegs, admin_q, hostMemory, work, misused>>

Unanswered(kind) == kind = "abort"

(* Faulty variant: the phase stays when the head wraps.                     *)
AdvanceCqHeadSamePhase(q) == [q EXCEPT !.cq_head = NextSlot(@)]

AdvanceCqHead(q) ==
  [q EXCEPT !.cq_head = NextSlot(@),
            !.phase = IF NextSlot(q.cq_head) = 0 THEN 1 - @ ELSE @]

(* The completion entry, if the command gets one, and the next command.     *)
AdminPost ==
  /\ d.pc = "post"
  /\ cq_mem' = IF Unanswered(Cmd.kind) THEN cq_mem
               ELSE [cq_mem EXCEPT ![admin_q.cq][admin_q.cq_head] =
                        [cid |-> Cmd.cid, phase |-> admin_q.phase]]
  /\ trouble' = IF Unanswered(Cmd.kind) THEN trouble \cup {"unanswered"} ELSE trouble
  /\ admin_q' = AdvanceCqHead(admin_q)
  /\ LET curr == NextSlot(d.curr)
     IN  d' = [d EXCEPT !.curr = curr, !.pc = IF curr = d.new THEN "signal" ELSE "exec"]
  /\ UNCHANGED <<deviceRegs, dbs, old_dbs, bar, sq_mem, irq, host, ioVars>>

(* nvmev_signal_irq(0), and back in nvmev_proc_dbs.                         *)
AdminSignal ==
  /\ d.pc = "signal"
  /\ irq' = TRUE
  /\ old_dbs' = [old_dbs EXCEPT !.admin = d.new]
  /\ Goto("io")
  /\ UNCHANGED <<deviceRegs, dbs, admin_q, bar, sq_mem, cq_mem, host, trouble, ioVars>>

(* The I/O queue, if it exists and is among the first nr_sq.                *)
PollIoSq ==
  /\ d.pc = "io"
  /\ Goto("aqa")
  /\ IF nr_sq >= 1 /\ sqes # NULL
     THEN /\ old_dbs' = [old_dbs EXCEPT !.io = dbs.io]
          /\ work' = work \cup {[sq |-> sqes, cq |-> cqes, n |-> k, copied |-> FALSE] :
                                k \in old_dbs.io + 1 .. dbs.io}
     ELSE UNCHANGED <<old_dbs, work>>
  /\ UNCHANGED <<deviceRegs, dbs, admin_q, hostMemory, sqes, cqes, nr_sq, misused>>

Dispatcher ==
  ProcBars \/ PollAdminSq \/ AdminCrash \/ AdminExec \/ AdminPost \/ AdminSignal \/ PollIoSq

-----------------------------------------------------------------------------
(* The workers.                                                             *)

workerFrame == <<bar, dbs, sq_mem, cq_mem, deviceVars, irq, trouble>>

(* The transfer finds its command through sqes[sqid].                       *)
WorkerCopy(r) ==
  /\ ~r.copied
  /\ misused' = (misused \/ sqes # r.sq)
  /\ work' = (work \ {r}) \cup {[r EXCEPT !.copied = TRUE]}
  /\ UNCHANGED <<workerFrame, host>>

(* The completion goes to cqes[cqid]; the host is told at once.             *)
WorkerComplete(r) ==
  /\ r.copied
  /\ misused' = (misused \/ cqes # r.cq)
  /\ work' = work \ {r}
  /\ host' = IF r.sq = host.q.sq THEN [host EXCEPT !.q.done = @ + 1] ELSE host
  /\ UNCHANGED workerFrame

(* Faulty variant: completed first, transferred afterwards.                 *)
WorkerCompleteFirst(r) ==
  /\ ~r.copied
  /\ work' = (work \ {r}) \cup {[r EXCEPT !.copied = TRUE]}
  /\ host' = IF r.sq = host.q.sq THEN [host EXCEPT !.q.done = @ + 1] ELSE host
  /\ UNCHANGED <<workerFrame, misused>>
WorkerCopyLast(r) ==
  \/ WorkerCompleteFirst(r)
  \/ /\ r.copied
     /\ misused' = (misused \/ sqes # r.sq)
     /\ work' = work \ {r}
     /\ UNCHANGED <<workerFrame, host>>

WorkerServe(r) == WorkerCopy(r) \/ WorkerComplete(r)
Worker == \E r \in work : WorkerServe(r)

-----------------------------------------------------------------------------
(* The host driver.                                                         *)

hostFrame == <<csts, old_bar, old_dbs, admin_q, sqes, cqes, nr_sq, d, work, misused>>
HostGoto(pc) == host' = [host EXCEPT !.pc = pc]

(* A new start: zeroed queue memory, here or elsewhere.  (A zeroed entry    *)
(* that is executed is a delete_sq of queue 0, which concerns nobody.)      *)
HostStart(a) ==
  /\ host.pc = "down" /\ host.life < MaxLives
  /\ a \in {host.addr, host.life + 1} \ {NULL}
  /\ sq_mem' = EmptySq /\ cq_mem' = EmptyCq
  /\ host' = [host EXCEPT !.pc = "aqa", !.life = @ + 1, !.addr = a, !.tail = 0, !.head = 0,
                          !.phase = 1, !.answered = host.sent, !.q = NoQueues]
  /\ irq' = FALSE
  /\ UNCHANGED <<hostFrame, bar, dbs, trouble>>

(* The register writes of a start, in their order.                          *)
HostWriteRegister ==
  /\ \/ host.pc = "aqa" /\ bar' = [bar EXCEPT !.aqa = 1] /\ HostGoto("asq")
     \/ host.pc = "asq" /\ bar' = [bar EXCEPT !.asq = host.addr] /\ HostGoto("acq")
     \/ host.pc = "acq" /\ bar' = [bar EXCEPT !.acq = host.addr] /\ HostGoto("enable")
     \/ host.pc = "enable" /\ bar' = [bar EXCEPT !.en = 1] /\ HostGoto("wait_rdy")
  /\ UNCHANGED <<hostFrame, dbs, sq_mem, cq_mem, irq, trouble>>

(* What is wrong with a start at the moment the host takes it for complete: *)
(* a queue address not taken over, or state of the last life left over.     *)
StartTrouble ==
  {t \in {"unqueued", "stale"} :
     IF t = "unqueued" THEN old_bar.asq # bar.asq \/ old_bar.acq # bar.acq
     ELSE admin_q.cq_head # 0 \/ admin_q.phase # 1 \/ old_dbs.admin # 0
          \/ d.pc \in {"exec", "post", "signal"}}

HostReady ==
  /\ host.pc = "wait_rdy" /\ csts.rdy = 1
  /\ trouble' = (trouble \ AdminTroubles) \cup StartTrouble
                 \cup {t \in {"misstarted"} : StartTrouble # {}}
  /\ HostGoto("run")
  /\ UNCHANGED <<hostFrame, bar, dbs, sq_mem, cq_mem, irq>>

Drained == host.q.io = host.q.done
Forced == IF Drained THEN trouble ELSE trouble \cup {"forced"}

(* The commands the host may send next: one at a time of those that set up  *)
(* or take down queues, in the order in which they make sense.  (Bound: a   *)
(* command that is never answered only before the last life.)               *)
Sendable ==
  {"identify"} \cup (IF host.life < MaxLives THEN {"abort"} ELSE {}) \cup
  IF host.q.pending # NoCmd THEN {}
  ELSE CASE host.q.queues = "none" -> {"features"}
         [] host.q.queues = "num"  -> {"create_cq"}
         [] host.q.queues = "cq"   -> {"create_sq", "delete_cq"}
         [] host.q.queues = "both" -> {"delete_sq"}

(* A command in the next slot of the submission queue, and the doorbell.    *)
(* (Bound: nothing more once the queue is stuck behind an unanswered one.)  *)
HostSubmit(kind) ==
  /\ host.pc = "run" /\ host.sent < MaxCmds /\ host.sent - host.answered < Depth - 1
  /\ kind \in Sendable /\ "unanswered" \notin trouble
  /\ LET cmd == [cid |-> host.sent + 1, kind |-> kind]
     IN  /\ sq_mem' = [sq_mem EXCEPT ![host.addr][host.tail] = cmd]
         /\ host' = [host EXCEPT !.sent = @ + 1, !.tail = NextSlot(@),
                       !.q.pending = IF kind \in {"identify", "abort"} THEN @ ELSE cmd]
  /\ dbs' = [dbs EXCEPT !.admin = NextSlot(host.tail)]
  /\ trouble' = IF kind = "delete_sq" THEN Forced ELSE trouble
  /\ UNCHANGED <<hostFrame, bar, cq_mem, irq>>

Answer == cq_mem[host.addr][host.head]
AnswerIsNew == host.pc = "run" /\ Answer.phase = host.phase

(* What the answer to the pending command means for the I/O queues.         *)
AfterAnswer(q) ==
  IF q.pending.cid # Answer.cid THEN q
  ELSE CASE q.pending.kind = "features"  -> [q EXCEPT !.queues = "num", !.pending = NoCmd]
         [] q.pending.kind = "create_cq" -> [q EXCEPT !.queues = "cq", !.pending = NoCmd]
         [] q.pending.kind = "create_sq" ->
              [queues |-> "both", pending |-> NoCmd, sq |-> Answer.cid, io |-> 0, done |-> 0]
         [] q.pending.kind = "delete_sq" ->
              [queues |-> "cq", pending |-> NoCmd, sq |-> NULL, io |-> 0, done |-> 0]
         [] q.pending.kind = "delete_cq" -> [q EXCEPT !.queues = "num", !.pending = NoCmd]
         [] OTHER -> q

(* The interrupt handler: entries with the expected phase, one by one.      *)
HostConsume ==
  /\ irq /\ AnswerIsNew
  /\ host' = [host EXCEPT !.head = NextSlot(@), !.answered = @ + 1,
                          !.phase = IF NextSlot(host.head) = 0 THEN 1 - @ ELSE @,
                          !.q = AfterAnswer(@)]
  /\ UNCHANGED <<hostFrame, bar, dbs, sq_mem, cq_mem, irq, trouble>>

HostInterruptEnd ==
  /\ irq /\ host.pc = "run" /\ ~AnswerIsNew
  /\ irq' = FALSE
  /\ UNCHANGED <<hostFrame, bar, dbs, sq_mem, cq_mem, host, trouble>>

HostIo ==
  /\ host.pc = "run" /\ host.q.queues = "both" /\ host.q.pending = NoCmd
  /\ host.q.io < MaxIos
  /\ host' = [host EXCEPT !.q.io = @ + 1]
  /\ dbs' = [dbs EXCEPT !.io = host.q.io + 1]
  /\ UNCHANGED <<hostFrame, bar, sq_mem, cq_mem, irq, trouble>>

(* Shutdown, and reset (also after a shutdown, before the next start).      *)
(* (Bound: the last life is not ended.)                                     *)
HostShutdown ==
  /\ host.pc = "run" /\ host.life < MaxLives
  /\ bar' = [bar EXCEPT !.shn = 1]
  /\ trouble' = Forced
  /\ HostGoto("wait_shst")
  /\ UNCHANGED <<hostFrame, dbs, sq_mem, cq_mem, irq>>

HostDisable ==
  /\ host.life < MaxLives
  /\ \/ host.pc = "run"
     \/ host.pc = "wait_shst" /\ csts.shst = 2
  /\ bar' = [bar EXCEPT !.en = 0, !.shn = 0]
  /\ trouble' = Forced
  /\ HostGoto("wait_disabled")
  /\ UNCHANGED <<hostFrame, dbs, sq_mem, cq_mem, irq>>

HostDown ==
  /\ host.pc = "wait_disabled" /\ csts.rdy = 0
  /\ HostGoto("down")
  /\ UNCHANGED <<hostFrame, bar, dbs, sq_mem, cq_mem, irq, trouble>>

(* What the driver does without being asked to.                             *)
HostProgress == HostWriteRegister \/ HostReady \/ HostConsume \/ HostInterruptEnd

Host ==
  \/ \E a \in Addrs : HostStart(a)
  \/ HostProgress
  \/ \E kind \in Kinds : HostSubmit(kind)
  \/ HostIo \/ HostShutdown \/ HostDisable \/ HostDown

Next == Dispatcher \/ Worker \/ Host

Spec == Init /\ [][Next]_vars

(* The dispatcher and the workers are spinning kthreads; the driver goes on *)
(* with a start it has begun and its interrupt handler runs.                *)
FairSpec == Spec /\ WF_vars(Dispatcher) /\ WF_vars(Worker) /\ WF_vars(HostProgress)

-----------------------------------------------------------------------------
(* Properties.                                                              *)

(* An entry that the host takes for a new completion of the admin queue     *)
(* answers the oldest command that is not answered yet, through every wrap  *)
(* of both rings and every restart, as long as this start found the queues  *)
(* taken over and fresh and no command was left unanswered.                 *)
AdminAnswersInOrder ==
  AdminTrouble = {} /\ AnswerIsNew => Answer.cid = host.answered + 1 /\ Answer.cid <= host.sent

(* A start ends with a ready controller, every admin command is answered, a *)
(* shutdown is completed and a reset acknowledged, or one of the named      *)
(* troubles has happened in this life, or the dispatcher missed the very    *)
(* write of cc for whose effect the host waits.                             *)
AdminAlwaysAnswers ==
  []<>( \/ host.pc = "run" /\ (host.answered = host.sent \/ AdminTrouble # {})
        \/ host.pc = "wait_shst" /\ csts.shst = 2
        \/ host.pc = "wait_disabled" /\ csts.rdy = 0
        \/ host.pc = "down"
        \/ host.pc \in {"wait_rdy", "wait_shst", "wait_disabled"} /\ d.missed
        \/ d.pc = "crashed" /\ "unqueued" \in trouble )

(* The I/O queue's doorbell and its shadow start together when a queue is   *)
(* created, and stay the host's: each command rung since the creation is    *)
(* still to be fetched, with a worker, or completed, and nothing else is.   *)
IoCommandsConserved ==
  host.pc = "run" /\ host.q.queues = "both" /\ AdminTrouble = {} =>
    /\ dbs.io = host.q.io
    /\ old_dbs.io = host.q.done + Cardinality({r \in work : r.sq = host.q.sq})

(* A queue is freed and its pointer cleared without waiting for anyone: the *)
(* worker finds the queue its request came from as long as the host deletes *)
(* or resets only after all its commands are completed, and every start     *)
(* found the admin queues taken over and fresh.  (After one that did not,   *)
(* the host may take zeroed commands' entries for answers and run over the  *)
(* submission ring, so that a deletion is executed a second time.)          *)
WorkerUsesItsQueue == trouble \cap {"forced", "misstarted"} = {} => ~misused

(* pci.c: "issue a full SMP memory barrier so that the rest of the changes  *)
(* can be seen in order": when the host sees the controller ready, the      *)
(* queue addresses it wrote before enabling it have been seen.              *)
ReadyAfterQueueAddresses == "unqueued" \notin trouble
=============================================================================
