------------------------- MODULE Controller_proofs -------------------------
(***************************************************************************)
(* What holds of the controller for every depth of the admin queues and    *)
(* any number of commands, I/O requests and lives.                         *)
(*                                                                         *)
(* The argument is about a life that began well (Fresh): its host and the  *)
(* dispatcher start with rings in the same place, empty and in the first   *)
(* phase.  From there on everything is counted from the host's head: so    *)
(* many commands are outstanding, so many of them have their entry posted, *)
(* the next one is being executed.  The registers come first, because they *)
(* decide whether a life begins well, and because a life in progress must  *)
(* not be disturbed by what the dispatcher finds in them.                  *)
(***************************************************************************)
EXTENDS Controller, FiniteSetTheorems, TLAPS

(***************************************************************************)
(* The inductive invariant.                                                *)
(***************************************************************************)

(* A start in progress; the dispatcher inside a batch of admin commands.    *)
StartPcs == {"aqa", "asq", "acq", "enable", "wait_rdy"}
Batch == {"exec", "post", "signal"}

(* The sets of values of the variables.                                     *)
Regs == [aqa : Nat, asq : Nat, acq : Nat, en : {0, 1}, shn : {0, 1}]
Bells == [admin : Slots, io : Nat]
Cmds == [cid : Nat, kind : Kinds]
Answers == [cid : Nat, phase : {0, 1}]
Requests == [sq : Nat, cq : Nat, n : Nat, copied : BOOLEAN]
QueueStates == [queues : {"none", "num", "cq", "both"}, pending : Cmds,
                sq : Nat, io : Nat, done : Nat]
HostPcs == StartPcs \cup {"down", "run", "wait_shst", "wait_disabled"}
DispatcherPcs == {"aqa", "asq", "acq", "cc", "en", "shn", "reset", "save", "save_shn", "dbs", "io", "crashed"}
                 \cup Batch
AdminQueues == [exists : BOOLEAN, sq : Nat, cq : Nat, cq_head : Slots, phase : {0, 1}]
DispatcherStates == [pc : DispatcherPcs, curr : Slots, new : Slots, missed : BOOLEAN]
HostStates == [pc : HostPcs, life : Nat, addr : Nat, tail : Slots, head : Slots,
               phase : {0, 1}, sent : Nat, answered : Nat, q : QueueStates]

(* Types: positions stay inside the rings, addresses and numbers are        *)
(* naturals.                                                                *)
TypeOK ==
  /\ bar \in Regs /\ old_bar \in Regs
  /\ csts \in [rdy : {0, 1}, shst : Nat]
  /\ dbs \in Bells /\ old_dbs \in Bells
  /\ sq_mem \in [Addrs -> [Slots -> Cmds]]
  /\ cq_mem \in [Addrs -> [Slots -> Answers]]
  /\ admin_q \in AdminQueues
  /\ sqes \in Nat /\ cqes \in Nat /\ nr_sq \in {0, 1}
  /\ d \in DispatcherStates
  /\ work \subseteq Requests /\ IsFiniteSet(work)
  /\ irq \in BOOLEAN
  /\ host \in HostStates
  /\ trouble \subseteq AdminTroubles \cup {"forced", "misstarted"}
  /\ misused \in BOOLEAN

(* Where the host is in its life says what is in the registers.             *)
HostInv ==
  /\ host.life <= MaxLives /\ host.addr <= host.life
  /\ host.pc # "down" => host.addr # NULL
  /\ host.pc \notin {"down", "aqa", "asq"} => bar.asq = host.addr
  /\ host.pc \notin {"down", "aqa", "asq", "acq"} => bar.acq = host.addr
  /\ bar.asq <= host.addr /\ bar.acq <= host.addr
  /\ bar.shn = 1 <=> host.pc = "wait_shst"
  /\ bar.en = 1 <=> host.pc \in {"wait_rdy", "run", "wait_shst"}
  /\ host.pc \in {"run", "wait_shst"} => csts.rdy = 1
  /\ host.pc \in {"down", "aqa", "asq", "acq", "enable"} => csts.rdy = 0

(* While a start is in progress the host's account is that of empty queues. *)
StartInv ==
  host.pc \in StartPcs =>
    /\ host.tail = 0 /\ host.head = 0 /\ host.phase = 1 /\ host.answered = host.sent
    /\ host.q = NoQueues
    /\ sq_mem = EmptySq

(* What the dispatcher has taken over.  It resets the admin queue while the *)
(* host waits for a shutdown or, at most, for the reset after it.           *)
RegInv ==
  /\ old_bar.asq <= bar.asq /\ old_bar.acq <= bar.acq
  /\ admin_q.sq = old_bar.asq /\ admin_q.cq = old_bar.acq
  /\ ~admin_q.exists => old_bar.asq = NULL /\ old_bar.acq = NULL
  /\ d.pc = "post" => admin_q.sq # NULL /\ admin_q.cq # NULL
  /\ d.pc = "reset" => host.pc = "wait_shst" \/ (host.pc = "wait_disabled" /\ csts.rdy = 1)

(* Nothing is rung while the controller is not ready: what the dispatcher   *)
(* has not fetched then it fetches before the next start.                   *)
Resting ==
  \/ host.pc \in StartPcs \cup {"down"}
  \/ host.pc = "wait_disabled" /\ csts.rdy = 0
DbsInv ==
  Resting =>
    \/ dbs.admin = old_dbs.admin /\ d.pc \notin Batch
    \/ /\ csts.rdy = 0
       /\ d.pc \in {"shn", "save", "save_shn", "dbs", "crashed"} \/ (d.pc \in Batch /\ d.new = dbs.admin)

(* No entry that a new life will expect has the phase it expects.           *)
PhaseInv ==
  host.pc \in StartPcs =>
    \A s \in Slots :
      (admin_q.cq = host.addr => (admin_q.phase = 1 <=> s >= admin_q.cq_head))
        => cq_mem[host.addr][s].phase = 0

(* Command identifiers are given out in order: none is ahead of host.sent.  *)
CidInv ==
  /\ sqes <= host.sent
  /\ \A r \in work : r.sq \in 1 .. host.sent
  /\ \A a \in Addrs, s \in Slots : sq_mem[a][s].cid <= host.sent
  /\ host.q.sq <= host.sent /\ host.q.pending.cid <= host.sent
  /\ trouble \cap {"unqueued", "stale"} # {} => "misstarted" \in trouble

(* A life that began well.                                                  *)
Fresh == host.pc = "run" /\ trouble \cap {"unqueued", "stale"} = {}

(* Positions in the rings, counted from the host's head.                    *)
SlotOf(h, i) == IF h + i < Depth THEN h + i ELSE h + i - Depth
PhaseOf(i) == IF host.head + i < Depth THEN host.phase ELSE 1 - host.phase
Dist(a, b) == IF a <= b THEN b - a ELSE b - a + Depth
Posted == Dist(host.head, admin_q.cq_head)
Outstanding == host.sent - host.answered

(* Host and dispatcher have the admin queues in the same place.             *)
PlaceInv ==
  Fresh => admin_q.sq = host.addr /\ admin_q.cq = host.addr

(* The rings, counted: of the outstanding commands the first Posted have    *)
(* been gone through, and the next entry gets the phase that the host will  *)
(* expect there.                                                            *)
CountInv ==
  Fresh =>
    /\ Outstanding \in 0 .. Depth - 1
    /\ Posted <= Outstanding
    /\ host.tail = SlotOf(host.head, Outstanding) /\ dbs.admin = host.tail
    /\ admin_q.phase = PhaseOf(Posted)
    /\ host.q.pending # NoCmd => /\ host.q.pending.cid \in host.answered + 1 .. host.sent
                                 /\ host.q.pending.kind \notin {"identify", "abort"}

(* The dispatcher is at the command whose entry comes next, and its batch   *)
(* ends within what the host has rung.                                      *)
BatchInv ==
  Fresh =>
    /\ d.pc \in {"exec", "post"} =>
         /\ d.curr = admin_q.cq_head
         /\ Posted < Dist(host.head, d.new) /\ Dist(host.head, d.new) <= Outstanding
    /\ d.pc = "signal" => d.new = admin_q.cq_head
    /\ d.pc \notin Batch => old_dbs.admin = admin_q.cq_head

(* The outstanding commands lie in the submission ring in their order; only *)
(* the pending one changes queues.                                          *)
SqInv ==
  Fresh =>
    \A i \in 0 .. Depth - 1 : i < Outstanding =>
      LET c == sq_mem[host.addr][SlotOf(host.head, i)]
      IN  /\ c.cid = host.answered + 1 + i
          /\ IF c.cid = host.q.pending.cid THEN c = host.q.pending
             ELSE c.kind \in {"identify", "abort"}

(* A posted entry answers the command of its position and has the phase the *)
(* host expects there; every other entry has the other phase.               *)
CqInv ==
  Fresh =>
    \A i \in 0 .. Depth - 1 :
      LET a == cq_mem[host.addr][SlotOf(host.head, i)]
      IN  IF i < Posted
          THEN \/ a = [cid |-> host.answered + 1 + i, phase |-> PhaseOf(i)]
               \/ "unanswered" \in trouble /\ a.phase = 1 - PhaseOf(i)
          ELSE a.phase = 1 - PhaseOf(i)

(* The pending command has been executed.                                   *)
Executed ==
  \/ host.q.pending.cid <= host.answered + Posted
  \/ host.q.pending.cid = host.answered + Posted + 1 /\ d.pc = "post"

(* The requests of the queue that the host uses.                            *)
Mine == {r \in work : r.sq = host.q.sq}

(* The I/O queue pair of a life that began well: what the host knows of it, *)
(* what the controller has created, and the requests in between.            *)
IoInv ==
  Fresh =>
    /\ host.q.queues = "both" =>
         /\ host.q.pending = NoCmd \/ host.q.pending.kind = "delete_sq"
         /\ dbs.io = host.q.io /\ old_dbs.io <= dbs.io
         /\ old_dbs.io = host.q.done + Cardinality(Mine)
         /\ \A r \in Mine : r.n <= old_dbs.io
         /\ \A r, s \in Mine : r.n = s.n => r = s
         /\ host.q.sq # NULL
         /\ sqes = IF host.q.pending # NoCmd /\ Executed THEN NULL ELSE host.q.sq
    /\ host.q.pending # NoCmd /\ host.q.pending.kind = "delete_sq" => host.q.queues = "both"
    /\ host.q.pending # NoCmd /\ host.q.pending.kind = "create_sq" =>
         /\ \A r \in work : r.sq # host.q.pending.cid
         /\ IF Executed THEN sqes = host.q.pending.cid /\ dbs.io = 0 /\ old_dbs.io = 0
            ELSE sqes # host.q.pending.cid

(* Unless a queue was torn down with commands outstanding or a life began   *)
(* badly, the workers hold nothing, or only requests of the queue pair in   *)
(* use.                                                                     *)
WorkInv ==
  trouble \cap {"forced", "misstarted"} = {} =>
    /\ ~misused
    /\ \/ work = {} /\ dbs.io = old_dbs.io
       \/ /\ host.pc = "run" /\ host.q.queues = "both" /\ host.q.pending = NoCmd
          /\ \A r \in work : r.sq = host.q.sq /\ r.cq = cqes

(* The inductive invariant.                                                 *)
IInv ==
  /\ TypeOK /\ HostInv /\ StartInv /\ RegInv /\ DbsInv /\ PhaseInv /\ CidInv
  /\ PlaceInv /\ CountInv /\ BatchInv /\ SqInv /\ CqInv /\ IoInv /\ WorkInv

-----------------------------------------------------------------------------
(***************************************************************************)
(* Facts about the operators of the model.                                 *)
(***************************************************************************)

(* The constants, as SMT needs them.                                        *)
LEMMA Constants ==
    /\ Depth \in Nat /\ Depth >= 2 /\ MaxCmds \in Nat /\ MaxIos \in Nat /\ MaxLives \in Nat
    /\ 0 \in Slots /\ \A s \in Slots : s \in Int /\ 0 <= s /\ s < Depth
    /\ \A s \in Int : s \in Slots <=> 0 <= s /\ s < Depth
    /\ \A a \in Addrs : a \in Nat /\ a # 0
BY DepthAssumption, BoundAssumption DEF Slots, Addrs

(* A remainder that is its own dividend.                                    *)
LEMMA ModSmall ==
    ASSUME NEW n \in Nat \ {0}, NEW a \in 0 .. n - 1
    PROVE  a % n = a
BY SMT

(* The next entry of a ring.                                                *)
LEMMA NextSlotIs ==
    ASSUME NEW s \in Slots
    PROVE  NextSlot(s) \in Slots /\ NextSlot(s) = IF s + 1 = Depth THEN 0 ELSE s + 1
<1>1. Depth \in Nat \ {0} /\ s \in 0 .. Depth - 1
  BY DepthAssumption DEF Slots
<1>2. CASE s + 1 = Depth
  <2>1. Depth % Depth = 0
    BY <1>1
  <2>2. QED
    BY <1>1, <1>2, <2>1 DEF NextSlot, Slots
<1>3. CASE s + 1 # Depth
  <2>1. s + 1 \in 0 .. Depth - 1
    BY <1>1, <1>3
  <2>2. (s + 1) % Depth = s + 1
    BY <1>1, <2>1, ModSmall
  <2>3. QED
    BY <1>1, <1>3, <2>1, <2>2 DEF NextSlot, Slots
<1>4. QED
  BY <1>2, <1>3

(* The dispatcher leaves a register alone: nothing new in it, or a retry.   *)
Skip ==
  /\ d.pc \in {"asq", "acq", "cc", "en"}
  /\ \E pc \in {"acq", "cc", "en", "dbs"} : d' = [d EXCEPT !.pc = pc]
  /\ UNCHANGED <<csts, dbs, old_bar, old_dbs, admin_q, hostMemory, ioVars>>

(* It acts on cc.                                                           *)
CcStep ==
  \/ CcEnable \/ GoOn("shn", "save", bar.shn = 0) \/ CcShutdown \/ CcReset
  \/ CcSave("save", 0) \/ CcSave("save_shn", 1)

(* The steps, with the register tests that find nothing taken together.     *)
LEMMA NextCases ==
    ASSUME Next
    PROVE  \/ ProcAqa \/ ProcAsq \/ ProcAcq \/ CcStep \/ Skip
           \/ PollAdminSq \/ AdminCrash \/ AdminExec \/ AdminPost \/ AdminSignal \/ PollIoSq
           \/ \E r \in work : WorkerCopy(r) \/ WorkerComplete(r)
           \/ \E a \in Addrs : HostStart(a)
           \/ HostWriteRegister \/ HostReady \/ HostConsume \/ HostInterruptEnd
           \/ \E kind \in Kinds : HostSubmit(kind)
           \/ HostIo \/ HostShutdown \/ HostDisable \/ HostDown
<1>1. ASSUME ProcBars PROVE ProcAqa \/ ProcAsq \/ ProcAcq \/ CcStep \/ Skip
  BY <1>1 DEF ProcBars, ProcCc, CcStep, GoOn, Retry, Goto, Skip
<1>2. QED
  BY <1>1 DEF Next, Dispatcher, Worker, WorkerServe, Host, HostProgress

-----------------------------------------------------------------------------
(***************************************************************************)
(* The effect of each action, field by field.                              *)
(***************************************************************************)

(* Fields of the host's account may be replaced by values of their types.   *)
LEMMA HostWith ==
    ASSUME NEW h \in HostStates, NEW s \in Slots, NEW n \in Nat, NEW p \in {0, 1}, NEW q \in QueueStates
    PROVE  [h EXCEPT !.head = s, !.answered = n, !.phase = p, !.q = q] \in HostStates
BY DEF HostStates

(* aqa: the admin queue is set up, once.                                    *)
LEMMA EffProcAqa ==
    ASSUME TypeOK, ProcAqa
    PROVE  /\ UNCHANGED <<csts, bar, sq_mem, cq_mem, irq, host, trouble, sqes, cqes, nr_sq, work, misused>>
           /\ d.pc = "aqa" /\ d' \in DispatcherStates /\ d'.pc = "asq"
           /\ old_bar' \in Regs /\ old_bar'.asq = old_bar.asq /\ old_bar'.acq = old_bar.acq
           /\ \/ /\ ~admin_q.exists
                 /\ admin_q' = [exists |-> TRUE, sq |-> NULL, cq |-> NULL, cq_head |-> 0, phase |-> 1]
                 /\ dbs' = [dbs EXCEPT !.admin = 0] /\ old_dbs' = [old_dbs EXCEPT !.admin = 0]
              \/ UNCHANGED <<admin_q, dbs, old_dbs>>
<1>1. d' \in DispatcherStates /\ d'.pc = "asq"
  BY DEF TypeOK, ProcAqa, Goto, DispatcherStates, DispatcherPcs
<1>2. QED
  BY <1>1 DEF TypeOK, ProcAqa, ResetAdminDoorbell, hostMemory, ioVars, Regs

(* asq: the submission queue's place.                                       *)
LEMMA EffProcAsq ==
    ASSUME TypeOK, ProcAsq
    PROVE  /\ UNCHANGED <<csts, bar, sq_mem, cq_mem, irq, host, trouble, sqes, cqes, nr_sq, work, misused>>
           /\ d.pc = "asq" /\ d' \in DispatcherStates /\ d'.pc = "acq"
           /\ admin_q.exists /\ old_bar.asq # bar.asq
           /\ old_bar' \in Regs /\ old_bar'.asq = bar.asq /\ old_bar'.acq = old_bar.acq
           /\ admin_q' \in AdminQueues /\ admin_q'.sq = bar.asq /\ admin_q'.cq = admin_q.cq
           /\ admin_q'.exists = admin_q.exists
           /\ admin_q'.cq_head = admin_q.cq_head /\ admin_q'.phase = admin_q.phase
           /\ dbs' = [dbs EXCEPT !.admin = 0] /\ old_dbs' = [old_dbs EXCEPT !.admin = 0]
<1>1. d' \in DispatcherStates /\ d'.pc = "acq"
  BY DEF TypeOK, ProcAsq, Goto, DispatcherStates, DispatcherPcs
<1>2. QED
  BY <1>1 DEF TypeOK, ProcAsq, ResetAdminDoorbell, hostMemory, ioVars, AdminQueues, Regs

(* acq: the completion queue's place.                                       *)
LEMMA EffProcAcq ==
    ASSUME TypeOK, ProcAcq
    PROVE  /\ UNCHANGED <<csts, bar, sq_mem, cq_mem, irq, host, trouble, sqes, cqes, nr_sq, work, misused,
                          dbs, old_dbs>>
           /\ d.pc = "acq" /\ d' \in DispatcherStates /\ d'.pc = "cc"
           /\ admin_q.exists /\ old_bar.acq # bar.acq
           /\ old_bar' \in Regs /\ old_bar'.asq = old_bar.asq /\ old_bar'.acq = bar.acq
           /\ admin_q' \in AdminQueues /\ admin_q'.sq = admin_q.sq /\ admin_q'.cq = bar.acq
           /\ admin_q'.exists = admin_q.exists
           /\ admin_q'.cq_head = 0 /\ admin_q'.phase = admin_q.phase
<1>1. d' \in DispatcherStates /\ d'.pc = "cc"
  BY DEF TypeOK, ProcAcq, Goto, DispatcherStates, DispatcherPcs
<1>2. QED
  BY <1>1, Constants DEF TypeOK, ProcAcq, hostMemory, ioVars, AdminQueues, Regs

(* cc: enable, disable, shut down, and the copy.                            *)
LEMMA EffCcStep ==
    ASSUME TypeOK, CcStep
    PROVE  /\ UNCHANGED <<bar, sq_mem, cq_mem, irq, host, trouble, sqes, cqes, nr_sq, work, misused>>
           /\ d' \in DispatcherStates /\ d.pc \notin Batch /\ d'.pc \notin Batch
           /\ old_bar' \in Regs /\ old_bar'.asq = old_bar.asq /\ old_bar'.acq = old_bar.acq
           /\ csts' \in [rdy : {0, 1}, shst : Nat]
           /\ \/ /\ d.pc = "en" /\ d'.pc = "shn" /\ csts'.rdy = bar.en
                 /\ UNCHANGED <<admin_q, dbs, old_dbs>>
              \/ /\ d.pc = "shn" /\ csts'.rdy = csts.rdy
                 /\ d'.pc = "save" \/ (d'.pc = "reset" /\ bar.shn = 1)
                 /\ UNCHANGED <<admin_q, dbs, old_dbs>>
              \/ /\ d.pc = "reset" /\ d'.pc = "save_shn" /\ csts' = csts
                 /\ dbs' = [dbs EXCEPT !.admin = 0] /\ old_dbs' = [old_dbs EXCEPT !.admin = 0]
                 /\ admin_q' \in AdminQueues /\ admin_q'.sq = admin_q.sq /\ admin_q'.cq = admin_q.cq
                 /\ admin_q'.exists = admin_q.exists
                 /\ admin_q'.cq_head = 0 /\ admin_q'.phase = admin_q.phase
              \/ /\ d.pc \in {"save", "save_shn"} /\ d'.pc = "dbs" /\ csts' = csts
                 /\ UNCHANGED <<admin_q, dbs, old_dbs>>
<1> USE DEF TypeOK, Goto, hostMemory, ioVars
<1>1. CASE CcEnable
  <2>1. d' \in DispatcherStates /\ d.pc = "en" /\ d'.pc = "shn"
    BY <1>1 DEF CcEnable, DispatcherStates, DispatcherPcs
  <2>2. csts' \in [rdy : {0, 1}, shst : Nat] /\ csts'.rdy = bar.en
    BY <1>1 DEF CcEnable, Regs
  <2> QED
    BY <1>1, <2>1, <2>2 DEF CcEnable, Batch
<1>2. CASE GoOn("shn", "save", bar.shn = 0)
  <2>1. d' \in DispatcherStates /\ d.pc = "shn" /\ d'.pc = "save"
    BY <1>2 DEF GoOn, DispatcherStates, DispatcherPcs
  <2> QED
    BY <1>2, <2>1 DEF GoOn, Batch
<1>3. CASE CcShutdown
  <2>1. d' \in DispatcherStates /\ d.pc = "shn" /\ d'.pc = "reset" /\ bar.shn = 1
    BY <1>3 DEF CcShutdown, DispatcherStates, DispatcherPcs
  <2>2. csts' \in [rdy : {0, 1}, shst : Nat] /\ csts'.rdy = csts.rdy
    BY <1>3 DEF CcShutdown
  <2> QED
    BY <1>3, <2>1, <2>2 DEF CcShutdown, Batch
<1>4. CASE CcReset
  <2>1. d' \in DispatcherStates /\ d.pc = "reset" /\ d'.pc = "save_shn"
    BY <1>4 DEF CcReset, DispatcherStates, DispatcherPcs
  <2> QED
    BY <1>4, <2>1, Constants DEF CcReset, ResetAdminDoorbell, AdminQueues, Batch
<1>5. ASSUME NEW pc \in {"save", "save_shn"}, NEW shn, CcSave(pc, shn)
      PROVE  /\ UNCHANGED <<bar, sq_mem, cq_mem, irq, host, trouble, sqes, cqes, nr_sq, work, misused>>
             /\ UNCHANGED <<csts, admin_q, dbs, old_dbs>>
             /\ d' \in DispatcherStates /\ d.pc \in {"save", "save_shn"} /\ d'.pc = "dbs"
             /\ old_bar' \in Regs /\ old_bar'.asq = old_bar.asq /\ old_bar'.acq = old_bar.acq
  <2>1. PICK m : m = (bar.en # csts.rdy \/ bar.shn # shn)
    OBVIOUS
  <2>2. m \in BOOLEAN
    BY <2>1
  <2>3. d' = [d EXCEPT !.pc = "dbs", !.missed = m] /\ d.pc = pc
    BY <1>5, <2>1 DEF CcSave
  <2>4. d' \in DispatcherStates /\ d'.pc = "dbs"
    BY <2>2, <2>3 DEF DispatcherStates, DispatcherPcs
  <2>5. old_bar' \in Regs /\ old_bar'.asq = old_bar.asq /\ old_bar'.acq = old_bar.acq
    BY <1>5 DEF CcSave, Regs
  <2> QED
    BY <1>5, <2>3, <2>4, <2>5 DEF CcSave
<1>6. CASE CcSave("save", 0) \/ CcSave("save_shn", 1)
  BY <1>5, <1>6 DEF Batch
<1>7. QED
  BY <1>1, <1>2, <1>3, <1>4, <1>6 DEF CcStep

(* The host takes an entry.                                                 *)
LEMMA EffHostConsume ==
    ASSUME TypeOK, HostConsume, Answer \in Answers
    PROVE  /\ UNCHANGED <<csts, old_bar, old_dbs, admin_q, sqes, cqes, nr_sq, d, work, misused, bar, dbs,
                          sq_mem, cq_mem, irq, trouble>>
           /\ host.pc = "run" /\ Answer.phase = host.phase
           /\ host'.pc = host.pc /\ host'.life = host.life /\ host'.addr = host.addr
           /\ host'.tail = host.tail /\ host'.head = NextSlot(host.head)
           /\ host'.phase = (IF NextSlot(host.head) = 0 THEN 1 - host.phase ELSE host.phase)
           /\ host'.sent = host.sent /\ host'.answered = host.answered + 1
           /\ host'.q = AfterAnswer(host.q) /\ host' \in HostStates
<1>1. /\ host \in HostStates /\ host.head \in Slots /\ host.phase \in {0, 1}
      /\ host.answered \in Nat /\ host.q \in QueueStates
  BY DEF TypeOK, HostStates
<1>2. AfterAnswer(host.q) \in QueueStates
  BY <1>1 DEF AfterAnswer, QueueStates, NoCmd, Cmds, Kinds, Answers, NULL
<1>3. NextSlot(host.head) \in Slots
  BY <1>1, NextSlotIs
<1>4. PICK p \in {0, 1} : p = IF NextSlot(host.head) = 0 THEN 1 - host.phase ELSE host.phase
  BY <1>1
<1>5. host' = [host EXCEPT !.head = NextSlot(host.head), !.answered = host.answered + 1,
                           !.phase = p, !.q = AfterAnswer(host.q)]
  BY <1>4 DEF HostConsume
<1>6. host' \in HostStates
  <2>1. host.answered + 1 \in Nat
    BY <1>1
  <2>2. QED
    BY <1>1, <1>2, <1>3, <1>5, <2>1, HostWith, Zenon
<1>7. QED
  BY <1>1, <1>4, <1>5, <1>6 DEF HostConsume, AnswerIsNew, hostFrame, HostStates

(* A register with nothing new.                                             *)
LEMMA EffSkip ==
    ASSUME TypeOK, Skip
    PROVE  /\ UNCHANGED <<csts, bar, sq_mem, cq_mem, irq, host, trouble, sqes, cqes, nr_sq, work, misused,
                          dbs, old_dbs, old_bar, admin_q>>
           /\ d.pc \in {"asq", "acq", "cc", "en"} /\ d'.pc \in {"acq", "cc", "en", "dbs"}
           /\ d' \in DispatcherStates
BY DEF TypeOK, Skip, hostMemory, ioVars, DispatcherStates, DispatcherPcs, Batch

(* The admin doorbell is compared with its shadow.                          *)
LEMMA EffPollAdminSq ==
    ASSUME TypeOK, PollAdminSq
    PROVE  /\ UNCHANGED <<csts, bar, sq_mem, cq_mem, irq, host, trouble, sqes, cqes, nr_sq, work, misused,
                          dbs, old_dbs, old_bar, admin_q>>
           /\ d.pc = "dbs" /\ d' \in DispatcherStates
           /\ \/ dbs.admin = old_dbs.admin /\ d'.pc = "io"
              \/ dbs.admin # old_dbs.admin
                   /\ d'.pc = "exec" /\ d'.curr = old_dbs.admin /\ d'.new = dbs.admin
BY DEF TypeOK, PollAdminSq, hostMemory, ioVars, deviceRegs, DispatcherStates, DispatcherPcs, Batch, Bells

(* The dispatcher is lost.                                                  *)
LEMMA EffAdminCrash ==
    ASSUME TypeOK, AdminCrash
    PROVE  /\ UNCHANGED <<csts, bar, sq_mem, cq_mem, irq, host, trouble, sqes, cqes, nr_sq, work, misused,
                          dbs, old_dbs, old_bar, admin_q>>
           /\ d.pc = "exec" /\ (admin_q.sq = NULL \/ admin_q.cq = NULL)
           /\ d' \in DispatcherStates /\ d'.pc = "crashed"
BY DEF TypeOK, AdminCrash, Goto, hostMemory, ioVars, deviceRegs, DispatcherStates, DispatcherPcs, Batch

(* A command takes effect.                                                  *)
LEMMA EffAdminExec ==
    ASSUME TypeOK, AdminExec, Cmd \in Cmds
    PROVE  /\ UNCHANGED <<csts, bar, sq_mem, cq_mem, irq, host, trouble, work, misused, old_bar, admin_q>>
           /\ d.pc = "exec" /\ admin_q.sq # NULL /\ admin_q.cq # NULL
           /\ d' \in DispatcherStates /\ d'.pc = "post" /\ d'.curr = d.curr /\ d'.new = d.new
           /\ sqes' = IF Cmd.kind = "create_sq" THEN Cmd.cid
                      ELSE IF Cmd.kind = "delete_sq" THEN NULL ELSE sqes
           /\ cqes' \in Nat
           /\ Cmd.kind \notin {"create_cq", "delete_cq"} => cqes' = cqes
           /\ nr_sq' \in {0, 1}
           /\ dbs' \in Bells /\ dbs'.admin = dbs.admin
           /\ old_dbs' \in Bells /\ old_dbs'.admin = old_dbs.admin
           /\ dbs'.io = IF Cmd.kind = "create_sq" THEN 0 ELSE dbs.io
           /\ old_dbs'.io = IF Cmd.kind = "create_sq" THEN 0 ELSE old_dbs.io
<1>1. UNCHANGED <<csts, bar, sq_mem, cq_mem, irq, host, trouble, work, misused, old_bar, admin_q>>
  BY DEF AdminExec, deviceRegs, hostMemory
<1>2. /\ d.pc = "exec" /\ admin_q.sq # NULL /\ admin_q.cq # NULL
      /\ d' \in DispatcherStates /\ d'.pc = "post" /\ d'.curr = d.curr /\ d'.new = d.new
  BY DEF AdminExec, Goto, TypeOK, DispatcherStates, DispatcherPcs, Batch
<1>3. sqes' = IF Cmd.kind = "create_sq" THEN Cmd.cid
              ELSE IF Cmd.kind = "delete_sq" THEN NULL ELSE sqes
  BY DEF AdminExec
<1>4. cqes' \in Nat /\ (Cmd.kind \notin {"create_cq", "delete_cq"} => cqes' = cqes) /\ nr_sq' \in {0, 1}
  BY DEF AdminExec, TypeOK, Cmds, NULL
<1>5. /\ dbs' \in Bells /\ dbs'.admin = dbs.admin
      /\ old_dbs' \in Bells /\ old_dbs'.admin = old_dbs.admin
      /\ dbs'.io = IF Cmd.kind = "create_sq" THEN 0 ELSE dbs.io
      /\ old_dbs'.io = IF Cmd.kind = "create_sq" THEN 0 ELSE old_dbs.io
  BY DEF AdminExec, TypeOK, ResetIoDoorbell, Bells
<1>6. QED
  BY <1>1, <1>2, <1>3, <1>4, <1>5

(* Its entry is posted and the dispatcher moves on.                         *)
LEMMA EffAdminPost ==
    ASSUME TypeOK, AdminPost
    PROVE  /\ UNCHANGED <<csts, bar, sq_mem, irq, host, sqes, cqes, nr_sq, work, misused, dbs, old_dbs, old_bar>>
           /\ d.pc = "post"
           /\ cq_mem' = IF Cmd.kind = "abort" THEN cq_mem
                        ELSE [cq_mem EXCEPT ![admin_q.cq][admin_q.cq_head] =
                                 [cid |-> Cmd.cid, phase |-> admin_q.phase]]
           /\ trouble' = IF Cmd.kind = "abort" THEN trouble \cup {"unanswered"} ELSE trouble
           /\ admin_q' \in AdminQueues
           /\ admin_q'.exists = admin_q.exists /\ admin_q'.sq = admin_q.sq /\ admin_q'.cq = admin_q.cq
           /\ admin_q'.cq_head = NextSlot(admin_q.cq_head)
           /\ admin_q'.phase = IF NextSlot(admin_q.cq_head) = 0 THEN 1 - admin_q.phase ELSE admin_q.phase
           /\ d' \in DispatcherStates /\ d'.new = d.new /\ d'.curr = NextSlot(d.curr)
           /\ d'.pc = IF NextSlot(d.curr) = d.new THEN "signal" ELSE "exec"
<1>0. /\ admin_q \in AdminQueues /\ d \in DispatcherStates
      /\ admin_q.cq_head \in Slots /\ d.curr \in Slots /\ admin_q.phase \in {0, 1}
  BY DEF TypeOK, AdminQueues, DispatcherStates
<1>1. NextSlot(admin_q.cq_head) \in Slots /\ NextSlot(d.curr) \in Slots
  BY <1>0, NextSlotIs
<1>2. /\ UNCHANGED <<csts, bar, sq_mem, irq, host, sqes, cqes, nr_sq, work, misused, dbs, old_dbs, old_bar>>
      /\ d.pc = "post"
      /\ cq_mem' = IF Cmd.kind = "abort" THEN cq_mem
                   ELSE [cq_mem EXCEPT ![admin_q.cq][admin_q.cq_head] =
                            [cid |-> Cmd.cid, phase |-> admin_q.phase]]
      /\ trouble' = IF Cmd.kind = "abort" THEN trouble \cup {"unanswered"} ELSE trouble
  BY DEF AdminPost, Unanswered, deviceRegs, ioVars
<1>3. PICK p \in {0, 1} : p = IF NextSlot(admin_q.cq_head) = 0 THEN 1 - admin_q.phase ELSE admin_q.phase
  BY <1>0
<1>4. admin_q' = [admin_q EXCEPT !.cq_head = NextSlot(admin_q.cq_head), !.phase = p]
  BY <1>3 DEF AdminPost, AdvanceCqHead
<1>5. /\ admin_q' \in AdminQueues
      /\ admin_q'.exists = admin_q.exists /\ admin_q'.sq = admin_q.sq /\ admin_q'.cq = admin_q.cq
      /\ admin_q'.cq_head = NextSlot(admin_q.cq_head) /\ admin_q'.phase = p
  BY <1>0, <1>1, <1>4 DEF AdminQueues
<1>6. d' = [d EXCEPT !.curr = NextSlot(d.curr), !.pc = IF NextSlot(d.curr) = d.new THEN "signal" ELSE "exec"]
  BY DEF AdminPost
<1>7. /\ d' \in DispatcherStates /\ d'.new = d.new /\ d'.curr = NextSlot(d.curr)
      /\ d'.pc = IF NextSlot(d.curr) = d.new THEN "signal" ELSE "exec"
  BY <1>0, <1>1, <1>6 DEF DispatcherStates, DispatcherPcs, Batch
<1>8. QED
  BY <1>2, <1>3, <1>5, <1>7

(* The batch is over.                                                       *)
LEMMA EffAdminSignal ==
    ASSUME TypeOK, AdminSignal
    PROVE  /\ UNCHANGED <<csts, bar, sq_mem, cq_mem, host, trouble, sqes, cqes, nr_sq, work, misused,
                          dbs, old_bar, admin_q>>
           /\ irq' = TRUE
           /\ d.pc = "signal" /\ d' \in DispatcherStates /\ d'.pc = "io"
           /\ old_dbs' \in Bells /\ old_dbs'.admin = d.new /\ old_dbs'.io = old_dbs.io
BY DEF TypeOK, AdminSignal, Goto, ioVars, deviceRegs, DispatcherStates, DispatcherPcs, Batch, Bells

(* The requests handed out when the doorbell has moved from a to b.         *)
Handed(q, c, a, b) == {[sq |-> q, cq |-> c, n |-> k, copied |-> FALSE] : k \in a + 1 .. b}

(* The I/O doorbell is compared with its shadow.                            *)
LEMMA EffPollIoSq ==
    ASSUME TypeOK, PollIoSq
    PROVE  /\ UNCHANGED <<csts, bar, sq_mem, cq_mem, irq, host, trouble, sqes, cqes, nr_sq, misused,
                          dbs, old_bar, admin_q>>
           /\ d.pc = "io" /\ d' \in DispatcherStates /\ d'.pc = "aqa"
           /\ \/ /\ sqes # NULL
                 /\ old_dbs' \in Bells /\ old_dbs'.admin = old_dbs.admin /\ old_dbs'.io = dbs.io
                 /\ work' = work \cup Handed(sqes, cqes, old_dbs.io, dbs.io)
              \/ UNCHANGED <<old_dbs, work>>
BY DEF TypeOK, PollIoSq, Handed, Goto, deviceRegs, hostMemory, DispatcherStates, DispatcherPcs, Batch, Bells

(* The field that a worker changes in the host's account of its queue.      *)
LEMMA HostDone ==
    ASSUME NEW h \in HostStates
    PROVE  LET g == [h EXCEPT !.q.done = @ + 1]
           IN  /\ g \in HostStates
               /\ g.pc = h.pc /\ g.life = h.life /\ g.addr = h.addr /\ g.tail = h.tail
               /\ g.head = h.head /\ g.phase = h.phase /\ g.sent = h.sent /\ g.answered = h.answered
               /\ g.q.queues = h.q.queues /\ g.q.pending = h.q.pending /\ g.q.sq = h.q.sq
               /\ g.q.io = h.q.io /\ g.q.done = h.q.done + 1
BY DEF HostStates, QueueStates

(* A worker transfers the data.                                             *)
LEMMA EffWorkerCopy ==
    ASSUME TypeOK, NEW r \in work, WorkerCopy(r)
    PROVE  /\ UNCHANGED <<csts, bar, sq_mem, cq_mem, irq, host, trouble, sqes, cqes, nr_sq,
                          dbs, old_dbs, old_bar, admin_q, d>>
           /\ ~r.copied
           /\ misused' \in BOOLEAN
           /\ r.sq = sqes => misused' = misused
           /\ LET g == [r EXCEPT !.copied = TRUE]
              IN  /\ work' = (work \ {r}) \cup {g} /\ g \in Requests /\ g.copied
                  /\ g.sq = r.sq /\ g.cq = r.cq /\ g.n = r.n
<1>1. /\ UNCHANGED <<csts, bar, sq_mem, cq_mem, irq, host, trouble, sqes, cqes, nr_sq,
                     dbs, old_dbs, old_bar, admin_q, d>>
      /\ ~r.copied
      /\ work' = (work \ {r}) \cup {[r EXCEPT !.copied = TRUE]}
      /\ misused' = (misused \/ sqes # r.sq)
  BY Zenon DEF WorkerCopy, workerFrame, deviceVars
<1>2. misused' \in BOOLEAN /\ (r.sq = sqes => misused' = misused)
  BY <1>1, Zenon DEF TypeOK
<1>3. r \in Requests
  BY DEF TypeOK
<1>4. LET g == [r EXCEPT !.copied = TRUE]
      IN  g \in Requests /\ g.copied /\ g.sq = r.sq /\ g.cq = r.cq /\ g.n = r.n
  BY <1>3 DEF Requests
<1>5. QED
  BY <1>1, <1>2, <1>4

(* A worker completes a request.                                            *)
LEMMA EffWorkerComplete ==
    ASSUME TypeOK, NEW r \in work, WorkerComplete(r)
    PROVE  /\ UNCHANGED <<csts, bar, sq_mem, cq_mem, irq, trouble, sqes, cqes, nr_sq,
                          dbs, old_dbs, old_bar, admin_q, d>>
           /\ misused' \in BOOLEAN
           /\ r.cq = cqes => misused' = misused
           /\ work' = work \ {r}
           /\ host' \in HostStates
           /\ host'.pc = host.pc /\ host'.life = host.life /\ host'.addr = host.addr
           /\ host'.tail = host.tail /\ host'.head = host.head /\ host'.phase = host.phase
           /\ host'.sent = host.sent /\ host'.answered = host.answered
           /\ host'.q.queues = host.q.queues /\ host'.q.pending = host.q.pending
           /\ host'.q.sq = host.q.sq /\ host'.q.io = host.q.io
           /\ host'.q.done = IF r.sq = host.q.sq THEN host.q.done + 1 ELSE host.q.done
           /\ r.sq # host.q.sq => host' = host
<1>1. /\ UNCHANGED <<csts, bar, sq_mem, cq_mem, irq, trouble, sqes, cqes, nr_sq,
                     dbs, old_dbs, old_bar, admin_q, d>>
      /\ work' = work \ {r}
      /\ host' = IF r.sq = host.q.sq THEN [host EXCEPT !.q.done = @ + 1] ELSE host
      /\ misused' = (misused \/ cqes # r.cq)
  BY Zenon DEF WorkerComplete, workerFrame, deviceVars
<1>2. misused' \in BOOLEAN /\ (r.cq = cqes => misused' = misused)
  BY <1>1, Zenon DEF TypeOK
<1>3. host \in HostStates
  BY DEF TypeOK
<1>4. QED
  BY <1>1, <1>2, <1>3, HostDone

(* The host begins a start.                                                 *)
LEMMA EffHostStart ==
    ASSUME TypeOK, NEW a \in Addrs, HostStart(a)
    PROVE  /\ UNCHANGED <<csts, bar, trouble, sqes, cqes, nr_sq, work, misused,
                          dbs, old_dbs, old_bar, admin_q, d>>
           /\ host.pc = "down" /\ host.life < MaxLives /\ a \in {host.addr, host.life + 1} /\ a # NULL
           /\ sq_mem' = EmptySq /\ cq_mem' = EmptyCq
           /\ irq' = FALSE
           /\ host' \in HostStates
           /\ host'.pc = "aqa" /\ host'.life = host.life + 1 /\ host'.addr = a
           /\ host'.tail = 0 /\ host'.head = 0 /\ host'.phase = 1
           /\ host'.sent = host.sent /\ host'.answered = host.sent /\ host'.q = NoQueues
<1>1. NoQueues \in QueueStates
  BY DEF NoQueues, QueueStates, NoCmd, Cmds, Kinds, NULL
<1>2. a \in Nat /\ 0 \in Slots
  BY Constants
<1>3. host' = [host EXCEPT !.pc = "aqa", !.life = host.life + 1, !.addr = a, !.tail = 0, !.head = 0,
                           !.phase = 1, !.answered = host.sent, !.q = NoQueues]
  BY DEF HostStart
<1>4. /\ host' \in HostStates
      /\ host'.pc = "aqa" /\ host'.life = host.life + 1 /\ host'.addr = a
      /\ host'.tail = 0 /\ host'.head = 0 /\ host'.phase = 1
      /\ host'.sent = host.sent /\ host'.answered = host.sent /\ host'.q = NoQueues
  <2>1. /\ host \in HostStates /\ "aqa" \in HostPcs /\ host.life + 1 \in Nat /\ host.sent \in Nat
    BY DEF TypeOK, HostStates, HostPcs, StartPcs
  <2>2. PICK l \in Nat : l = host.life + 1
    BY <2>1
  <2>3. PICK n \in Nat, z \in Slots, q \in QueueStates, p \in HostPcs :
          n = host.sent /\ z = 0 /\ q = NoQueues /\ p = "aqa"
    BY <1>1, <1>2, <2>1
  <2>4. host' = [host EXCEPT !.pc = p, !.life = l, !.addr = a, !.tail = z, !.head = z,
                             !.phase = 1, !.answered = n, !.q = q]
    BY <1>3, <2>2, <2>3
  <2>5. LET g == [host EXCEPT !.pc = p, !.life = l, !.addr = a, !.tail = z, !.head = z,
                              !.phase = 1, !.answered = n, !.q = q]
        IN  /\ g \in HostStates
            /\ g.pc = p /\ g.life = l /\ g.addr = a /\ g.tail = z /\ g.head = z /\ g.phase = 1
            /\ g.sent = host.sent /\ g.answered = n /\ g.q = q
    BY <1>2, <2>1 DEF HostStates
  <2>6. QED
    BY <2>2, <2>3, <2>4, <2>5
<1>5. QED
  BY <1>4 DEF HostStart, hostFrame

(* A step that only moves the host on.                                      *)
LEMMA HostMoves ==
    ASSUME TypeOK, NEW p \in HostPcs, host' = [host EXCEPT !.pc = p]
    PROVE  /\ host' \in HostStates /\ host'.pc = p
           /\ host'.life = host.life /\ host'.addr = host.addr
           /\ host'.tail = host.tail /\ host'.head = host.head /\ host'.phase = host.phase
           /\ host'.sent = host.sent /\ host'.answered = host.answered /\ host'.q = host.q
BY DEF TypeOK, HostStates

(* The names of the fields that HostGoto leaves alone.                      *)
HostStays ==
  /\ host' \in HostStates
  /\ host'.life = host.life /\ host'.addr = host.addr
  /\ host'.tail = host.tail /\ host'.head = host.head /\ host'.phase = host.phase
  /\ host'.sent = host.sent /\ host'.answered = host.answered /\ host'.q = host.q

(* The host writes a register.                                              *)
LEMMA EffHostWriteRegister ==
    ASSUME TypeOK, HostWriteRegister
    PROVE  /\ UNCHANGED <<csts, sq_mem, cq_mem, irq, trouble, sqes, cqes, nr_sq, work, misused,
                          dbs, old_dbs, old_bar, admin_q, d>>
           /\ HostStays /\ bar' \in Regs /\ bar'.shn = bar.shn
           /\ \/ host.pc = "aqa" /\ host'.pc = "asq"
                   /\ bar'.asq = bar.asq /\ bar'.acq = bar.acq /\ bar'.en = bar.en
              \/ host.pc = "asq" /\ host'.pc = "acq"
                   /\ bar'.asq = host.addr /\ bar'.acq = bar.acq /\ bar'.en = bar.en
              \/ host.pc = "acq" /\ host'.pc = "enable"
                   /\ bar'.asq = bar.asq /\ bar'.acq = host.addr /\ bar'.en = bar.en
              \/ host.pc = "enable" /\ host'.pc = "wait_rdy"
                   /\ bar'.asq = bar.asq /\ bar'.acq = bar.acq /\ bar'.en = 1
<1>1. /\ UNCHANGED <<csts, sq_mem, cq_mem, irq, trouble, sqes, cqes, nr_sq, work, misused,
                     dbs, old_dbs, old_bar, admin_q, d>>
      /\ \E p \in HostPcs : host' = [host EXCEPT !.pc = p]
  BY DEF HostWriteRegister, HostGoto, hostFrame, HostPcs, StartPcs
<1>2. HostStays
  BY <1>1, HostMoves DEF HostStays
<1>3. host.addr \in Nat
  BY DEF TypeOK, HostStates
<1>4. CASE host.pc = "aqa"
  BY <1>1, <1>2, <1>4 DEF HostWriteRegister, HostGoto, TypeOK, Regs, HostStates
<1>5. CASE host.pc = "asq"
  BY <1>1, <1>2, <1>3, <1>5 DEF HostWriteRegister, HostGoto, TypeOK, Regs, HostStates
<1>6. CASE host.pc = "acq"
  BY <1>1, <1>2, <1>3, <1>6 DEF HostWriteRegister, HostGoto, TypeOK, Regs, HostStates
<1>7. CASE host.pc = "enable"
  BY <1>1, <1>2, <1>7 DEF HostWriteRegister, HostGoto, TypeOK, Regs, HostStates
<1>8. QED
  BY <1>4, <1>5, <1>6, <1>7 DEF HostWriteRegister

(* The host finds the controller ready.                                     *)
LEMMA EffHostReady ==
    ASSUME TypeOK, HostReady
    PROVE  /\ UNCHANGED <<csts, bar, sq_mem, cq_mem, irq, sqes, cqes, nr_sq, work, misused,
                          dbs, old_dbs, old_bar, admin_q, d>>
           /\ HostStays /\ host.pc = "wait_rdy" /\ host'.pc = "run" /\ csts.rdy = 1
           /\ trouble' = (trouble \ AdminTroubles) \cup StartTrouble
                            \cup {t \in {"misstarted"} : StartTrouble # {}}
           /\ StartTrouble \subseteq {"unqueued", "stale"}
<1>1. "run" \in HostPcs /\ host' = [host EXCEPT !.pc = "run"]
  BY DEF HostReady, HostGoto, HostPcs, StartPcs
<1>2. HostStays /\ host'.pc = "run"
  BY <1>1, HostMoves DEF HostStays
<1>3. StartTrouble \subseteq {"unqueued", "stale"}
  BY DEF StartTrouble
<1>4. QED
  BY <1>2, <1>3 DEF HostReady, hostFrame

(* The interrupt handler is done.                                           *)
LEMMA EffHostInterruptEnd ==
    ASSUME HostInterruptEnd
    PROVE  /\ UNCHANGED <<csts, bar, sq_mem, cq_mem, sqes, cqes, nr_sq, work, misused,
                          dbs, old_dbs, old_bar, admin_q, d, host, trouble>>
           /\ irq' = FALSE
BY DEF HostInterruptEnd, hostFrame

(* The host sends an admin command.                                         *)
LEMMA EffHostSubmit ==
    ASSUME TypeOK, NEW kind \in Kinds, HostSubmit(kind)
    PROVE  LET c == [cid |-> host.sent + 1, kind |-> kind]
           IN  /\ UNCHANGED <<csts, bar, cq_mem, irq, sqes, cqes, nr_sq, work, misused,
                              old_dbs, old_bar, admin_q, d>>
               /\ host.pc = "run" /\ host.sent - host.answered < Depth - 1 /\ kind \in Sendable
               /\ sq_mem' = [sq_mem EXCEPT ![host.addr][host.tail] = c]
               /\ trouble' = IF kind = "delete_sq" THEN Forced ELSE trouble
               /\ dbs' \in Bells /\ dbs'.admin = NextSlot(host.tail) /\ dbs'.io = dbs.io
               /\ host' \in HostStates
               /\ host'.pc = host.pc /\ host'.life = host.life /\ host'.addr = host.addr
               /\ host'.tail = NextSlot(host.tail) /\ host'.head = host.head /\ host'.phase = host.phase
               /\ host'.sent = host.sent + 1 /\ host'.answered = host.answered
               /\ host'.q.queues = host.q.queues /\ host'.q.sq = host.q.sq
               /\ host'.q.io = host.q.io /\ host'.q.done = host.q.done
               /\ host'.q.pending = IF kind \in {"identify", "abort"} THEN host.q.pending ELSE c
<1> DEFINE c == [cid |-> host.sent + 1, kind |-> kind]
<1>1. /\ UNCHANGED <<csts, bar, cq_mem, irq, sqes, cqes, nr_sq, work, misused,
                     old_dbs, old_bar, admin_q, d>>
      /\ host.pc = "run" /\ host.sent - host.answered < Depth - 1 /\ kind \in Sendable
      /\ sq_mem' = [sq_mem EXCEPT ![host.addr][host.tail] = c]
      /\ trouble' = IF kind = "delete_sq" THEN Forced ELSE trouble
      /\ dbs' = [dbs EXCEPT !.admin = NextSlot(host.tail)]
      /\ host' = [host EXCEPT !.sent = @ + 1, !.tail = NextSlot(@),
                    !.q.pending = IF kind \in {"identify", "abort"} THEN @ ELSE c]
  BY DEF HostSubmit, hostFrame
<1>2. /\ host \in HostStates /\ host.tail \in Slots /\ host.sent \in Nat
      /\ host.q.pending \in Cmds /\ c \in Cmds
  BY DEF TypeOK, HostStates, QueueStates, Cmds
<1>3. NextSlot(host.tail) \in Slots
  BY <1>2, NextSlotIs
<1>4. dbs' \in Bells /\ dbs'.admin = NextSlot(host.tail) /\ dbs'.io = dbs.io
  BY <1>1, <1>3 DEF TypeOK, Bells
<1>5. PICK x \in Cmds : x = IF kind \in {"identify", "abort"} THEN host.q.pending ELSE c
  BY <1>2
<1>6. PICK n \in Nat, t \in Slots : n = host.sent + 1 /\ t = NextSlot(host.tail)
  BY <1>2, <1>3
<1>7. host' = [host EXCEPT !.sent = n, !.tail = t, !.q.pending = x]
  BY <1>1, <1>5, <1>6
<1>8. /\ host' \in HostStates
      /\ host'.pc = host.pc /\ host'.life = host.life /\ host'.addr = host.addr /\ host'.tail = t
      /\ host'.head = host.head /\ host'.phase = host.phase /\ host'.sent = n
      /\ host'.answered = host.answered
      /\ host'.q.queues = host.q.queues /\ host'.q.pending = x /\ host'.q.sq = host.q.sq
      /\ host'.q.io = host.q.io /\ host'.q.done = host.q.done
  <2>1. LET g == [host EXCEPT !.sent = n, !.tail = t, !.q.pending = x]
        IN  /\ g \in HostStates
            /\ g.pc = host.pc /\ g.life = host.life /\ g.addr = host.addr /\ g.tail = t
            /\ g.head = host.head /\ g.phase = host.phase /\ g.sent = n /\ g.answered = host.answered
            /\ g.q.queues = host.q.queues /\ g.q.pending = x /\ g.q.sq = host.q.sq
            /\ g.q.io = host.q.io /\ g.q.done = host.q.done
    BY <1>2 DEF HostStates, QueueStates
  <2>2. QED
    BY <1>7, <2>1
<1>9. QED
  BY <1>1, <1>4, <1>5, <1>6, <1>8

(* The host rings for an I/O command.                                       *)
LEMMA EffHostIo ==
    ASSUME TypeOK, HostIo
    PROVE  /\ UNCHANGED <<csts, bar, sq_mem, cq_mem, irq, sqes, cqes, nr_sq, work, misused,
                          old_dbs, old_bar, admin_q, d, trouble>>
           /\ host.pc = "run" /\ host.q.queues = "both" /\ host.q.pending = NoCmd
           /\ dbs' \in Bells /\ dbs'.admin = dbs.admin /\ dbs'.io = host.q.io + 1
           /\ host' \in HostStates
           /\ host'.pc = host.pc /\ host'.life = host.life /\ host'.addr = host.addr
           /\ host'.tail = host.tail /\ host'.head = host.head /\ host'.phase = host.phase
           /\ host'.sent = host.sent /\ host'.answered = host.answered
           /\ host'.q.queues = host.q.queues /\ host'.q.pending = host.q.pending
           /\ host'.q.sq = host.q.sq /\ host'.q.io = host.q.io + 1 /\ host'.q.done = host.q.done
<1>1. /\ UNCHANGED <<csts, bar, sq_mem, cq_mem, irq, sqes, cqes, nr_sq, work, misused,
                     old_dbs, old_bar, admin_q, d, trouble>>
      /\ host.pc = "run" /\ host.q.queues = "both" /\ host.q.pending = NoCmd
      /\ dbs' = [dbs EXCEPT !.io = host.q.io + 1]
      /\ host' = [host EXCEPT !.q.io = @ + 1]
  BY DEF HostIo, hostFrame
<1>2. host \in HostStates /\ host.q.io \in Nat
  BY DEF TypeOK, HostStates, QueueStates
<1>3. PICK n \in Nat : n = host.q.io + 1
  BY <1>2
<1>4. dbs' \in Bells /\ dbs'.admin = dbs.admin /\ dbs'.io = n
  BY <1>1, <1>3 DEF TypeOK, Bells
<1>5. LET g == [host EXCEPT !.q.io = n]
      IN  /\ g \in HostStates
          /\ g.pc = host.pc /\ g.life = host.life /\ g.addr = host.addr /\ g.tail = host.tail
          /\ g.head = host.head /\ g.phase = host.phase /\ g.sent = host.sent /\ g.answered = host.answered
          /\ g.q.queues = host.q.queues /\ g.q.pending = host.q.pending /\ g.q.sq = host.q.sq
          /\ g.q.io = n /\ g.q.done = host.q.done
  BY <1>2 DEF HostStates, QueueStates
<1>6. host' = [host EXCEPT !.q.io = n]
  BY <1>1, <1>3
<1>7. QED
  BY <1>1, <1>3, <1>4, <1>5, <1>6

(* The host shuts the controller down.                                      *)
LEMMA EffHostShutdown ==
    ASSUME TypeOK, HostShutdown
    PROVE  /\ UNCHANGED <<csts, sq_mem, cq_mem, irq, sqes, cqes, nr_sq, work, misused,
                          dbs, old_dbs, old_bar, admin_q, d>>
           /\ HostStays /\ host.pc = "run" /\ host'.pc = "wait_shst"
           /\ bar' \in Regs /\ bar'.asq = bar.asq /\ bar'.acq = bar.acq /\ bar'.en = bar.en /\ bar'.shn = 1
           /\ trouble' = Forced
<1>1. "wait_shst" \in HostPcs /\ host' = [host EXCEPT !.pc = "wait_shst"]
  BY DEF HostShutdown, HostGoto, HostPcs, StartPcs
<1>2. HostStays /\ host'.pc = "wait_shst"
  BY <1>1, HostMoves DEF HostStays
<1>3. QED
  BY <1>2 DEF HostShutdown, hostFrame, TypeOK, Regs

(* The host disables the controller.                                        *)
LEMMA EffHostDisable ==
    ASSUME TypeOK, HostDisable
    PROVE  /\ UNCHANGED <<csts, sq_mem, cq_mem, irq, sqes, cqes, nr_sq, work, misused,
                          dbs, old_dbs, old_bar, admin_q, d>>
           /\ HostStays /\ host.pc \in {"run", "wait_shst"} /\ host'.pc = "wait_disabled"
           /\ bar' \in Regs /\ bar'.asq = bar.asq /\ bar'.acq = bar.acq /\ bar'.en = 0 /\ bar'.shn = 0
           /\ trouble' = Forced
<1>1. "wait_disabled" \in HostPcs /\ host' = [host EXCEPT !.pc = "wait_disabled"]
  BY DEF HostDisable, HostGoto, HostPcs, StartPcs
<1>2. HostStays /\ host'.pc = "wait_disabled"
  BY <1>1, HostMoves DEF HostStays
<1>3. QED
  BY <1>2 DEF HostDisable, hostFrame, TypeOK, Regs

(* The host finds the controller disabled.                                  *)
LEMMA EffHostDown ==
    ASSUME TypeOK, HostDown
    PROVE  /\ UNCHANGED <<csts, bar, sq_mem, cq_mem, irq, sqes, cqes, nr_sq, work, misused,
                          dbs, old_dbs, old_bar, admin_q, d, trouble>>
           /\ HostStays /\ host.pc = "wait_disabled" /\ host'.pc = "down" /\ csts.rdy = 0
<1>1. "down" \in HostPcs /\ host' = [host EXCEPT !.pc = "down"]
  BY DEF HostDown, HostGoto, HostPcs, StartPcs
<1>2. HostStays /\ host'.pc = "down"
  BY <1>1, HostMoves DEF HostStays
<1>3. QED
  BY <1>2 DEF HostDown, hostFrame

-----------------------------------------------------------------------------
(***************************************************************************)
(* Types.                                                                  *)
(***************************************************************************)

(* One entry of a table of rings is replaced, the others stay.              *)
LEMMA TableWrite ==
    ASSUME NEW S, NEW m \in [Addrs -> [Slots -> S]], NEW a \in Addrs, NEW s \in Slots, NEW x \in S
    PROVE  /\ [m EXCEPT ![a][s] = x] \in [Addrs -> [Slots -> S]]
           /\ \A b \in Addrs, t \in Slots :
                [m EXCEPT ![a][s] = x][b][t] = IF b = a /\ t = s THEN x ELSE m[b][t]
OBVIOUS

(* The requests handed out are as many as the doorbell has moved.           *)
LEMMA HandedFacts ==
    ASSUME NEW q \in Nat, NEW c \in Nat, NEW a \in Nat, NEW b \in Nat
    PROVE  /\ Handed(q, c, a, b) \subseteq Requests
           /\ \A r \in Handed(q, c, a, b) : r.sq = q /\ r.cq = c /\ r.n \in a + 1 .. b
           /\ IsFiniteSet(Handed(q, c, a, b))
           /\ Cardinality(Handed(q, c, a, b)) = IF a < b THEN b - a ELSE 0
<1> DEFINE R(k) == [sq |-> q, cq |-> c, n |-> k, copied |-> FALSE]
           f == [k \in a + 1 .. b |-> R(k)]
<1>1. \A k \in a + 1 .. b : R(k) \in Requests /\ R(k).sq = q /\ R(k).cq = c /\ R(k).n = k
  BY DEF Requests
<1>2. \A r \in Handed(q, c, a, b) : \E k \in a + 1 .. b : r = R(k)
  BY DEF Handed
<1>3. f \in Bijection(a + 1 .. b, Handed(q, c, a, b))
  <2>1. f \in [a + 1 .. b -> Handed(q, c, a, b)]
    BY DEF Handed
  <2>2. \A j, k \in a + 1 .. b : f[j] = f[k] => j = k
    BY <1>1
  <2>3. \A r \in Handed(q, c, a, b) : \E k \in a + 1 .. b : f[k] = r
    BY <1>2
  <2>4. QED
    BY <2>1, <2>2, <2>3 DEF Bijection, Injection, Surjection, IsInjective
<1>4. IsFiniteSet(a + 1 .. b) /\ Cardinality(a + 1 .. b) = IF a + 1 > b THEN 0 ELSE b - (a + 1) + 1
  BY FS_Interval
<1>5. /\ IsFiniteSet(Handed(q, c, a, b))
      /\ Cardinality(Handed(q, c, a, b)) = Cardinality(a + 1 .. b)
  BY <1>3, <1>4, FS_Bijection DEF ExistsBijection
<1>6. QED
  BY <1>1, <1>2, <1>4, <1>5

(* The queue places in use are places of the host's memory.                 *)
LEMMA AddrFacts ==
    ASSUME TypeOK, HostInv, RegInv
    PROVE  /\ host.pc # "down" => host.addr \in Addrs
           /\ admin_q.sq # NULL => admin_q.sq \in Addrs
           /\ admin_q.cq # NULL => admin_q.cq \in Addrs
<1>1. /\ host.addr \in Nat /\ host.life \in Nat /\ bar.asq \in Nat /\ bar.acq \in Nat
      /\ old_bar.asq \in Nat /\ old_bar.acq \in Nat /\ MaxLives \in Nat
  BY Constants DEF TypeOK, HostStates, Regs
<1>2. QED
  BY <1>1 DEF HostInv, RegInv, Addrs, NULL

(* What is read from the rings are entries.                                 *)
LEMMA EntryFacts ==
    ASSUME TypeOK, HostInv, RegInv
    PROVE  /\ host.pc # "down" => Answer \in Answers
           /\ admin_q.sq # NULL => Cmd \in Cmds
BY AddrFacts DEF TypeOK, Answer, Cmd, HostStates, DispatcherStates

(* Every step keeps the types.                                              *)
LEMMA TypeStep ==
    ASSUME TypeOK, HostInv, RegInv, Next
    PROVE  TypeOK'
<1>0. [dbs EXCEPT !.admin = 0] \in Bells /\ [old_dbs EXCEPT !.admin = 0] \in Bells
  BY Constants DEF TypeOK, Bells
<1>1. ASSUME ProcAqa PROVE TypeOK'
  <2>1. [exists |-> TRUE, sq |-> NULL, cq |-> NULL, cq_head |-> 0, phase |-> 1] \in AdminQueues
    BY Constants DEF AdminQueues, NULL
  <2>2. QED
    BY <1>0, <1>1, <2>1, EffProcAqa DEF TypeOK
<1>2. ASSUME ProcAsq PROVE TypeOK'
  BY <1>0, <1>2, EffProcAsq DEF TypeOK
<1>3. ASSUME ProcAcq PROVE TypeOK'
  BY <1>3, EffProcAcq DEF TypeOK
<1>4. ASSUME CcStep PROVE TypeOK'
  BY <1>0, <1>4, EffCcStep DEF TypeOK
<1>5. ASSUME Skip PROVE TypeOK'
  BY <1>5, EffSkip DEF TypeOK
<1>6. ASSUME PollAdminSq PROVE TypeOK'
  BY <1>6, EffPollAdminSq DEF TypeOK
<1>7. ASSUME AdminCrash PROVE TypeOK'
  BY <1>7, EffAdminCrash DEF TypeOK
<1>8. ASSUME AdminExec PROVE TypeOK'
  <2>1. Cmd \in Cmds
    BY <1>8, EntryFacts DEF AdminExec
  <2>2. sqes' \in Nat
    BY <1>8, <2>1, EffAdminExec DEF TypeOK, Cmds, NULL
  <2>3. QED
    BY <1>8, <2>1, <2>2, EffAdminExec DEF TypeOK
<1>9. ASSUME AdminPost PROVE TypeOK'
  <2>1. admin_q.sq # NULL /\ admin_q.cq \in Addrs /\ admin_q.cq_head \in Slots /\ admin_q.phase \in {0, 1}
    BY <1>9, AddrFacts, EffAdminPost DEF RegInv, TypeOK, AdminQueues
  <2>2. [cid |-> Cmd.cid, phase |-> admin_q.phase] \in Answers
    BY <2>1, EntryFacts DEF Answers, Cmds
  <2>3. cq_mem' \in [Addrs -> [Slots -> Answers]]
    <3>1. cq_mem \in [Addrs -> [Slots -> Answers]]
      BY DEF TypeOK
    <3>2. [cq_mem EXCEPT ![admin_q.cq][admin_q.cq_head] = [cid |-> Cmd.cid, phase |-> admin_q.phase]]
            \in [Addrs -> [Slots -> Answers]]
      BY <2>1, <2>2, <3>1, TableWrite, Zenon
    <3>3. QED
      BY <1>9, <3>1, <3>2, EffAdminPost
  <2>4. trouble' \subseteq AdminTroubles \cup {"forced", "misstarted"}
    BY <1>9, EffAdminPost DEF TypeOK, AdminTroubles
  <2>5. QED
    BY <1>9, <2>3, <2>4, EffAdminPost DEF TypeOK
<1>10. ASSUME AdminSignal PROVE TypeOK'
  BY <1>10, EffAdminSignal DEF TypeOK
<1>11. ASSUME PollIoSq PROVE TypeOK'
  <2>1. old_dbs.io \in Nat /\ dbs.io \in Nat /\ sqes \in Nat /\ cqes \in Nat
    BY DEF TypeOK, Bells
  <2>2. Handed(sqes, cqes, old_dbs.io, dbs.io) \subseteq Requests
        /\ IsFiniteSet(Handed(sqes, cqes, old_dbs.io, dbs.io))
    BY <2>1, HandedFacts
  <2>3. IsFiniteSet(work \cup Handed(sqes, cqes, old_dbs.io, dbs.io))
    BY <2>2, FS_Union DEF TypeOK
  <2>4. work' \in {work, work \cup Handed(sqes, cqes, old_dbs.io, dbs.io)}
    BY <1>11, EffPollIoSq
  <2>5. work' \subseteq Requests /\ IsFiniteSet(work')
    BY <2>2, <2>3, <2>4 DEF TypeOK
  <2>6. QED
    BY <1>11, <2>5, EffPollIoSq DEF TypeOK
<1>12. ASSUME NEW r \in work, WorkerCopy(r) PROVE TypeOK'
  <2> DEFINE g == [r EXCEPT !.copied = TRUE]
  <2>1. work' = (work \ {r}) \cup {g} /\ g \in Requests
    BY <1>12, EffWorkerCopy
  <2>2. IsFiniteSet(work')
    BY <2>1, FS_AddElement, FS_RemoveElement DEF TypeOK
  <2>3. work' \subseteq Requests
    BY <2>1 DEF TypeOK
  <2>4. QED
    BY <1>12, <2>2, <2>3, EffWorkerCopy DEF TypeOK
<1>13. ASSUME NEW r \in work, WorkerComplete(r) PROVE TypeOK'
  <2>1. IsFiniteSet(work') /\ work' \subseteq Requests
    BY <1>13, EffWorkerComplete, FS_RemoveElement DEF TypeOK
  <2>2. QED
    BY <1>13, <2>1, EffWorkerComplete DEF TypeOK
<1>14. ASSUME NEW a \in Addrs, HostStart(a) PROVE TypeOK'
  <2>1. EmptySq \in [Addrs -> [Slots -> Cmds]] /\ EmptyCq \in [Addrs -> [Slots -> Answers]]
    BY DEF EmptySq, EmptyCq, NoCmd, NoAnswer, Cmds, Answers, Kinds
  <2>2. QED
    BY <1>14, <2>1, EffHostStart DEF TypeOK
<1>15. ASSUME HostWriteRegister PROVE TypeOK'
  BY <1>15, EffHostWriteRegister DEF TypeOK, HostStays
<1>16. ASSUME HostReady PROVE TypeOK'
  <2>1. trouble' \subseteq AdminTroubles \cup {"forced", "misstarted"}
    BY <1>16, EffHostReady DEF TypeOK, AdminTroubles
  <2>2. QED
    BY <1>16, <2>1, EffHostReady DEF TypeOK, HostStays
<1>17. ASSUME HostConsume PROVE TypeOK'
  <2>1. Answer \in Answers
    BY <1>17, EntryFacts DEF HostConsume, AnswerIsNew
  <2>2. QED
    BY <1>17, <2>1, EffHostConsume DEF TypeOK
<1>18. ASSUME HostInterruptEnd PROVE TypeOK'
  BY <1>18, EffHostInterruptEnd DEF TypeOK
<1>19. Forced \subseteq AdminTroubles \cup {"forced", "misstarted"}
  BY DEF Forced, TypeOK
<1>20. ASSUME NEW kind \in Kinds, HostSubmit(kind) PROVE TypeOK'
  <2>1. host.addr \in Addrs /\ host.tail \in Slots /\ host.sent \in Nat
    BY <1>20, EffHostSubmit, AddrFacts DEF TypeOK, HostStates
  <2>2. [cid |-> host.sent + 1, kind |-> kind] \in Cmds
    BY <2>1 DEF Cmds
  <2>3. sq_mem' \in [Addrs -> [Slots -> Cmds]]
    <3>1. sq_mem \in [Addrs -> [Slots -> Cmds]]
      BY DEF TypeOK
    <3>2. [sq_mem EXCEPT ![host.addr][host.tail] = [cid |-> host.sent + 1, kind |-> kind]]
            \in [Addrs -> [Slots -> Cmds]]
      BY <2>1, <2>2, <3>1, TableWrite, Zenon
    <3>3. QED
      BY <1>20, <3>2, EffHostSubmit
  <2>4. trouble' \subseteq AdminTroubles \cup {"forced", "misstarted"}
    BY <1>19, <1>20, EffHostSubmit DEF TypeOK
  <2>5. QED
    BY <1>20, <2>3, <2>4, EffHostSubmit, ZenonT(30) DEF TypeOK
<1>21. ASSUME HostIo PROVE TypeOK'
  BY <1>21, EffHostIo DEF TypeOK
<1>22. ASSUME HostShutdown PROVE TypeOK'
  BY <1>19, <1>22, EffHostShutdown DEF TypeOK, HostStays
<1>23. ASSUME HostDisable PROVE TypeOK'
  BY <1>19, <1>23, EffHostDisable DEF TypeOK, HostStays
<1>24. ASSUME HostDown PROVE TypeOK'
  BY <1>24, EffHostDown DEF TypeOK, HostStays
<1>25. QED
  BY NextCases, <1>1, <1>2, <1>3, <1>4, <1>5, <1>6, <1>7, <1>8, <1>9, <1>10, <1>11, <1>12, <1>13,
     <1>14, <1>15, <1>16, <1>17, <1>18, <1>20, <1>21, <1>22, <1>23, <1>24

-----------------------------------------------------------------------------
(***************************************************************************)
(* Registers.                                                              *)
(***************************************************************************)

(* The steps of dispatcher and workers, and which of them touch what.       *)
DispatcherStep ==
  \/ ProcAqa \/ ProcAsq \/ ProcAcq \/ CcStep \/ Skip
  \/ PollAdminSq \/ AdminCrash \/ AdminExec \/ AdminPost \/ AdminSignal \/ PollIoSq

(* What the dispatcher's steps leave alone.                                 *)
LEMMA DispatcherKeeps ==
    ASSUME TypeOK, HostInv, RegInv, DispatcherStep
    PROVE  /\ UNCHANGED <<bar, host, sq_mem, misused>>
           /\ CcStep \/ csts' = csts
           /\ AdminPost \/ UNCHANGED <<cq_mem, trouble>>
           /\ PollIoSq \/ UNCHANGED work
           /\ AdminExec \/ UNCHANGED <<sqes, cqes>>
<1>1. ASSUME AdminExec
      PROVE  UNCHANGED <<bar, host, sq_mem, misused, csts, cq_mem, trouble, work>>
  <2>1. Cmd \in Cmds
    BY <1>1, EntryFacts DEF AdminExec
  <2>2. QED
    BY <1>1, <2>1, EffAdminExec
<1>2. QED
  BY <1>1, EffProcAqa, EffProcAsq, EffProcAcq, EffCcStep, EffSkip, EffPollAdminSq, EffAdminCrash,
     EffAdminPost, EffAdminSignal, EffPollIoSq DEF DispatcherStep

(* What the workers' steps leave alone.                                     *)
LEMMA WorkerKeeps ==
    ASSUME TypeOK, NEW r \in work, WorkerCopy(r) \/ WorkerComplete(r)
    PROVE  /\ UNCHANGED <<bar, csts, sq_mem, cq_mem, trouble, sqes, cqes, dbs, old_dbs, old_bar, admin_q, d>>
           /\ host'.pc = host.pc /\ host'.life = host.life /\ host'.addr = host.addr
           /\ host'.tail = host.tail /\ host'.head = host.head /\ host'.phase = host.phase
           /\ host'.sent = host.sent /\ host'.answered = host.answered
           /\ host'.q.queues = host.q.queues /\ host'.q.pending = host.q.pending
           /\ host'.q.sq = host.q.sq /\ host'.q.io = host.q.io
           /\ r.sq # host.q.sq => host' = host
BY EffWorkerCopy, EffWorkerComplete

(* The actions once more, in fewer groups.                                  *)
LEMMA NextGroups ==
    ASSUME Next
    PROVE  \/ DispatcherStep
           \/ \E r \in work : WorkerCopy(r) \/ WorkerComplete(r)
           \/ \E a \in Addrs : HostStart(a)
           \/ HostWriteRegister \/ HostReady \/ HostConsume \/ HostInterruptEnd
           \/ \E kind \in Kinds : HostSubmit(kind)
           \/ HostIo \/ HostShutdown \/ HostDisable \/ HostDown
BY NextCases DEF DispatcherStep

(* Every step keeps host and registers in agreement.                        *)
LEMMA HostStep ==
    ASSUME TypeOK, HostInv, RegInv, Next
    PROVE  HostInv'
<1>0. /\ host.addr \in Nat /\ host.life \in Nat /\ bar.asq \in Nat /\ bar.acq \in Nat
      /\ bar.en \in {0, 1} /\ bar.shn \in {0, 1} /\ MaxLives \in Nat
  BY Constants DEF TypeOK, HostStates, Regs
<1>1. CASE UNCHANGED <<bar, csts>> /\ host'.pc = host.pc /\ host'.life = host.life /\ host'.addr = host.addr
  BY <1>1 DEF HostInv
<1>2. ASSUME CcStep PROVE HostInv'
  BY <1>0, <1>2, EffCcStep DEF HostInv
<1>3. ASSUME DispatcherStep PROVE HostInv'
  BY <1>1, <1>2, <1>3, DispatcherKeeps
<1>4. ASSUME NEW r \in work, WorkerCopy(r) \/ WorkerComplete(r) PROVE HostInv'
  BY <1>1, <1>4, WorkerKeeps
<1>5. ASSUME NEW a \in Addrs, HostStart(a) PROVE HostInv'
  <2>1. a \in Nat /\ a # NULL /\ a \in {host.addr, host.life + 1} /\ host.life < MaxLives
    BY <1>5, Constants, EffHostStart
  <2>2. host.addr <= a /\ a <= host.life + 1 /\ host.life + 1 <= MaxLives
    BY <1>0, <2>1 DEF HostInv
  <2>3. /\ UNCHANGED <<bar, csts>> /\ host.pc = "down" /\ host'.pc = "aqa"
        /\ host'.life = host.life + 1 /\ host'.addr = a
    BY <1>5, EffHostStart
  <2>4. QED
    BY <1>0, <2>1, <2>2, <2>3 DEF HostInv
<1>6. ASSUME HostWriteRegister PROVE HostInv'
  BY <1>0, <1>6, EffHostWriteRegister DEF HostInv, HostStays, NULL
<1>7. ASSUME HostReady PROVE HostInv'
  BY <1>0, <1>7, EffHostReady DEF HostInv, HostStays, NULL
<1>8. ASSUME HostConsume PROVE HostInv'
  <2>1. Answer \in Answers
    BY <1>8, EntryFacts DEF HostConsume, AnswerIsNew
  <2>2. QED
    BY <1>1, <1>8, <2>1, EffHostConsume
<1>9. ASSUME HostInterruptEnd PROVE HostInv'
  BY <1>1, <1>9, EffHostInterruptEnd
<1>10. ASSUME NEW kind \in Kinds, HostSubmit(kind) PROVE HostInv'
  BY <1>1, <1>10, EffHostSubmit
<1>11. ASSUME HostIo PROVE HostInv'
  BY <1>1, <1>11, EffHostIo
<1>12. ASSUME HostShutdown PROVE HostInv'
  BY <1>0, <1>12, EffHostShutdown DEF HostInv, HostStays, NULL
<1>13. ASSUME HostDisable PROVE HostInv'
  BY <1>0, <1>13, EffHostDisable DEF HostInv, HostStays, NULL
<1>14. ASSUME HostDown PROVE HostInv'
  BY <1>0, <1>14, EffHostDown DEF HostInv, HostStays, NULL
<1>15. QED
  BY NextGroups, <1>3, <1>4, <1>5, <1>6, <1>7, <1>8, <1>9, <1>10, <1>11, <1>12, <1>13, <1>14

(* Every step keeps the host's account of a start in progress.              *)
LEMMA StartStep ==
    ASSUME TypeOK, HostInv, RegInv, StartInv, CidInv, Next
    PROVE  StartInv'
<1>1. ASSUME DispatcherStep PROVE StartInv'
  BY <1>1, DispatcherKeeps DEF StartInv
<1>2. ASSUME NEW r \in work, WorkerCopy(r) \/ WorkerComplete(r) PROVE StartInv'
  <2>1. r.sq # NULL
    BY DEF CidInv, NULL
  <2>2. host.pc \in StartPcs => host' = host /\ sq_mem' = sq_mem
    BY <1>2, <2>1, WorkerKeeps DEF StartInv, NoQueues
  <2>3. host'.pc = host.pc
    BY <1>2, WorkerKeeps
  <2>4. QED
    BY <2>2, <2>3 DEF StartInv
<1>3. ASSUME NEW a \in Addrs, HostStart(a) PROVE StartInv'
  BY <1>3, EffHostStart DEF StartInv
<1>4. ASSUME HostWriteRegister PROVE StartInv'
  BY <1>4, EffHostWriteRegister DEF StartInv, HostStays, StartPcs
<1>5. ASSUME HostReady PROVE StartInv'
  BY <1>5, EffHostReady DEF StartInv, StartPcs
<1>6. ASSUME HostConsume PROVE StartInv'
  <2>1. Answer \in Answers
    BY <1>6, EntryFacts DEF HostConsume, AnswerIsNew
  <2>2. QED
    BY <1>6, <2>1, EffHostConsume DEF StartInv, StartPcs
<1>7. ASSUME HostInterruptEnd PROVE StartInv'
  BY <1>7, EffHostInterruptEnd DEF StartInv
<1>8. ASSUME NEW kind \in Kinds, HostSubmit(kind) PROVE StartInv'
  BY <1>8, EffHostSubmit DEF StartInv, StartPcs
<1>9. ASSUME HostIo PROVE StartInv'
  BY <1>9, EffHostIo DEF StartInv, StartPcs
<1>10. ASSUME HostShutdown PROVE StartInv'
  BY <1>10, EffHostShutdown DEF StartInv, StartPcs
<1>11. ASSUME HostDisable PROVE StartInv'
  BY <1>11, EffHostDisable DEF StartInv, StartPcs
<1>12. ASSUME HostDown PROVE StartInv'
  BY <1>12, EffHostDown DEF StartInv, StartPcs
<1>13. QED
  BY NextGroups, <1>1, <1>2, <1>3, <1>4, <1>5, <1>6, <1>7, <1>8, <1>9, <1>10, <1>11, <1>12

(* Every step keeps the admin queue where the shadow registers say.         *)
LEMMA RegStep ==
    ASSUME TypeOK, HostInv, RegInv, Next
    PROVE  RegInv'
<1>0. /\ host.addr \in Nat /\ bar.asq \in Nat /\ bar.acq \in Nat
      /\ old_bar.asq \in Nat /\ old_bar.acq \in Nat
  BY DEF TypeOK, HostStates, Regs
<1>1. ASSUME ProcAqa PROVE RegInv'
  BY <1>0, <1>1, EffProcAqa DEF RegInv, NULL
<1>2. ASSUME ProcAsq PROVE RegInv'
  BY <1>0, <1>2, EffProcAsq DEF RegInv, NULL
<1>3. ASSUME ProcAcq PROVE RegInv'
  BY <1>0, <1>3, EffProcAcq DEF RegInv, NULL
<1>4. ASSUME CcStep PROVE RegInv'
  <2>1. bar.shn = 1 => host.pc = "wait_shst"
    BY DEF HostInv
  <2>2. d'.pc = "reset" => host'.pc = "wait_shst"
    BY <1>4, <2>1, EffCcStep
  <2>3. d'.pc # "post"
    BY <1>4, EffCcStep DEF Batch
  <2>4. /\ bar' = bar /\ old_bar'.asq = old_bar.asq /\ old_bar'.acq = old_bar.acq
        /\ admin_q'.sq = admin_q.sq /\ admin_q'.cq = admin_q.cq /\ admin_q'.exists = admin_q.exists
    BY <1>4, EffCcStep
  <2> QED
    BY <2>2, <2>3, <2>4 DEF RegInv
<1>5. ASSUME Skip PROVE RegInv'
  BY <1>5, EffSkip DEF RegInv
<1>6. ASSUME PollAdminSq PROVE RegInv'
  BY <1>6, EffPollAdminSq DEF RegInv
<1>7. ASSUME AdminCrash PROVE RegInv'
  BY <1>7, EffAdminCrash DEF RegInv
<1>8. ASSUME AdminExec PROVE RegInv'
  <2>1. Cmd \in Cmds
    BY <1>8, EntryFacts DEF AdminExec
  <2>2. QED
    BY <1>8, <2>1, EffAdminExec DEF RegInv
<1>9. ASSUME AdminPost PROVE RegInv'
  BY <1>9, EffAdminPost DEF RegInv
<1>10. ASSUME AdminSignal PROVE RegInv'
  BY <1>10, EffAdminSignal DEF RegInv
<1>11. ASSUME PollIoSq PROVE RegInv'
  BY <1>11, EffPollIoSq DEF RegInv
<1>12. CASE /\ UNCHANGED <<old_bar, admin_q, d>> /\ bar'.asq = bar.asq /\ bar'.acq = bar.acq
            /\ (host'.pc = host.pc /\ csts' = csts) \/ d.pc # "reset"
  BY <1>12 DEF RegInv
<1>13. ASSUME NEW r \in work, WorkerCopy(r) \/ WorkerComplete(r) PROVE RegInv'
  BY <1>12, <1>13, WorkerKeeps
<1>14. ASSUME HostWriteRegister PROVE RegInv'
  BY <1>0, <1>14, EffHostWriteRegister DEF RegInv, HostInv
<1>15. ASSUME HostConsume PROVE RegInv'
  <2>1. Answer \in Answers
    BY <1>15, EntryFacts DEF HostConsume, AnswerIsNew
  <2>2. QED
    BY <1>12, <1>15, <2>1, EffHostConsume
<1>16. ASSUME NEW a \in Addrs, HostStart(a) PROVE RegInv'
  <2>1. host.pc = "down"
    BY <1>16, EffHostStart
  <2>2. d.pc # "reset"
    BY <2>1 DEF RegInv
  <2> QED
    BY <1>12, <1>16, <2>2, EffHostStart
<1>17. ASSUME NEW kind \in Kinds, HostSubmit(kind) PROVE RegInv'
  BY <1>12, <1>17, EffHostSubmit
<1>18. ASSUME HostReady \/ HostInterruptEnd \/ HostIo \/ HostShutdown \/ HostDown PROVE RegInv'
  <2>1. d.pc = "reset" => host.pc = "wait_shst" \/ (host.pc = "wait_disabled" /\ csts.rdy = 1)
    BY DEF RegInv
  <2>2. ASSUME HostReady PROVE RegInv'
    BY <1>12, <2>1, <2>2, EffHostReady
  <2>3. ASSUME HostInterruptEnd PROVE RegInv'
    BY <1>12, <2>3, EffHostInterruptEnd
  <2>4. ASSUME HostIo PROVE RegInv'
    BY <1>12, <2>4, EffHostIo
  <2>5. ASSUME HostShutdown PROVE RegInv'
    BY <1>12, <2>1, <2>5, EffHostShutdown
  <2>6. ASSUME HostDown PROVE RegInv'
    BY <1>12, <2>1, <2>6, EffHostDown
  <2>7. QED
    BY <1>18, <2>2, <2>3, <2>4, <2>5, <2>6
<1>20. ASSUME HostDisable PROVE RegInv'
  <2>1. host.pc = "wait_shst" => csts.rdy = 1
    BY DEF HostInv
  <2> QED
    BY <1>20, <2>1, EffHostDisable DEF RegInv
<1>19. QED
  BY NextCases, <1>1, <1>2, <1>3, <1>4, <1>5, <1>6, <1>7, <1>8, <1>9, <1>10, <1>11, <1>13, <1>14,
     <1>15, <1>16, <1>17, <1>18, <1>20

-----------------------------------------------------------------------------
(***************************************************************************)
(* The admin queue between two lives.                                      *)
(***************************************************************************)

(* Every step keeps the admin doorbell settled while nothing may be rung.   *)
LEMMA DbsStep ==
    ASSUME TypeOK, HostInv, RegInv, DbsInv, Next
    PROVE  DbsInv'
<1>0. /\ [dbs EXCEPT !.admin = 0].admin = 0 /\ [old_dbs EXCEPT !.admin = 0].admin = 0
      /\ {"aqa", "asq", "acq", "cc", "en", "shn", "reset", "save", "save_shn", "dbs", "io"} \cap Batch = {}
      /\ {"shn", "save", "save_shn", "dbs", "crashed"}
           \cap (Batch \cup {"aqa", "asq", "acq", "cc", "en", "reset", "io"}) = {}
  BY DEF TypeOK, Bells, Batch
<1>1. ASSUME ProcAqa PROVE DbsInv'
  BY <1>0, <1>1, EffProcAqa DEF DbsInv, Resting
<1>2. ASSUME ProcAsq PROVE DbsInv'
  BY <1>0, <1>2, EffProcAsq DEF DbsInv, Resting
<1>3. ASSUME ProcAcq PROVE DbsInv'
  BY <1>0, <1>3, EffProcAcq DEF DbsInv, Resting
<1>4. ASSUME CcStep PROVE DbsInv'
  <2>1. host.pc \in {"wait_shst", "wait_disabled"} => host.pc \notin StartPcs \cup {"down"}
    BY DEF StartPcs
  <2>2. bar.shn = 1 => ~Resting
    BY <2>1 DEF HostInv, Resting
  <2>3. csts'.rdy = csts.rdy => (Resting' => Resting)
    BY <1>4, EffCcStep DEF Resting
  <2>4. Resting' => Resting \/ csts'.rdy = 0
    BY <1>4, EffCcStep DEF Resting
  <2> QED
    BY <1>0, <1>4, <2>2, <2>3, <2>4, EffCcStep DEF DbsInv
<1>5. ASSUME Skip PROVE DbsInv'
  BY <1>0, <1>5, EffSkip DEF DbsInv, Resting
<1>6. ASSUME PollAdminSq PROVE DbsInv'
  BY <1>0, <1>6, EffPollAdminSq DEF DbsInv, Resting, Batch
<1>7. ASSUME AdminCrash PROVE DbsInv'
  BY <1>7, EffAdminCrash DEF DbsInv, Resting, Batch
<1>8. ASSUME AdminExec PROVE DbsInv'
  <2>1. Cmd \in Cmds
    BY <1>8, EntryFacts DEF AdminExec
  <2>2. QED
    BY <1>8, <2>1, EffAdminExec DEF DbsInv, Resting, Batch
<1>9. ASSUME AdminPost PROVE DbsInv'
  BY <1>9, EffAdminPost DEF DbsInv, Resting, Batch
<1>10. ASSUME AdminSignal PROVE DbsInv'
  BY <1>10, EffAdminSignal DEF DbsInv, Resting, Batch
<1>11. ASSUME PollIoSq PROVE DbsInv'
  BY <1>0, <1>11, EffPollIoSq DEF DbsInv, Resting
<1>12. CASE UNCHANGED <<dbs, old_dbs, d, csts>> /\ (Resting' => Resting)
  BY <1>12 DEF DbsInv
<1>13. CASE ~Resting'
  BY <1>13 DEF DbsInv
<1>14. ASSUME NEW r \in work, WorkerCopy(r) \/ WorkerComplete(r) PROVE DbsInv'
  BY <1>12, <1>14, WorkerKeeps DEF Resting
<1>15. ASSUME NEW a \in Addrs, HostStart(a) PROVE DbsInv'
  BY <1>12, <1>15, EffHostStart DEF Resting
<1>16. ASSUME HostWriteRegister PROVE DbsInv'
  BY <1>12, <1>16, EffHostWriteRegister DEF Resting, StartPcs
<1>17. ASSUME HostReady PROVE DbsInv'
  BY <1>13, <1>17, EffHostReady DEF Resting, StartPcs
<1>18. ASSUME HostConsume PROVE DbsInv'
  <2>1. Answer \in Answers
    BY <1>18, EntryFacts DEF HostConsume, AnswerIsNew
  <2>2. QED
    BY <1>13, <1>18, <2>1, EffHostConsume DEF Resting, StartPcs
<1>19. ASSUME HostInterruptEnd PROVE DbsInv'
  BY <1>12, <1>19, EffHostInterruptEnd DEF Resting
<1>20. ASSUME NEW kind \in Kinds, HostSubmit(kind) PROVE DbsInv'
  BY <1>13, <1>20, EffHostSubmit DEF Resting, StartPcs
<1>21. ASSUME HostIo PROVE DbsInv'
  BY <1>13, <1>21, EffHostIo DEF Resting, StartPcs
<1>22. ASSUME HostShutdown PROVE DbsInv'
  BY <1>13, <1>22, EffHostShutdown DEF Resting, StartPcs
<1>23. ASSUME HostDisable PROVE DbsInv'
  BY <1>13, <1>23, EffHostDisable DEF Resting, StartPcs, HostInv
<1>24. ASSUME HostDown PROVE DbsInv'
  BY <1>12, <1>24, EffHostDown DEF Resting, StartPcs
<1>25. QED
  BY NextCases, <1>1, <1>2, <1>3, <1>4, <1>5, <1>6, <1>7, <1>8, <1>9, <1>10, <1>11, <1>14, <1>15,
     <1>16, <1>17, <1>18, <1>19, <1>20, <1>21, <1>22, <1>23, <1>24

(* Every step keeps new phases out of the entries that the next life will   *)
(* read.                                                                    *)
LEMMA PhaseStep ==
    ASSUME TypeOK, HostInv, StartInv, RegInv, PhaseInv, Next
    PROVE  PhaseInv'
<1>0. CASE host'.pc \notin StartPcs
  BY <1>0 DEF PhaseInv
<1>1. CASE UNCHANGED <<admin_q, cq_mem>> /\ host'.addr = host.addr /\ host.pc \in StartPcs
  BY <1>1 DEF PhaseInv
<1>2. ASSUME host.pc \in StartPcs, NEW s \in Slots, admin_q.cq # host.addr
      PROVE  cq_mem[host.addr][s].phase = 0
  BY <1>2 DEF PhaseInv
<1>3. /\ host.addr \in Nat /\ bar.acq \in Nat /\ old_bar.acq \in Nat /\ admin_q.cq_head \in Slots
      /\ admin_q.phase \in {0, 1}
      /\ host.pc \in StartPcs => host.addr # NULL
  BY DEF TypeOK, HostStates, Regs, AdminQueues, HostInv, StartPcs
<1>4. ASSUME host.pc \in StartPcs, ProcAqa PROVE PhaseInv'
  BY <1>1, <1>2, <1>3, <1>4, EffProcAqa DEF PhaseInv, RegInv
<1>5. ASSUME host.pc \in StartPcs, ProcAsq PROVE PhaseInv'
  BY <1>5, EffProcAsq DEF PhaseInv
<1>6. ASSUME host.pc \in StartPcs, ProcAcq PROVE PhaseInv'
  <2>1. admin_q.cq # host.addr
    BY <1>3, <1>6, EffProcAcq DEF RegInv, HostInv
  <2>2. QED
    BY <1>2, <1>6, <2>1, EffProcAcq DEF PhaseInv
<1>7. ASSUME host.pc \in StartPcs, CcStep PROVE PhaseInv'
  BY <1>1, <1>7, EffCcStep DEF RegInv, StartPcs
<1>8. ASSUME host.pc \in StartPcs, AdminExec PROVE PhaseInv'
  <2>1. Cmd \in Cmds
    BY <1>8, EntryFacts DEF AdminExec
  <2>2. QED
    BY <1>1, <1>8, <2>1, EffAdminExec
<1>9. ASSUME host.pc \in StartPcs, AdminPost PROVE PhaseInv'
  <2>1. /\ admin_q.sq \in Addrs /\ admin_q.cq \in Addrs /\ host.addr \in Addrs
        /\ d.curr \in Slots
    BY <1>9, AddrFacts, EffAdminPost DEF RegInv, HostInv, StartPcs, TypeOK, DispatcherStates
  <2>2. Cmd = NoCmd
    BY <1>9, <2>1 DEF StartInv, EmptySq, Cmd
  <2>3. cq_mem' = [cq_mem EXCEPT ![admin_q.cq][admin_q.cq_head] = [cid |-> 0, phase |-> admin_q.phase]]
    BY <1>9, <2>2, EffAdminPost DEF NoCmd
  <2>4. \A s \in Slots : cq_mem'[host.addr][s] =
          IF host.addr = admin_q.cq /\ s = admin_q.cq_head THEN [cid |-> 0, phase |-> admin_q.phase]
          ELSE cq_mem[host.addr][s]
    BY <1>3, <2>1, <2>3 DEF TypeOK
  <2>5. /\ UNCHANGED host /\ admin_q'.cq = admin_q.cq
        /\ admin_q'.cq_head = NextSlot(admin_q.cq_head)
        /\ admin_q'.phase = IF NextSlot(admin_q.cq_head) = 0 THEN 1 - admin_q.phase ELSE admin_q.phase
    BY <1>9, EffAdminPost
  <2>6. NextSlot(admin_q.cq_head) = IF admin_q.cq_head + 1 = Depth THEN 0 ELSE admin_q.cq_head + 1
    BY <1>3, NextSlotIs
  <2>7. SUFFICES ASSUME NEW s \in Slots,
                        admin_q.cq = host.addr => (admin_q'.phase = 1 <=> s >= admin_q'.cq_head)
                 PROVE  cq_mem'[host.addr][s].phase = 0
    BY <2>5 DEF PhaseInv
  <2>8. CASE admin_q.cq # host.addr
    BY <1>2, <1>9, <2>4, <2>8
  <2>9. CASE admin_q.cq = host.addr /\ s = admin_q.cq_head
    <3>1. admin_q'.phase = 1 <=> s >= admin_q'.cq_head
      BY <2>7, <2>9
    <3>2. admin_q.phase = 0
      BY <1>3, <2>5, <2>6, <2>9, <3>1, Constants
    <3>3. QED
      BY <2>4, <2>9, <3>2
  <2>10. CASE admin_q.cq = host.addr /\ s # admin_q.cq_head
    <3>1. admin_q'.phase = 1 <=> s >= admin_q'.cq_head
      BY <2>7, <2>10
    <3>2. admin_q.phase = 1 <=> s >= admin_q.cq_head
      BY <1>3, <2>5, <2>6, <2>10, <3>1, Constants
    <3>3. QED
      BY <1>9, <2>4, <2>10, <3>2 DEF PhaseInv
  <2>11. QED
    BY <2>8, <2>9, <2>10
<1>10. ASSUME host.pc \in StartPcs, DispatcherStep PROVE PhaseInv'
  BY <1>1, <1>4, <1>5, <1>6, <1>7, <1>8, <1>9, <1>10, EffSkip, EffPollAdminSq, EffAdminCrash, EffAdminSignal,
     EffPollIoSq DEF DispatcherStep
<1>11. ASSUME DispatcherStep PROVE PhaseInv'
  BY <1>0, <1>10, <1>11, DispatcherKeeps
<1>12. ASSUME NEW r \in work, WorkerCopy(r) \/ WorkerComplete(r) PROVE PhaseInv'
  BY <1>0, <1>1, <1>12, WorkerKeeps
<1>13. ASSUME NEW a \in Addrs, HostStart(a) PROVE PhaseInv'
  <2>1. cq_mem' = EmptyCq /\ host'.addr = a
    BY <1>13, EffHostStart
  <2>2. \A s \in Slots : cq_mem'[host'.addr][s].phase = 0
    BY <2>1 DEF EmptyCq, NoAnswer
  <2>3. QED
    BY <2>2 DEF PhaseInv
<1>14. ASSUME HostWriteRegister PROVE PhaseInv'
  BY <1>1, <1>14, EffHostWriteRegister DEF HostStays, StartPcs
<1>15. ASSUME HostReady PROVE PhaseInv'
  BY <1>0, <1>15, EffHostReady DEF StartPcs
<1>16. ASSUME HostConsume PROVE PhaseInv'
  <2>1. Answer \in Answers
    BY <1>16, EntryFacts DEF HostConsume, AnswerIsNew
  <2>2. QED
    BY <1>0, <1>16, <2>1, EffHostConsume DEF StartPcs
<1>17. ASSUME HostInterruptEnd PROVE PhaseInv'
  BY <1>0, <1>1, <1>17, EffHostInterruptEnd
<1>18. ASSUME NEW kind \in Kinds, HostSubmit(kind) PROVE PhaseInv'
  BY <1>0, <1>18, EffHostSubmit DEF StartPcs
<1>19. ASSUME HostIo PROVE PhaseInv'
  BY <1>0, <1>19, EffHostIo DEF StartPcs
<1>20. ASSUME HostShutdown \/ HostDisable \/ HostDown PROVE PhaseInv'
  BY <1>0, <1>20, EffHostShutdown, EffHostDisable, EffHostDown DEF StartPcs
<1>21. QED
  BY NextGroups, <1>11, <1>12, <1>13, <1>14, <1>15, <1>16, <1>17, <1>18, <1>19, <1>20

(* Every step keeps the identifiers behind host.sent.                       *)
LEMMA CidStep ==
    ASSUME TypeOK, HostInv, RegInv, CidInv, Next
    PROVE  CidInv'
<1>0. /\ host.sent \in Nat /\ host.answered \in Nat /\ sqes \in Nat
      /\ host.q.sq \in Nat /\ host.q.pending.cid \in Nat
      /\ \A r \in work : r.sq \in Nat
      /\ \A a \in Addrs, s \in Slots : sq_mem[a][s].cid \in Nat
  BY DEF TypeOK, HostStates, QueueStates, Cmds, Requests
<1>1. CASE /\ UNCHANGED <<sqes, sq_mem>> /\ host'.sent = host.sent
           /\ host'.q.sq = host.q.sq /\ host'.q.pending = host.q.pending
           /\ trouble' \cap {"unqueued", "stale"} # {} => trouble \cap {"unqueued", "stale"} # {}
           /\ "misstarted" \in trouble => "misstarted" \in trouble'
           /\ \A r \in work' : \/ r.sq # NULL /\ r.sq = sqes
                               \/ \E s \in work : r.sq = s.sq
  BY <1>0, <1>1 DEF CidInv, NULL
<1>2. ASSUME AdminExec PROVE CidInv'
  <2>1. Cmd \in Cmds /\ admin_q.sq \in Addrs /\ d.curr \in Slots
    BY <1>2, EntryFacts, AddrFacts DEF AdminExec, TypeOK, DispatcherStates
  <2>2. Cmd.cid <= host.sent /\ Cmd.cid \in Nat
    BY <2>1 DEF CidInv, Cmd, Cmds
  <2>3. sqes' \in {Cmd.cid, NULL, sqes}
    BY <1>2, <2>1, EffAdminExec
  <2>4. sqes' <= host.sent
    BY <1>0, <2>2, <2>3 DEF CidInv, NULL
  <2>5. UNCHANGED <<host, work, sq_mem, trouble>>
    BY <1>2, <2>1, EffAdminExec
  <2>6. QED
    BY <2>4, <2>5 DEF CidInv
<1>3. ASSUME AdminPost PROVE CidInv'
  BY <1>1, <1>3, EffAdminPost DEF CidInv, NULL
<1>4. ASSUME PollIoSq PROVE CidInv'
  <2>1. sqes \in Nat /\ cqes \in Nat /\ old_dbs.io \in Nat /\ dbs.io \in Nat
    BY DEF TypeOK, Bells
  <2>2. UNCHANGED <<sqes, sq_mem, host, trouble>>
    BY <1>4, EffPollIoSq
  <2>3. \/ work' = work
        \/ sqes # NULL /\ work' = work \cup Handed(sqes, cqes, old_dbs.io, dbs.io)
    BY <1>4, EffPollIoSq
  <2>4. \A r \in work' : r \in work \/ (r.sq # NULL /\ r.sq = sqes)
    BY <2>1, <2>3, HandedFacts
  <2>5. QED
    BY <1>1, <2>2, <2>4
<1>5. ASSUME DispatcherStep PROVE CidInv'
  <2>1. CASE ~PollIoSq /\ ~AdminExec /\ ~AdminPost
    <3>1. UNCHANGED <<host, sq_mem, trouble, work, sqes>>
      BY <1>5, <2>1, DispatcherKeeps
    <3>2. QED
      BY <3>1 DEF CidInv
  <2>2. QED
    BY <1>2, <1>3, <1>4, <2>1
<1>6. ASSUME NEW r \in work, WorkerCopy(r) PROVE CidInv'
  <2>1. PICK g : work' = (work \ {r}) \cup {g} /\ g.sq = r.sq
    BY <1>6, EffWorkerCopy
  <2>2. UNCHANGED <<sqes, sq_mem, host, trouble>>
    BY <1>6, EffWorkerCopy
  <2>3. QED
    BY <1>1, <2>1, <2>2
<1>7. ASSUME NEW r \in work, WorkerComplete(r) PROVE CidInv'
  <2>1. work' \subseteq work /\ UNCHANGED trouble
    BY <1>7, EffWorkerComplete
  <2>2. UNCHANGED <<sqes, sq_mem>> /\ host'.sent = host.sent
        /\ host'.q.sq = host.q.sq /\ host'.q.pending = host.q.pending
    BY <1>7, WorkerKeeps
  <2>3. QED
    BY <1>1, <2>1, <2>2
<1>8. ASSUME NEW a \in Addrs, HostStart(a) PROVE CidInv'
  <2>1. /\ UNCHANGED <<sqes, work, trouble>> /\ sq_mem' = EmptySq
        /\ host'.sent = host.sent /\ host'.q = NoQueues
    BY <1>8, EffHostStart
  <2>2. QED
    BY <1>0, <2>1 DEF CidInv, EmptySq, NoQueues, NoCmd, NULL
<1>9. CASE UNCHANGED <<sqes, sq_mem, work, trouble>> /\ host'.sent = host.sent /\ host'.q = host.q
  BY <1>9 DEF CidInv
<1>10. ASSUME HostWriteRegister \/ HostInterruptEnd \/ HostDown PROVE CidInv'
  BY <1>9, <1>10, EffHostWriteRegister, EffHostInterruptEnd, EffHostDown DEF HostStays
<1>11. ASSUME HostShutdown \/ HostDisable PROVE CidInv'
  BY <1>11, EffHostShutdown, EffHostDisable DEF HostStays, Forced, CidInv
<1>12. ASSUME HostReady PROVE CidInv'
  <2>1. UNCHANGED <<sqes, sq_mem, work>> /\ host'.sent = host.sent /\ host'.q = host.q
    BY <1>12, EffHostReady DEF HostStays
  <2>2. trouble' \cap {"unqueued", "stale"} # {} => "misstarted" \in trouble'
    BY <1>12, EffHostReady DEF AdminTroubles
  <2>3. QED
    BY <2>1, <2>2 DEF CidInv
<1>13. ASSUME HostConsume PROVE CidInv'
  <2>1. Answer \in Answers
    BY <1>13, EntryFacts DEF HostConsume, AnswerIsNew
  <2>2. UNCHANGED <<sqes, sq_mem, work, trouble>> /\ host'.sent = host.sent /\ host'.q = AfterAnswer(host.q)
    BY <1>13, <2>1, EffHostConsume
  <2>3. host.q \in QueueStates
    BY DEF TypeOK, HostStates
  <2>4. /\ AfterAnswer(host.q).sq \in {host.q.sq, host.q.pending.cid, 0}
        /\ AfterAnswer(host.q).pending.cid \in {host.q.pending.cid, 0}
    BY <2>3 DEF AfterAnswer, QueueStates, NoCmd, NULL
  <2>5. AfterAnswer(host.q).sq <= host.sent /\ AfterAnswer(host.q).pending.cid <= host.sent
    BY <1>0, <2>4 DEF CidInv
  <2>6. QED
    BY <2>2, <2>5 DEF CidInv
<1>14. ASSUME NEW kind \in Kinds, HostSubmit(kind) PROVE CidInv'
  <2> DEFINE c == [cid |-> host.sent + 1, kind |-> kind]
  <2>1. /\ UNCHANGED <<sqes, work>> /\ sq_mem' = [sq_mem EXCEPT ![host.addr][host.tail] = c]
        /\ trouble' \in {trouble, Forced}
        /\ host'.sent = host.sent + 1 /\ host'.q.sq = host.q.sq
        /\ host'.q.pending \in {host.q.pending, c}
    BY <1>14, EffHostSubmit
  <2>2. host.addr \in Addrs /\ host.tail \in Slots
    BY <1>14, AddrFacts DEF HostSubmit, TypeOK, HostStates
  <2>3. \A a \in Addrs, s \in Slots : sq_mem'[a][s] \in {c, sq_mem[a][s]}
    BY <2>1, <2>2 DEF TypeOK
  <2>4. \A a \in Addrs, s \in Slots : sq_mem'[a][s].cid <= host.sent + 1
    BY <1>0, <2>3 DEF CidInv
  <2>5. trouble' \cap {"unqueued", "stale"} # {} => "misstarted" \in trouble'
    BY <2>1 DEF CidInv, Forced
  <2>6. host'.q.pending.cid <= host.sent + 1
    BY <1>0, <2>1 DEF CidInv
  <2>7. sqes <= host.sent + 1 /\ host.q.sq <= host.sent + 1 /\ \A r \in work : r.sq \in 1 .. host.sent + 1
    BY <1>0 DEF CidInv
  <2>8. QED
    BY <2>1, <2>4, <2>5, <2>6, <2>7 DEF CidInv
<1>15. ASSUME HostIo PROVE CidInv'
  BY <1>1, <1>15, EffHostIo DEF CidInv, NULL
<1>16. QED
  BY NextGroups, <1>5, <1>6, <1>7, <1>8, <1>10, <1>11, <1>12, <1>13, <1>14, <1>15

-----------------------------------------------------------------------------
(***************************************************************************)
(* A life that began well: what can happen in it.                          *)
(***************************************************************************)

(* The controller as a fresh start finds it.                                *)
ReadyFacts ==
  /\ admin_q.sq = host.addr /\ admin_q.cq = host.addr /\ admin_q.cq_head = 0 /\ admin_q.phase = 1
  /\ dbs.admin = 0 /\ old_dbs.admin = 0 /\ d.pc \notin Batch
  /\ host.tail = 0 /\ host.head = 0 /\ host.phase = 1 /\ host.answered = host.sent /\ host.q = NoQueues
  /\ \A s \in Slots : cq_mem[host.addr][s].phase = 0

(* A start without trouble finds the controller fresh.                      *)
LEMMA FreshStart ==
    ASSUME TypeOK, HostInv, StartInv, RegInv, DbsInv, PhaseInv, HostReady, Fresh'
    PROVE  ReadyFacts
<1>1. StartTrouble = {}
  BY EffHostReady DEF Fresh, AdminTroubles
<1>2. /\ old_bar.asq = bar.asq /\ old_bar.acq = bar.acq
      /\ admin_q.cq_head = 0 /\ admin_q.phase = 1 /\ old_dbs.admin = 0 /\ d.pc \notin Batch
  BY <1>1 DEF StartTrouble, Batch
<1>3. host.pc = "wait_rdy" /\ csts.rdy = 1 /\ host.pc \in StartPcs
  BY EffHostReady DEF StartPcs
<1>4. admin_q.sq = host.addr /\ admin_q.cq = host.addr
  BY <1>2, <1>3 DEF HostInv, RegInv
<1>5. dbs.admin = 0
  BY <1>2, <1>3 DEF DbsInv, Resting
<1>6. \A s \in Slots : cq_mem[host.addr][s].phase = 0
  BY <1>2, <1>3, <1>4, Constants DEF PhaseInv
<1>7. QED
  BY <1>2, <1>3, <1>4, <1>5, <1>6 DEF ReadyFacts, StartInv

(* A life goes on as it began.                                              *)
LEMMA FreshBefore ==
    ASSUME TypeOK, HostInv, RegInv, Next, Fresh', ~HostReady
    PROVE  Fresh
<1>1. CASE UNCHANGED trouble /\ host'.pc = host.pc
  BY <1>1 DEF Fresh
<1>2. ASSUME AdminPost PROVE Fresh
  BY <1>2, EffAdminPost DEF Fresh
<1>3. ASSUME DispatcherStep PROVE Fresh
  BY <1>1, <1>2, <1>3, DispatcherKeeps
<1>4. ASSUME NEW r \in work, WorkerCopy(r) \/ WorkerComplete(r) PROVE Fresh
  BY <1>1, <1>4, WorkerKeeps
<1>5. ASSUME NEW a \in Addrs, HostStart(a) PROVE FALSE
  BY <1>5, EffHostStart DEF Fresh
<1>6. ASSUME HostWriteRegister PROVE FALSE
  BY <1>6, EffHostWriteRegister DEF Fresh
<1>7. ASSUME HostConsume PROVE Fresh
  <2>1. Answer \in Answers
    BY <1>7, EntryFacts DEF HostConsume, AnswerIsNew
  <2>2. QED
    BY <1>1, <1>7, <2>1, EffHostConsume
<1>8. ASSUME HostInterruptEnd PROVE Fresh
  BY <1>1, <1>8, EffHostInterruptEnd
<1>9. ASSUME NEW kind \in Kinds, HostSubmit(kind) PROVE Fresh
  BY <1>9, EffHostSubmit DEF Fresh, Forced
<1>10. ASSUME HostIo PROVE Fresh
  BY <1>1, <1>10, EffHostIo
<1>11. ASSUME HostShutdown \/ HostDisable \/ HostDown PROVE FALSE
  BY <1>11, EffHostShutdown, EffHostDisable, EffHostDown DEF Fresh
<1>12. QED
  BY NextGroups, <1>3, <1>4, <1>5, <1>6, <1>7, <1>8, <1>9, <1>10, <1>11

(* The dispatcher finds nothing in the registers any more.                  *)
LEMMA FreshRegisters ==
    ASSUME TypeOK, HostInv, RegInv, PlaceInv, Fresh,
           ProcAqa \/ ProcAsq \/ ProcAcq \/ CcStep \/ Skip \/ AdminCrash
    PROVE  /\ UNCHANGED <<admin_q, dbs, old_dbs, host, trouble, sq_mem, cq_mem, sqes, cqes, work, misused>>
           /\ d.pc \notin Batch /\ d'.pc \notin Batch
<1>1. /\ host.pc = "run" /\ host.addr # NULL /\ bar.asq = host.addr /\ bar.acq = host.addr /\ bar.shn # 1
      /\ admin_q.sq = host.addr /\ admin_q.cq = host.addr
      /\ old_bar.asq = bar.asq /\ old_bar.acq = bar.acq /\ admin_q.exists
  BY DEF Fresh, HostInv, PlaceInv, RegInv
<1>2. ASSUME ProcAsq \/ ProcAcq \/ AdminCrash PROVE FALSE
  BY <1>1, <1>2, EffProcAsq, EffProcAcq, EffAdminCrash
<1>3. CASE ProcAqa
  BY <1>1, <1>3, EffProcAqa DEF Batch
<1>4. CASE CcStep
  BY <1>1, <1>4, EffCcStep DEF RegInv
<1>5. CASE Skip
  BY <1>5, EffSkip DEF Batch
<1>6. QED
  BY <1>2, <1>3, <1>4, <1>5

-----------------------------------------------------------------------------
(***************************************************************************)
(* Positions in a ring.                                                    *)
(***************************************************************************)

(* The entry at a distance from the head.                                   *)
LEMMA SlotOfFacts ==
    ASSUME NEW h \in Slots, NEW i \in 0 .. Depth - 1
    PROVE  /\ SlotOf(h, i) \in Slots /\ Dist(h, SlotOf(h, i)) = i
           /\ NextSlot(SlotOf(h, i)) = IF i + 1 = Depth THEN h ELSE SlotOf(h, i + 1)
           /\ SlotOf(NextSlot(h), i) = IF i + 1 = Depth THEN h ELSE SlotOf(h, i + 1)
<1>0. /\ h \in Nat /\ h < Depth /\ i \in Nat /\ i < Depth /\ Depth \in Nat /\ Depth >= 2
      /\ \A s \in Int : s \in Slots <=> 0 <= s /\ s < Depth
  BY Constants
<1>1. SlotOf(h, i) \in Slots /\ Dist(h, SlotOf(h, i)) = i
  BY <1>0 DEF SlotOf, Dist
<1>2. NextSlot(h) = IF h + 1 = Depth THEN 0 ELSE h + 1
  BY NextSlotIs
<1>3. NextSlot(SlotOf(h, i)) = IF SlotOf(h, i) + 1 = Depth THEN 0 ELSE SlotOf(h, i) + 1
  BY <1>1, NextSlotIs
<1>4. NextSlot(SlotOf(h, i)) = IF i + 1 = Depth THEN h ELSE SlotOf(h, i + 1)
  BY <1>0, <1>3 DEF SlotOf
<1>5. SlotOf(NextSlot(h), i) = IF i + 1 = Depth THEN h ELSE SlotOf(h, i + 1)
  BY <1>0, <1>2 DEF SlotOf
<1>6. QED
  BY <1>1, <1>4, <1>5

(* The distance from the head to an entry.                                  *)
LEMMA DistFacts ==
    ASSUME NEW a \in Slots, NEW b \in Slots
    PROVE  /\ Dist(a, b) \in 0 .. Depth - 1 /\ SlotOf(a, Dist(a, b)) = b
           /\ Dist(a, b) + 1 < Depth => Dist(a, NextSlot(b)) = Dist(a, b) + 1
           /\ Dist(a, b) > 0 => Dist(NextSlot(a), b) = Dist(a, b) - 1
<1>0. a \in Nat /\ a < Depth /\ b \in Nat /\ b < Depth /\ Depth \in Nat /\ Depth >= 2
  BY Constants
<1>1. NextSlot(a) = IF a + 1 = Depth THEN 0 ELSE a + 1
  BY NextSlotIs
<1>2. NextSlot(b) = IF b + 1 = Depth THEN 0 ELSE b + 1
  BY NextSlotIs
<1>3. Dist(a, b) \in 0 .. Depth - 1 /\ SlotOf(a, Dist(a, b)) = b
  BY <1>0 DEF SlotOf, Dist
<1>4. Dist(a, b) + 1 < Depth => Dist(a, NextSlot(b)) = Dist(a, b) + 1
  BY <1>0, <1>2 DEF Dist
<1>5. Dist(a, b) > 0 => Dist(NextSlot(a), b) = Dist(a, b) - 1
  BY <1>0, <1>1 DEF Dist
<1>6. QED
  BY <1>3, <1>4, <1>5

(* Nothing of what the ring invariants speak of changes.                    *)
SameRings ==
  /\ admin_q'.sq = admin_q.sq /\ admin_q'.cq = admin_q.cq
  /\ admin_q'.cq_head = admin_q.cq_head /\ admin_q'.phase = admin_q.phase
  /\ dbs'.admin = dbs.admin /\ old_dbs'.admin = old_dbs.admin
  /\ UNCHANGED <<sq_mem, cq_mem, trouble>>
  /\ host'.addr = host.addr /\ host'.tail = host.tail /\ host'.head = host.head /\ host'.phase = host.phase
  /\ host'.sent = host.sent /\ host'.answered = host.answered /\ host'.q.pending = host.q.pending
  /\ d' = d \/ (d.pc \notin Batch /\ d'.pc \notin Batch)

(* The steps of a life that began well.                                     *)
LEMMA FreshCases ==
    ASSUME TypeOK, HostInv, StartInv, RegInv, DbsInv, PhaseInv, PlaceInv, Next, Fresh'
    PROVE  \/ HostReady /\ ReadyFacts
           \/ Fresh /\ (SameRings \/ PollAdminSq \/ AdminExec \/ AdminPost \/ AdminSignal \/ HostConsume)
           \/ Fresh /\ \E kind \in Kinds : HostSubmit(kind)
<1>1. CASE HostReady
  BY <1>1, FreshStart
<1>2. CASE ~HostReady
  <2>1. Fresh
    BY <1>2, FreshBefore
  <2>2. ASSUME ProcAqa \/ ProcAsq \/ ProcAcq \/ CcStep \/ Skip \/ AdminCrash PROVE SameRings
    BY <2>1, <2>2, FreshRegisters DEF SameRings
  <2>3. ASSUME PollIoSq PROVE SameRings
    BY <2>3, EffPollIoSq DEF SameRings, Batch
  <2>4. ASSUME NEW r \in work, WorkerCopy(r) \/ WorkerComplete(r) PROVE SameRings
    BY <2>4, WorkerKeeps DEF SameRings
  <2>5. ASSUME HostInterruptEnd PROVE SameRings
    BY <2>5, EffHostInterruptEnd DEF SameRings
  <2>6. ASSUME HostIo PROVE SameRings
    BY <2>6, EffHostIo DEF SameRings
  <2>7. ASSUME NEW a \in Addrs, HostStart(a) PROVE FALSE
    BY <2>7, EffHostStart DEF Fresh
  <2>8. ASSUME HostWriteRegister PROVE FALSE
    BY <2>8, EffHostWriteRegister DEF Fresh
  <2>9. ASSUME HostShutdown \/ HostDisable \/ HostDown PROVE FALSE
    BY <2>9, EffHostShutdown, EffHostDisable, EffHostDown DEF Fresh
  <2>10. QED
    BY NextCases, <1>2, <2>1, <2>2, <2>3, <2>4, <2>5, <2>6, <2>7, <2>8, <2>9
<1>3. QED
  BY <1>1, <1>2

(* The types and ranges that the ring lemmas use.                           *)
LEMMA FreshTypes ==
    ASSUME TypeOK, HostInv, CountInv, Fresh
    PROVE  /\ host.head \in Slots /\ host.head \in Nat /\ host.head < Depth
           /\ admin_q.cq_head \in Slots /\ host.tail \in Slots /\ d.curr \in Slots /\ d.new \in Slots
           /\ dbs.admin \in Slots /\ old_dbs.admin \in Slots
           /\ host.phase \in {0, 1} /\ admin_q.phase \in {0, 1}
           /\ host.sent \in Nat /\ host.answered \in Nat /\ host.sent = host.answered + Outstanding
           /\ Depth \in Nat /\ Depth >= 2
           /\ Outstanding \in 0 .. Depth - 1 /\ Posted \in 0 .. Depth - 1
           /\ admin_q.cq_head = SlotOf(host.head, Posted)
           /\ host.addr \in Addrs /\ host.q \in QueueStates /\ host.q.pending \in Cmds
<1>1. /\ host.head \in Slots /\ admin_q.cq_head \in Slots /\ host.tail \in Slots
      /\ d.curr \in Slots /\ d.new \in Slots /\ dbs.admin \in Slots /\ old_dbs.admin \in Slots
      /\ host.phase \in {0, 1} /\ admin_q.phase \in {0, 1} /\ host.sent \in Nat /\ host.answered \in Nat
      /\ host.q \in QueueStates /\ host.q.pending \in Cmds /\ host.addr \in Nat /\ host.life \in Nat
  BY DEF TypeOK, HostStates, AdminQueues, DispatcherStates, Bells, QueueStates
<1>2. host.head \in Nat /\ host.head < Depth /\ Depth \in Nat /\ Depth >= 2 /\ MaxLives \in Nat
  BY <1>1, Constants
<1>3. host.addr \in Addrs
  BY <1>1, <1>2 DEF HostInv, Fresh, Addrs, NULL
<1>4. Posted \in 0 .. Depth - 1 /\ admin_q.cq_head = SlotOf(host.head, Posted)
  BY <1>1, DistFacts DEF Posted
<1>5. Outstanding \in 0 .. Depth - 1 /\ host.sent = host.answered + Outstanding
  BY <1>1 DEF CountInv, Outstanding
<1>6. QED
  BY <1>1, <1>2, <1>3, <1>4, <1>5

(* Every step keeps the queues of a good life in their place.               *)
LEMMA PlaceStep ==
    ASSUME TypeOK, HostInv, StartInv, RegInv, DbsInv, PhaseInv, PlaceInv, Next
    PROVE  PlaceInv'
<1> SUFFICES ASSUME Fresh' PROVE admin_q'.sq = host'.addr /\ admin_q'.cq = host'.addr
  BY DEF PlaceInv
<1>1. CASE HostReady /\ ReadyFacts
  BY <1>1, EffHostReady DEF ReadyFacts, HostStays
<1>2. CASE Fresh /\ SameRings
  BY <1>2 DEF PlaceInv, SameRings
<1>3. CASE Fresh /\ (PollAdminSq \/ AdminSignal)
  BY <1>3, EffPollAdminSq, EffAdminSignal DEF PlaceInv
<1>4. CASE Fresh /\ AdminExec
  <2>1. Cmd \in Cmds
    BY <1>4, EntryFacts DEF AdminExec
  <2>2. QED
    BY <1>4, <2>1, EffAdminExec DEF PlaceInv
<1>5. CASE Fresh /\ AdminPost
  BY <1>5, EffAdminPost DEF PlaceInv
<1>6. CASE Fresh /\ HostConsume
  <2>1. Answer \in Answers
    BY <1>6, EntryFacts DEF Fresh
  <2>2. QED
    BY <1>6, <2>1, EffHostConsume DEF PlaceInv
<1>7. ASSUME Fresh, NEW kind \in Kinds, HostSubmit(kind)
      PROVE  admin_q'.sq = host'.addr /\ admin_q'.cq = host'.addr
  BY <1>7, EffHostSubmit DEF PlaceInv
<1>8. QED
  BY FreshCases, <1>1, <1>2, <1>3, <1>4, <1>5, <1>6, <1>7

(* The effect on the rings of taking an answer, posting one, and sending a  *)
(* command.                                                                 *)
LEMMA ConsumeRings ==
    ASSUME TypeOK, HostInv, RegInv, CountInv, CqInv, Fresh, HostConsume
    PROVE  /\ UNCHANGED <<admin_q, d, sq_mem, cq_mem, trouble, dbs, old_dbs, sqes, cqes, work, misused>>
           /\ host'.addr = host.addr /\ host'.tail = host.tail /\ host'.pc = host.pc
           /\ host'.head = NextSlot(host.head)
           /\ host'.sent = host.sent /\ host'.answered = host.answered + 1
           /\ Answer.cid = host.answered + 1 /\ host'.q = AfterAnswer(host.q)
           /\ Posted > 0 /\ Posted' = Posted - 1 /\ Outstanding' = Outstanding - 1
           /\ \A i \in 0 .. Depth - 1 :
                PhaseOf(i)' = IF i + 1 = Depth THEN 1 - PhaseOf(0) ELSE PhaseOf(i + 1)
           /\ host'.q.pending = IF host.q.pending.cid = host.answered + 1 THEN NoCmd ELSE host.q.pending
<1>0. Answer \in Answers
  BY EntryFacts DEF Fresh
<1>1. /\ UNCHANGED <<admin_q, d, sq_mem, cq_mem, trouble, dbs, old_dbs, sqes, cqes, work, misused>>
      /\ Answer.phase = host.phase
      /\ host'.addr = host.addr /\ host'.tail = host.tail /\ host'.pc = host.pc
      /\ host'.head = NextSlot(host.head)
      /\ host'.phase = (IF NextSlot(host.head) = 0 THEN 1 - host.phase ELSE host.phase)
      /\ host'.sent = host.sent /\ host'.answered = host.answered + 1
      /\ host'.q = AfterAnswer(host.q)
  BY <1>0, EffHostConsume
<1>2. /\ host.head \in Slots /\ host.head \in Nat /\ host.head < Depth /\ admin_q.cq_head \in Slots
      /\ host.phase \in {0, 1} /\ Depth \in Nat /\ Depth >= 2
      /\ host.sent \in Nat /\ host.answered \in Nat /\ host.q.pending \in Cmds
      /\ Posted \in 0 .. Depth - 1 /\ host.q \in QueueStates
  BY FreshTypes
<1>3. PhaseOf(0) = host.phase /\ SlotOf(host.head, 0) = host.head /\ 0 \in 0 .. Depth - 1
  BY <1>2 DEF PhaseOf, SlotOf
<1>4. Posted > 0 /\ Answer.cid = host.answered + 1
  <2>1. Answer = cq_mem[host.addr][SlotOf(host.head, 0)]
    BY <1>3 DEF Answer
  <2>2. IF 0 < Posted
        THEN \/ Answer = [cid |-> host.answered + 1 + 0, phase |-> PhaseOf(0)]
             \/ "unanswered" \in trouble /\ Answer.phase = 1 - PhaseOf(0)
        ELSE Answer.phase = 1 - PhaseOf(0)
    BY <1>3, <2>1 DEF CqInv
  <2>3. Answer.phase # 1 - PhaseOf(0)
    BY <1>1, <1>2, <1>3
  <2>4. QED
    BY <1>2, <2>2, <2>3
<1>5. Posted' = Posted - 1
  <2>1. Posted' = Dist(NextSlot(host.head), admin_q.cq_head)
    BY <1>1 DEF Posted, Dist
  <2>2. QED
    BY <1>2, <1>4, <2>1, DistFacts DEF Posted
<1>6. Outstanding' = Outstanding - 1
  BY <1>1, <1>2 DEF Outstanding
<1>7. NextSlot(host.head) = IF host.head + 1 = Depth THEN 0 ELSE host.head + 1
  BY <1>2, NextSlotIs
<1>8. ASSUME NEW i \in 0 .. Depth - 1
      PROVE  PhaseOf(i)' = IF i + 1 = Depth THEN 1 - PhaseOf(0) ELSE PhaseOf(i + 1)
  <2>1. PhaseOf(i)' = IF host'.head + i < Depth THEN host'.phase ELSE 1 - host'.phase
    BY DEF PhaseOf
  <2>2. QED
    BY <1>1, <1>2, <1>3, <1>7, <2>1 DEF PhaseOf
<1>9. host'.q.pending = IF host.q.pending.cid = host.answered + 1 THEN NoCmd ELSE host.q.pending
  <2>1. CASE host.q.pending.cid = host.answered + 1
    <3>1. host.q.pending # NoCmd
      BY <1>2, <2>1 DEF NoCmd
    <3>2. host.q.pending.kind \in {"features", "create_cq", "create_sq", "delete_sq", "delete_cq"}
      BY <1>2, <3>1 DEF CountInv, Cmds, Kinds
    <3>3. QED
      BY <1>1, <1>2, <1>4, <2>1, <3>2 DEF AfterAnswer, QueueStates
  <2>2. CASE host.q.pending.cid # host.answered + 1
    BY <1>1, <1>4, <2>2 DEF AfterAnswer
  <2>3. QED
    BY <2>1, <2>2
<1>10. QED
  BY <1>1, <1>4, <1>5, <1>6, <1>8, <1>9

(* A completion entry is posted: one command less to go through.            *)
LEMMA PostRings ==
    ASSUME TypeOK, HostInv, RegInv, PlaceInv, CountInv, BatchInv, SqInv, Fresh, AdminPost
    PROVE  /\ UNCHANGED <<host, sq_mem, dbs, old_dbs, sqes, cqes, work, misused>>
           /\ d.pc = "post" /\ d.curr = admin_q.cq_head /\ d'.new = d.new
           /\ d'.curr = NextSlot(d.curr) /\ d'.pc = IF NextSlot(d.curr) = d.new THEN "signal" ELSE "exec"
           /\ Posted < Outstanding /\ Posted' = Posted + 1 /\ Outstanding' = Outstanding
           /\ \A i \in 0 .. Depth - 1 : PhaseOf(i)' = PhaseOf(i)
           /\ admin_q'.cq_head = NextSlot(admin_q.cq_head) /\ admin_q'.phase = PhaseOf(Posted + 1)
           /\ Cmd = sq_mem[host.addr][SlotOf(host.head, Posted)]
           /\ Cmd.cid = host.answered + 1 + Posted
           /\ cq_mem' = IF Cmd.kind = "abort" THEN cq_mem
                        ELSE [cq_mem EXCEPT ![host.addr][SlotOf(host.head, Posted)] =
                                 [cid |-> host.answered + 1 + Posted, phase |-> PhaseOf(Posted)]]
           /\ trouble' = IF Cmd.kind = "abort" THEN trouble \cup {"unanswered"} ELSE trouble
<1>1. /\ UNCHANGED <<host, sq_mem, dbs, old_dbs, sqes, cqes, work, misused>>
      /\ d.pc = "post" /\ d'.new = d.new
      /\ d'.curr = NextSlot(d.curr) /\ d'.pc = IF NextSlot(d.curr) = d.new THEN "signal" ELSE "exec"
      /\ cq_mem' = IF Cmd.kind = "abort" THEN cq_mem
                   ELSE [cq_mem EXCEPT ![admin_q.cq][admin_q.cq_head] =
                            [cid |-> Cmd.cid, phase |-> admin_q.phase]]
      /\ trouble' = IF Cmd.kind = "abort" THEN trouble \cup {"unanswered"} ELSE trouble
      /\ admin_q'.cq_head = NextSlot(admin_q.cq_head)
      /\ admin_q'.phase = IF NextSlot(admin_q.cq_head) = 0 THEN 1 - admin_q.phase ELSE admin_q.phase
  BY EffAdminPost
<1>2. /\ host.head \in Slots /\ host.head \in Nat /\ host.head < Depth /\ admin_q.cq_head \in Slots
      /\ host.phase \in {0, 1} /\ Depth \in Nat /\ Depth >= 2 /\ d.new \in Slots
      /\ host.answered \in Nat /\ Posted \in 0 .. Depth - 1 /\ Outstanding \in 0 .. Depth - 1
      /\ admin_q.cq_head = SlotOf(host.head, Posted)
  BY FreshTypes
<1>3. /\ d.curr = admin_q.cq_head
      /\ Posted < Dist(host.head, d.new) /\ Dist(host.head, d.new) <= Outstanding
  BY <1>1 DEF BatchInv
<1>4. Posted < Outstanding
  <2>1. Dist(host.head, d.new) \in 0 .. Depth - 1
    BY <1>2, DistFacts
  <2>2. QED
    BY <1>2, <1>3, <2>1
<1>5. Posted' = Posted + 1 /\ Outstanding' = Outstanding
  <2>1. Posted' = Dist(host.head, NextSlot(admin_q.cq_head))
    BY <1>1 DEF Posted, Dist
  <2>2. Posted + 1 < Depth
    BY <1>2, <1>4
  <2>3. QED
    BY <1>1, <1>2, <2>1, <2>2, DistFacts DEF Posted, Outstanding
<1>6. \A i \in 0 .. Depth - 1 : PhaseOf(i)' = PhaseOf(i)
  BY <1>1 DEF PhaseOf
<1>7. admin_q.phase = PhaseOf(Posted)
  BY DEF CountInv
<1>8. admin_q'.phase = PhaseOf(Posted + 1)
  <2>1. NextSlot(admin_q.cq_head) = IF admin_q.cq_head + 1 = Depth THEN 0 ELSE admin_q.cq_head + 1
    BY <1>2, NextSlotIs
  <2>2. admin_q.cq_head = IF host.head + Posted < Depth THEN host.head + Posted
                          ELSE host.head + Posted - Depth
    BY <1>2 DEF SlotOf
  <2>3. QED
    BY <1>1, <1>2, <1>4, <1>7, <2>1, <2>2 DEF PhaseOf
<1>9. Cmd = sq_mem[host.addr][SlotOf(host.head, Posted)] /\ admin_q.cq = host.addr
  BY <1>2, <1>3 DEF Cmd, PlaceInv
<1>10. Cmd.cid = host.answered + 1 + Posted
  BY <1>2, <1>4, <1>9 DEF SqInv
<1>11. QED
  BY <1>1, <1>2, <1>3, <1>4, <1>5, <1>6, <1>7, <1>8, <1>9, <1>10

(* A command is sent: one more outstanding.                                 *)
LEMMA SubmitRings ==
    ASSUME TypeOK, HostInv, RegInv, CountInv, CidInv, Fresh, NEW kind \in Kinds, HostSubmit(kind)
    PROVE  LET c == [cid |-> host.sent + 1, kind |-> kind]
           IN  /\ UNCHANGED <<admin_q, d, cq_mem, old_dbs, sqes, cqes, work, misused>>
               /\ host'.addr = host.addr /\ host'.head = host.head /\ host'.pc = host.pc
               /\ host'.tail = SlotOf(host.head, Outstanding + 1) /\ dbs'.admin = host'.tail
               /\ dbs'.io = dbs.io
               /\ host'.sent = host.sent + 1 /\ host'.answered = host.answered
               /\ Posted' = Posted /\ Outstanding' = Outstanding + 1 /\ Outstanding + 1 < Depth
               /\ \A i \in 0 .. Depth - 1 : PhaseOf(i)' = PhaseOf(i)
               /\ sq_mem' = [sq_mem EXCEPT ![host.addr][SlotOf(host.head, Outstanding)] = c]
               /\ \/ kind \in {"identify", "abort"} /\ host'.q.pending = host.q.pending
                  \/ /\ kind \notin {"identify", "abort"} /\ host.q.pending = NoCmd
                     /\ host'.q.pending = c
               /\ trouble' \in {trouble, trouble \cup {"forced"}}
<1> DEFINE c == [cid |-> host.sent + 1, kind |-> kind]
<1>1. /\ UNCHANGED <<admin_q, d, cq_mem, old_dbs, sqes, cqes, work, misused>>
      /\ host'.addr = host.addr /\ host'.head = host.head /\ host'.pc = host.pc /\ host'.phase = host.phase
      /\ host.sent - host.answered < Depth - 1 /\ kind \in Sendable
      /\ host'.tail = NextSlot(host.tail) /\ dbs'.admin = NextSlot(host.tail) /\ dbs'.io = dbs.io
      /\ host'.sent = host.sent + 1 /\ host'.answered = host.answered
      /\ sq_mem' = [sq_mem EXCEPT ![host.addr][host.tail] = c]
      /\ host'.q.pending = IF kind \in {"identify", "abort"} THEN host.q.pending ELSE c
      /\ trouble' = IF kind = "delete_sq" THEN Forced ELSE trouble
  BY EffHostSubmit
<1>2. /\ host.head \in Slots /\ Depth \in Nat /\ Depth >= 2 /\ host.sent \in Nat /\ host.answered \in Nat
      /\ Outstanding \in 0 .. Depth - 1
  BY FreshTypes
<1>3. host.tail = SlotOf(host.head, Outstanding)
  BY DEF CountInv
<1>4. Outstanding + 1 < Depth
  BY <1>1, <1>2 DEF Outstanding
<1>5. NextSlot(host.tail) = SlotOf(host.head, Outstanding + 1)
  BY <1>2, <1>3, <1>4, SlotOfFacts
<1>6. Posted' = Posted /\ Outstanding' = Outstanding + 1 /\ \A i \in 0 .. Depth - 1 : PhaseOf(i)' = PhaseOf(i)
  BY <1>1, <1>2 DEF Posted, Dist, Outstanding, PhaseOf
<1>7. \/ kind \in {"identify", "abort"} /\ host'.q.pending = host.q.pending
      \/ kind \notin {"identify", "abort"} /\ host.q.pending = NoCmd /\ host'.q.pending = c
  BY <1>1 DEF Sendable
<1>8. trouble' \in {trouble, trouble \cup {"forced"}}
  BY <1>1 DEF Forced
<1>9. QED
  BY <1>1, <1>3, <1>4, <1>5, <1>6, <1>7, <1>8

-----------------------------------------------------------------------------
(***************************************************************************)
(* The rings of a life that began well.                                    *)
(***************************************************************************)

(* What the ring invariants may assume.                                     *)
Rings ==
  /\ TypeOK /\ HostInv /\ StartInv /\ RegInv /\ DbsInv /\ PhaseInv /\ CidInv
  /\ PlaceInv /\ CountInv /\ BatchInv /\ SqInv /\ CqInv

(* A fresh start: empty rings.                                              *)
LEMMA ReadyRings ==
    ASSUME TypeOK, HostInv, HostReady, ReadyFacts
    PROVE  /\ Outstanding' = 0 /\ Posted' = 0 /\ host'.head = 0 /\ host'.tail = 0
           /\ host'.addr = host.addr /\ host'.q = NoQueues
           /\ UNCHANGED <<admin_q, d, dbs, old_dbs, cq_mem, sq_mem>>
           /\ \A i \in 0 .. Depth - 1 : PhaseOf(i)' = 1 /\ SlotOf(0, i) = i /\ i \in Slots
<1>1. /\ UNCHANGED <<admin_q, d, dbs, old_dbs, cq_mem, sq_mem>> /\ HostStays
  BY EffHostReady
<1>2. Depth \in Nat /\ Depth >= 2 /\ host.sent \in Nat
  BY Constants DEF TypeOK, HostStates
<1>3. Outstanding' = 0 /\ Posted' = 0
  BY <1>1, <1>2 DEF Outstanding, Posted, Dist, HostStays, ReadyFacts
<1>4. \A i \in 0 .. Depth - 1 : PhaseOf(i)' = 1 /\ SlotOf(0, i) = i /\ i \in Slots
  BY <1>1, <1>2 DEF PhaseOf, SlotOf, HostStays, ReadyFacts, Slots
<1>5. QED
  BY <1>1, <1>3, <1>4 DEF HostStays, ReadyFacts

(* A command is executed: the rings stay.                                   *)
LEMMA ExecRings ==
    ASSUME TypeOK, HostInv, RegInv, AdminExec
    PROVE  /\ UNCHANGED <<admin_q, host, sq_mem, cq_mem, trouble>>
           /\ dbs'.admin = dbs.admin /\ old_dbs'.admin = old_dbs.admin
           /\ d.pc = "exec" /\ d'.pc = "post" /\ d'.curr = d.curr /\ d'.new = d.new
<1>1. Cmd \in Cmds
  BY EntryFacts DEF AdminExec
<1>2. QED
  BY <1>1, EffAdminExec

(* Steps that leave host, rings and controller's positions alone.           *)
LEMMA Unmoved ==
    ASSUME TypeOK, HostInv, RegInv, PollAdminSq \/ AdminExec \/ AdminSignal
    PROVE  /\ UNCHANGED <<admin_q, host, sq_mem, cq_mem, trouble>> /\ dbs'.admin = dbs.admin
           /\ Posted' = Posted /\ Outstanding' = Outstanding
           /\ \A i \in 0 .. Depth - 1 : PhaseOf(i)' = PhaseOf(i)
           /\ PhaseOf(Posted)' = PhaseOf(Posted)
<1>1. UNCHANGED <<admin_q, host, sq_mem, cq_mem, trouble>> /\ dbs'.admin = dbs.admin
  BY EffPollAdminSq, ExecRings, EffAdminSignal
<1>2. QED
  BY <1>1 DEF Posted, Dist, Outstanding, PhaseOf

(* Then the counted quantities stay, too.                                   *)
LEMMA SameRingsFacts ==
    ASSUME SameRings
    PROVE  /\ Posted' = Posted /\ Outstanding' = Outstanding
           /\ \A i \in 0 .. Depth - 1 : PhaseOf(i)' = PhaseOf(i)
           /\ PhaseOf(Posted)' = PhaseOf(Posted)
BY DEF SameRings, Posted, Dist, Outstanding, PhaseOf

(* Every step keeps the counts of a good life.                              *)
LEMMA CountStep ==
    ASSUME Rings, Next
    PROVE  CountInv'
<1> SUFFICES ASSUME Fresh' PROVE CountInv'
  BY DEF CountInv
<1> USE DEF Rings
<1>1. CASE HostReady /\ ReadyFacts
  <2>1. admin_q'.phase = 1 /\ dbs'.admin = 0 /\ 0 \in 0 .. Depth - 1 /\ Depth \in Nat
    BY <1>1, ReadyRings, Constants DEF ReadyFacts
  <2>2. PhaseOf(Posted)' = 1
    BY <1>1, <2>1, ReadyRings DEF PhaseOf
  <2>3. QED
    BY <1>1, <2>1, <2>2, ReadyRings DEF CountInv, NoQueues, SlotOf
<1>2. CASE Fresh /\ SameRings
  <2>1. Posted' = Posted /\ Outstanding' = Outstanding /\ PhaseOf(Posted)' = PhaseOf(Posted)
    BY <1>2, SameRingsFacts
  <2>2. QED
    BY <1>2, <2>1 DEF CountInv, SameRings
<1>3. CASE Fresh /\ (PollAdminSq \/ AdminExec \/ AdminSignal)
  <2>1. /\ UNCHANGED <<admin_q, host, sq_mem, cq_mem, trouble>> /\ dbs'.admin = dbs.admin
        /\ Posted' = Posted /\ Outstanding' = Outstanding /\ PhaseOf(Posted)' = PhaseOf(Posted)
    BY <1>3, Unmoved
  <2>2. QED
    BY <1>3, <2>1 DEF CountInv
<1>4. CASE Fresh /\ AdminPost
  <2>1. /\ UNCHANGED <<host, dbs>> /\ Posted < Outstanding /\ Posted' = Posted + 1
        /\ Outstanding' = Outstanding /\ admin_q'.phase = PhaseOf(Posted + 1)
        /\ \A i \in 0 .. Depth - 1 : PhaseOf(i)' = PhaseOf(i)
    BY <1>4, PostRings
  <2>2. Outstanding \in 0 .. Depth - 1 /\ Posted \in 0 .. Depth - 1 /\ Depth \in Nat
    BY <1>4, FreshTypes
  <2>3. PhaseOf(Posted)' = PhaseOf(Posted + 1)
    BY <2>1, <2>2 DEF PhaseOf
  <2>4. QED
    BY <1>4, <2>1, <2>2, <2>3 DEF CountInv
<1>5. CASE Fresh /\ HostConsume
  <2>1. /\ UNCHANGED <<admin_q, dbs>> /\ host'.tail = host.tail /\ host'.head = NextSlot(host.head)
        /\ host'.sent = host.sent /\ host'.answered = host.answered + 1
        /\ Posted > 0 /\ Posted' = Posted - 1 /\ Outstanding' = Outstanding - 1
        /\ \A i \in 0 .. Depth - 1 :
             PhaseOf(i)' = IF i + 1 = Depth THEN 1 - PhaseOf(0) ELSE PhaseOf(i + 1)
        /\ host'.q.pending = IF host.q.pending.cid = host.answered + 1 THEN NoCmd ELSE host.q.pending
    BY <1>5, ConsumeRings
  <2>2. /\ Outstanding \in 0 .. Depth - 1 /\ Posted \in 0 .. Depth - 1 /\ Depth \in Nat
        /\ host.head \in Slots /\ host.answered \in Nat /\ host.sent \in Nat
        /\ host.q.pending \in Cmds
    BY <1>5, FreshTypes
  <2>3. Posted <= Outstanding /\ host.tail = SlotOf(host.head, Outstanding) /\ dbs.admin = host.tail
    BY <1>5 DEF CountInv
  <2>4. host'.tail = SlotOf(host'.head, Outstanding')
    <3>1. Outstanding - 1 \in 0 .. Depth - 1 /\ (Outstanding - 1) + 1 # Depth /\ (Outstanding - 1) + 1 = Outstanding
      BY <2>1, <2>2, <2>3
    <3>2. SlotOf(NextSlot(host.head), Outstanding - 1) = SlotOf(host.head, Outstanding)
      BY <2>2, <3>1, SlotOfFacts
    <3>3. QED
      BY <2>1, <2>3, <3>2
  <2>5. admin_q'.phase = PhaseOf(Posted)'
    <3>1. PICK k \in 0 .. Depth - 1 : k = Posted - 1
      BY <2>1, <2>2
    <3>2. k + 1 # Depth /\ k + 1 = Posted /\ Posted' = k
      BY <2>1, <2>2, <3>1
    <3>3. PhaseOf(k)' = PhaseOf(k + 1)
      BY <2>1, <3>2
    <3>4. PhaseOf(Posted)' = PhaseOf(k)'
      BY <3>2 DEF PhaseOf
    <3>5. admin_q.phase = PhaseOf(k + 1)
      BY <1>5, <3>2 DEF CountInv
    <3>6. QED
      BY <2>1, <3>3, <3>4, <3>5
  <2>6. host'.q.pending # NoCmd => /\ host'.q.pending.cid \in host'.answered + 1 .. host'.sent
                                   /\ host'.q.pending.kind \notin {"identify", "abort"}
    BY <1>5, <2>1, <2>2 DEF CountInv, Cmds
  <2>7. Outstanding' \in 0 .. Depth - 1 /\ Posted' <= Outstanding' /\ dbs'.admin = host'.tail
    BY <2>1, <2>2, <2>3
  <2>8. QED
    BY <2>4, <2>5, <2>6, <2>7 DEF CountInv
<1>6. ASSUME Fresh, NEW kind \in Kinds, HostSubmit(kind) PROVE CountInv'
  <2> DEFINE c == [cid |-> host.sent + 1, kind |-> kind]
  <2>1. /\ UNCHANGED <<admin_q>> /\ host'.head = host.head
        /\ host'.tail = SlotOf(host.head, Outstanding + 1) /\ dbs'.admin = host'.tail
        /\ host'.sent = host.sent + 1 /\ host'.answered = host.answered
        /\ Posted' = Posted /\ Outstanding' = Outstanding + 1 /\ Outstanding + 1 < Depth
        /\ \A i \in 0 .. Depth - 1 : PhaseOf(i)' = PhaseOf(i)
        /\ \/ kind \in {"identify", "abort"} /\ host'.q.pending = host.q.pending
           \/ kind \notin {"identify", "abort"} /\ host'.q.pending = c
    BY <1>6, SubmitRings
  <2>2. /\ Outstanding \in 0 .. Depth - 1 /\ Posted \in 0 .. Depth - 1 /\ Depth \in Nat
        /\ host.answered \in Nat /\ host.sent \in Nat /\ host.q.pending \in Cmds
        /\ host.sent = host.answered + Outstanding
    BY <1>6, FreshTypes
  <2>3. PhaseOf(Posted)' = PhaseOf(Posted)
    BY <2>1, <2>2 DEF PhaseOf
  <2>4. host'.q.pending # NoCmd => /\ host'.q.pending.cid \in host'.answered + 1 .. host'.sent
                                   /\ host'.q.pending.kind \notin {"identify", "abort"}
    BY <1>6, <2>1, <2>2 DEF CountInv, Cmds
  <2>5. Outstanding' \in 0 .. Depth - 1 /\ Posted' <= Outstanding' /\ admin_q'.phase = PhaseOf(Posted)'
    BY <1>6, <2>1, <2>2, <2>3 DEF CountInv
  <2>6. host'.tail = SlotOf(host'.head, Outstanding')
    BY <2>1
  <2>7. QED
    BY <2>1, <2>4, <2>5, <2>6 DEF CountInv
<1>7. QED
  BY FreshCases, <1>1, <1>2, <1>3, <1>4, <1>5, <1>6

(* Every step keeps the dispatcher at the right command.                    *)
LEMMA BatchStep ==
    ASSUME Rings, Next
    PROVE  BatchInv'
<1> SUFFICES ASSUME Fresh' PROVE BatchInv'
  BY DEF BatchInv
<1> USE DEF Rings
<1>1. CASE HostReady /\ ReadyFacts
  BY <1>1, ReadyRings DEF ReadyFacts, BatchInv, Batch
<1>2. CASE Fresh /\ SameRings
  <2>1. Posted' = Posted /\ Outstanding' = Outstanding
    BY <1>2, SameRingsFacts
  <2>2. QED
    BY <1>2, <2>1 DEF BatchInv, SameRings, Batch, Dist
<1>3. CASE Fresh /\ PollAdminSq
  <2>1. /\ UNCHANGED <<admin_q, host, dbs, old_dbs>> /\ d.pc = "dbs"
        /\ \/ d'.pc = "io"
           \/ dbs.admin # old_dbs.admin
                /\ d'.pc = "exec" /\ d'.curr = old_dbs.admin /\ d'.new = dbs.admin
    BY <1>3, EffPollAdminSq
  <2>2. Posted' = Posted /\ Outstanding' = Outstanding
    BY <1>3, Unmoved
  <2>3. old_dbs.admin = admin_q.cq_head
    BY <1>3, <2>1 DEF BatchInv, Batch
  <2>4. CASE d'.pc = "io"
    BY <2>1, <2>3, <2>4 DEF BatchInv
  <2>5. CASE d'.pc = "exec"
    <3>1. /\ Outstanding \in 0 .. Depth - 1 /\ Posted \in 0 .. Depth - 1 /\ host.head \in Slots
          /\ admin_q.cq_head = SlotOf(host.head, Posted)
      BY <1>3, FreshTypes
    <3>2. dbs.admin = SlotOf(host.head, Outstanding) /\ Posted <= Outstanding
      BY <1>3 DEF CountInv
    <3>3. Dist(host.head, dbs.admin) = Outstanding
      BY <3>1, <3>2, SlotOfFacts
    <3>4. Posted # Outstanding
      BY <2>1, <2>3, <2>5, <3>1, <3>2
    <3>5. Dist(host'.head, d'.new) = Outstanding /\ d'.curr = admin_q'.cq_head
      BY <2>1, <2>3, <2>5, <3>3
    <3>6. Posted < Outstanding /\ Outstanding <= Outstanding
      BY <3>1, <3>2, <3>4
    <3>7. QED
      BY <2>2, <2>5, <3>5, <3>6 DEF BatchInv, Batch
  <2>6. QED
    BY <2>1, <2>4, <2>5
<1>4. CASE Fresh /\ AdminExec
  <2>1. /\ UNCHANGED <<admin_q, host>> /\ d.pc = "exec" /\ d'.pc = "post"
        /\ d'.curr = d.curr /\ d'.new = d.new
    BY <1>4, ExecRings
  <2>2. Posted' = Posted /\ Outstanding' = Outstanding
    BY <1>4, Unmoved
  <2>3. QED
    BY <1>4, <2>1, <2>2 DEF BatchInv, Batch, Dist
<1>5. CASE Fresh /\ AdminPost
  <2>1. /\ UNCHANGED <<host, old_dbs>>
        /\ d.pc = "post" /\ d.curr = admin_q.cq_head /\ d'.new = d.new
        /\ d'.curr = NextSlot(d.curr) /\ d'.pc = IF NextSlot(d.curr) = d.new THEN "signal" ELSE "exec"
        /\ Posted < Outstanding /\ Posted' = Posted + 1 /\ Outstanding' = Outstanding
        /\ admin_q'.cq_head = NextSlot(admin_q.cq_head)
    BY <1>5, PostRings
  <2>2. /\ Outstanding \in 0 .. Depth - 1 /\ Posted \in 0 .. Depth - 1 /\ host.head \in Slots
        /\ admin_q.cq_head = SlotOf(host.head, Posted) /\ d.new \in Slots /\ Depth \in Nat
    BY <1>5, FreshTypes
  <2>3. Posted < Dist(host.head, d.new) /\ Dist(host.head, d.new) <= Outstanding
    BY <1>5, <2>1 DEF BatchInv
  <2>4. CASE NextSlot(d.curr) = d.new
    BY <2>1, <2>4 DEF BatchInv, Batch
  <2>5. CASE NextSlot(d.curr) # d.new
    <3>1. Dist(host.head, d.new) \in 0 .. Depth - 1 /\ d.new = SlotOf(host.head, Dist(host.head, d.new))
      BY <2>2, DistFacts
    <3>2. NextSlot(admin_q.cq_head) = SlotOf(host.head, Posted + 1)
      <4>1. Posted + 1 # Depth
        BY <2>1, <2>2
      <4>2. QED
        BY <2>2, <4>1, SlotOfFacts
    <3>3. Posted + 1 # Dist(host.head, d.new)
      BY <2>1, <2>5, <3>1, <3>2
    <3>4. Posted + 1 < Dist(host.head, d.new)
      BY <2>2, <2>3, <3>1, <3>3
    <3>5. Dist(host'.head, d'.new) = Dist(host.head, d.new)
      BY <2>1 DEF Dist
    <3>6. QED
      BY <2>1, <2>3, <2>5, <3>4, <3>5 DEF BatchInv, Batch
  <2>6. QED
    BY <2>4, <2>5
<1>6. CASE Fresh /\ AdminSignal
  <2>1. UNCHANGED admin_q /\ d.pc = "signal" /\ d'.pc = "io" /\ old_dbs'.admin = d.new
    BY <1>6, EffAdminSignal
  <2>2. QED
    BY <1>6, <2>1 DEF BatchInv, Batch
<1>7. CASE Fresh /\ HostConsume
  <2>1. /\ UNCHANGED <<admin_q, d, old_dbs>> /\ host'.head = NextSlot(host.head)
        /\ Posted > 0 /\ Posted' = Posted - 1 /\ Outstanding' = Outstanding - 1
    BY <1>7, ConsumeRings
  <2>2. /\ Outstanding \in 0 .. Depth - 1 /\ Posted \in 0 .. Depth - 1 /\ host.head \in Slots
        /\ d.new \in Slots /\ Depth \in Nat
    BY <1>7, FreshTypes
  <2>3. CASE d.pc \in {"exec", "post"}
    <3>1. /\ d.curr = admin_q.cq_head
          /\ Posted < Dist(host.head, d.new) /\ Dist(host.head, d.new) <= Outstanding
      BY <1>7, <2>3 DEF BatchInv
    <3>2. Dist(host.head, d.new) \in 0 .. Depth - 1
      BY <2>2, DistFacts
    <3>3. Dist(host.head, d.new) > 0
      BY <2>1, <2>2, <3>1, <3>2
    <3>4. Dist(NextSlot(host.head), d.new) = Dist(host.head, d.new) - 1
      BY <2>2, <3>3, DistFacts
    <3>5. Posted - 1 < Dist(host.head, d.new) - 1 /\ Dist(host.head, d.new) - 1 <= Outstanding - 1
      BY <2>2, <3>1, <3>2
    <3>6. QED
      BY <2>1, <2>3, <3>1, <3>4, <3>5 DEF BatchInv, Batch
  <2>4. CASE d.pc \notin {"exec", "post"}
    BY <1>7, <2>1, <2>4 DEF BatchInv
  <2>5. QED
    BY <2>3, <2>4
<1>8. ASSUME Fresh, NEW kind \in Kinds, HostSubmit(kind) PROVE BatchInv'
  <2>1. /\ UNCHANGED <<admin_q, d, old_dbs>> /\ host'.head = host.head
        /\ Posted' = Posted /\ Outstanding' = Outstanding + 1
    BY <1>8, SubmitRings
  <2>2. Outstanding \in 0 .. Depth - 1 /\ host.head \in Slots /\ d.new \in Slots /\ Depth \in Nat
    BY <1>8, FreshTypes
  <2>3. Dist(host.head, d.new) \in 0 .. Depth - 1
    BY <2>2, DistFacts
  <2>4. Dist(host'.head, d'.new) = Dist(host.head, d.new)
    BY <2>1 DEF Dist
  <2>5. Dist(host.head, d.new) <= Outstanding => Dist(host.head, d.new) <= Outstanding + 1
    BY <2>2, <2>3
  <2>6. QED
    BY <1>8, <2>1, <2>4, <2>5 DEF BatchInv
<1>9. QED
  BY FreshCases, <1>1, <1>2, <1>3, <1>4, <1>5, <1>6, <1>7, <1>8

(* Every step keeps the submission ring in order.                           *)
LEMMA SqStep ==
    ASSUME Rings, Next
    PROVE  SqInv'
<1> SUFFICES ASSUME Fresh', NEW i \in 0 .. Depth - 1, i < Outstanding'
             PROVE  LET c == sq_mem'[host'.addr][SlotOf(host'.head, i)]
                    IN  /\ c.cid = host'.answered + 1 + i
                        /\ IF c.cid = host'.q.pending.cid THEN c = host'.q.pending
                           ELSE c.kind \in {"identify", "abort"}
  BY DEF SqInv, SlotOf
<1> USE DEF Rings
<1> DEFINE c0 == sq_mem[host.addr][SlotOf(host.head, i)]
<1>1. CASE HostReady /\ ReadyFacts
  BY <1>1, ReadyRings
<1>2. CASE Fresh /\ SameRings
  <2>1. Outstanding' = Outstanding
    BY <1>2, SameRingsFacts
  <2>2. QED
    BY <1>2, <2>1 DEF SqInv, SameRings
<1>3. CASE Fresh /\ (PollAdminSq \/ AdminExec \/ AdminSignal)
  <2>1. UNCHANGED <<host, sq_mem>> /\ Outstanding' = Outstanding
    BY <1>3, Unmoved
  <2>2. QED
    BY <1>3, <2>1 DEF SqInv
<1>4. CASE Fresh /\ AdminPost
  <2>1. UNCHANGED <<host, sq_mem>> /\ Outstanding' = Outstanding
    BY <1>4, PostRings
  <2>2. QED
    BY <1>4, <2>1 DEF SqInv
<1>5. CASE Fresh /\ HostConsume
  <2>1. /\ UNCHANGED sq_mem /\ host'.addr = host.addr /\ host'.head = NextSlot(host.head)
        /\ host'.answered = host.answered + 1 /\ Outstanding' = Outstanding - 1
        /\ host'.q.pending = IF host.q.pending.cid = host.answered + 1 THEN NoCmd ELSE host.q.pending
    BY <1>5, ConsumeRings
  <2>2. /\ Outstanding \in 0 .. Depth - 1 /\ host.head \in Slots /\ Depth \in Nat /\ host.answered \in Nat
    BY <1>5, FreshTypes
  <2>3. PICK j \in 0 .. Depth - 1 : j = i + 1 /\ j < Outstanding /\ i + 1 # Depth
    BY <2>1, <2>2
  <2>4. SlotOf(host'.head, i) = SlotOf(host.head, j)
    BY <2>1, <2>2, <2>3, SlotOfFacts
  <2> DEFINE c == sq_mem[host.addr][SlotOf(host.head, j)]
  <2>5. /\ c.cid = host.answered + 1 + j
        /\ IF c.cid = host.q.pending.cid THEN c = host.q.pending ELSE c.kind \in {"identify", "abort"}
    BY <1>5, <2>3 DEF SqInv
  <2>6. c.cid = host'.answered + 1 + i
    BY <2>1, <2>2, <2>3, <2>5
  <2>7. IF c.cid = host'.q.pending.cid THEN c = host'.q.pending ELSE c.kind \in {"identify", "abort"}
    <3>1. c.cid # host.answered + 1 /\ c.cid # 0
      BY <2>2, <2>3, <2>5
    <3>2. QED
      BY <2>1, <2>5, <3>1 DEF NoCmd
  <2>8. QED
    BY <2>1, <2>4, <2>6, <2>7
<1>6. ASSUME Fresh, NEW kind \in Kinds, HostSubmit(kind)
      PROVE  LET c == sq_mem'[host'.addr][SlotOf(host'.head, i)]
             IN  /\ c.cid = host'.answered + 1 + i
                 /\ IF c.cid = host'.q.pending.cid THEN c = host'.q.pending
                    ELSE c.kind \in {"identify", "abort"}
  <2> DEFINE n == [cid |-> host.sent + 1, kind |-> kind]
  <2>1. /\ host'.addr = host.addr /\ host'.head = host.head /\ host'.answered = host.answered
        /\ Outstanding' = Outstanding + 1 /\ Outstanding + 1 < Depth
        /\ sq_mem' = [sq_mem EXCEPT ![host.addr][SlotOf(host.head, Outstanding)] = n]
        /\ \/ kind \in {"identify", "abort"} /\ host'.q.pending = host.q.pending
           \/ /\ kind \notin {"identify", "abort"} /\ host.q.pending = NoCmd
              /\ host'.q.pending = n
    BY <1>6, SubmitRings
  <2>2. /\ Outstanding \in 0 .. Depth - 1 /\ host.head \in Slots /\ Depth \in Nat /\ host.answered \in Nat
        /\ host.sent \in Nat /\ host.sent = host.answered + Outstanding /\ host.addr \in Addrs
        /\ host.q.pending.cid <= host.sent /\ host.q.pending.cid \in Nat
    BY <1>6, FreshTypes DEF CidInv, Cmds
  <2>3. /\ SlotOf(host.head, i) \in Slots /\ SlotOf(host.head, Outstanding) \in Slots
        /\ SlotOf(host.head, i) = SlotOf(host.head, Outstanding) => i = Outstanding
    BY <2>2, SlotOfFacts
  <2>4. CASE i = Outstanding
    <3>1. sq_mem'[host'.addr][SlotOf(host'.head, i)] = n
      BY <2>1, <2>2, <2>3, <2>4 DEF TypeOK
    <3>2. n.cid = host'.answered + 1 + i /\ n.cid # host.q.pending.cid
      BY <2>1, <2>2, <2>4
    <3>3. QED
      BY <2>1, <3>1, <3>2
  <2>5. CASE i # Outstanding
    <3>1. sq_mem'[host'.addr][SlotOf(host'.head, i)] = c0
      BY <2>1, <2>2, <2>3, <2>5 DEF TypeOK
    <3>2. i < Outstanding
      BY <2>1, <2>2, <2>5
    <3>3. /\ c0.cid = host.answered + 1 + i
          /\ IF c0.cid = host.q.pending.cid THEN c0 = host.q.pending ELSE c0.kind \in {"identify", "abort"}
      BY <1>6, <3>2 DEF SqInv
    <3>4. c0.cid # host.sent + 1 /\ c0.cid # 0
      BY <2>2, <3>2, <3>3
    <3>5. IF c0.cid = host'.q.pending.cid THEN c0 = host'.q.pending ELSE c0.kind \in {"identify", "abort"}
      BY <2>1, <3>3, <3>4 DEF NoCmd
    <3>6. QED
      BY <2>1, <3>1, <3>3, <3>5
  <2>6. QED
    BY <2>4, <2>5
<1>7. QED
  BY FreshCases, <1>1, <1>2, <1>3, <1>4, <1>5, <1>6

(* Every step keeps the completion ring in order.                           *)
LEMMA CqStep ==
    ASSUME Rings, Next
    PROVE  CqInv'
<1> DEFINE Good(i) ==
      LET a == cq_mem[host.addr][SlotOf(host.head, i)]
      IN  IF i < Posted
          THEN \/ a = [cid |-> host.answered + 1 + i, phase |-> PhaseOf(i)]
               \/ "unanswered" \in trouble /\ a.phase = 1 - PhaseOf(i)
          ELSE a.phase = 1 - PhaseOf(i)
<1> SUFFICES ASSUME Fresh', NEW i \in 0 .. Depth - 1 PROVE Good(i)'
  BY DEF CqInv
<1> USE DEF Rings
<1>0. ASSUME Fresh PROVE \A j \in 0 .. Depth - 1 : Good(j)
  BY <1>0 DEF CqInv
<1>1. CASE HostReady /\ ReadyFacts
  <2>1. /\ Posted' = 0 /\ host'.head = 0 /\ host'.addr = host.addr /\ UNCHANGED cq_mem
        /\ PhaseOf(i)' = 1 /\ SlotOf(0, i) = i /\ i \in Slots
    BY <1>1, ReadyRings
  <2>2. cq_mem[host.addr][i].phase = 0
    BY <1>1, <2>1 DEF ReadyFacts
  <2>3. ~(i < Posted') /\ cq_mem'[host'.addr][SlotOf(host'.head, i)].phase = 1 - PhaseOf(i)'
    BY <2>1, <2>2, Constants
  <2>4. QED
    BY <2>3
<1>2. CASE Fresh /\ SameRings
  <2>1. Posted' = Posted /\ PhaseOf(i)' = PhaseOf(i)
    BY <1>2, SameRingsFacts
  <2>2. UNCHANGED <<cq_mem, trouble>> /\ host'.addr = host.addr /\ host'.head = host.head
        /\ host'.answered = host.answered
    BY <1>2 DEF SameRings
  <2>3. Good(i)
    BY <1>0, <1>2
  <2>4. QED
    BY <2>1, <2>2, <2>3
<1>3. CASE Fresh /\ (PollAdminSq \/ AdminExec \/ AdminSignal)
  <2>1. UNCHANGED <<host, cq_mem, trouble>> /\ Posted' = Posted /\ PhaseOf(i)' = PhaseOf(i)
    BY <1>3, Unmoved
  <2>2. Good(i)
    BY <1>0, <1>3
  <2>3. QED
    BY <2>1, <2>2
<1>4. CASE Fresh /\ AdminPost
  <2> DEFINE x == [cid |-> host.answered + 1 + Posted, phase |-> PhaseOf(Posted)]
  <2>1. /\ UNCHANGED host /\ Posted < Outstanding /\ Posted' = Posted + 1 /\ PhaseOf(i)' = PhaseOf(i)
        /\ cq_mem' = IF Cmd.kind = "abort" THEN cq_mem
                     ELSE [cq_mem EXCEPT ![host.addr][SlotOf(host.head, Posted)] = x]
        /\ trouble' = IF Cmd.kind = "abort" THEN trouble \cup {"unanswered"} ELSE trouble
    BY <1>4, PostRings
  <2>2. /\ Posted \in 0 .. Depth - 1 /\ host.head \in Slots /\ Depth \in Nat /\ host.addr \in Addrs
    BY <1>4, FreshTypes
  <2>3. /\ SlotOf(host.head, i) \in Slots /\ SlotOf(host.head, Posted) \in Slots
        /\ SlotOf(host.head, i) = SlotOf(host.head, Posted) => i = Posted
    BY <2>2, SlotOfFacts
  <2>4. cq_mem'[host'.addr][SlotOf(host'.head, i)] =
          IF i = Posted /\ Cmd.kind # "abort" THEN x ELSE cq_mem[host.addr][SlotOf(host.head, i)]
    BY <2>1, <2>2, <2>3 DEF TypeOK
  <2>5. Good(i)
    BY <1>0, <1>4
  <2>6. CASE i = Posted
    <3>1. i < Posted' /\ cq_mem[host.addr][SlotOf(host.head, i)].phase = 1 - PhaseOf(i)
      BY <2>1, <2>2, <2>5, <2>6
    <3>2. QED
      BY <2>1, <2>4, <2>6, <3>1
  <2>7. CASE i # Posted
    <3>1. i < Posted' <=> i < Posted
      BY <2>1, <2>2, <2>7
    <3>2. "unanswered" \in trouble => "unanswered" \in trouble'
      BY <2>1
    <3>3. QED
      BY <2>1, <2>4, <2>5, <2>7, <3>1, <3>2
  <2>8. QED
    BY <2>6, <2>7
<1>5. CASE Fresh /\ HostConsume
  <2>1. /\ UNCHANGED <<cq_mem, trouble>> /\ host'.addr = host.addr /\ host'.head = NextSlot(host.head)
        /\ host'.answered = host.answered + 1 /\ Posted > 0 /\ Posted' = Posted - 1
        /\ PhaseOf(i)' = IF i + 1 = Depth THEN 1 - PhaseOf(0) ELSE PhaseOf(i + 1)
    BY <1>5, ConsumeRings
  <2>2. /\ Posted \in 0 .. Depth - 1 /\ host.head \in Slots /\ Depth \in Nat /\ host.answered \in Nat
        /\ host.phase \in {0, 1} /\ host.head \in Nat /\ host.head < Depth
    BY <1>5, FreshTypes
  <2>3. SlotOf(host'.head, i) = IF i + 1 = Depth THEN host.head ELSE SlotOf(host.head, i + 1)
    BY <2>1, <2>2, SlotOfFacts
  <2>4. CASE i + 1 = Depth
    <3>1. PhaseOf(0) = host.phase
      BY <2>2 DEF PhaseOf
    <3>2. Answer.phase = host.phase /\ Answer = cq_mem[host.addr][host.head]
      BY <1>5 DEF HostConsume, AnswerIsNew, Answer
    <3>3. ~(i < Posted') /\ cq_mem'[host'.addr][SlotOf(host'.head, i)].phase = 1 - PhaseOf(i)'
      BY <2>1, <2>2, <2>3, <2>4, <3>1, <3>2
    <3>4. QED
      BY <3>3
  <2>5. CASE i + 1 # Depth
    <3>1. PICK j \in 0 .. Depth - 1 : j = i + 1
      BY <2>2, <2>5
    <3>2. Good(j)
      BY <1>0, <1>5
    <3>3. (j < Posted <=> i < Posted') /\ host.answered + 1 + j = host'.answered + 1 + i
      BY <2>1, <2>2, <3>1
    <3>4. PhaseOf(i)' = PhaseOf(j) /\ SlotOf(host'.head, i) = SlotOf(host.head, j)
      BY <2>1, <2>3, <2>5, <3>1
    <3>5. QED
      BY <2>1, <3>2, <3>3, <3>4
  <2>6. QED
    BY <2>4, <2>5
<1>6. ASSUME Fresh, NEW kind \in Kinds, HostSubmit(kind) PROVE Good(i)'
  <2>1. /\ UNCHANGED cq_mem /\ host'.addr = host.addr /\ host'.head = host.head
        /\ host'.answered = host.answered /\ Posted' = Posted /\ PhaseOf(i)' = PhaseOf(i)
        /\ trouble' \in {trouble, trouble \cup {"forced"}}
    BY <1>6, SubmitRings
  <2>2. Good(i)
    BY <1>0, <1>6
  <2>3. "unanswered" \in trouble => "unanswered" \in trouble'
    BY <2>1
  <2>4. QED
    BY <2>1, <2>2, <2>3
<1>7. QED
  BY FreshCases, <1>1, <1>2, <1>3, <1>4, <1>5, <1>6

-----------------------------------------------------------------------------
(***************************************************************************)
(* The I/O queue pair and its requests.                                    *)
(***************************************************************************)

(* What IoInv says, apart from the condition that the life began well.      *)
IoGood ==
  /\ host.q.queues = "both" =>
       /\ host.q.pending = NoCmd \/ host.q.pending.kind = "delete_sq"
       /\ dbs.io = host.q.io /\ old_dbs.io <= dbs.io
       /\ old_dbs.io = host.q.done + Cardinality(Mine)
       /\ \A r \in Mine : r.n <= old_dbs.io
       /\ \A r, s \in Mine : r.n = s.n => r = s
       /\ host.q.sq # NULL
       /\ sqes = IF host.q.pending # NoCmd /\ Executed THEN NULL ELSE host.q.sq
  /\ host.q.pending # NoCmd /\ host.q.pending.kind = "delete_sq" => host.q.queues = "both"
  /\ host.q.pending # NoCmd /\ host.q.pending.kind = "create_sq" =>
       /\ \A r \in work : r.sq # host.q.pending.cid
       /\ IF Executed THEN sqes = host.q.pending.cid /\ dbs.io = 0 /\ old_dbs.io = 0
          ELSE sqes # host.q.pending.cid

(* The types that the lemmas about the I/O queue use.                       *)
LEMMA IoTypes ==
    ASSUME TypeOK
    PROVE  /\ host.q \in QueueStates /\ host.q.pending \in Cmds /\ host.q.pending.cid \in Nat
           /\ host.q.sq \in Nat /\ host.q.io \in Nat /\ host.q.done \in Nat
           /\ host.sent \in Nat /\ host.answered \in Nat
           /\ dbs.io \in Nat /\ old_dbs.io \in Nat /\ sqes \in Nat /\ cqes \in Nat
           /\ \A r \in work : r \in Requests /\ r.sq \in Nat /\ r.n \in Nat
           /\ IsFiniteSet(Mine) /\ Cardinality(Mine) \in Nat
<1>1. IsFiniteSet(Mine) /\ Cardinality(Mine) \in Nat
  BY FS_Subset, FS_CardinalityType DEF TypeOK, Mine
<1>2. host.q \in QueueStates /\ host.sent \in Nat /\ host.answered \in Nat
  BY DEF TypeOK, HostStates
<1>3. QED
  BY <1>1, <1>2 DEF TypeOK, QueueStates, Cmds, Bells, Requests

(* Nothing of it changes.                                                   *)
LEMMA IoSame ==
    ASSUME IoGood, UNCHANGED <<sqes, work>>, dbs'.io = dbs.io, old_dbs'.io = old_dbs.io,
           host'.q.queues = host.q.queues, host'.q.pending = host.q.pending, host'.q.sq = host.q.sq,
           host'.q.io = host.q.io, host'.q.done = host.q.done, Executed' <=> Executed
    PROVE  IoGood'
<1>1. Mine' = Mine
  BY DEF Mine
<1>2. QED
  BY <1>1 DEF IoGood

(* The same but for requests served.                                        *)
LEMMA ExecutedSame ==
    ASSUME host'.q.pending = host.q.pending, host'.answered = host.answered,
           Posted' = Posted, d.pc = "post" <=> d'.pc = "post"
    PROVE  Executed' <=> Executed
BY DEF Executed

(* The count of posted entries depends on two heads only.                   *)
LEMMA PostedSame ==
    ASSUME host'.head = host.head, admin_q'.cq_head = admin_q.cq_head
    PROVE  Posted' = Posted
BY DEF Posted, Dist

(* The command that is executed is the next one in order.                   *)
LEMMA ExecCmd ==
    ASSUME Rings, Fresh, AdminExec
    PROVE  /\ Cmd \in Cmds /\ Cmd.cid = host.answered + 1 + Posted /\ Cmd # NoCmd
           /\ IF Cmd.cid = host.q.pending.cid THEN Cmd = host.q.pending
              ELSE Cmd.kind \in {"identify", "abort"}
           /\ Posted' = Posted
<1> USE DEF Rings
<1>1. Cmd \in Cmds /\ d.pc = "exec" /\ admin_q.sq = host.addr
  BY EntryFacts DEF AdminExec, PlaceInv
<1>2. /\ Posted \in 0 .. Depth - 1 /\ Outstanding \in 0 .. Depth - 1 /\ host.answered \in Nat
      /\ admin_q.cq_head = SlotOf(host.head, Posted) /\ d.new \in Slots /\ host.head \in Slots
  BY FreshTypes
<1>3. Dist(host.head, d.new) \in 0 .. Depth - 1
  BY <1>2, DistFacts
<1>4. d.curr = admin_q.cq_head /\ Posted < Outstanding
  BY <1>1, <1>2, <1>3 DEF BatchInv
<1>5. Cmd = sq_mem[host.addr][SlotOf(host.head, Posted)]
  BY <1>1, <1>2, <1>4 DEF Cmd
<1>6. /\ Cmd.cid = host.answered + 1 + Posted
      /\ IF Cmd.cid = host.q.pending.cid THEN Cmd = host.q.pending
         ELSE Cmd.kind \in {"identify", "abort"}
  BY <1>2, <1>4, <1>5 DEF SqInv
<1>7. Cmd # NoCmd
  BY <1>2, <1>6 DEF NoCmd
<1>8. UNCHANGED <<host, admin_q>>
  BY ExecRings
<1>9. QED
  BY <1>1, <1>6, <1>7, <1>8, PostedSame

(* A command is executed: only the pending one touches the I/O queue.       *)
LEMMA IoExec ==
    ASSUME Rings, IoGood, Fresh, AdminExec
    PROVE  IoGood'
<1> USE DEF Rings
<1>1. /\ Cmd \in Cmds /\ Cmd.cid = host.answered + 1 + Posted /\ Cmd # NoCmd
      /\ IF Cmd.cid = host.q.pending.cid THEN Cmd = host.q.pending
         ELSE Cmd.kind \in {"identify", "abort"}
      /\ Posted' = Posted
  BY ExecCmd
<1>2. /\ UNCHANGED <<host, work>> /\ d.pc = "exec" /\ d'.pc = "post"
      /\ sqes' = IF Cmd.kind = "create_sq" THEN Cmd.cid
                 ELSE IF Cmd.kind = "delete_sq" THEN NULL ELSE sqes
      /\ dbs'.io = IF Cmd.kind = "create_sq" THEN 0 ELSE dbs.io
      /\ old_dbs'.io = IF Cmd.kind = "create_sq" THEN 0 ELSE old_dbs.io
  BY <1>1, EffAdminExec
<1>3. Posted \in 0 .. Depth - 1 /\ host.answered \in Nat /\ Depth \in Nat /\ host.q.pending.cid \in Nat
  BY FreshTypes, IoTypes
<1>4. CASE Cmd.cid # host.q.pending.cid
  <2>1. Executed' <=> Executed
    BY <1>1, <1>2, <1>3, <1>4 DEF Executed
  <2>2. UNCHANGED sqes /\ dbs'.io = dbs.io /\ old_dbs'.io = old_dbs.io
    BY <1>1, <1>2, <1>4
  <2>3. QED
    BY <1>2, <2>1, <2>2, IoSame
<1>5. CASE Cmd.cid = host.q.pending.cid
  <2>1. Executed' /\ ~Executed
    BY <1>1, <1>2, <1>3, <1>5 DEF Executed
  <2>2. Cmd = host.q.pending /\ Mine' = Mine
    BY <1>1, <1>2, <1>5 DEF Mine
  <2>3. QED
    BY <1>1, <1>2, <2>1, <2>2 DEF IoGood
<1>6. QED
  BY <1>4, <1>5

(* Requests handed out together have different numbers.                     *)
LEMMA HandedApart ==
    ASSUME NEW q, NEW c, NEW a \in Nat, NEW b \in Nat
    PROVE  \A r, s \in Handed(q, c, a, b) : r.n = s.n => r = s
<1> DEFINE R(k) == [sq |-> q, cq |-> c, n |-> k, copied |-> FALSE]
<1>1. \A r \in Handed(q, c, a, b) : \E k \in a + 1 .. b : r = R(k)
  BY DEF Handed
<1>2. \A k : R(k).n = k
  OBVIOUS
<1>3. \A r \in Handed(q, c, a, b) : r = R(r.n)
  BY <1>1, <1>2
<1>4. QED
  BY <1>3, Zenon

(* The requests that were rung go to the workers, each once.                *)
LEMMA IoPoll ==
    ASSUME TypeOK, IoGood, PollIoSq
    PROVE  IoGood'
<1>1. UNCHANGED <<host, admin_q, sqes, dbs>> /\ d.pc = "io" /\ d'.pc = "aqa"
  BY EffPollIoSq
<1>2. Executed' <=> Executed
  BY <1>1, PostedSame, ExecutedSame
<1>3. CASE UNCHANGED <<old_dbs, work>>
  BY <1>1, <1>2, <1>3, IoSame
<1> DEFINE H == Handed(sqes, cqes, old_dbs.io, dbs.io)
<1>4. CASE sqes # NULL /\ old_dbs'.io = dbs.io /\ work' = work \cup H
  <2>0. /\ dbs.io \in Nat /\ old_dbs.io \in Nat /\ sqes \in Nat /\ cqes \in Nat /\ host.q.done \in Nat
        /\ IsFiniteSet(Mine) /\ Cardinality(Mine) \in Nat /\ \A r \in Mine : r.n \in Nat
    BY IoTypes DEF Mine
  <2>1. /\ \A r \in H : r.sq = sqes /\ r.n \in old_dbs.io + 1 .. dbs.io
        /\ IsFiniteSet(H) /\ Cardinality(H) = IF old_dbs.io < dbs.io THEN dbs.io - old_dbs.io ELSE 0
    <3>0. dbs.io \in Nat /\ old_dbs.io \in Nat /\ sqes \in Nat /\ cqes \in Nat
      BY <2>0
    <3>1. \A r \in H : r.sq = sqes /\ r.n \in old_dbs.io + 1 .. dbs.io
      BY <3>0, HandedFacts
    <3>2. IsFiniteSet(H)
      BY <3>0, HandedFacts
    <3>3. Cardinality(H) = IF old_dbs.io < dbs.io THEN dbs.io - old_dbs.io ELSE 0
      BY <3>0, HandedFacts
    <3>4. QED
      BY <3>1, <3>2, <3>3
  <2>2. \A r, s \in H : r.n = s.n => r = s
    BY <2>0, HandedApart, Zenon
  <2>3. ASSUME host.q.queues = "both"
        PROVE  /\ Cardinality(Mine') = Cardinality(Mine) + Cardinality(H)
               /\ \A r \in Mine' : r.n <= old_dbs'.io
               /\ \A r, s \in Mine' : r.n = s.n => r = s
    <3>1. sqes = host.q.sq
      BY <1>4, <2>3 DEF IoGood
    <3>2. Mine' = Mine \cup H
      BY <1>1, <1>4, <2>1, <3>1 DEF Mine
    <3>3. (\A r \in Mine : r.n <= old_dbs.io) /\ \A r, s \in Mine : r.n = s.n => r = s
      BY <2>3 DEF IoGood
    <3>4. \A r \in Mine, s \in H : r.n < s.n
      BY <2>0, <2>1, <3>3
    <3>5. Mine \cap H = {}
      BY <2>0, <2>1, <3>4
    <3>6. Cardinality(Mine') = Cardinality(Mine) + Cardinality(H) - Cardinality({})
      BY <2>0, <2>1, <3>2, <3>5, FS_Union
    <3>7. Cardinality({}) = 0
      BY FS_EmptySet
    <3>8. \A r \in Mine' : r.n <= old_dbs'.io
      BY <1>4, <2>0, <2>1, <2>3, <3>2, <3>3 DEF IoGood
    <3>9. \A r, s \in Mine' : r.n = s.n => r = s
      BY <2>0, <2>1, <2>2, <3>2, <3>3, <3>4
    <3>10. QED
      BY <2>0, <2>1, <3>6, <3>7, <3>8, <3>9
  <2>4. ASSUME host.q.queues = "both" PROVE old_dbs'.io = host.q.done + Cardinality(Mine')
    BY <1>4, <2>0, <2>1, <2>3, <2>4 DEF IoGood
  <2>5. ASSUME host.q.pending # NoCmd, host.q.pending.kind = "create_sq"
        PROVE  /\ \A r \in work' : r.sq # host.q.pending.cid
               /\ Executed => old_dbs'.io = 0
    <3>1. CASE Executed
      <4>1. dbs.io = 0 /\ old_dbs.io = 0
        BY <2>5, <3>1 DEF IoGood
      <4>2. H = {}
        BY <2>1, <4>1
      <4>3. QED
        BY <1>4, <2>5, <4>1, <4>2 DEF IoGood
    <3>2. CASE ~Executed
      BY <1>4, <2>1, <2>5, <3>2 DEF IoGood
    <3>3. QED
      BY <3>1, <3>2
  <2>6. QED
    BY <1>1, <1>2, <1>4, <2>0, <2>3, <2>4, <2>5 DEF IoGood
<1>5. QED
  BY <1>3, <1>4, EffPollIoSq

(* A request is marked as copied and stays one request.                     *)
LEMMA IoCopy ==
    ASSUME TypeOK, IoGood, NEW r \in work, WorkerCopy(r)
    PROVE  IoGood'
<1>1. UNCHANGED <<host, admin_q, sqes, dbs, old_dbs, d>> /\ ~r.copied
  BY EffWorkerCopy
<1>2. PICK g \in Requests : /\ work' = (work \ {r}) \cup {g} /\ g.copied
                            /\ g.sq = r.sq /\ g.n = r.n
  BY EffWorkerCopy
<1>3. Executed' <=> Executed
  BY <1>1, PostedSame, ExecutedSame
<1>4. ASSUME host.q.queues = "both"
      PROVE  /\ Cardinality(Mine') = Cardinality(Mine)
             /\ \A s \in Mine' : s.n <= old_dbs.io
             /\ \A s, t \in Mine' : s.n = t.n => s = t
  <2>1. (\A s \in Mine : s.n <= old_dbs.io) /\ \A s, t \in Mine : s.n = t.n => s = t
    BY <1>4 DEF IoGood
  <2>2. CASE r.sq # host.q.sq
    <3>1. Mine' = Mine
      BY <1>1, <1>2, <2>2 DEF Mine
    <3>2. QED
      BY <2>1, <3>1
  <2>3. CASE r.sq = host.q.sq
    <3>1. r \in Mine /\ Mine' = (Mine \ {r}) \cup {g}
      BY <1>1, <1>2, <2>3 DEF Mine
    <3>2. g \notin Mine \ {r}
      BY <1>2, <2>1, <3>1
    <3>3. IsFiniteSet(Mine) /\ Cardinality(Mine) \in Nat
      BY IoTypes
    <3>4. /\ IsFiniteSet(Mine \ {r}) /\ Cardinality(Mine \ {r}) = Cardinality(Mine) - 1
      BY <3>1, <3>3, FS_RemoveElement
    <3>5. Cardinality((Mine \ {r}) \cup {g}) = Cardinality(Mine \ {r}) + 1
      BY <3>2, <3>4, FS_AddElement
    <3>6. (\A s \in Mine' : s.n <= old_dbs.io) /\ \A s, t \in Mine' : s.n = t.n => s = t
      BY <1>2, <2>1, <3>1
    <3>7. QED
      BY <3>1, <3>3, <3>4, <3>5, <3>6
  <2>4. QED
    BY <2>2, <2>3
<1>5. \A s \in work' : \E t \in work : s.sq = t.sq
  BY <1>2
<1>6. QED
  BY <1>1, <1>3, <1>4, <1>5 DEF IoGood

(* A request leaves the workers when the host counts it as done.            *)
LEMMA IoComplete ==
    ASSUME TypeOK, IoGood, NEW r \in work, WorkerComplete(r)
    PROVE  IoGood'
<1>1. /\ UNCHANGED <<admin_q, sqes, dbs, old_dbs, d>> /\ work' = work \ {r}
      /\ host'.head = host.head /\ host'.answered = host.answered
      /\ host'.q.queues = host.q.queues /\ host'.q.pending = host.q.pending
      /\ host'.q.sq = host.q.sq /\ host'.q.io = host.q.io
      /\ host'.q.done = IF r.sq = host.q.sq THEN host.q.done + 1 ELSE host.q.done
  BY EffWorkerComplete
<1>2. Executed' <=> Executed
  BY <1>1, PostedSame, ExecutedSame
<1>3. /\ Mine' = Mine \ {r} /\ (r.sq = host.q.sq <=> r \in Mine)
  BY <1>1 DEF Mine
<1>4. IsFiniteSet(Mine) /\ Cardinality(Mine) \in Nat /\ host.q.done \in Nat
  BY IoTypes
<1>5. host'.q.done + Cardinality(Mine') = host.q.done + Cardinality(Mine)
  <2>1. CASE r \in Mine
    <3>1. Cardinality(Mine \ {r}) = Cardinality(Mine) - 1
      BY <1>4, <2>1, FS_RemoveElement
    <3>2. QED
      BY <1>1, <1>3, <1>4, <2>1, <3>1
  <2>2. CASE r \notin Mine
    <3>1. Mine' = Mine
      BY <1>3, <2>2
    <3>2. QED
      BY <1>1, <1>3, <2>2, <3>1
  <2>3. QED
    BY <2>1, <2>2
<1>6. QED
  BY <1>1, <1>2, <1>3, <1>5 DEF IoGood

(* The answer to the pending command changes the host's account of the      *)
(* queue.                                                                   *)
LEMMA IoConsume ==
    ASSUME Rings, IoGood, Fresh, HostConsume
    PROVE  IoGood'
<1> USE DEF Rings
<1>1. /\ UNCHANGED <<d, dbs, old_dbs, sqes, work>>
      /\ host'.answered = host.answered + 1 /\ Answer.cid = host.answered + 1
      /\ host'.q = AfterAnswer(host.q) /\ Posted > 0 /\ Posted' = Posted - 1
  BY ConsumeRings
<1>2. /\ Posted \in 0 .. Depth - 1 /\ host.answered \in Nat /\ Depth \in Nat
      /\ host.q.pending \in Cmds /\ host.q.pending.cid \in Nat /\ host.q \in QueueStates
  BY FreshTypes, IoTypes
<1>3. CASE host.q.pending.cid # host.answered + 1
  <2>1. host'.q = host.q
    BY <1>1, <1>3 DEF AfterAnswer
  <2>2. Executed' <=> Executed
    BY <1>1, <1>2, <2>1 DEF Executed
  <2>3. QED
    BY <1>1, <2>1, <2>2, IoSame
<1>4. CASE host.q.pending.cid = host.answered + 1
  <2>1. Executed
    BY <1>1, <1>2, <1>4 DEF Executed
  <2>2. host.q.pending # NoCmd /\ host.q.pending.kind \notin {"identify", "abort"}
    BY <1>2, <1>4 DEF NoCmd, CountInv
  <2>3. CASE host.q.pending.kind = "create_sq"
    <3>1. host'.q = [queues |-> "both", pending |-> NoCmd, sq |-> host.answered + 1, io |-> 0, done |-> 0]
      BY <1>1, <1>4, <2>3 DEF AfterAnswer
    <3>2. /\ \A r \in work : r.sq # host.answered + 1
          /\ sqes = host.answered + 1 /\ dbs.io = 0 /\ old_dbs.io = 0
      BY <1>4, <2>1, <2>2, <2>3 DEF IoGood
    <3>3. Mine' = {}
      BY <1>1, <3>1, <3>2 DEF Mine
    <3>4. Cardinality(Mine') = 0
      BY <3>3, FS_EmptySet
    <3>5. QED
      BY <1>1, <1>2, <3>1, <3>2, <3>3, <3>4 DEF IoGood, NULL
  <2>4. CASE host.q.pending.kind # "create_sq"
    <3>1. host'.q.queues # "both" /\ host'.q.pending = NoCmd
      <4>1. CASE host.q.pending.kind = "delete_sq"
        BY <1>1, <1>4, <4>1 DEF AfterAnswer
      <4>2. CASE host.q.pending.kind \in {"features", "create_cq", "delete_cq"}
        BY <1>1, <1>2, <1>4, <4>2 DEF AfterAnswer, QueueStates
      <4>3. QED
        BY <1>2, <2>2, <2>4, <4>1, <4>2 DEF Cmds, Kinds
    <3>2. QED
      BY <3>1 DEF IoGood
  <2>5. QED
    BY <2>3, <2>4
<1>5. QED
  BY <1>3, <1>4

(* A command to create or delete the queue is sent.                         *)
LEMMA IoSubmit ==
    ASSUME Rings, IoGood, Fresh, NEW kind \in Kinds, HostSubmit(kind)
    PROVE  IoGood'
<1> USE DEF Rings
<1> DEFINE c == [cid |-> host.sent + 1, kind |-> kind]
<1>1. /\ UNCHANGED <<d, old_dbs, sqes, work>> /\ dbs'.io = dbs.io
      /\ host'.answered = host.answered /\ Posted' = Posted
      /\ \/ kind \in {"identify", "abort"} /\ host'.q.pending = host.q.pending
         \/ /\ kind \notin {"identify", "abort"} /\ host.q.pending = NoCmd
            /\ host'.q.pending = c
  BY SubmitRings
<1>2. /\ host'.q.queues = host.q.queues /\ host'.q.sq = host.q.sq
      /\ host'.q.io = host.q.io /\ host'.q.done = host.q.done /\ kind \in Sendable
  BY EffHostSubmit
<1>3. CASE host'.q.pending = host.q.pending
  <2>1. Executed' <=> Executed
    BY <1>1, <1>3, ExecutedSame
  <2>2. QED
    BY <1>1, <1>2, <1>3, <2>1, IoSame
<1>4. CASE kind \notin {"identify", "abort"} /\ host.q.pending = NoCmd /\ host'.q.pending = c
  <2>1. /\ Posted \in 0 .. Depth - 1 /\ Outstanding \in 0 .. Depth - 1 /\ Posted <= Outstanding
        /\ host.answered \in Nat /\ host.sent \in Nat /\ host.sent = host.answered + Outstanding
        /\ d.new \in Slots /\ host.head \in Slots /\ Depth \in Nat
    BY FreshTypes DEF CountInv
  <2>2. d.pc = "post" => Posted < Outstanding
    <3>1. Dist(host.head, d.new) \in 0 .. Depth - 1
      BY <2>1, DistFacts
    <3>2. QED
      BY <2>1, <3>1 DEF BatchInv
  <2>3. ~Executed'
    BY <1>1, <1>4, <2>1, <2>2 DEF Executed
  <2>4. Mine' = Mine /\ c # NoCmd
    BY <1>1, <1>2, <2>1 DEF Mine, NoCmd
  <2>5. (host.q.queues = "both" => kind = "delete_sq") /\ (kind = "delete_sq" => host.q.queues = "both")
    <3>1. host.q.queues \in {"none", "num", "cq", "both"}
      BY IoTypes DEF QueueStates
    <3>2. QED
      BY <1>2, <1>4, <3>1 DEF Sendable, Kinds
  <2>6. sqes # host.sent + 1 /\ \A r \in work : r.sq # host.sent + 1
    BY <2>1, IoTypes DEF CidInv
  <2>7. QED
    BY <1>1, <1>2, <1>4, <2>3, <2>4, <2>5, <2>6 DEF IoGood
<1>5. QED
  BY <1>1, <1>3, <1>4

(* Every step keeps the account of the I/O queue.                           *)
LEMMA IoStep ==
    ASSUME Rings, IoInv, Next
    PROVE  IoInv'
<1> SUFFICES ASSUME Fresh' PROVE IoGood'
  BY DEF IoInv, IoGood
<1> USE DEF Rings
<1>1. ASSUME HostReady PROVE IoGood'
  <2>1. ReadyFacts
    BY <1>1, FreshStart
  <2>2. host'.q = NoQueues
    BY <1>1, <2>1, ReadyRings
  <2>3. QED
    BY <2>2 DEF IoGood, NoQueues
<1>2. CASE ~HostReady
  <2>1. Fresh /\ IoGood
    BY <1>2, FreshBefore DEF IoInv, IoGood
  <2>2. ASSUME ProcAqa \/ ProcAsq \/ ProcAcq \/ CcStep \/ Skip \/ AdminCrash PROVE IoGood'
    <3>1. /\ UNCHANGED <<admin_q, dbs, old_dbs, host, sqes, work>>
          /\ d.pc \notin Batch /\ d'.pc \notin Batch
      BY <2>1, <2>2, FreshRegisters
    <3>2. Executed' <=> Executed
      BY <3>1, PostedSame, ExecutedSame DEF Batch
    <3>3. QED
      BY <2>1, <3>1, <3>2, IoSame
  <2>3. ASSUME PollAdminSq PROVE IoGood'
    <3>1. UNCHANGED <<admin_q, dbs, old_dbs, host, sqes, work>> /\ d.pc # "post" /\ d'.pc # "post"
      BY <2>3, EffPollAdminSq
    <3>2. Executed' <=> Executed
      BY <3>1, PostedSame, ExecutedSame
    <3>3. QED
      BY <2>1, <3>1, <3>2, IoSame
  <2>4. ASSUME AdminSignal PROVE IoGood'
    <3>1. /\ UNCHANGED <<admin_q, dbs, host, sqes, work>> /\ old_dbs'.io = old_dbs.io
          /\ d.pc # "post" /\ d'.pc # "post"
      BY <2>4, EffAdminSignal
    <3>2. Executed' <=> Executed
      BY <3>1, PostedSame, ExecutedSame
    <3>3. QED
      BY <2>1, <3>1, <3>2, IoSame
  <2>5. ASSUME AdminExec PROVE IoGood'
    BY <2>1, <2>5, IoExec
  <2>6. ASSUME AdminPost PROVE IoGood'
    <3>1. /\ UNCHANGED <<host, dbs, old_dbs, sqes, work>> /\ d.pc = "post" /\ d'.pc # "post"
          /\ Posted' = Posted + 1
      BY <2>1, <2>6, PostRings
    <3>2. Posted \in 0 .. Depth - 1 /\ host.answered \in Nat /\ Depth \in Nat /\ host.q.pending.cid \in Nat
      BY <2>1, FreshTypes, IoTypes
    <3>3. Executed' <=> Executed
      BY <3>1, <3>2 DEF Executed
    <3>4. QED
      BY <2>1, <3>1, <3>3, IoSame
  <2>7. ASSUME PollIoSq PROVE IoGood'
    BY <2>1, <2>7, IoPoll
  <2>8. ASSUME NEW r \in work, WorkerCopy(r) \/ WorkerComplete(r) PROVE IoGood'
    BY <2>1, <2>8, IoCopy, IoComplete
  <2>9. ASSUME HostConsume PROVE IoGood'
    BY <2>1, <2>9, IoConsume
  <2>10. ASSUME HostInterruptEnd PROVE IoGood'
    <3>1. UNCHANGED <<admin_q, d, dbs, old_dbs, host, sqes, work>>
      BY <2>10, EffHostInterruptEnd
    <3>2. Executed' <=> Executed
      BY <3>1, PostedSame, ExecutedSame
    <3>3. QED
      BY <2>1, <3>1, <3>2, IoSame
  <2>11. ASSUME NEW kind \in Kinds, HostSubmit(kind) PROVE IoGood'
    BY <2>1, <2>11, IoSubmit
  <2>12. ASSUME HostIo PROVE IoGood'
    <3>1. /\ UNCHANGED <<sqes, old_dbs, admin_q, d, work>> /\ host.q.queues = "both" /\ host.q.pending = NoCmd
          /\ dbs'.io = host.q.io + 1 /\ host'.head = host.head /\ host'.answered = host.answered
          /\ host'.q.queues = host.q.queues /\ host'.q.pending = host.q.pending
          /\ host'.q.sq = host.q.sq /\ host'.q.io = host.q.io + 1 /\ host'.q.done = host.q.done
      BY <2>12, EffHostIo
    <3>2. Mine' = Mine /\ host.q.io \in Nat /\ dbs.io \in Nat /\ old_dbs.io \in Nat
      BY <3>1, IoTypes DEF Mine
    <3>3. QED
      BY <2>1, <3>1, <3>2 DEF IoGood
  <2>13. ASSUME NEW a \in Addrs, HostStart(a) PROVE FALSE
    BY <2>13, EffHostStart DEF Fresh
  <2>14. ASSUME HostWriteRegister PROVE FALSE
    BY <2>14, EffHostWriteRegister DEF Fresh
  <2>15. ASSUME HostShutdown \/ HostDisable \/ HostDown PROVE FALSE
    BY <2>15, EffHostShutdown, EffHostDisable, EffHostDown DEF Fresh
  <2>16. QED
    BY NextCases, <1>2, <2>2, <2>3, <2>4, <2>5, <2>6, <2>7, <2>8, <2>9, <2>10, <2>11, <2>12, <2>13,
       <2>14, <2>15
<1>3. QED
  BY <1>1, <1>2

-----------------------------------------------------------------------------
(***************************************************************************)
(* The workers' queue.                                                     *)
(***************************************************************************)

(* Nothing is in the workers' hands; all of it belongs to the queue pair    *)
(* that the host uses.                                                      *)
Idle == work = {} /\ dbs.io = old_dbs.io
Serving ==
  /\ host.pc = "run" /\ host.q.queues = "both" /\ host.q.pending = NoCmd
  /\ \A r \in work : r.sq = host.q.sq /\ r.cq = cqes
WorkGood == ~misused /\ (Idle \/ Serving)

(* What the workers hold does not change, nor what it is compared with.     *)
LEMMA WorkSame ==
    ASSUME WorkGood, UNCHANGED <<work, misused>>, dbs'.io = dbs.io, old_dbs'.io = old_dbs.io,
           Idle \/ cqes' = cqes,
           Idle \/ (host'.pc = host.pc /\ host'.q.queues = host.q.queues
                      /\ host'.q.pending = host.q.pending /\ host'.q.sq = host.q.sq)
    PROVE  WorkGood'
<1>1. CASE Idle
  BY <1>1, Zenon DEF WorkGood, Idle
<1>2. CASE ~Idle
  BY <1>2, Zenon DEF WorkGood, Serving
<1>3. QED
  BY <1>1, <1>2

(* The host deletes the queue or resets the controller when all its         *)
(* commands are completed: nothing is left with the workers.                *)
LEMMA DrainedIdle ==
    ASSUME TypeOK, IoGood, Serving, Drained
    PROVE  Idle
<1>1. Mine = work
  BY DEF Serving, Mine
<1>2. /\ dbs.io = host.q.io /\ old_dbs.io <= dbs.io
      /\ old_dbs.io = host.q.done + Cardinality(Mine) /\ host.q.io = host.q.done
  BY DEF IoGood, Serving, Drained
<1>3. /\ dbs.io \in Nat /\ old_dbs.io \in Nat /\ host.q.done \in Nat
      /\ Cardinality(Mine) \in Nat /\ IsFiniteSet(Mine)
  BY IoTypes
<1>4. Cardinality(Mine) = 0 /\ dbs.io = old_dbs.io
  BY <1>2, <1>3
<1>5. Mine = {}
  BY <1>3, <1>4, FS_EmptySet
<1>6. QED
  BY <1>1, <1>4, <1>5 DEF Idle

(* Every step keeps the workers' requests with their queue.                 *)
LEMMA WorkStep ==
    ASSUME Rings, IoInv, WorkInv, Next
    PROVE  WorkInv'
<1> SUFFICES ASSUME trouble' \cap {"forced", "misstarted"} = {} PROVE WorkGood'
  BY DEF WorkInv, WorkGood, Idle, Serving
<1> USE DEF Rings
<1>1. ASSUME NEW a \in Addrs, HostStart(a) PROVE WorkGood'
  <2>1. trouble' = trouble
    BY <1>1, EffHostStart
  <2>2. WorkGood /\ host.pc = "down"
    BY <1>1, <2>1, EffHostStart DEF WorkInv, WorkGood, Idle, Serving
  <2>3. Idle
    BY <2>2 DEF WorkGood, Serving
  <2>4. UNCHANGED <<work, misused, dbs, old_dbs, cqes>>
    BY <1>1, EffHostStart
  <2>5. QED
    BY <2>2, <2>3, <2>4, WorkSame
<1>2. CASE \A a \in Addrs : ~HostStart(a)
  <2>1. trouble \cap {"forced", "misstarted"} = {}
    <3>1. ASSUME AdminPost PROVE trouble \subseteq trouble'
      BY <3>1, EffAdminPost
    <3>2. ASSUME DispatcherStep PROVE trouble \subseteq trouble'
      BY <3>1, <3>2, DispatcherKeeps
    <3>3. ASSUME NEW r \in work, WorkerCopy(r) \/ WorkerComplete(r) PROVE trouble \subseteq trouble'
      BY <3>3, WorkerKeeps
    <3>4. ASSUME HostWriteRegister \/ HostInterruptEnd \/ HostIo \/ HostDown PROVE trouble \subseteq trouble'
      BY <3>4, EffHostWriteRegister, EffHostInterruptEnd, EffHostIo, EffHostDown
    <3>5. ASSUME HostReady PROVE trouble \ AdminTroubles \subseteq trouble'
      BY <3>5, EffHostReady
    <3>6. ASSUME HostConsume PROVE trouble \subseteq trouble'
      BY <3>6 DEF HostConsume
    <3>7. ASSUME NEW kind \in Kinds, HostSubmit(kind) PROVE trouble \subseteq trouble'
      BY <3>7, EffHostSubmit DEF Forced
    <3>8. ASSUME HostShutdown \/ HostDisable PROVE trouble \subseteq trouble'
      BY <3>8, EffHostShutdown, EffHostDisable DEF Forced
    <3>9. trouble \ AdminTroubles \subseteq trouble'
      BY NextGroups, <1>2, <3>2, <3>3, <3>4, <3>5, <3>6, <3>7, <3>8
    <3>10. QED
      BY <3>9 DEF AdminTroubles
  <2>2. WorkGood
    BY <2>1 DEF WorkInv, WorkGood, Idle, Serving
  <2>3. ASSUME host.pc = "run" PROVE Fresh /\ IoGood
    <3>1. trouble \cap {"unqueued", "stale"} = {}
      BY <2>1 DEF CidInv
    <3>2. QED
      BY <2>3, <3>1 DEF Fresh, IoInv, IoGood
  <2>4. ASSUME Serving PROVE Fresh /\ IoGood
    BY <2>3, <2>4 DEF Serving
  <2>5. ASSUME ProcAqa \/ ProcAsq \/ ProcAcq \/ CcStep \/ Skip \/ AdminCrash PROVE WorkGood'
    <3>1. UNCHANGED <<host, cqes, work, misused>> /\ dbs'.io = dbs.io /\ old_dbs'.io = old_dbs.io
      BY <2>5, EffProcAqa, EffProcAsq, EffProcAcq, EffCcStep, EffSkip, EffAdminCrash DEF TypeOK, Bells
    <3>2. QED
      BY <2>2, <3>1, WorkSame
  <2>6. ASSUME PollAdminSq \/ AdminPost \/ AdminSignal PROVE WorkGood'
    <3>1. UNCHANGED <<host, cqes, work, misused>> /\ dbs'.io = dbs.io /\ old_dbs'.io = old_dbs.io
      BY <2>6, EffPollAdminSq, EffAdminPost, EffAdminSignal
    <3>2. QED
      BY <2>2, <3>1, WorkSame
  <2>7. ASSUME AdminExec PROVE WorkGood'
    <3>1. Cmd \in Cmds
      BY <2>7, EntryFacts DEF AdminExec
    <3>2. /\ UNCHANGED <<host, work, misused>>
          /\ Cmd.kind \notin {"create_cq", "delete_cq"} => cqes' = cqes
          /\ dbs'.io = IF Cmd.kind = "create_sq" THEN 0 ELSE dbs.io
          /\ old_dbs'.io = IF Cmd.kind = "create_sq" THEN 0 ELSE old_dbs.io
      BY <2>7, <3>1, EffAdminExec
    <3>3. CASE Idle
      BY <2>2, <3>2, <3>3, Zenon DEF WorkGood, Idle
    <3>4. CASE Serving
      <4>1. /\ Cmd.cid = host.answered + 1 + Posted /\ host.q.pending.cid = 0
            /\ IF Cmd.cid = host.q.pending.cid THEN Cmd = host.q.pending
               ELSE Cmd.kind \in {"identify", "abort"}
        BY <2>4, <2>7, <3>4, ExecCmd DEF Serving, NoCmd
      <4>2. Posted \in 0 .. Depth - 1 /\ host.answered \in Nat /\ Depth \in Nat
        BY <2>4, <3>4, FreshTypes
      <4>3. Cmd.kind \in {"identify", "abort"}
        BY <4>1, <4>2
      <4>4. QED
        BY <2>2, <3>2, <4>3, WorkSame
    <3>5. QED
      BY <2>2, <3>3, <3>4 DEF WorkGood
  <2>8. ASSUME PollIoSq PROVE WorkGood'
    <3>1. /\ UNCHANGED <<host, sqes, cqes, misused, dbs>>
          /\ \/ /\ sqes # NULL /\ old_dbs'.io = dbs.io
                /\ work' = work \cup Handed(sqes, cqes, old_dbs.io, dbs.io)
             \/ UNCHANGED <<old_dbs, work>>
      BY <2>8, EffPollIoSq
    <3>2. CASE UNCHANGED <<old_dbs, work>>
      BY <2>2, <3>1, <3>2, WorkSame
    <3> DEFINE H == Handed(sqes, cqes, old_dbs.io, dbs.io)
    <3>3. CASE sqes # NULL /\ old_dbs'.io = dbs.io /\ work' = work \cup H
      <4>0. dbs.io \in Nat /\ old_dbs.io \in Nat /\ sqes \in Nat /\ cqes \in Nat
        BY IoTypes
      <4>1. \A r \in H : r.sq = sqes /\ r.cq = cqes /\ r.n \in old_dbs.io + 1 .. dbs.io
        BY <4>0, HandedFacts
      <4>2. CASE Idle
        <5>1. dbs.io = old_dbs.io
          BY <4>2 DEF Idle
        <5>2. \A r \in H : FALSE
          BY <4>0, <4>1, <5>1
        <5>3. work' = {} /\ dbs'.io = old_dbs'.io
          BY <3>1, <3>3, <4>2, <5>2 DEF Idle
        <5>4. QED
          BY <2>2, <3>1, <5>3, Zenon DEF WorkGood, Idle
      <4>3. CASE Serving
        <5>1. sqes = host.q.sq
          BY <2>4, <3>3, <4>3 DEF IoGood, Serving
        <5>2. \A r \in work' : r.sq = host.q.sq /\ r.cq = cqes
          BY <3>3, <4>1, <4>3, <5>1 DEF Serving
        <5>3. QED
          BY <2>2, <3>1, <4>3, <5>2, Zenon DEF WorkGood, Serving
      <4>4. QED
        BY <2>2, <4>2, <4>3 DEF WorkGood
    <3>4. QED
      BY <3>1, <3>2, <3>3
  <2>9. ASSUME NEW r \in work, WorkerCopy(r) \/ WorkerComplete(r) PROVE WorkGood'
    <3>1. Serving /\ r.sq = host.q.sq /\ r.cq = cqes
      BY <2>2 DEF WorkGood, Idle, Serving
    <3>2. sqes = host.q.sq
      BY <2>4, <3>1 DEF IoGood, Serving
    <3>3. /\ host'.pc = host.pc /\ host'.q.queues = host.q.queues /\ host'.q.pending = host.q.pending
          /\ host'.q.sq = host.q.sq /\ cqes' = cqes
      BY <2>9, WorkerKeeps
    <3>4. CASE WorkerCopy(r)
      <4>1. PICK g \in Requests : work' = (work \ {r}) \cup {g} /\ g.sq = r.sq /\ g.cq = r.cq
        BY <3>4, EffWorkerCopy
      <4>2. misused' = misused
        BY <3>1, <3>2, <3>4, EffWorkerCopy
      <4>3. \A s \in work' : s.sq = host.q.sq /\ s.cq = cqes
        BY <3>1, <4>1 DEF Serving
      <4>4. QED
        BY <2>2, <3>1, <3>3, <4>2, <4>3, Zenon DEF WorkGood, Serving
    <3>5. CASE WorkerComplete(r)
      <4>1. work' = work \ {r} /\ misused' = misused
        BY <3>1, <3>5, EffWorkerComplete
      <4>2. \A s \in work' : s.sq = host.q.sq /\ s.cq = cqes
        BY <3>1, <4>1 DEF Serving
      <4>3. QED
        BY <2>2, <3>1, <3>3, <4>1, <4>2, Zenon DEF WorkGood, Serving
    <3>6. QED
      BY <2>9, <3>4, <3>5
  <2>10. ASSUME HostWriteRegister \/ HostReady \/ HostDown PROVE WorkGood'
    <3>1. UNCHANGED <<work, misused, dbs, old_dbs, cqes>> /\ host.pc # "run"
      BY <2>10, EffHostWriteRegister, EffHostReady, EffHostDown
    <3>2. Idle
      BY <2>2, <3>1 DEF WorkGood, Serving
    <3>3. QED
      BY <2>2, <3>1, <3>2, WorkSame
  <2>11. ASSUME HostConsume PROVE WorkGood'
    <3>1. Fresh
      BY <2>3, <2>11 DEF HostConsume, AnswerIsNew
    <3>2. /\ UNCHANGED <<work, misused, dbs, old_dbs, cqes>> /\ host'.pc = host.pc
          /\ Answer.cid = host.answered + 1 /\ host'.q = AfterAnswer(host.q)
      BY <2>11, <3>1, ConsumeRings
    <3>3. CASE Idle
      BY <2>2, <3>2, <3>3, WorkSame
    <3>4. CASE Serving
      <4>1. host.q.pending.cid = 0 /\ host.answered \in Nat
        BY <3>4, IoTypes DEF Serving, NoCmd
      <4>2. host'.q = host.q
        BY <3>2, <4>1 DEF AfterAnswer
      <4>3. QED
        BY <2>2, <3>2, <4>2, WorkSame
    <3>5. QED
      BY <2>2, <3>3, <3>4 DEF WorkGood
  <2>12. ASSUME HostInterruptEnd PROVE WorkGood'
    <3>1. UNCHANGED <<work, misused, dbs, old_dbs, cqes, host>>
      BY <2>12, EffHostInterruptEnd
    <3>2. QED
      BY <2>2, <3>1, WorkSame
  <2>13. ASSUME NEW kind \in Kinds, HostSubmit(kind) PROVE WorkGood'
    <3>1. /\ UNCHANGED <<work, misused, old_dbs, cqes>> /\ dbs'.io = dbs.io
          /\ host'.pc = host.pc /\ host'.q.queues = host.q.queues /\ host'.q.sq = host.q.sq
          /\ kind \in {"identify", "abort"} => host'.q.pending = host.q.pending
          /\ trouble' = IF kind = "delete_sq" THEN Forced ELSE trouble
          /\ kind \in Sendable
      BY <2>13, EffHostSubmit
    <3>2. CASE Idle
      BY <2>2, <3>1, <3>2, WorkSame
    <3>3. CASE Serving
      <4>1. CASE kind \in {"identify", "abort"}
        BY <2>2, <3>1, <4>1, WorkSame
      <4>2. CASE kind \notin {"identify", "abort"}
        <5>1. kind = "delete_sq"
          BY <3>1, <3>3, <4>2 DEF Sendable, Serving
        <5>2. Drained
          BY <3>1, <5>1 DEF Forced
        <5>3. Idle
          BY <2>4, <3>3, <5>2, DrainedIdle
        <5>4. QED
          BY <2>2, <3>1, <5>3, WorkSame
      <4>3. QED
        BY <4>1, <4>2
    <3>4. QED
      BY <2>2, <3>2, <3>3 DEF WorkGood
  <2>14. ASSUME HostIo PROVE WorkGood'
    <3>1. /\ UNCHANGED <<work, misused, cqes>> /\ host.pc = "run"
          /\ host.q.queues = "both" /\ host.q.pending = NoCmd
          /\ host'.pc = host.pc /\ host'.q.queues = host.q.queues
          /\ host'.q.pending = host.q.pending /\ host'.q.sq = host.q.sq
      BY <2>14, EffHostIo
    <3>2. Serving
      BY <2>2, <3>1 DEF WorkGood, Idle, Serving
    <3>3. QED
      BY <2>2, <3>1, <3>2, Zenon DEF WorkGood, Serving
  <2>15. ASSUME HostShutdown \/ HostDisable PROVE WorkGood'
    <3>1. UNCHANGED <<work, misused, dbs, old_dbs, cqes>> /\ trouble' = Forced
      BY <2>15, EffHostShutdown, EffHostDisable
    <3>2. Drained
      BY <3>1 DEF Forced
    <3>3. Idle
      BY <2>2, <2>4, <3>2, DrainedIdle DEF WorkGood
    <3>4. QED
      BY <2>2, <3>1, <3>3, WorkSame
  <2>16. QED
    BY NextCases, <1>2, <2>5, <2>6, <2>7, <2>8, <2>9, <2>10, <2>11, <2>12, <2>13, <2>14, <2>15
<1>3. QED
  BY <1>1, <1>2

-----------------------------------------------------------------------------
(***************************************************************************)
(* The theorems.                                                           *)
(***************************************************************************)

(* The invariant holds at first.                                            *)
LEMMA InitIInv ==
    ASSUME Init
    PROVE  IInv
<1>0. 0 \in Slots /\ Depth \in Nat /\ MaxLives \in Nat /\ Depth >= 2
  BY Constants
<1>1. TypeOK
  <2>1. NoCmd \in Cmds /\ NoAnswer \in Answers
    BY DEF NoCmd, NoAnswer, Cmds, Answers, Kinds
  <2>2. sq_mem \in [Addrs -> [Slots -> Cmds]] /\ cq_mem \in [Addrs -> [Slots -> Answers]]
    BY <2>1 DEF Init, EmptySq, EmptyCq
  <2>3. host \in HostStates
    BY <1>0, <2>1 DEF Init, HostStates, HostPcs, NoQueues, QueueStates, NULL
  <2>4. /\ bar \in Regs /\ old_bar \in Regs /\ csts \in [rdy : {0, 1}, shst : Nat]
        /\ dbs \in Bells /\ old_dbs \in Bells /\ admin_q \in AdminQueues /\ d \in DispatcherStates
    BY <1>0 DEF Init, NoRegs, Regs, Bells, AdminQueues, DispatcherStates, DispatcherPcs, NULL
  <2>5. work = {} /\ IsFiniteSet(work)
    BY FS_EmptySet DEF Init
  <2>6. /\ sqes \in Nat /\ cqes \in Nat /\ nr_sq \in {0, 1} /\ irq \in BOOLEAN
        /\ trouble = {} /\ misused \in BOOLEAN
    BY DEF Init, NULL
  <2>7. QED
    BY <2>2, <2>3, <2>4, <2>5, <2>6 DEF TypeOK
<1>2. HostInv
  BY <1>0 DEF Init, HostInv, NoRegs, NULL
<1>3. host.pc = "down" /\ host.pc \notin StartPcs /\ ~Fresh
  BY DEF Init, StartPcs, Fresh
<1>4. StartInv /\ PhaseInv /\ PlaceInv /\ CountInv /\ BatchInv /\ SqInv /\ CqInv /\ IoInv
  BY <1>3 DEF StartInv, PhaseInv, PlaceInv, CountInv, BatchInv, SqInv, CqInv, IoInv
<1>5. RegInv
  BY DEF Init, RegInv, NoRegs, NULL
<1>6. DbsInv
  BY DEF Init, DbsInv, Batch
<1>7. CidInv
  <2>1. \A a \in Addrs, s \in Slots : sq_mem[a][s].cid = 0
    BY DEF Init, EmptySq, NoCmd
  <2>2. /\ sqes = 0 /\ work = {} /\ host.sent = 0 /\ host.q.sq = 0 /\ host.q.pending.cid = 0
        /\ trouble = {}
    BY DEF Init, NoQueues, NoCmd, NULL
  <2>3. QED
    BY <2>1, <2>2 DEF CidInv
<1>8. WorkInv
  <2>1. work = {} /\ dbs.io = old_dbs.io /\ misused = FALSE
    BY DEF Init
  <2>2. QED
    BY <2>1 DEF WorkInv
<1>9. QED
  BY <1>1, <1>2, <1>4, <1>5, <1>6, <1>7, <1>8 DEF IInv

(* The invariant is about the variables only.                               *)
LEMMA StutterIInv ==
    ASSUME IInv, UNCHANGED vars
    PROVE  IInv'
<1> USE DEF IInv
<1>0. UNCHANGED <<bar, csts, dbs, sq_mem, cq_mem, old_bar, old_dbs, admin_q, sqes, cqes,
                  nr_sq, d, work, irq, host, trouble, misused>>
  BY DEF vars
<1>1. TypeOK'
  BY <1>0 DEF TypeOK
<1>2. HostInv' /\ StartInv' /\ RegInv'
  BY <1>0 DEF HostInv, StartInv, RegInv
<1>3. DbsInv' /\ PhaseInv' /\ CidInv'
  BY <1>0 DEF DbsInv, Resting, PhaseInv, CidInv
<1>4. (Fresh' <=> Fresh) /\ Posted' = Posted /\ Outstanding' = Outstanding /\ Mine' = Mine
      /\ (Executed' <=> Executed) /\ PhaseOf(Posted)' = PhaseOf(Posted)
      /\ \A i \in 0 .. Depth - 1 : PhaseOf(i)' = PhaseOf(i)
  BY <1>0 DEF Fresh, Posted, Dist, Outstanding, Mine, Executed, PhaseOf
<1>5. PlaceInv' /\ CountInv'
  BY <1>0, <1>4 DEF PlaceInv, CountInv
<1>6. BatchInv' /\ SqInv'
  BY <1>0, <1>4 DEF BatchInv, SqInv
<1>7. CqInv'
  BY <1>0, <1>4 DEF CqInv
<1>8. IoInv' /\ WorkInv'
  BY <1>0, <1>4 DEF IoInv, WorkInv
<1>9. QED
  BY <1>1, <1>2, <1>3, <1>5, <1>6, <1>7, <1>8

(* Every step keeps the invariant.                                          *)
LEMMA NextIInv ==
    ASSUME IInv, Next
    PROVE  IInv'
<1>1. Rings /\ IoInv /\ WorkInv
  BY DEF IInv, Rings
<1>2. TypeOK' /\ HostInv' /\ StartInv' /\ RegInv'
  BY <1>1, TypeStep, HostStep, StartStep, RegStep DEF Rings
<1>3. DbsInv' /\ PhaseInv' /\ CidInv' /\ PlaceInv'
  BY <1>1, DbsStep, PhaseStep, CidStep, PlaceStep DEF Rings
<1>4. CountInv' /\ BatchInv' /\ SqInv' /\ CqInv'
  BY <1>1, CountStep, BatchStep, SqStep, CqStep
<1>5. IoInv' /\ WorkInv'
  BY <1>1, IoStep, WorkStep
<1>6. QED
  BY <1>2, <1>3, <1>4, <1>5 DEF IInv

(* The invariant holds in every state the dispatcher, the workers and the   *)
(* host driver can reach, however their steps are interleaved.              *)
THEOREM Invariance == Spec => []IInv
<1>1. Init => IInv
  BY InitIInv
<1>2. IInv /\ [Next]_vars => IInv'
  BY NextIInv, StutterIInv
<1>3. QED
  BY <1>1, <1>2, PTL DEF Spec

(* Registers, doorbells, queues, requests and the host's account of them    *)
(* keep their types: ring positions stay inside the rings.                  *)
THEOREM TypeCorrect == Spec => []TypeOK
<1>1. IInv => TypeOK
  BY DEF IInv
<1>2. QED
  BY <1>1, Invariance, PTL

(* Every completion entry that the host takes for new answers the oldest    *)
(* command it has outstanding, in a life that found its queues taken over   *)
(* and fresh and whose commands all get completion entries.                 *)
THEOREM AnswersInOrder == Spec => []AdminAnswersInOrder
<1>1. IInv => AdminAnswersInOrder
  <2> SUFFICES ASSUME IInv, AdminTrouble = {}, AnswerIsNew
               PROVE  Answer.cid = host.answered + 1 /\ Answer.cid <= host.sent
    BY DEF AdminAnswersInOrder
  <2>1. Fresh /\ "unanswered" \notin trouble /\ Answer.phase = host.phase
    BY DEF AdminTrouble, AdminTroubles, AnswerIsNew, Fresh
  <2>2. /\ Posted \in 0 .. Depth - 1 /\ Outstanding \in 0 .. Depth - 1 /\ Depth \in Nat /\ Depth >= 2
        /\ host.head \in Nat /\ host.head < Depth /\ host.phase \in {0, 1}
        /\ host.answered \in Nat /\ host.sent = host.answered + Outstanding /\ Posted <= Outstanding
    BY <2>1, FreshTypes DEF IInv, CountInv
  <2>3. 0 \in 0 .. Depth - 1 /\ SlotOf(host.head, 0) = host.head /\ PhaseOf(0) = host.phase
    BY <2>2 DEF SlotOf, PhaseOf
  <2>4. IF 0 < Posted
        THEN \/ Answer = [cid |-> host.answered + 1 + 0, phase |-> PhaseOf(0)]
             \/ "unanswered" \in trouble /\ Answer.phase = 1 - PhaseOf(0)
        ELSE Answer.phase = 1 - PhaseOf(0)
    BY <2>1, <2>3 DEF IInv, CqInv, Answer
  <2>5. 0 < Posted /\ Answer.cid = host.answered + 1
    BY <2>1, <2>2, <2>3, <2>4
  <2>6. QED
    BY <2>2, <2>5
<1>2. QED
  BY <1>1, Invariance, PTL

(* Every command rung on the I/O queue since its creation is still to be    *)
(* fetched, with a worker, or completed: the shadow doorbell is the number  *)
(* of completions plus the requests in the workers' hands.                  *)
THEOREM CommandsConserved == Spec => []IoCommandsConserved
<1>1. IInv => IoCommandsConserved
  <2> SUFFICES ASSUME IInv, host.pc = "run", host.q.queues = "both", AdminTrouble = {}
               PROVE  /\ dbs.io = host.q.io
                      /\ old_dbs.io = host.q.done + Cardinality({r \in work : r.sq = host.q.sq})
    BY DEF IoCommandsConserved
  <2>1. Fresh
    BY DEF AdminTrouble, AdminTroubles, Fresh
  <2>2. QED
    BY <2>1 DEF IInv, IoInv, Mine
<1>2. QED
  BY <1>1, Invariance, PTL

(* A worker finds the queues its request came from, as long as the host     *)
(* deletes, shuts down and resets only what has no commands outstanding and *)
(* every start found the admin queues taken over and fresh.                 *)
THEOREM QueuesStayInPlace == Spec => []WorkerUsesItsQueue
<1>1. IInv => WorkerUsesItsQueue
  BY DEF IInv, WorkInv, WorkerUsesItsQueue
<1>2. QED
  BY <1>1, Invariance, PTL
=============================================================================
