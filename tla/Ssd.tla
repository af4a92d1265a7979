-------------------------------- MODULE Ssd --------------------------------
(***************************************************************************)
(* The timing of NAND commands (ssd_advance_nand in ssd.c): dies (LUNs)    *)
(* that share one channel.  A command is computed, not executed: the       *)
(* dispatcher finds out when it would end and writes that time into        *)
(* next_lun_avail_time, often long before.  Transfers over the channel are *)
(* calls of the channel model, whose ring of credits is ChannelModel.      *)
(*                                                                         *)
(* The PCIe link only adds to a read's completion, which nothing here      *)
(* depends on; it is left out, and so are the cell types, which only       *)
(* choose the latencies: any of a set.                                     *)
(***************************************************************************)
EXTENDS ChannelModel, Sequences, FiniteSets

CONSTANTS
  Luns,
  NandLatencies,      \* latencies of reads, programs and erases
  max_ch_xfer_size,   \* units of the longest transfer of a read
  MaxAvail,           \* bound: a die is given no command once it is busy for longer
  MaxOps              \* bound: reads, programs and erases

ASSUME SsdAssumption ==
  /\ IsFiniteSet(Luns)
  /\ NandLatencies \subseteq Nat /\ max_ch_xfer_size \in Nat \ {0}
  /\ MaxAvail \in Nat /\ MaxOps \in Nat

VARIABLES
  next_lun_avail_time,  \* per LUN
  io_clock,             \* the last time read from the clock
  op,                   \* the NAND command in progress
  media                 \* history: what each LUN did, from when to when

ssdVars == <<next_lun_avail_time, io_clock, op, media>>

Latest(a, b) == IF a >= b THEN a ELSE b

NoOp == [pc |-> "none"]

SsdInit ==
  /\ Init
  /\ next_lun_avail_time = [l \in Luns |-> 0]
  /\ io_clock = 0
  /\ op = NoOp
  /\ media = <<>>

(* Faulty variant: the die starts when the command does.                    *)
AtOnce(l, stime) == stime

(* A command starts when it has been issued and its die is free.            *)
WhenFree(l, stime) == Latest(next_lun_avail_time[l], stime)

(* The die is busy until then.                                              *)
BusyUntil(l, cmd, from, to) ==
  /\ next_lun_avail_time' = [next_lun_avail_time EXCEPT ![l] = to]
  /\ media' = IF cmd = "NAND_NOP" THEN media
              ELSE Append(media, [lun |-> l, from |-> from, to |-> to])
  /\ op' = NoOp

(* ssd_advance_nand up to the first use of the channel; stime 0 is now.     *)
(* A read senses first and transfers then, a program is transferred first;  *)
(* an erase and a NOP need no channel.                                      *)
ssd_advance_nand(cmd, l, stime, now, units, lat) ==
  LET start == WhenFree(l, IF stime = 0 THEN now ELSE stime)
  IN  /\ op.pc = "none" /\ now >= io_clock
      /\ next_lun_avail_time[l] <= MaxAvail /\ Len(media) < MaxOps
      /\ io_clock' = now
      /\ CASE cmd = "NAND_READ" ->
                /\ op' = [pc |-> "channel", cmd |-> cmd, lun |-> l, from |-> start, lat |-> 0,
                          chnl_stime |-> start + lat, remaining |-> units]
                /\ UNCHANGED <<next_lun_avail_time, media>>
           [] cmd = "NAND_WRITE" ->
                /\ op' = [pc |-> "channel", cmd |-> cmd, lun |-> l, from |-> start, lat |-> lat,
                          chnl_stime |-> start, remaining |-> units]
                /\ UNCHANGED <<next_lun_avail_time, media>>
           [] cmd = "NAND_ERASE" -> BusyUntil(l, cmd, start, start + lat)
           [] cmd = "NAND_NOP" -> BusyUntil(l, cmd, start, start)
      /\ UNCHANGED <<chVars, call, answer, used>>

(* The next transfer: of a read at most max_ch_xfer_size, of a program all. *)
XferSize == IF op.cmd = "NAND_READ" THEN Least(op.remaining, max_ch_xfer_size) ELSE op.remaining

(* chmodel_request reads the clock itself.                                  *)
RequestChannel(now) ==
  /\ op.pc = "channel" /\ now >= io_clock
  /\ chmodel_request(now, op.chnl_stime, XferSize)
  /\ io_clock' = now
  /\ op' = [op EXCEPT !.pc = "answer", !.remaining = @ - XferSize]
  /\ UNCHANGED <<next_lun_avail_time, media>>

ServeChannel == TakeCredits /\ UNCHANGED ssdVars

(* chnl_etime is there: the next transfer of a read, or the end; a program  *)
(* starts now.                                                              *)
ChannelAnswered ==
  /\ op.pc = "answer" /\ call.pc = "none"
  /\ IF op.remaining > 0
     THEN /\ op' = [op EXCEPT !.pc = "channel", !.chnl_stime = answer]
          /\ UNCHANGED <<next_lun_avail_time, media>>
     ELSE BusyUntil(op.lun, op.cmd, op.from, answer + op.lat)
  /\ UNCHANGED <<chVars, call, answer, used, io_clock>>

(* Nothing is transferred for erases and NOPs.                              *)
NandCommands ==
  ({"NAND_READ", "NAND_WRITE"} \X (1 .. MaxUnits) \X NandLatencies)
  \cup ({"NAND_ERASE"} \X {0} \X NandLatencies) \cup {<<"NAND_NOP", 0, 0>>}

SsdNext ==
  \/ \E c \in NandCommands, l \in Luns, stime \in Times, now \in Times :
        ssd_advance_nand(c[1], l, stime, now, c[2], c[3])
  \/ \E now \in Times : RequestChannel(now)
  \/ ServeChannel
  \/ ChannelAnswered

SsdSpec == SsdInit /\ [][SsdNext]_<<vars, ssdVars>>

-----------------------------------------------------------------------------
(* Faulty variant: only the LUN looked at last counts.                      *)
ssd_next_idle_time_last ==
  LET l == CHOOSE l \in Luns : TRUE IN Latest(io_clock, next_lun_avail_time[l])

(* ssd_next_idle_time: what conv_flush and zns_flush answer.                *)
ssd_next_idle_time ==
  LET times == {io_clock} \cup {next_lun_avail_time[l] : l \in Luns}
  IN  CHOOSE t \in times : \A s \in times : s <= t

(* In whatever order the start times of the commands come, and however the  *)
(* transfers compete for the channel, a die does one thing after the other. *)
LunsServeInTurn ==
  \A i, j \in DOMAIN media :
     i < j /\ media[i].lun = media[j].lun => media[i].to <= media[j].from

(* A flush is answered only when every read, program and erase asked for    *)
(* before it is over: one next_lun_avail_time stands for all of them.       *)
FlushCoversMedia ==
  \A i \in DOMAIN media : media[i].from <= media[i].to /\ media[i].to <= ssd_next_idle_time
=============================================================================
