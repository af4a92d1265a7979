---------------------------- MODULE MCQueuePair ----------------------------
(* QueuePair for TLC, with a host that takes the smallest free command id:  *)
(* the ids of a queue are interchangeable to the device.                    *)
EXTENDS QueuePair

SmallestIdNext ==
  \/ \E q \in Sqs, tag \in Tags : 1 .. tag - 1 \subseteq host.busy[q] /\ HostSubmit(q, tag)
  \/ HostPoll \/ Host
  \/ Dispatcher
  \/ \E i \in Workers : Worker(i)

SmallestIdSpec == Init /\ [][SmallestIdNext]_vars /\ Fairness
=============================================================================
