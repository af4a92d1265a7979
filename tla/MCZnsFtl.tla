------------------------------ MODULE MCZnsFtl ------------------------------
(* ZnsFtl for TLC: the geometry is in the .cfg file.                        *)
EXTENDS ZnsFtl

Writebacks(b) == pending[b].full + pending[b].tail

(* No zone has or has had a random write area that left a trace.            *)
NoZrwa ==
  /\ acquired["ZRWA_ZONE"] = 0
  /\ \A b \in ZwraBuffers : remaining[b] = BufferSize(b) /\ Writebacks(b) = 0

(* Without random write areas everything is explored.  With them, a state   *)
(* is checked but not left if some of the write buffer is taken, or more    *)
(* than one writeback is pending.                                           *)
Explored ==
  \/ NoZrwa
  \/ /\ remaining[<<"wb", nr_zones>>] >= global_wb_size
     /\ Cardinality({b \in Buffers : Writebacks(b) > 0}) <= 1
     /\ \A b \in Buffers : Writebacks(b) <= 1
=============================================================================
