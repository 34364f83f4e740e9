---------------------------- MODULE MCEventWatch ----------------------------
EXTENDS EventWatch

WatchesValue ==
  {[id |-> "w1", kind |-> "adc_threshold", name |-> "n1", chan |-> 1, thr |-> 1],
   [id |-> "w1", kind |-> "adc_threshold", name |-> "n1", chan |-> 0, thr |-> 1],
   [id |-> "w2", kind |-> "uart", name |-> "n2", chan |-> 0, thr |-> 0]}
=============================================================================
