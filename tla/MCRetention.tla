----------------------------- MODULE MCRetention -----------------------------
(* Retention for the model checker: all three limits over three files of two *)
(* sizes, and a byte limit against the video spool and failures.             *)
EXTENDS Retention

AllLimits == [max_age |-> 1, max_bytes |-> 3, min_free |-> 3, keep_latest |-> TRUE,
              sizes |-> {1, 2}, files |-> 3, private |-> 0, time |-> 2, faults |-> 0]
ByteLimit == [max_age |-> None, max_bytes |-> 1, min_free |-> None, keep_latest |-> TRUE,
              sizes |-> {1}, files |-> 2, private |-> 1, time |-> 1, faults |-> 2]
MCPolicies == {AllLimits, ByteLimit}
=============================================================================
