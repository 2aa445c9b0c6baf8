----------------------------- MODULE MCSensorSsm -----------------------------
(* Small instances of SensorSsm: a reader that reports its geometry and one  *)
(* that leaves it to the driver's fallback.                                  *)
EXTENDS SensorSsm

MCInfoReplies == {<<0, 0>>, <<96, 112>>}
==============================================================================
