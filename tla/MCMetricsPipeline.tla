------------------------- MODULE MCMetricsPipeline -------------------------
(* One recorder; the task's Apdex threshold differs from the earlier one's. *)
EXTENDS MetricsPipeline

CONSTANT r1

MCRecorders == {r1}
=============================================================================
