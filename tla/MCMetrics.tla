----------------------------- MODULE MCMetrics -----------------------------
(* MetricsAccumulator for TLC: a gateway that is scraped, and a worker.    *)
EXTENDS MetricsAccumulator

CONSTANTS gateway, worker
=============================================================================
