-------------------------- MODULE MCPublishWorker --------------------------
(* Bounds and views of PublishWorker for TLC. *)
EXTENDS PublishWorker

CONSTANTS j1, w1, w2, t1, t2, t3, t4, t5, t6

MCJobs == {j1}
MCWorkers == {w1, w2}
MCTokens == {t1, t2, t3, t4, t5, t6}

\* Every point but the one between a claim and the read of the claimed row.
PausesUnderLease == {"loaded", "calling", "answered"}
PausesAnywhere == Busy
NoPauses == {}
LiveOnly == {"LIVE"}
AllModes == {"LIVE", "DRAFT", "DEMO"}
=============================================================================
