--------------------------- MODULE MCTaskEvidence ---------------------------
\* Two tasks, one per adapter, whose executors share a receipt path.
EXTENDS TaskEvidence, TLC

CONSTANTS t1, t2

MCHostContract == (t1 :> "qwen") @@ (t2 :> "kimi")
MCMaxRetries == (t1 :> 2) @@ (t2 :> 1)
=============================================================================
