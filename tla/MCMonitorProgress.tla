------------------------- MODULE MCMonitorProgress -------------------------
EXTENDS MonitorProgress, TLC
CONSTANTS t1, t2, t3
ThreeThreads == {t1, t2, t3}
MCMaxCalls == t1 :> 4 @@ t2 :> 2 @@ t3 :> 1
=============================================================================
