-------------------------- MODULE MCDiagnosticPublish --------------------------
EXTENDS DiagnosticPublish
CONSTANTS t1, t2, t3, t4, t5
MCTrail == {t1, t2, t3, t4, t5}
===============================================================================
