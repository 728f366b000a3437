------------------------ MODULE MCWorkerSupervision ------------------------
EXTENDS WorkerSupervision

CONSTANTS outbox, watchdog, privacy   \* three workers, one of each kind

TwoFailures == [w \in Workers |-> 2]
=============================================================================
