-------------------------- MODULE MCOrderQueueHeap --------------------------
(* TLC instances of OrderQueueHeap. *)
EXTENDS MCOrderQueue, OrderQueueHeap

\* An entry's orders, the SL a reconnect finds missing and a watcher's SL move.
HeapCallers == {InitialSl(p1, tA), EmergencySl(p1, tA), PlaceTp(p1, tB),
                WatcherSl(p1, tA)}

OnlyMultiTp == {MultiTpSl(p1, tA), MultiTpSl(p1, tB)}
=============================================================================
