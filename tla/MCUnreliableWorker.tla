------------------------ MODULE MCUnreliableWorker ------------------------
(* UnreliableWorker with one small and one large graph and two efforts.    *)
EXTENDS UnreliableWorker

OneDataset == {1}
=============================================================================
