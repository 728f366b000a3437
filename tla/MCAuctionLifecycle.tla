-------------------------- MODULE MCAuctionLifecycle --------------------------
(* Small instances of AuctionLifecycle for TLC. *)
EXTENDS AuctionLifecycle, TLC

Interchangeable == Permutations(Loops) \cup Permutations(Finalizers)
                   \cup Permutations(Lots)
===============================================================================
