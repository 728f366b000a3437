--------------------------- MODULE MCTelegramOutbox ---------------------------
(* Small instances of TelegramOutbox for TLC. *)
EXTENDS TelegramOutbox, TLC

Interchangeable == Permutations(Instances) \cup Permutations(Chats)
===============================================================================
