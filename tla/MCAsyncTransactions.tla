------------------------- MODULE MCAsyncTransactions -------------------------
(* Interchangeable nested transactions, writes and callbacks for TLC. *)
EXTENDS AsyncTransactions, TLC

Interchangeable == Permutations(Nested) \cup Permutations(Writes) \cup Permutations(Callbacks)
===============================================================================
