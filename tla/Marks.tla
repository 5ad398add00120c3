-------------------------------- MODULE Marks --------------------------------
(* Values that no value of a model equals: what is not there, no idempotency
   key, an absent field, a value no schema accepts, text that does not parse. *)
CONSTANTS Missing, NoKey, Absent, Bad, Broken
===============================================================================
