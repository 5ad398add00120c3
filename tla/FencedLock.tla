------------------------------ MODULE FencedLock ------------------------------
(***************************************************************************)
(* What @mirk/store/coordination promises about one key, with nothing of   *)
(* how it is done: a lock that is granted to one call at a time, under a   *)
(* fence number no earlier grant had, and that may pass to a new call      *)
(* without the old one's help only once the old grant has lapsed.          *)
(***************************************************************************)
EXTENDS Naturals

CONSTANTS Calls, Nobody  \* Nobody is no call

VARIABLES
  holder,   \* the call the lock was last granted to and not taken back from
  lapsed,   \* TRUE once the current grant has run out of time
  fence,    \* the fence number of the newest grant
  granted   \* the calls that ever held the lock: a call is granted it once

vars == <<holder, lapsed, fence, granted>>

Init == /\ holder = Nobody
        /\ lapsed = FALSE
        /\ fence = 0
        /\ granted = {}

Grant(c) == /\ holder = Nobody \/ lapsed
            /\ c \notin granted
            /\ holder' = c
            /\ lapsed' = FALSE
            /\ fence' = fence + 1
            /\ granted' = granted \cup {c}

Lapse == /\ holder # Nobody
         /\ lapsed' = TRUE
         /\ UNCHANGED <<holder, fence, granted>>

(* Only a grant that still stands can be given back. *)
GiveBack == /\ holder # Nobody
            /\ ~lapsed
            /\ holder' = Nobody
            /\ UNCHANGED <<lapsed, fence, granted>>

Next == (\E c \in Calls : Grant(c)) \/ Lapse \/ GiveBack

Spec == Init /\ [][Next]_vars
===============================================================================
