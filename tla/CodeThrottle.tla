---------------------------- MODULE CodeThrottle ----------------------------
(***************************************************************************)
(* What the lock on entering invitation codes promises for one phone       *)
(* number, without the rows it is kept in (guardCode in                    *)
(* staff-signup.service.ts, JOIN-7).                                       *)
(*                                                                         *)
(* Failures count from the last new start: a send to the number, or a      *)
(* right code.  MaxFailed of them lock the number for LockTime.  A send    *)
(* that never went out is withdrawn: if it was the last start, the count   *)
(* (and the lock) from before it is in force again, and what was counted   *)
(* since is forgotten; a later start stays in force.                       *)
(***************************************************************************)
EXTENDS Integers

CONSTANTS MaxFailed, LockTime

VARIABLES
  counts,   \* start -> [failed, until] as counted since that start
  unlocks,  \* the starts made by sends
  clock

throttleVars == <<counts, unlocks, clock>>

Clear == [failed |-> 0, until |-> 0]
Newest ==
  LET starts == DOMAIN counts IN CHOOSE start \in starts : \A other \in starts : other <= start
Shut(count) == count.until > clock
OneMore(count) ==
  LET failed == (IF count.until = 0 THEN count.failed ELSE 0) + 1
  IN  [failed |-> failed, until |-> IF failed >= MaxFailed THEN clock + LockTime ELSE 0]

StartAnew(start) ==
  LET before == counts
      starts == DOMAIN before
  IN  /\ \A other \in starts : other < start
      /\ counts' = [i \in starts \union {start} |-> IF i = start THEN Clear ELSE before[i]]
      /\ UNCHANGED clock

\* A send to the number starts anew, locked or not.
Unlock(start) == StartAnew(start) /\ unlocks' = unlocks \union {start}

\* A right code starts anew, unless the number is locked.
RightCode(start) ==
  /\ ~Shut(counts[Newest])
  /\ StartAnew(start)
  /\ UNCHANGED unlocks

WrongCode ==
  /\ UNCHANGED <<unlocks, clock>>
  /\ ~Shut(counts[Newest])
  /\ counts' = [counts EXCEPT ![Newest] = OneMore(@)]

WithdrawStart(start) ==
  /\ start \in unlocks \intersect DOMAIN counts
  /\ LET before == counts IN counts' = [i \in DOMAIN before \ {start} |-> before[i]]
  /\ UNCHANGED <<unlocks, clock>>

ThrottleTick == clock' = clock + 1 /\ UNCHANGED <<counts, unlocks>>

ThrottleInit == counts = [i \in {0} |-> Clear] /\ unlocks = {} /\ clock = 0

ThrottleNext ==
  \/ \E start \in DOMAIN counts' \ DOMAIN counts : Unlock(start) \/ RightCode(start)
  \/ WrongCode
  \/ \E start \in DOMAIN counts \ DOMAIN counts' : WithdrawStart(start)
  \/ ThrottleTick

ThrottleSpec == ThrottleInit /\ [][ThrottleNext]_throttleVars
=============================================================================
