--------------------------- MODULE ContractStatus ---------------------------
(***************************************************************************)
(* The life of an employment contract: its statuses, the table of allowed  *)
(* transitions and how a send maps to a status (contract-status.ts, and    *)
(* the pure functions of contract-delivery.service.ts).  No state here:    *)
(* every module about contracts extends this one.                          *)
(***************************************************************************)

Statuses ==
  {"DRAFT", "PENDING_SEND", "PENDING_SIGNATURE", "CORRECTION_REQUESTED",
   "SIGNED", "REJECTED", "EXPIRED", "ENDED"}

\* Not yet concluded: at most one of these per person and store.
InProgress ==
  {"DRAFT", "PENDING_SEND", "PENDING_SIGNATURE", "CORRECTION_REQUESTED"}

Transitions ==
  [DRAFT                |-> {"PENDING_SEND", "PENDING_SIGNATURE", "SIGNED", "ENDED"},
   PENDING_SEND         |-> {"PENDING_SIGNATURE", "REJECTED", "ENDED"},
   PENDING_SIGNATURE    |-> {"SIGNED", "REJECTED", "CORRECTION_REQUESTED",
                             "PENDING_SEND", "EXPIRED", "ENDED"},
   CORRECTION_REQUESTED |-> {"PENDING_SIGNATURE", "PENDING_SEND", "ENDED"},
   SIGNED               |-> {"ENDED"},
   REJECTED             |-> {"PENDING_SIGNATURE", "PENDING_SEND"},
   EXPIRED              |-> {"PENDING_SIGNATURE", "PENDING_SEND"},
   ENDED                |-> {}]

CanTransition(from, to) == to \in Transitions[from]

ResendableStatuses == {"PENDING_SEND", "PENDING_SIGNATURE", "REJECTED", "EXPIRED"}

\* Ended, and alive again when sent once more.
ReopenedStatuses == {"REJECTED", "EXPIRED"}

\* An administrator may correct the worker's data and so send again.
WorkerEditable == {"PENDING_SEND", "PENDING_SIGNATURE", "CORRECTION_REQUESTED"}

\* draftAction: what the phone number was judged to need.  RETURN_CONFIRM is
\* sent, answered and undone exactly as AFFILIATION_CONFIRM: one value here.
DraftActions == {"NONE", "INVITE", "AFFILIATION"}

ChannelOf(joined, act) == IF joined \/ act = "NONE" THEN "APP" ELSE act

DeliveredStatusOf(joined, act) ==
  IF ChannelOf(joined, act) = "APP" THEN "PENDING_SIGNATURE" ELSE "PENDING_SEND"

=============================================================================
