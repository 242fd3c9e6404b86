------------------------------- MODULE Payslip -------------------------------
(***************************************************************************)
(* One payslip of one worker and one month: drafted from the attendance,   *)
(* edited, confirmed and mailed by several administrators at once.  A      *)
(* request acts on what its screen read and is accepted only if the row    *)
(* still carries the same updatedAt; a send puts its own moment there and  *)
(* in sendingStartedAt, mails outside any transaction, and then either     *)
(* records the dispatch or puts the old updatedAt back.                    *)
(*                                                                         *)
(* Moments are compared for equality only, so a fresh one is the smallest  *)
(* number that no other request and no mark holds.                         *)
(***************************************************************************)
EXTENDS Integers, FiniteSets, FiniteSetsExt

CONSTANT Editors   \* requests of administrators under way at once

ASSUME EditorsAssumption == IsFiniteSet(Editors)

VARIABLES slip,    \* the row of payslips, or "none"
          paper,   \* its lines, flags and totals
          reasons, \* payslip_review_reasons: none, open or acknowledged ("seen")
          request  \* what each administrator's request is doing

payslipVars == <<slip, paper, reasons, request>>

Idle == [op |-> "none"]
NoOne == 0                                     \* sendingStartedAt is null
Editable == {"DRAFTING", "REVIEWING"}          \* EDITABLE
Closed == {"CONFIRMED", "SENT"}                \* CONFIRMED
Operations == {"save", "recalculate", "confirm", "cancel", "send"}
Moments == 1..(2 * Cardinality(Editors) + 2)

(***************************************************************************)
(* The lines: overtime pay, worked out with or without the premium; the    *)
(* income tax and the 3.3% withheld, of which the flag shows one.  What is *)
(* written over an amount that was worked out is left out, and so are the  *)
(* deductions that are there or not whatever the flags say.                *)
(***************************************************************************)
Amount == {"blank", "entered"}
Paper == [premium : BOOLEAN, withholding : BOOLEAN,
          overtime : BOOLEAN, tax : Amount, withheld : Amount, deducted : 0..2]

\* isShown, of the deductions; amountOf gives each a weight of its own.
ShownDeductions(p) ==
    IF p.withholding THEN {p.withheld} ELSE {p.tax}
Weight(a, w) == IF a = "entered" THEN w ELSE 0
TotalsOf(p) == IF p.withholding THEN Weight(p.withheld, 2) ELSE Weight(p.tax, 1)

TypeOK ==
    /\ slip \in [status : Editable \cup Closed, version : Moments,
                 sending : Moments \cup {NoOne}, overdue : BOOLEAN]
                \cup {[status |-> "none"]}
    /\ paper \in Paper /\ reasons \in {"none", "open", "seen"}
    /\ DOMAIN request = Editors
    /\ \A c \in Editors : request[c].op \in Operations \cup {"none"}

----------------------------------------------------------------------------
Exists == slip.status # "none"
Mailing(c) == request[c].op = "send" /\ request[c].step \in {"mailing", "mailed", "failed"}
Waiting(c) == request[c] # Idle /\ ~Mailing(c)

FreshBut(c, held) ==
    LET others == Editors \ {c}
    IN Min(Moments \ (held \cup {slip.sending}
                      \cup {request[d].seen : d \in {e \in others : request[e] # Idle}}
                      \cup {request[d].claimed : d \in {e \in others : Mailing(e)}}))
Fresh(c) == FreshBut(c, {})

Init ==
    /\ slip = [status |-> "none"] /\ reasons = "none"
    /\ paper = [premium |-> TRUE, withholding |-> FALSE, overtime |-> TRUE,
                tax |-> "blank", withheld |-> "blank", deducted |-> 0]
    /\ request = [c \in Editors |-> Idle]

\* createDraft: one transaction; the flags come from last month's payslip, and
\* the unique key of worker and month lets no second one be made.
Draft(premium, withholding, found) ==
    /\ ~Exists
    /\ slip' = [status |-> "DRAFTING", version |-> 1, sending |-> NoOne, overdue |-> FALSE]
    /\ paper' = [paper EXCEPT !.premium = premium, !.overtime = premium, !.withholding = withholding]
    /\ reasons' = found
    /\ UNCHANGED request

\* The screen was read at some moment that may still (or again) be current;
\* locate, or the target of a send, reads the row now.
Locate(c, op, seen) ==
    /\ Exists /\ request[c] = Idle
    /\ seen \in {slip.version} \cup {request[d].seen : d \in {e \in Editors : Mailing(e)}}
    /\ slip.status \in (IF op \in {"save", "recalculate", "confirm"} THEN Editable ELSE Closed)
    /\ op = "send" => seen = slip.version
    /\ request' = [request EXCEPT ![c] =
           [op |-> op, step |-> "read", seen |-> seen, status |-> slip.status,
            premium |-> op \in {"save", "recalculate"} /\ paper.premium,
            withholding |-> op \in {"recalculate", "confirm"} /\ paper.withholding]]
    /\ UNCHANGED <<slip, paper, reasons>>

\* A mutant: the status alone is compared.
AcceptedByStatus(c, op) ==
    /\ request[c].op = op /\ request[c].step = "read"
    /\ Exists /\ slip.status = request[c].status

\* claim: the row must carry the status and the moment that were read.
Accepted(c, op) ==
    /\ request[c].op = op /\ request[c].step = "read"
    /\ Exists /\ slip.status = request[c].status /\ slip.version = request[c].seen
Refuse(c) ==
    /\ Waiting(c) /\ ~Accepted(c, request[c].op)
    /\ request' = [request EXCEPT ![c] = Idle] /\ UNCHANGED <<slip, paper, reasons>>
\* A send that meets the mark of another, a refused amount, a lost connection.
GiveUp(c) ==
    /\ Waiting(c)
    /\ request' = [request EXCEPT ![c] = Idle] /\ UNCHANGED <<slip, paper, reasons>>

\* For the properties: sends whose payslip changed since they claimed it.
Touching(c) == [d \in Editors |-> IF d = c THEN Idle
                                  ELSE IF Mailing(d) THEN [request[d] EXCEPT !.touched = TRUE]
                                  ELSE request[d]]

\* The row of a finished transaction: a new updatedAt, the status as given.
Stamped(c, status) == [slip EXCEPT !.status = status, !.version = Fresh(c)]

----------------------------------------------------------------------------
\* save: overtime alone is worked out again, and only if the premium changed.
Recalculates(c, premium) == premium # request[c].premium

\* save: the lines as they are sent.
Save(c, premium, withholding, tax, withheld) ==
    /\ Accepted(c, "save")
    /\ LET lines == [paper EXCEPT
              !.premium = premium, !.withholding = withholding,
              !.overtime = IF Recalculates(c, premium) THEN premium ELSE @,
              !.tax = tax, !.withheld = withheld]
       IN paper' = [lines EXCEPT !.deducted = TotalsOf(lines)]
    /\ slip' = Stamped(c, slip.status)
    /\ request' = Touching(c)
    /\ UNCHANGED reasons

\* recalculate: worked out with the flags that were read, and the reasons judged anew.
Recalculate(c, found) ==
    /\ Accepted(c, "recalculate")
    /\ LET lines == [paper EXCEPT !.overtime = request[c].premium]
       IN paper' = [lines EXCEPT
              !.deducted = TotalsOf([lines EXCEPT !.withholding = request[c].withholding])]
    /\ reasons' = found
    /\ slip' = Stamped(c, slip.status)
    /\ request' = Touching(c)

\* confirm: refused if a deduction that was shown is blank.
Confirm(c) ==
    /\ Accepted(c, "confirm")
    /\ "blank" \notin ShownDeductions([paper EXCEPT !.withholding = request[c].withholding])
    /\ reasons' = IF reasons = "open" THEN "seen" ELSE reasons
    /\ slip' = Stamped(c, "CONFIRMED")
    /\ request' = Touching(c)
    /\ UNCHANGED paper

\* cancelConfirmation: also after it was mailed, or while it is.
CancelConfirmation(c) ==
    /\ Accepted(c, "cancel")
    /\ reasons' = IF reasons = "seen" THEN "open" ELSE reasons
    /\ slip' = Stamped(c, "REVIEWING")
    /\ request' = Touching(c)
    /\ UNCHANGED paper

----------------------------------------------------------------------------
\* The mark of another send, unless it is five minutes old (SENDING_STALE_MS).
NobodySends == slip.sending = NoOne \/ slip.overdue

\* deliver: the moment of the send goes into updatedAt and sendingStartedAt.
Claim(c) ==
    /\ Accepted(c, "send") /\ NobodySends
    /\ LET claimedAt == FreshBut(c, {slip.version})
       IN /\ slip' = [slip EXCEPT !.version = claimedAt, !.sending = claimedAt, !.overdue = FALSE]
          /\ request' = [request EXCEPT ![c] =
                 [op |-> "send", step |-> "mailing", seen |-> @.seen, claimed |-> claimedAt,
                  late |-> FALSE, touched |-> FALSE]]
    /\ UNCHANGED <<paper, reasons>>

\* The mail server answers, or not; a failed send may have left all the same.
Mail(c, answer) ==
    /\ Mailing(c) /\ request[c].step = "mailing"
    /\ request' = [request EXCEPT ![c].step = answer]
    /\ UNCHANGED <<slip, paper, reasons>>

\* The row if it holds this send's mark: the mark is cleared, which stamps it.
Unmarked(c) == IF slip.sending = request[c].claimed
               THEN [slip EXCEPT !.sending = NoOne, !.overdue = FALSE, !.version = Fresh(c)]
               ELSE slip

\* A mutant: what was mailed is taken to be what the row holds.
StillAsClaimedByStatus(c) == slip.status \in Closed
StillAsClaimed(c) == slip.status \in Closed /\ slip.version = request[c].claimed

\* deliver, after the mail: SENT only if nothing changed the row meanwhile.
Record(c) ==
    /\ Mailing(c) /\ request[c].step = "mailed"
    /\ slip' = IF StillAsClaimed(c)
               THEN [slip EXCEPT !.status = "SENT", !.sending = NoOne, !.overdue = FALSE,
                                 !.version = Fresh(c)]
               ELSE Unmarked(c)
    /\ request' = [request EXCEPT ![c] = Idle]
    /\ UNCHANGED <<paper, reasons>>

\* release: the old moment comes back if nothing changed the row meanwhile.
Release(c) ==
    /\ Mailing(c) /\ request[c].step = "failed"
    /\ slip' = IF slip.version = request[c].claimed
               THEN [slip EXCEPT !.version = request[c].seen, !.sending = NoOne, !.overdue = FALSE]
               ELSE Unmarked(c)
    /\ request' = [request EXCEPT ![c] = Idle]
    /\ UNCHANGED <<paper, reasons>>

\* The records, or the release, are not written; or the server stops.
Abandon(c) ==
    /\ Mailing(c)
    /\ request' = [request EXCEPT ![c] = Idle]
    /\ UNCHANGED <<slip, paper, reasons>>

\* Five minutes after the claim.
Expire ==
    /\ Exists /\ slip.sending # NoOne /\ ~slip.overdue
    /\ slip' = [slip EXCEPT !.overdue = TRUE]
    /\ request' = [c \in Editors |-> IF Mailing(c) /\ request[c].claimed = slip.sending
                                     THEN [request[c] EXCEPT !.late = TRUE] ELSE request[c]]
    /\ UNCHANGED <<paper, reasons>>

Next ==
    \/ \E premium, withholding \in BOOLEAN, found \in {"none", "open"} :
          Draft(premium, withholding, found)
    \/ \E c \in Editors, op \in Operations, seen \in Moments : Locate(c, op, seen)
    \/ \E c \in Editors, premium, withholding \in BOOLEAN, tax, withheld \in Amount :
          Save(c, premium, withholding, tax, withheld)
    \/ \E c \in Editors :
          \/ \E found \in {"none", "open"} : Recalculate(c, found)
          \/ Refuse(c) \/ GiveUp(c) \/ Confirm(c) \/ CancelConfirmation(c)
          \/ Claim(c) \/ Record(c) \/ Release(c) \/ Abandon(c)
          \/ \E answer \in {"mailed", "failed"} : Mail(c, answer)
    \/ Expire

Spec == Init /\ [][Next]_payslipVars

----------------------------------------------------------------------------
\* A confirmed or mailed payslip has every deduction it shows, totals that are
\* those of the lines it shows, an overtime pay worked out with its own premium
\* flag, and no reason left to look at, although each of the requests that made
\* it so went by flags it had read before it held the row
\* (payslip-edit.service.ts:256, 272, 503).
ConfirmedAddsUp ==
    Exists =>
      /\ paper.deducted = TotalsOf(paper) /\ paper.overtime = paper.premium
      /\ slip.status \in Closed => "blank" \notin ShownDeductions(paper) /\ reasons # "open"
      /\ slip.status \in Editable => reasons # "seen"

\* A payslip becomes SENT by the send that mailed it, and only if from the claim
\* to the record nobody edited it, cancelled it or confirmed it again: what the
\* worker opens is what the mail announced (payslip-send.service.ts:418).
SentAsMailed ==
    [][ Exists /\ slip'.status = "SENT" /\ slip.status # "SENT" =>
          \E c \in Editors : Mailing(c) /\ request'[c] = Idle /\ ~request[c].touched
      ]_payslipVars

\* No two sends mail the payslip at once unless the earlier one has been at it
\* for more than five minutes: cancelling and confirming it again in between,
\* or releasing an older send, lets no second one in (payslip-send.service.ts:344).
OneSenderAtATime ==
    \A c, d \in Editors : Mailing(c) /\ Mailing(d) /\ c # d => request[c].late \/ request[d].late

\* Both of them: of the sends that overlap, one mails, and only its record counts.
SentOnceAsMailed == SentAsMailed /\ []OneSenderAtATime
=============================================================================
