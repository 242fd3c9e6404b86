--------------------------- MODULE AccountSignIn ---------------------------
(***************************************************************************)
(* One account of the worker app: its password and failed sign-ins, its    *)
(* sessions, and the three secrets that are mailed to it (the reset PIN,   *)
(* the reset link an administrator sends and the PIN of an e-mail change). *)
(*                                                                         *)
(* A password is verified (scrypt) outside every lock, and the row of the  *)
(* account is locked and read again afterwards, so each request is two     *)
(* steps with other requests between them; mail goes out after the commit. *)
(* A process may stop between any two steps (Abandon).                     *)
(***************************************************************************)
EXTENDS Naturals, Sequences, FiniteSets

CONSTANTS Clients,       \* requests that may be under way at once
          MaxFailed,     \* MAX_FAILED_ATTEMPTS: wrong passwords that lock
          MaxTries,      \* MAX_PIN_ATTEMPTS: wrong guesses that close a PIN
          MaxPerWindow,  \* MAX_ISSUES_PER_WINDOW: PINs mailed in 24 hours
          MaxSessions, MaxIssued, MaxChanges   \* bounds of the instance

ASSUME SignInConstants ==
    {MaxFailed, MaxTries, MaxPerWindow, MaxSessions, MaxIssued, MaxChanges}
        \subseteq Nat \ {0}

VARIABLES password,   \* version of accounts.password_hash
          email,      \* version of accounts.email
          failed,     \* accounts.failed_login_count
          lock,       \* accounts.lock_expires_at: not set, ahead, passed
          withdrawn,  \* accounts.status = WITHDRAWN
          sessions,   \* auth_sessions, in the order of their creation
          issued,     \* the secrets, in the order of their issued_at
          request     \* what each client's request has read so far

vars == <<password, email, failed, lock, withdrawn, sessions, issued, request>>
credentials == <<password, email, failed, lock, withdrawn>>

Kinds == {"pin", "link", "emailPin"}
Ages == {"fresh", "aged", "expired", "old"}
Session == [open: BOOLEAN, pw: Nat]
Secret == [kind: Kinds, state: {"open", "closed", "removed"}, age: Ages,
           tries: 0..MaxTries, pw: Nat, to: Nat, sent: BOOLEAN]
Idle == [op |-> "idle"]

TypeOK ==
    /\ {password, email} \subseteq Nat /\ failed \in 0..MaxFailed
    /\ lock \in {"none", "ahead", "passed"} /\ withdrawn \in BOOLEAN
    /\ sessions \in Seq(Session) /\ issued \in Seq(Secret)
    /\ DOMAIN request = Clients

Init ==
    /\ password = 0 /\ email = 0 /\ failed = 0
    /\ lock = "none" /\ withdrawn = FALSE
    /\ sessions = <<>> /\ issued = <<>>
    /\ request = [c \in Clients |-> Idle]

----------------------------------------------------------------------------
Ask(c, r) == request[c] = Idle /\ request' = [request EXCEPT ![c] = r]
Answer(c) == request' = [request EXCEPT ![c] = Idle]
Continue(c, r) == request' = [request EXCEPT ![c] = r]
Doing(c, op) == request[c].op = op

OpenSessions == {s \in DOMAIN sessions : sessions[s].open}
EndSessions(ended) ==
    [s \in DOMAIN sessions |-> IF s \in ended THEN [sessions[s] EXCEPT !.open = FALSE]
                                              ELSE sessions[s]]

\* The secrets whose close mark (used_at, closed_at) is not set.
OpenSecrets(kinds) == {i \in DOMAIN issued : issued[i].kind \in kinds /\ issued[i].state = "open"}
CloseSecrets(closed) ==
    [i \in DOMAIN issued |-> IF i \in closed THEN [issued[i] EXCEPT !.state = "closed"]
                                             ELSE issued[i]]
Usable(i) ==
    /\ issued[i].state = "open" /\ issued[i].age \in {"fresh", "aged"}
    /\ issued[i].tries < MaxTries
Newest(set, i) == i \in set /\ \A j \in set : j <= i

\* The rows a limit looks at: removed ones are not in the table any more.
Rows(kind) == {i \in DOMAIN issued : issued[i].kind = kind /\ issued[i].state # "removed"}
WithinInterval(kind) == \E i \in Rows(kind) : Newest(Rows(kind), i) /\ issued[i].age = "fresh"
WindowFull(kind) ==
    Cardinality({i \in Rows(kind) : issued[i].age # "old"}) >= MaxPerWindow

NewSecret(kind, to) ==
    [kind |-> kind, state |-> "open", age |-> "fresh", tries |-> 0,
     pw |-> password, to |-> to, sent |-> FALSE]

\* A new password closes every secret and ends every session but the kept one.
ApplyNewPassword(kept) ==
    /\ password < MaxChanges /\ password' = password + 1
    /\ failed' = 0 /\ lock' = "none"
    /\ issued' = CloseSecrets(OpenSecrets(Kinds))
    /\ sessions' = [s \in DOMAIN sessions |->
                       IF s \in kept THEN [sessions[s] EXCEPT !.pw = password + 1]
                                     ELSE [sessions[s] EXCEPT !.open = FALSE]]
    /\ UNCHANGED <<email, withdrawn>>

----------------------------------------------------------------------------
\* login, up to the verification: no lock is held when the password is read.
Login(c) ==
    /\ ~withdrawn /\ lock # "ahead"
    /\ \E right \in BOOLEAN : Ask(c, [op |-> "login", right |-> right, saw |-> password])
    /\ UNCHANGED <<credentials, sessions, issued>>

\* issue: a new session of a device replaces the one that device still has.
IssueSession ==
    \E replaced \in {{}} \cup {{s} : s \in OpenSessions} :
        /\ Len(sessions) < MaxSessions
        /\ sessions' = Append(EndSessions(replaced), [open |-> TRUE, pw |-> password])

\* A mutant: the verified sign-in is not held against the account again.
CompleteSuccessAsVerified(c) ==
    /\ Doing(c, "login") /\ request[c].right /\ Answer(c)
    /\ IF withdrawn \/ lock = "ahead" THEN UNCHANGED <<sessions, failed, lock>>
       ELSE /\ Len(sessions) < MaxSessions /\ failed' = 0 /\ lock' = "none"
            /\ sessions' = Append(sessions, [open |-> TRUE, pw |-> request[c].saw])
    /\ UNCHANGED <<password, email, withdrawn, issued>>

\* A mutant: a lock set since the password was read is not looked at.
CompleteSuccessThroughLock(c) ==
    /\ Doing(c, "login") /\ request[c].right /\ Answer(c)
    /\ IF withdrawn \/ password # request[c].saw THEN UNCHANGED <<sessions, failed, lock>>
       ELSE IssueSession /\ failed' = 0 /\ lock' = "none"
    /\ UNCHANGED <<password, email, withdrawn, issued>>

\* completeSuccess: the account is locked and must be as it was verified.
CompleteSuccess(c) ==
    /\ Doing(c, "login") /\ request[c].right /\ Answer(c)
    /\ IF withdrawn \/ password # request[c].saw \/ lock = "ahead"
       THEN UNCHANGED <<sessions, failed, lock>>
       ELSE IssueSession /\ failed' = 0 /\ lock' = "none"
    /\ UNCHANGED <<password, email, withdrawn, issued>>

\* countFailure and registerFailure: a lock that has passed counts from one.
CountFailure(c) ==
    /\ Doing(c, "login") /\ ~request[c].right /\ Answer(c)
    /\ IF withdrawn \/ lock = "ahead"
       THEN UNCHANGED <<failed, lock>>
       ELSE LET previous == IF lock = "none" THEN failed ELSE 0 IN
            /\ failed' = previous + 1
            /\ lock' = IF previous + 1 >= MaxFailed THEN "ahead" ELSE "none"
    /\ UNCHANGED <<password, email, withdrawn, sessions, issued>>

\* validate: the session that is read ...
Refresh(c) ==
    /\ ~withdrawn
    /\ \E s \in OpenSessions : Ask(c, [op |-> "refresh", sid |-> s])
    /\ UNCHANGED <<credentials, sessions, issued>>

\* A mutant: what was read open is written back as open.
ExtendBlindly(c) ==
    /\ Doing(c, "refresh") /\ Answer(c)
    /\ sessions' = [sessions EXCEPT ![request[c].sid].open = TRUE]
    /\ UNCHANGED <<credentials, issued>>

\* ... is pushed back only where it is still open.
Extend(c) ==
    /\ Doing(c, "refresh") /\ Answer(c)
    /\ sessions' = IF sessions[request[c].sid].open /\ ~withdrawn
                   THEN [sessions EXCEPT ![request[c].sid].open = TRUE]
                   ELSE sessions
    /\ UNCHANGED <<credentials, issued>>

\* A session is signed out, or its expires_at passes.
SessionEnds ==
    /\ \E s \in OpenSessions : sessions' = EndSessions({s})
    /\ UNCHANGED <<credentials, issued, request>>

\* Time: the lock passes; a secret leaves the one-minute interval, its
\* lifetime and the 24-hour window, the older ones of a kind before.
LockPasses == /\ lock = "ahead" /\ lock' = "passed"
              /\ UNCHANGED <<password, email, failed, withdrawn, sessions, issued, request>>
Older(age) == CASE age = "fresh" -> "aged" [] age = "aged" -> "expired" [] OTHER -> "old"
Ageing(i) ==
    /\ issued[i].age # "old"
    /\ \A j \in 1..(i - 1) : issued[j].kind = issued[i].kind => issued[j].age # issued[i].age
    /\ issued' = [issued EXCEPT ![i].age = Older(@)]
    /\ UNCHANGED <<credentials, sessions, request>>

----------------------------------------------------------------------------
\* requestPin: the account is read, then the PIN is issued under the lock;
\* its mail is not waited for.
RequestPin(c) ==
    /\ ~withdrawn /\ Ask(c, [op |-> "requestPin", to |-> email])
    /\ UNCHANGED <<credentials, sessions, issued>>

IssuePin(c) ==
    /\ Doing(c, "requestPin") /\ Answer(c)
    /\ \/ (WithinInterval("pin") \/ WindowFull("pin")) /\ UNCHANGED issued
       \/ /\ ~WithinInterval("pin") /\ ~WindowFull("pin") /\ Len(issued) < MaxIssued
          /\ issued' = Append(CloseSecrets(OpenSecrets({"pin"})),
                              NewSecret("pin", request[c].to))
    /\ UNCHANGED <<credentials, sessions>>

\* A PIN is compared outside the lock: the newest open one, if it is usable.
EnterPin(c, kind) ==
    /\ ~withdrawn /\ (kind = "emailPin" => OpenSessions # {})
    /\ \E i \in OpenSecrets({kind}), right \in BOOLEAN :
          /\ Newest(OpenSecrets({kind}), i) /\ Usable(i)
          /\ Ask(c, [op |-> kind, row |-> i, right |-> right])
    /\ UNCHANGED <<credentials, sessions, issued>>

\* Under the lock the same PIN must be the newest and usable still.
StillThePin(c) ==
    /\ ~withdrawn /\ Usable(request[c].row)
    /\ Newest(OpenSecrets({issued[request[c].row].kind}), request[c].row)

CountWrongPin(c) ==
    /\ request[c].op \in {"pin", "emailPin"} /\ ~request[c].right /\ Answer(c)
    /\ issued' = IF StillThePin(c) THEN [issued EXCEPT ![request[c].row].tries = @ + 1]
                                   ELSE issued
    /\ UNCHANGED <<credentials, sessions>>

\* verifyPin, and a new password the policy rejects: nothing is stored.
MatchedPinOnly(c) ==
    /\ Doing(c, "pin") /\ request[c].right /\ Answer(c)
    /\ UNCHANGED <<credentials, sessions, issued>>

ResetByPin(c) ==
    /\ Doing(c, "pin") /\ request[c].right /\ StillThePin(c) /\ Answer(c)
    /\ ApplyNewPassword({})

----------------------------------------------------------------------------
\* issue of a reset link by an administrator: stored first, mailed after.
IssueLink(c) ==
    /\ ~withdrawn /\ ~WithinInterval("link") /\ Len(issued) < MaxIssued
    /\ Ask(c, [op |-> "sending", row |-> Len(issued) + 1])
    /\ issued' = Append(issued, NewSecret("link", email))
    /\ UNCHANGED <<credentials, sessions>>

\* requestPin of an e-mail change: the current password is verified before.
AskEmailChange(c) ==
    /\ ~withdrawn /\ OpenSessions # {}
    /\ Ask(c, [op |-> "emailChange", saw |-> password])
    /\ UNCHANGED <<credentials, sessions, issued>>

IssueEmailPin(c) ==
    /\ Doing(c, "emailChange") /\ ~withdrawn /\ password = request[c].saw
    /\ ~WithinInterval("emailPin") /\ ~WindowFull("emailPin") /\ Len(issued) < MaxIssued
    /\ issued' = Append(issued, NewSecret("emailPin", email + 1))
    /\ Continue(c, [op |-> "sending", row |-> Len(issued) + 1])
    /\ UNCHANGED <<credentials, sessions>>

Sent(c) ==
    /\ Doing(c, "sending")
    /\ issued' = [issued EXCEPT ![request[c].row].sent = TRUE]
    /\ Continue(c, [op |-> "closing", row |-> request[c].row])
    /\ UNCHANGED <<credentials, sessions>>

\* The mail was refused: the row goes, so that the next try is not too soon.
NotSent(c) ==
    /\ Doing(c, "sending") /\ Answer(c)
    /\ issued' = [issued EXCEPT ![request[c].row].state = "removed"]
    /\ UNCHANGED <<credentials, sessions>>

\* A mutant: everything else of these kinds is closed, what came after too.
CloseOthers(c) ==
    /\ Doing(c, "closing") /\ Answer(c)
    /\ LET row == request[c].row
           kinds == IF issued[row].kind = "link" THEN {"link", "pin"} ELSE {"emailPin"}
       IN issued' = CloseSecrets(OpenSecrets(kinds) \ {row})
    /\ UNCHANGED <<credentials, sessions>>

\* Once it is out, what was issued before it is closed, never what came after.
CloseEarlier(c) ==
    /\ Doing(c, "closing") /\ Answer(c)
    /\ LET row == request[c].row
           kinds == IF issued[row].kind = "link" THEN {"link", "pin"} ELSE {"emailPin"}
       IN issued' = CloseSecrets({i \in OpenSecrets(kinds) : i < row})
    /\ UNCHANGED <<credentials, sessions>>

OpenLink(c) ==
    /\ ~withdrawn
    /\ \E i \in OpenSecrets({"link"}) : Usable(i) /\ Ask(c, [op |-> "resetLink", row |-> i])
    /\ UNCHANGED <<credentials, sessions, issued>>

ResetByLink(c) ==
    /\ Doing(c, "resetLink") /\ Answer(c)
    /\ ~withdrawn /\ Usable(request[c].row)
    /\ ApplyNewPassword({})

----------------------------------------------------------------------------
\* change of one's own password: the session that asks is kept.
AskPasswordChange(c) ==
    /\ ~withdrawn
    /\ \E s \in OpenSessions : Ask(c, [op |-> "change", saw |-> password, sid |-> s])
    /\ UNCHANGED <<credentials, sessions, issued>>

ChangePassword(c) ==
    /\ Doing(c, "change") /\ Answer(c)
    /\ ~withdrawn /\ password = request[c].saw
    /\ ApplyNewPassword({request[c].sid})

\* confirm: the new address closes whatever was mailed to the former one.
ConfirmEmail(c) ==
    /\ Doing(c, "emailPin") /\ request[c].right /\ StillThePin(c) /\ Answer(c)
    /\ email < MaxChanges /\ email' = email + 1
    /\ issued' = CloseSecrets(OpenSecrets(Kinds))
    /\ UNCHANGED <<password, failed, lock, withdrawn, sessions>>

\* A request ends without effect: refused by its second look, or its process stops.
Abandon(c) == /\ request[c] # Idle /\ Answer(c)
              /\ UNCHANGED <<credentials, sessions, issued>>

\* The account is closed. No code of the repository does it; all of it checks it.
Withdraw == /\ ~withdrawn /\ withdrawn' = TRUE
            /\ UNCHANGED <<password, email, failed, lock, sessions, issued, request>>

Requests(c) ==
    \/ Login(c) \/ CompleteSuccess(c) \/ CountFailure(c) \/ Refresh(c) \/ Extend(c)
    \/ RequestPin(c) \/ IssuePin(c) \/ CountWrongPin(c) \/ MatchedPinOnly(c) \/ ResetByPin(c)
    \/ \E kind \in {"pin", "emailPin"} : EnterPin(c, kind)
    \/ IssueLink(c) \/ AskEmailChange(c) \/ IssueEmailPin(c)
    \/ Sent(c) \/ NotSent(c) \/ CloseEarlier(c) \/ OpenLink(c) \/ ResetByLink(c)
    \/ AskPasswordChange(c) \/ ChangePassword(c) \/ ConfirmEmail(c) \/ Abandon(c)

Next == \/ \E c \in Clients : Requests(c)
        \/ SessionEnds \/ LockPasses \/ Withdraw
        \/ \E i \in DOMAIN issued : Ageing(i)

Spec == Init /\ [][Next]_vars

----------------------------------------------------------------------------
\* What can be used stands on the present credentials: every session and
\* every secret on the present password, a link also on the present address.
OpenIsCurrent ==
    /\ \A s \in OpenSessions : sessions[s].pw = password
    /\ \A i \in OpenSecrets(Kinds) :
          issued[i].pw = password /\ (issued[i].kind = "link" => issued[i].to = email)

\* The newest link that was mailed works until it runs out or the account
\* changes: a later link takes it away only once that one is mailed itself.
SentLinkWorks ==
    \A i \in DOMAIN issued :
        (/\ issued[i].kind = "link" /\ issued[i].sent
         /\ issued[i].pw = password /\ issued[i].to = email
         /\ \A j \in (i + 1)..Len(issued) : ~(issued[j].kind = "link" /\ issued[j].sent))
        => issued[i].state = "open"

\* A lock on sign-in is left by time or by a new password, never by a sign-in
\* that was verified before it, and no session begins while it is ahead.
LockHolds ==
    [][lock = "ahead" =>
         /\ lock' = "ahead" \/ lock' = "passed" \/ password' # password
         /\ Len(sessions') = Len(sessions)]_vars

\* A session that has ended and a secret that was closed or removed stay so.
EndedForGood ==
    [][/\ \A s \in DOMAIN sessions : sessions'[s].open => sessions[s].open
       /\ \A i \in DOMAIN issued : issued'[i].state = "open" => issued[i].state = "open"]_vars
=============================================================================
