---------------------------- MODULE AdminSignIn ----------------------------
(***************************************************************************)
(* One administrator account: its own password, the temporary passwords    *)
(* that are mailed to it (at registration, by a reset, on request) and the *)
(* sessions that are opened with either.                                   *)
(*                                                                         *)
(* A password is verified before the account is locked.  A temporary       *)
(* password on request is mailed first and stored afterwards; the others   *)
(* are stored first, mailed after the commit and then marked as sent.      *)
(***************************************************************************)
EXTENDS Naturals, Sequences, FiniteSets

CONSTANTS Callers,     \* requests that may be under way at once
          MaxPerHour,  \* MAX_PER_HOUR: temporary passwords on request
          MaxTemps, MaxOwn, MaxEmail, MaxOpened   \* bounds of the instance

VARIABLES own,      \* version of admin_accounts.password_hash, Locked = '!'
          required, \* is_password_change_required
          unsent,   \* is_initial_password_unsent
          barred,   \* lock_expires_at is ahead (AccountSignIn counts towards it)
          status,   \* account_status_code; "gone": withdrawn or deleted
          address,  \* version of admin_accounts.email
          temps,    \* temporary_passwords, in the order of issued_at
          opened,   \* admin_sessions, in the order of their creation
          token,    \* the token of a finished sign-up can still be used
          call      \* what each caller's request has read so far

adminVars == <<own, required, unsent, barred, status, address, temps, opened, token, call>>
flags == <<own, required, unsent, barred, status, address>>

Locked == 0
Idle == [op |-> "idle"]
Temp == [purpose: {"INITIAL", "RESET", "TEMPORARY"}, used: BOOLEAN, live: BOOLEAN,
         expired: BOOLEAN, sent: BOOLEAN, to: 0..MaxEmail]

TypeOK ==
    /\ own \in 0..MaxOwn /\ address \in 0..MaxEmail
    /\ {required, unsent, barred, token} \subseteq BOOLEAN
    /\ status \in {"ACTIVE", "INACTIVE", "gone"}
    /\ temps \in Seq(Temp)
    /\ opened \in Seq([open: BOOLEAN, cap: 0..MaxTemps])
    /\ DOMAIN call = Callers

----------------------------------------------------------------------------
Ask(c, r) == call[c] = Idle /\ call' = [call EXCEPT ![c] = r]
Answer(c) == call' = [call EXCEPT ![c] = Idle]
Continue(c, r) == call' = [call EXCEPT ![c] = r]
Doing(c, op) == call[c].op = op

Void(some) == [i \in DOMAIN temps |-> IF i \in some THEN [temps[i] EXCEPT !.live = FALSE]
                                                    ELSE temps[i]]
Valid(i) == temps[i].live /\ ~temps[i].expired
Live == {i \in DOMAIN temps : Valid(i)}
UsedLive == {i \in Live : temps[i].used}
Newest(set, i) == i \in set /\ \A j \in set : j <= i
OnRequest == {i \in DOMAIN temps : temps[i].purpose = "TEMPORARY"}
NewTemp(purpose, to, sent) ==
    [purpose |-> purpose, used |-> FALSE, live |-> TRUE, expired |-> FALSE,
     sent |-> sent, to |-> to]

Open == {s \in DOMAIN opened : opened[s].open}
EndSessions(ended) == [s \in DOMAIN opened |->
                          IF s \in ended THEN [opened[s] EXCEPT !.open = FALSE] ELSE opened[s]]
\* issue: a new session replaces the one its device still has.
IssueSession(cap) ==
    \E replaced \in {{}} \cup {{s} : s \in Open} :
        /\ Len(opened) < MaxOpened
        /\ opened' = Append(EndSessions(replaced), [open |-> TRUE, cap |-> cap])

\* issueTempPassword and the flags that go with it.
IssueTemp(purpose) ==
    /\ Len(temps) < MaxTemps
    /\ temps' = Append(Void(DOMAIN temps), NewTemp(purpose, address, FALSE))
    /\ own' = Locked /\ required' = TRUE /\ unsent' = TRUE /\ barred' = FALSE

\* An account is registered by an administrator, or it has signed up itself.
Init ==
    /\ \/ /\ own = Locked /\ required = TRUE /\ unsent = TRUE /\ token = FALSE
          /\ temps = <<NewTemp("INITIAL", 0, FALSE)>>
          /\ \E c \in Callers :
                call = [d \in Callers |-> IF d = c THEN [op |-> "mailing", row |-> 1] ELSE Idle]
       \/ /\ own = 1 /\ required = FALSE /\ unsent = FALSE /\ token = TRUE
          /\ temps = <<>> /\ call = [c \in Callers |-> Idle]
    /\ barred = FALSE /\ status = "ACTIVE" /\ address = 0 /\ opened = <<>>

----------------------------------------------------------------------------
\* login: its own password, the newest valid temporary one, or neither.
Login(c) ==
    /\ status # "gone" /\ ~barred
    /\ \/ own # Locked /\ status = "ACTIVE" /\ Ask(c, [op |-> "own", saw |-> own])
       \/ \E i \in Live : /\ Newest(Live, i) /\ status = "ACTIVE"
                          /\ Ask(c, [op |-> "temporary", row |-> i])
       \/ Ask(c, [op |-> "wrong"])
    /\ UNCHANGED <<flags, temps, opened, token>>

\* completeSuccess with the own password: unused temporary ones on request end.
OwnSucceeds(c) ==
    /\ Doing(c, "own") /\ Answer(c)
    /\ status = "ACTIVE" /\ ~barred /\ own = call[c].saw
    /\ temps' = Void({i \in OnRequest : ~temps[i].used})
    /\ required' = FALSE /\ IssueSession(0)
    /\ UNCHANGED <<own, unsent, barred, status, address, token>>

\* completeSuccess with a temporary one: the session ends with it at the latest.
TemporarySucceeds(c) ==
    /\ Doing(c, "temporary") /\ Answer(c)
    /\ status = "ACTIVE" /\ ~barred /\ Valid(call[c].row)
    /\ temps' = [temps EXCEPT ![call[c].row].used = TRUE]
    /\ required' = TRUE /\ IssueSession(call[c].row)
    /\ UNCHANGED <<own, unsent, barred, status, address, token>>

CountFailure(c) ==
    /\ Doing(c, "wrong") /\ Answer(c)
    /\ barred' \in {barred, TRUE}
    /\ UNCHANGED <<own, required, unsent, status, address, temps, opened, token>>

LockPasses == /\ barred /\ barred' = FALSE
              /\ UNCHANGED <<own, required, unsent, status, address, temps, opened, token, call>>

SignupLogin ==
    /\ token /\ status = "ACTIVE" /\ IssueSession(0)
    /\ token' \in BOOLEAN
    /\ UNCHANGED <<flags, temps, call>>

\* refresh: what the session may be extended to is read first; while a change is
\* required and no temporary password carries it, the session is revoked.
Refresh(c) ==
    /\ status = "ACTIVE"
    /\ \E s \in Open :
          \/ /\ ~required
             /\ Ask(c, [op |-> "refresh", sid |-> s, cap |-> 0]) /\ UNCHANGED opened
          \/ \E i \in UsedLive :
                /\ required /\ Newest(UsedLive, i)
                /\ Ask(c, [op |-> "refresh", sid |-> s, cap |-> i]) /\ UNCHANGED opened
          \/ /\ required /\ UsedLive = {}
             /\ opened' = EndSessions({s}) /\ UNCHANGED call
    /\ UNCHANGED <<flags, temps, token>>

Extend(c) ==
    /\ Doing(c, "refresh") /\ Answer(c)
    /\ opened' = IF /\ opened[call[c].sid].open /\ status = "ACTIVE"
                    /\ call[c].cap # 0 => ~temps[call[c].cap].expired
                 THEN [opened EXCEPT ![call[c].sid].cap = call[c].cap]
                 ELSE opened
    /\ UNCHANGED <<flags, temps, token>>

\* A session is signed out, or its full lifetime passes.
SessionEnds == /\ \E s \in Open : opened' = EndSessions({s})
               /\ UNCHANGED <<flags, temps, token, call>>

\* A temporary password expires, and with it the sessions it caps.
TempExpires ==
    /\ \E i \in DOMAIN temps :
          /\ ~temps[i].expired
          /\ temps' = [temps EXCEPT ![i].expired = TRUE]
          /\ opened' = EndSessions({s \in Open : opened[s].cap = i})
    /\ UNCHANGED <<flags, token, call>>

----------------------------------------------------------------------------
\* A temporary password on request: the count of the last hour, which is also
\* their lifetime, is read without a lock ...
RequestTemporary(c) ==
    /\ status = "ACTIVE"
    /\ Cardinality({i \in OnRequest : ~temps[i].expired}) < MaxPerHour
    /\ Ask(c, [op |-> "requested", to |-> address])
    /\ UNCHANGED <<flags, temps, opened, token>>

\* A mutant: it is stored without reading the account again after the mail.
StoreTemporaryUnchecked(c) ==
    /\ Doing(c, "requested") /\ Answer(c) /\ Len(temps) < MaxTemps
    /\ temps' = Append(Void(OnRequest), NewTemp("TEMPORARY", call[c].to, TRUE))
    /\ barred' = FALSE
    /\ UNCHANGED <<own, required, unsent, status, address, opened, token>>

\* ... and it is stored once its mail is out, if the account is still the same.
StoreTemporary(c) ==
    /\ Doing(c, "requested") /\ Answer(c)
    /\ status = "ACTIVE" /\ address = call[c].to /\ Len(temps) < MaxTemps
    /\ temps' = Append(Void(OnRequest), NewTemp("TEMPORARY", address, TRUE))
    /\ barred' = FALSE
    /\ UNCHANGED <<own, required, unsent, status, address, opened, token>>

\* resetPassword by another administrator.
ResetPassword(c) ==
    /\ status # "gone" /\ IssueTemp("RESET")
    /\ Ask(c, [op |-> "mailing", row |-> Len(temps) + 1])
    /\ UNCHANGED <<status, address, opened, token>>

\* sendPassword after the commit: the mail goes to the address that was read.
MailAccepted(c) ==
    /\ Doing(c, "mailing") /\ Continue(c, [op |-> "marking", row |-> call[c].row])
    /\ temps' = [temps EXCEPT ![call[c].row].sent = TRUE]
    /\ UNCHANGED <<flags, opened, token>>

MarkSent(c) ==
    /\ Doing(c, "marking") /\ Answer(c)
    /\ unsent' = (unsent /\ ~temps[call[c].row].live)
    /\ UNCHANGED <<own, required, barred, status, address, temps, opened, token>>

\* A refusal on the second look, a failed mail, or the end of the process.
Abandon(c) == call[c] # Idle /\ Answer(c) /\ UNCHANGED <<flags, temps, opened, token>>

----------------------------------------------------------------------------
NewOwn == own' = own + 1 /\ own < MaxOwn /\ temps' = Void(DOMAIN temps)

\* changeRequired: the sessions live on for their full time.
ChangeRequired ==
    /\ required /\ UsedLive # {} /\ Open # {} /\ NewOwn /\ required' = FALSE
    /\ opened' = [s \in DOMAIN opened |->
                     IF opened[s].open THEN [opened[s] EXCEPT !.cap = 0] ELSE opened[s]]
    /\ UNCHANGED <<unsent, barred, status, address, token, call>>

ChangeOwn ==
    /\ own # Locked /\ status # "gone" /\ Open # {} /\ NewOwn
    /\ UNCHANGED <<required, unsent, barred, status, address, opened, token, call>>

\* An edit of the address voids what was mailed to the former one; when that
\* leaves the account without a password, it shows as not sent.
ChangeEmail ==
    /\ status # "gone" /\ address < MaxEmail /\ address' = address + 1
    /\ temps' = Void(DOMAIN temps)
    /\ unsent' = (unsent \/ (own = Locked /\ \E i \in DOMAIN temps : temps[i].live))
    /\ UNCHANGED <<own, required, barred, status, opened, token, call>>

\* Status by an edit of the account or of its BP; sessions are left alone.
ChangeStatus ==
    /\ status' \in {"ACTIVE", "INACTIVE"} \ {status} /\ status # "gone"
    /\ UNCHANGED <<own, required, unsent, barred, address, temps, opened, token, call>>

\* The account is deleted, or its BP withdraws: then every session is revoked.
Leaves ==
    /\ status # "gone" /\ status' = "gone"
    /\ opened' \in {opened, EndSessions(Open)}
    /\ UNCHANGED <<own, required, unsent, barred, address, temps, token, call>>

Next ==
    \/ \E c \in Callers :
          \/ Login(c) \/ OwnSucceeds(c) \/ TemporarySucceeds(c) \/ CountFailure(c)
          \/ Refresh(c) \/ Extend(c) \/ RequestTemporary(c) \/ StoreTemporary(c)
          \/ ResetPassword(c) \/ MailAccepted(c) \/ MarkSent(c) \/ Abandon(c)
    \/ LockPasses \/ SignupLogin \/ SessionEnds \/ TempExpires
    \/ ChangeRequired \/ ChangeOwn \/ ChangeEmail \/ ChangeStatus \/ Leaves

Spec == Init /\ [][Next]_adminVars

----------------------------------------------------------------------------
\* A temporary password that can still be used was made for the address the
\* account has now: nobody signs in with one that waits in another mailbox.
LiveTemporaryIsMailedHere == \A i \in DOMAIN temps : temps[i].live => temps[i].to = address

\* An account without a password of its own that is not shown as "not sent"
\* has a temporary password that did go out, valid or expired.
SentMeansDelivered ==
    own = Locked /\ ~unsent => \E i \in DOMAIN temps : temps[i].live /\ temps[i].sent

\* Temporary passwords and mails agree: what works lies in the present mailbox, and
\* what is not shown as unsent was delivered.
TemporariesMatchTheirMail == LiveTemporaryIsMailedHere /\ SentMeansDelivered
=============================================================================
