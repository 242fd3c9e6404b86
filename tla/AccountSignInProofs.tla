------------------------- MODULE AccountSignInProofs -------------------------
(***************************************************************************)
(* Theorems about AccountSignIn, for any set of requests under way at once *)
(* and any values of its limits, and about the temporary passwords of an   *)
(* administrator (AdminSignIn), for any set of requests of its own.        *)
(***************************************************************************)
EXTENDS MCIdentity, TLAPS

-----------------------------------------------------------------------------
(* The inductive invariant                                                 *)

\* The columns of the account; a lock that is not set has not been earned.
AccountOK ==
    /\ password \in Nat /\ email \in Nat /\ failed \in 0..MaxFailed
    /\ lock \in {"none", "ahead", "passed"} /\ withdrawn \in BOOLEAN
    /\ lock = "none" => failed < MaxFailed

SessionsOK ==
    /\ sessions \in Seq(Session)
    /\ \A s \in DOMAIN sessions : sessions[s].open => sessions[s].pw = password

\* A later link that was mailed.
Superseded(q, i) == \E j \in DOMAIN q : j > i /\ q[j].kind = "link" /\ q[j].sent

\* A secret is of some password and some address the account had until now, and
\* what may still be used is of those it has.  A link that is closed, although the
\* account has not changed since, was closed by a later one that is out.
Fits(q, i, pw, to) ==
    /\ q[i].pw <= pw /\ (q[i].kind = "link" => q[i].to <= to)
    /\ q[i].state = "open" => q[i].pw = pw /\ (q[i].kind = "link" => q[i].to = to)
    /\ q[i].state = "removed" => ~q[i].sent
    /\ q[i].kind = "link" /\ q[i].state = "closed" /\ q[i].pw = pw /\ q[i].to = to
          => Superseded(q, i)
AllFit(q, pw, to) == q \in Seq(Secret) /\ \A i \in DOMAIN q : Fits(q, i, pw, to)
SecretsOK == AllFit(issued, password, email)

\* A request that mails a secret is the only one that does, and its row is there.
SendersOK ==
    /\ DOMAIN request = Clients
    /\ \A c \in Clients : Doing(c, "requestPin") => request[c].to \in Nat
    /\ \A c \in Clients : Doing(c, "sending") =>
          /\ request[c].row \in DOMAIN issued
          /\ ~issued[request[c].row].sent /\ issued[request[c].row].state # "removed"
          /\ \A d \in Clients \ {c} : Doing(d, "sending") => request[d].row # request[c].row
    /\ \A c \in Clients : Doing(c, "closing") =>
          request[c].row \in DOMAIN issued /\ issued[request[c].row].sent

AccountInv == AccountOK /\ SessionsOK /\ SecretsOK /\ SendersOK

-----------------------------------------------------------------------------
(* Sequences that are written to, and that grow                            *)

LEMMA Written ==
  ASSUME NEW T, NEW q \in Seq(T), NEW f, f = [i \in DOMAIN q |-> f[i]],
         \A i \in DOMAIN q : f[i] \in T
  PROVE  f \in Seq(T) /\ Len(f) = Len(q) /\ DOMAIN f = DOMAIN q
<1>1. DOMAIN q = 1..Len(q) /\ Len(q) \in Nat
  OBVIOUS
<1>2. f \in [1..Len(q) -> T]
  BY <1>1
<1> QED
  BY <1>1, <1>2

LEMMA Grown ==
  ASSUME NEW T, NEW q \in Seq(T), NEW e \in T
  PROVE  /\ Append(q, e) \in Seq(T)
         /\ DOMAIN Append(q, e) = DOMAIN q \cup {Len(q) + 1} /\ Len(q) + 1 \notin DOMAIN q
         /\ \A i \in DOMAIN q : Append(q, e)[i] = q[i]
         /\ Append(q, e)[Len(q) + 1] = e
OBVIOUS

\* Closing secrets, ending sessions.
LEMMA Closing ==
  ASSUME issued \in Seq(Secret), NEW closed
  PROVE  LET q == CloseSecrets(closed)
         IN  /\ q \in Seq(Secret) /\ DOMAIN q = DOMAIN issued /\ Len(q) = Len(issued)
             /\ \A i \in DOMAIN issued :
                   /\ q[i].kind = issued[i].kind /\ q[i].pw = issued[i].pw /\ q[i].to = issued[i].to
                   /\ q[i].sent = issued[i].sent
                   /\ i \in closed => q[i].state = "closed"
                   /\ i \notin closed => q[i].state = issued[i].state
<1> DEFINE q == CloseSecrets(closed)
<1>1. \A s \in Secret : LET n == [s EXCEPT !.state = "closed"]
                        IN  n \in Secret /\ n.kind = s.kind /\ n.pw = s.pw /\ n.to = s.to
                            /\ n.sent = s.sent /\ n.state = "closed"
  BY DEF Secret
<1>2. \A i \in DOMAIN issued : issued[i] \in Secret
  OBVIOUS
<1>3. \A i \in DOMAIN issued :
         /\ i \in closed => q[i] = [issued[i] EXCEPT !.state = "closed"]
         /\ i \notin closed => q[i] = issued[i]
  BY DEF CloseSecrets
<1>4. q = [i \in DOMAIN issued |-> q[i]]
  BY DEF CloseSecrets
<1> HIDE DEF q
<1>5. \A i \in DOMAIN issued : q[i] \in Secret
  BY <1>1, <1>2, <1>3
<1>6. q \in Seq(Secret) /\ DOMAIN q = DOMAIN issued /\ Len(q) = Len(issued)
  BY <1>4, <1>5, Written
<1>7. ASSUME NEW i \in DOMAIN issued
      PROVE  /\ q[i].kind = issued[i].kind /\ q[i].pw = issued[i].pw /\ q[i].to = issued[i].to
             /\ q[i].sent = issued[i].sent
             /\ i \in closed => q[i].state = "closed"
             /\ i \notin closed => q[i].state = issued[i].state
  <2>1. CASE i \in closed
    <3>1. q[i] = [issued[i] EXCEPT !.state = "closed"] /\ issued[i] \in Secret
      BY <1>2, <1>3, <2>1
    <3> QED
      BY <1>1, <2>1, <3>1
  <2>2. CASE i \notin closed
    BY <1>3, <2>2
  <2> QED
    BY <2>1, <2>2
<1> QED
  BY <1>6, <1>7 DEF q

LEMMA Ending ==
  ASSUME sessions \in Seq(Session), NEW ended
  PROVE  LET q == EndSessions(ended)
         IN  /\ q \in Seq(Session) /\ DOMAIN q = DOMAIN sessions /\ Len(q) = Len(sessions)
             /\ \A s \in DOMAIN sessions : /\ q[s].pw = sessions[s].pw
                                           /\ q[s].open => sessions[s].open
<1> DEFINE q == EndSessions(ended)
<1>1. \A s \in Session : LET n == [s EXCEPT !.open = FALSE]
                         IN  n \in Session /\ n.pw = s.pw /\ ~n.open
  BY DEF Session
<1>2. \A s \in DOMAIN sessions : sessions[s] \in Session
  OBVIOUS
<1>3. \A s \in DOMAIN sessions :
         /\ s \in ended => q[s] = [sessions[s] EXCEPT !.open = FALSE]
         /\ s \notin ended => q[s] = sessions[s]
  BY DEF EndSessions
<1>4. q = [s \in DOMAIN sessions |-> q[s]]
  BY DEF EndSessions
<1> HIDE DEF q
<1>5. \A s \in DOMAIN sessions : q[s] \in Session /\ q[s].pw = sessions[s].pw
                                 /\ (q[s].open => sessions[s].open)
  BY <1>1, <1>2, <1>3
<1> QED
  BY <1>4, <1>5, Written DEF q

-----------------------------------------------------------------------------
(* What a step may do to the secrets                                       *)

\* One that opens none, forgets no mail and closes links only behind a later one.
LEMMA WritingFits ==
  ASSUME NEW q, NEW f, NEW pw \in Nat, NEW to \in Nat, AllFit(q, pw, to),
         f = [i \in DOMAIN q |-> f[i]], 
         \A i \in DOMAIN q :
            /\ f[i] \in Secret /\ f[i].kind = q[i].kind /\ f[i].pw = q[i].pw /\ f[i].to = q[i].to
            /\ q[i].sent => f[i].sent
            /\ f[i].state = "open" => q[i].state = "open"
            /\ f[i].state = "removed" => ~f[i].sent
            /\ f[i].kind = "link" /\ f[i].state = "closed"
                  => q[i].state = "closed" \/ Superseded(q, i)
  PROVE  AllFit(f, pw, to) /\ DOMAIN f = DOMAIN q
<1>1. f \in Seq(Secret) /\ DOMAIN f = DOMAIN q
  BY Written DEF AllFit
<1>2. \A i \in DOMAIN q : Superseded(q, i) => Superseded(f, i)
  BY <1>1 DEF Superseded
<1>3. ASSUME NEW i \in DOMAIN q
      PROVE  Fits(f, i, pw, to)
  BY <1>2 DEF AllFit, Fits
<1> QED
  BY <1>1, <1>3 DEF AllFit

\* A new one, of the credentials of now.
LEMMA AddingFits ==
  ASSUME NEW q, NEW e \in Secret, NEW pw \in Nat, NEW to \in Nat, AllFit(q, pw, to),
         e.pw = pw, e.kind = "link" => e.to = to, e.state = "open", ~e.sent
  PROVE  AllFit(Append(q, e), pw, to)
<1> DEFINE f == Append(q, e)
<1>1. /\ f \in Seq(Secret) /\ DOMAIN f = DOMAIN q \cup {Len(q) + 1}
      /\ \A i \in DOMAIN q : f[i] = q[i]
      /\ f[Len(q) + 1] = e
  BY Grown DEF AllFit
<1> HIDE DEF f
<1>2. \A i \in DOMAIN q : Superseded(q, i) => Superseded(f, i)
  BY <1>1 DEF Superseded
<1>3. ASSUME NEW i \in DOMAIN f
      PROVE  Fits(f, i, pw, to)
  <2>1. CASE i \in DOMAIN q
    BY <1>1, <1>2, <2>1 DEF AllFit, Fits
  <2>2. CASE i = Len(q) + 1
    BY <1>1, <2>2 DEF Fits
  <2> QED
    BY <1>1, <2>1, <2>2
<1> QED
  BY <1>1, <1>3 DEF AllFit, f

\* Another password, or another address: nothing of before can be used.
LEMMA RenewingFits ==
  ASSUME AccountOK, SecretsOK, NEW pw \in Nat, NEW to \in Nat, pw >= password, to >= email,
         pw # password \/ to # email
  PROVE  AllFit(CloseSecrets(OpenSecrets(Kinds)), pw, to)
<1> DEFINE q == CloseSecrets(OpenSecrets(Kinds))
<1>1. issued \in Seq(Secret) /\ \A i \in DOMAIN issued : issued[i] \in Secret
  BY DEF SecretsOK, AllFit
<1>2. /\ q \in Seq(Secret) /\ DOMAIN q = DOMAIN issued
      /\ \A i \in DOMAIN issued :
            /\ q[i].kind = issued[i].kind /\ q[i].pw = issued[i].pw /\ q[i].to = issued[i].to
            /\ q[i].sent = issued[i].sent
            /\ i \in OpenSecrets(Kinds) => q[i].state = "closed"
            /\ i \notin OpenSecrets(Kinds) => q[i].state = issued[i].state
  BY <1>1, Closing
<1> HIDE DEF q
<1>3. \A i \in DOMAIN issued : q[i].state # "open"
  BY <1>1, <1>2 DEF OpenSecrets, Secret
<1>4. \A i \in DOMAIN issued : Superseded(issued, i) => Superseded(q, i)
  BY <1>2 DEF Superseded
<1>5. \A i \in DOMAIN issued : issued[i].pw \in Nat /\ issued[i].to \in Nat
  BY <1>1 DEF Secret
<1>6. ASSUME NEW i \in DOMAIN issued
      PROVE  Fits(q, i, pw, to)
  <2>1. Fits(issued, i, password, email)
    BY DEF SecretsOK, AllFit
  <2>2. q[i].pw <= pw /\ (q[i].kind = "link" => q[i].to <= to)
    BY <1>2, <1>5, <2>1 DEF Fits, AccountOK
  <2>3. q[i].state = "removed" => ~q[i].sent
    BY <1>2, <2>1 DEF Fits
  <2>4. q[i].kind = "link" => ~(q[i].pw = pw /\ q[i].to = to)
    BY <1>2, <1>5, <2>1 DEF Fits, AccountOK
  <2> QED
    BY <1>3, <2>2, <2>3, <2>4 DEF Fits
<1> QED
  BY <1>2, <1>6 DEF AllFit, q

-----------------------------------------------------------------------------
(* What a step may do to the requests                                      *)

LEMMA AskingKeeps ==
  ASSUME SendersOK, NEW c \in Clients, NEW r, request' = [request EXCEPT ![c] = r],
         DOMAIN issued \subseteq DOMAIN issued',
         \A i \in DOMAIN issued :
            /\ issued[i].sent => issued'[i].sent
            /\ issued'[i].sent /\ ~issued[i].sent => Doing(c, "sending") /\ i = request[c].row
            /\ issued'[i].state = "removed" /\ issued[i].state # "removed"
                  => Doing(c, "sending") /\ i = request[c].row,
         r.op = "sending" => /\ r.row \in DOMAIN issued' \ DOMAIN issued
                             /\ ~issued'[r.row].sent /\ issued'[r.row].state # "removed",
         r.op = "closing" => r.row \in DOMAIN issued' /\ issued'[r.row].sent,
         r.op = "requestPin" => r.to \in Nat
  PROVE  SendersOK'
<1>1. /\ DOMAIN request' = Clients /\ request'[c] = r
      /\ \A d \in Clients \ {c} : request'[d] = request[d]
  BY DEF SendersOK
<1>2. ASSUME NEW d \in Clients, Doing(d, "sending")'
      PROVE  /\ request'[d].row \in DOMAIN issued'
             /\ ~issued'[request'[d].row].sent /\ issued'[request'[d].row].state # "removed"
             /\ \A e \in Clients \ {d} : Doing(e, "sending")' => request'[e].row # request'[d].row
  BY <1>1, <1>2 DEF SendersOK, Doing
<1>3. ASSUME NEW d \in Clients, Doing(d, "closing")'
      PROVE  request'[d].row \in DOMAIN issued' /\ issued'[request'[d].row].sent
  BY <1>1, <1>3 DEF SendersOK, Doing
<1>4. ASSUME NEW d \in Clients, Doing(d, "requestPin")'
      PROVE  request'[d].to \in Nat
  BY <1>1, <1>4 DEF SendersOK, Doing
<1> QED
  BY <1>1, <1>2, <1>3, <1>4 DEF SendersOK

\* A request that only looks, or ends; the rest of a step may be about the account.
LEMMA LookingKeeps ==
  ASSUME SendersOK, NEW c \in Clients, NEW r, request' = [request EXCEPT ![c] = r],
         r.op \notin {"sending", "closing"}, r.op = "requestPin" => r.to \in Nat,
         issued' = issued
  PROVE  SendersOK'
BY AskingKeeps

-----------------------------------------------------------------------------
(* Steps that look, and steps about sessions and failures                  *)

\* What the account, its sessions and its secrets are like does not change.
LEMMA NothingWritten ==
  ASSUME AccountInv, NEW c \in Clients, NEW r, request' = [request EXCEPT ![c] = r],
         r.op \notin {"sending", "closing"}, r.op = "requestPin" => r.to \in Nat,
         UNCHANGED <<credentials, sessions, issued>>
  PROVE  AccountInv'
<1>1. AccountOK' /\ SessionsOK' /\ SecretsOK'
  BY DEF AccountInv, AccountOK, SessionsOK, SecretsOK, credentials
<1>2. SendersOK'
  BY LookingKeeps DEF AccountInv
<1> QED
  BY <1>1, <1>2 DEF AccountInv

LEMMA ReadingKeeps ==
  ASSUME AccountInv, NEW c \in Clients,
         \/ Login(c) \/ Refresh(c) \/ RequestPin(c) \/ MatchedPinOnly(c)
         \/ \E kind \in {"pin", "emailPin"} : EnterPin(c, kind)
         \/ AskEmailChange(c) \/ OpenLink(c) \/ AskPasswordChange(c) \/ Abandon(c)
  PROVE  AccountInv'
<1>1. CASE Login(c) \/ Refresh(c) \/ RequestPin(c)
  BY <1>1, NothingWritten DEF Login, Refresh, RequestPin, Ask, AccountInv, AccountOK
<1>2. CASE MatchedPinOnly(c) \/ Abandon(c)
  BY <1>2, NothingWritten DEF MatchedPinOnly, Abandon, Answer, Idle
<1>3. CASE \E kind \in {"pin", "emailPin"} : EnterPin(c, kind)
  BY <1>3, NothingWritten DEF EnterPin, Ask
<1>4. CASE AskEmailChange(c) \/ OpenLink(c) \/ AskPasswordChange(c)
  BY <1>4, NothingWritten DEF AskEmailChange, OpenLink, AskPasswordChange, Ask
<1> QED
  BY <1>1, <1>2, <1>3, <1>4

\* A new session stands on the present password.
LEMMA IssuingKeeps ==
  ASSUME AccountOK, SessionsOK, IssueSession, password' = password
  PROVE  SessionsOK'
<1>1. PICK replaced \in {{}} \cup {{s} : s \in OpenSessions} :
         sessions' = Append(EndSessions(replaced), [open |-> TRUE, pw |-> password])
  BY DEF IssueSession
<1> DEFINE q == EndSessions(replaced)
           e == [open |-> TRUE, pw |-> password]
<1>2. /\ q \in Seq(Session) /\ DOMAIN q = DOMAIN sessions
      /\ \A s \in DOMAIN sessions : q[s].pw = sessions[s].pw /\ (q[s].open => sessions[s].open)
  BY Ending DEF SessionsOK
<1>3. e \in Session /\ e.pw = password
  BY DEF Session, AccountOK
<1> HIDE DEF q, e
<1>4. /\ sessions' \in Seq(Session) /\ DOMAIN sessions' = DOMAIN q \cup {Len(q) + 1}
      /\ \A i \in DOMAIN q : sessions'[i] = q[i]
      /\ sessions'[Len(q) + 1] = e
  BY <1>1, <1>2, <1>3, Grown DEF q, e
<1> QED
  BY <1>2, <1>3, <1>4 DEF SessionsOK

LEMMA CompletingKeeps ==
  ASSUME AccountInv, NEW c \in Clients, CompleteSuccess(c) \/ CountFailure(c)
  PROVE  AccountInv'
<1>1. /\ Answer(c) /\ UNCHANGED <<password, email, withdrawn, issued>>
      /\ MaxFailed \in Nat \ {0}
  BY SignInConstants DEF CompleteSuccess, CountFailure
<1>2. SendersOK' /\ SecretsOK'
  BY <1>1, LookingKeeps DEF AccountInv, Answer, Idle, SecretsOK
<1>3. CASE CompleteSuccess(c)
  <2>1. \/ UNCHANGED <<sessions, failed, lock>>
        \/ IssueSession /\ failed' = 0 /\ lock' = "none"
    BY <1>3 DEF CompleteSuccess
  <2>2. AccountOK'
    BY <1>1, <2>1 DEF AccountInv, AccountOK
  <2>3. SessionsOK'
    BY <1>1, <2>1, IssuingKeeps DEF AccountInv, SessionsOK
  <2> QED
    BY <1>2, <2>2, <2>3 DEF AccountInv
<1>4. CASE CountFailure(c)
  <2>1. SessionsOK'
    BY <1>1, <1>4 DEF CountFailure, AccountInv, SessionsOK
  <2> DEFINE previous == IF lock = "none" THEN failed ELSE 0
  <2>2. previous \in Nat /\ previous < MaxFailed
    BY <1>1 DEF AccountInv, AccountOK
  <2>3. \/ UNCHANGED <<failed, lock>>
        \/ /\ failed' = previous + 1
           /\ lock' = IF previous + 1 >= MaxFailed THEN "ahead" ELSE "none"
    BY <1>4 DEF CountFailure
  <2> HIDE DEF previous
  <2>4. AccountOK'
    BY <1>1, <2>2, <2>3 DEF AccountInv, AccountOK
  <2> QED
    BY <1>2, <2>1, <2>4 DEF AccountInv
<1> QED
  BY <1>3, <1>4

\* Pushing a session back does not open it, and one that ends stays as it is.
LEMMA ExtendTells ==
  ASSUME sessions \in Seq(Session), NEW c \in Clients, Extend(c) 
  PROVE  sessions' = sessions
<1>1. CASE sessions[request[c].sid].open /\ ~withdrawn
  <2>1. sessions' = [sessions EXCEPT ![request[c].sid].open = TRUE]
    BY <1>1 DEF Extend
  <2>2. \A s \in Session : s.open => [s EXCEPT !.open = TRUE] = s
    BY DEF Session
  <2>3. request[c].sid \in DOMAIN sessions => sessions[request[c].sid] \in Session
    OBVIOUS
  <2>4. request[c].sid \in DOMAIN sessions =>
           [sessions[request[c].sid] EXCEPT !.open = TRUE] = sessions[request[c].sid]
    BY <1>1, <2>2, <2>3
  <2> QED
    BY <2>1, <2>4
<1>2. CASE ~(sessions[request[c].sid].open /\ ~withdrawn)
  BY <1>2 DEF Extend
<1> QED
  BY <1>1, <1>2

LEMMA ExtendKeeps ==
  ASSUME AccountInv, NEW c \in Clients, Extend(c)
  PROVE  AccountInv'
<1>1. sessions' = sessions
  BY ExtendTells DEF AccountInv, SessionsOK
<1> QED
  BY <1>1, NothingWritten DEF Extend, Answer, Idle

LEMMA TimeKeeps ==
  ASSUME AccountInv, SessionEnds \/ LockPasses \/ Withdraw
  PROVE  AccountInv'
<1>1. password' = password /\ email' = email /\ issued' = issued /\ request' = request
  BY DEF SessionEnds, LockPasses, Withdraw, credentials
<1>2. SendersOK' /\ SecretsOK'
  BY <1>1 DEF AccountInv, SendersOK, SecretsOK, Doing
<1>3. AccountOK'
  BY <1>1 DEF AccountInv, AccountOK, SessionEnds, LockPasses, Withdraw, credentials
<1>4. SessionsOK'
  <2>1. CASE SessionEnds
    BY <1>1, <2>1, Ending DEF SessionEnds, AccountInv, SessionsOK
  <2>2. CASE LockPasses \/ Withdraw
    BY <1>1, <2>2 DEF LockPasses, Withdraw, AccountInv, SessionsOK
  <2> QED
    BY <2>1, <2>2
<1> QED
  BY <1>2, <1>3, <1>4 DEF AccountInv

-----------------------------------------------------------------------------
(* Steps about secrets                                                     *)

LEMMA NewSecretTells ==
  ASSUME AccountOK, NEW kind \in Kinds, NEW to \in Nat
  PROVE  LET e == NewSecret(kind, to)
         IN  /\ e \in Secret /\ e.kind = kind /\ e.state = "open"
             /\ e.pw = password /\ e.to = to /\ ~e.sent
<1>1. MaxTries \in Nat
  BY SignInConstants
<1> QED
  BY <1>1 DEF NewSecret, Secret, Ages, AccountOK

\* The rest of the account stands still while a secret is written.
LEMMA AccountStands ==
  ASSUME AccountInv, UNCHANGED <<credentials, sessions>>
  PROVE  AccountOK' /\ SessionsOK'
BY DEF AccountInv, AccountOK, SessionsOK, credentials

LEMMA IssuePinKeeps ==
  ASSUME AccountInv, NEW c \in Clients, IssuePin(c)
  PROVE  AccountInv'
<1>1. UNCHANGED <<credentials, sessions>> /\ request' = [request EXCEPT ![c] = Idle]
      /\ password' = password /\ email' = email /\ request[c].to \in Nat
  BY DEF IssuePin, Answer, credentials, AccountInv, SendersOK
<1>2. CASE issued' = issued
  BY <1>1, <1>2, NothingWritten DEF Idle
<1>3. CASE issued' = Append(CloseSecrets(OpenSecrets({"pin"})), NewSecret("pin", request[c].to))
  <2> DEFINE q == CloseSecrets(OpenSecrets({"pin"}))
             e == NewSecret("pin", request[c].to)
  <2>1. issued \in Seq(Secret) /\ AllFit(issued, password, email)
        /\ password \in Nat /\ email \in Nat
    BY DEF AccountInv, AccountOK, SecretsOK, AllFit
  <2>2. /\ q \in Seq(Secret) /\ DOMAIN q = DOMAIN issued
        /\ \A i \in DOMAIN issued :
              /\ q[i].kind = issued[i].kind /\ q[i].pw = issued[i].pw /\ q[i].to = issued[i].to
              /\ q[i].sent = issued[i].sent
              /\ i \in OpenSecrets({"pin"}) => q[i].state = "closed"
              /\ i \notin OpenSecrets({"pin"}) => q[i].state = issued[i].state
    BY <2>1, Closing
  <2>3. q = [i \in DOMAIN issued |-> q[i]]
    BY DEF CloseSecrets
  <2>4. e \in Secret /\ e.kind = "pin" /\ e.state = "open" /\ e.pw = password /\ ~e.sent
    BY <1>1, NewSecretTells DEF Kinds, AccountInv
  <2> HIDE DEF q, e
  <2>5. \A i \in OpenSecrets({"pin"}) : issued[i].kind = "pin"
    BY DEF OpenSecrets
  <2>6. ASSUME NEW i \in DOMAIN issued
        PROVE  /\ q[i] \in Secret
               /\ issued[i].sent => q[i].sent
               /\ q[i].state = "open" => issued[i].state = "open"
               /\ q[i].state = "removed" => ~q[i].sent
               /\ q[i].kind = "link" /\ q[i].state = "closed" => issued[i].state = "closed"
    BY <2>1, <2>2, <2>5 DEF AllFit, Fits
  <2>7. AllFit(q, password, email)
    BY <2>1, <2>2, <2>3, <2>6, WritingFits
  <2>8. AllFit(Append(q, e), password, email)
    BY <2>1, <2>4, <2>7, AddingFits
  <2>9. issued' = Append(q, e)
    BY <1>3 DEF q, e
  <2>10. SecretsOK'
    BY <1>1, <2>8, <2>9 DEF SecretsOK
  <2>11. /\ DOMAIN issued \subseteq DOMAIN issued'
         /\ \A i \in DOMAIN issued : issued'[i] = q[i]
    BY <2>2, <2>4, <2>9, Grown
  <2>12. \A i \in DOMAIN issued :
            /\ issued'[i].sent = issued[i].sent
            /\ issued'[i].state = "removed" => issued[i].state = "removed"
    BY <2>2, <2>11
  <2>13. Idle.op = "idle"
    BY DEF Idle
  <2>14. SendersOK'
    BY <1>1, <2>11, <2>12, <2>13, AskingKeeps DEF AccountInv
  <2> QED
    BY <1>1, <2>10, <2>14, AccountStands DEF AccountInv
<1> QED
  BY <1>2, <1>3 DEF IssuePin

\* A link, or the PIN of an e-mail change, is stored before it is mailed.
LEMMA StoringKeeps ==
  ASSUME AccountInv, NEW c \in Clients, NEW kind \in {"link", "emailPin"}, NEW to \in Nat,
         kind = "link" => to = email, UNCHANGED <<credentials, sessions>>,
         issued' = Append(issued, NewSecret(kind, to)),
         request' = [request EXCEPT ![c] = [op |-> "sending", row |-> Len(issued) + 1]]
  PROVE  AccountInv'
<1> DEFINE e == NewSecret(kind, to)
           r == [op |-> "sending", row |-> Len(issued) + 1]
<1>1. issued \in Seq(Secret) /\ AllFit(issued, password, email)
      /\ password \in Nat /\ email \in Nat /\ password' = password /\ email' = email
  BY DEF AccountInv, AccountOK, SecretsOK, AllFit, credentials
<1>2. e \in Secret /\ e.kind = kind /\ e.state = "open" /\ e.pw = password /\ e.to = to /\ ~e.sent
  BY NewSecretTells DEF Kinds, AccountInv
<1> HIDE DEF e
<1>3. /\ issued' = Append(issued, e)
      /\ DOMAIN issued' = DOMAIN issued \cup {Len(issued) + 1} /\ Len(issued) + 1 \notin DOMAIN issued
      /\ \A i \in DOMAIN issued : issued'[i] = issued[i]
      /\ issued'[Len(issued) + 1] = e
  BY <1>1, <1>2, Grown DEF e
<1>4. SecretsOK'
  BY <1>1, <1>2, <1>3, AddingFits DEF SecretsOK
<1>5. SendersOK'
  <2>1. r.op = "sending" /\ r.row = Len(issued) + 1 /\ request' = [request EXCEPT ![c] = r]
    OBVIOUS
  <2> HIDE DEF r
  <2>2. /\ r.row \in DOMAIN issued' \ DOMAIN issued
        /\ ~issued'[r.row].sent /\ issued'[r.row].state # "removed"
    BY <1>2, <1>3, <2>1
  <2>3. /\ DOMAIN issued \subseteq DOMAIN issued'
        /\ \A i \in DOMAIN issued :
              /\ issued'[i].sent = issued[i].sent
              /\ issued'[i].state = "removed" => issued[i].state = "removed"
    BY <1>3
  <2>4. SendersOK /\ r.op # "closing" /\ r.op # "requestPin"
    BY <2>1 DEF AccountInv
  <2> QED
    BY ONLY <2>1, <2>2, <2>3, <2>4, AskingKeeps, c \in Clients
<1> QED
  BY <1>4, <1>5, AccountStands DEF AccountInv

LEMMA IssuingSecretsKeeps ==
  ASSUME AccountInv, NEW c \in Clients, IssueLink(c) \/ IssueEmailPin(c)
  PROVE  AccountInv'
<1>1. email \in Nat /\ email + 1 \in Nat
  BY DEF AccountInv, AccountOK
<1>2. CASE IssueLink(c)
  BY <1>1, <1>2, StoringKeeps DEF IssueLink, Ask
<1>3. CASE IssueEmailPin(c)
  BY <1>1, <1>3, StoringKeeps DEF IssueEmailPin, Continue
<1> QED
  BY <1>2, <1>3

\* A secret that is there is written: its row, and no other.
LEMMA RowWritten ==
  ASSUME AccountInv, NEW row, NEW e, issued' = [issued EXCEPT ![row] = e],
         UNCHANGED <<credentials, sessions>>,
         row \in DOMAIN issued =>
            /\ e \in Secret /\ e.kind = issued[row].kind
            /\ e.pw = issued[row].pw /\ e.to = issued[row].to
            /\ issued[row].sent => e.sent
            /\ e.state = issued[row].state \/ e.state = "removed"
            /\ e.state = "removed" => ~e.sent
  PROVE  /\ AccountOK' /\ SessionsOK' /\ SecretsOK' /\ DOMAIN issued' = DOMAIN issued
         /\ \A i \in DOMAIN issued \ {row} : issued'[i] = issued[i]
         /\ row \in DOMAIN issued => issued'[row] = e
<1>1. AllFit(issued, password, email) /\ issued \in Seq(Secret)
      /\ password \in Nat /\ email \in Nat /\ password' = password /\ email' = email
  BY DEF AccountInv, AccountOK, SecretsOK, AllFit, credentials
<1>2. /\ \A i \in DOMAIN issued \ {row} : issued'[i] = issued[i]
      /\ row \in DOMAIN issued => issued'[row] = e
      /\ issued' = [i \in DOMAIN issued |-> issued'[i]]
  OBVIOUS
<1>3. \A i \in DOMAIN issued : issued[i] \in Secret /\ (issued[i].state = "removed" => ~issued[i].sent)
  BY <1>1 DEF AllFit, Fits
<1>4. ASSUME NEW i \in DOMAIN issued
      PROVE  /\ issued'[i] \in Secret /\ issued'[i].kind = issued[i].kind
             /\ issued'[i].pw = issued[i].pw /\ issued'[i].to = issued[i].to
             /\ issued[i].sent => issued'[i].sent
             /\ issued'[i].state = "open" => issued[i].state = "open"
             /\ issued'[i].state = "removed" => ~issued'[i].sent
             /\ issued'[i].state = "closed" => issued[i].state = "closed"
  <2>1. CASE i = row
    BY <1>2, <2>1
  <2>2. CASE i # row
    BY <1>2, <1>3, <2>2
  <2> QED
    BY <2>1, <2>2
<1>5. AllFit(issued', password, email) /\ DOMAIN issued' = DOMAIN issued
  BY <1>1, <1>2, <1>4, WritingFits
<1> QED
  BY <1>1, <1>2, <1>5, AccountStands DEF SecretsOK

LEMMA CountWrongPinKeeps ==
  ASSUME AccountInv, NEW c \in Clients, CountWrongPin(c)
  PROVE  AccountInv'
<1>1. UNCHANGED <<credentials, sessions>> /\ request' = [request EXCEPT ![c] = Idle]
  BY DEF CountWrongPin, Answer
<1> DEFINE row == request[c].row
           e == [issued[row] EXCEPT !.tries = @ + 1]
<1>2. CASE ~StillThePin(c)
  <2>1. issued' = issued
    BY <1>2 DEF CountWrongPin
  <2> QED
    BY <1>1, <2>1, NothingWritten DEF Idle
<1>3. CASE StillThePin(c)
  <2>1. issued' = [issued EXCEPT ![row] = e]
    BY <1>3 DEF CountWrongPin
  <2>2. row \in DOMAIN issued =>
           issued[row] \in Secret /\ (issued[row].state = "removed" => ~issued[row].sent)
    BY DEF AccountInv, SecretsOK, AllFit, Fits
  <2>3. issued[row].tries < MaxTries /\ MaxTries \in Nat
    BY <1>3, SignInConstants DEF StillThePin, Usable
  <2>4. row \in DOMAIN issued =>
            /\ e \in Secret /\ e.kind = issued[row].kind
            /\ e.pw = issued[row].pw /\ e.to = issued[row].to
            /\ e.sent = issued[row].sent /\ e.state = issued[row].state
    BY <2>2, <2>3 DEF Secret
  <2> HIDE DEF e
  <2>5. /\ AccountOK' /\ SessionsOK' /\ SecretsOK' /\ DOMAIN issued' = DOMAIN issued
        /\ \A i \in DOMAIN issued \ {row} : issued'[i] = issued[i]
        /\ row \in DOMAIN issued => issued'[row] = e
    BY <1>1, <2>1, <2>2, <2>4, RowWritten
  <2>6. /\ DOMAIN issued \subseteq DOMAIN issued'
        /\ \A i \in DOMAIN issued :
              /\ issued'[i].sent = issued[i].sent
              /\ issued'[i].state = "removed" => issued[i].state = "removed"
    BY <2>4, <2>5
  <2>7. SendersOK /\ Idle.op = "idle"
    BY DEF AccountInv, Idle
  <2>8. SendersOK'
    BY ONLY <1>1, <2>6, <2>7, AskingKeeps, c \in Clients
  <2> QED
    BY <2>5, <2>8 DEF AccountInv
<1> QED
  BY <1>2, <1>3

\* The mail is out, or was refused: the row of the request that sent it.
LEMMA SendingKeeps ==
  ASSUME AccountInv, NEW c \in Clients, Sent(c) \/ NotSent(c)
  PROVE  AccountInv'
<1> DEFINE row == request[c].row
           mailed == [issued[row] EXCEPT !.sent = TRUE]
           removed == [issued[row] EXCEPT !.state = "removed"]
           r == [op |-> "closing", row |-> row]
<1>1. UNCHANGED <<credentials, sessions>> /\ Doing(c, "sending")
  BY DEF Sent, NotSent
<1>2. row \in DOMAIN issued /\ ~issued[row].sent /\ issued[row].state # "removed"
      /\ SendersOK /\ issued[row] \in Secret
  BY <1>1 DEF AccountInv, SendersOK, SecretsOK, AllFit
<1>3. CASE Sent(c)
  <2>1. issued' = [issued EXCEPT ![row] = mailed] /\ request' = [request EXCEPT ![c] = r]
    BY <1>3 DEF Sent, Continue
  <2>2. /\ mailed \in Secret /\ mailed.kind = issued[row].kind /\ mailed.pw = issued[row].pw
        /\ mailed.to = issued[row].to /\ mailed.sent /\ mailed.state = issued[row].state
    BY <1>2 DEF Secret
  <2> HIDE DEF mailed
  <2>3. /\ AccountOK' /\ SessionsOK' /\ SecretsOK' /\ DOMAIN issued' = DOMAIN issued
        /\ \A i \in DOMAIN issued \ {row} : issued'[i] = issued[i]
        /\ issued'[row] = mailed
    BY <1>1, <1>2, <2>1, <2>2, RowWritten
  <2>4. r.op = "closing" /\ r.row = row
    OBVIOUS
  <2> HIDE DEF r
  <2>5. r.row \in DOMAIN issued' /\ issued'[r.row].sent
    BY <1>2, <2>2, <2>3, <2>4
  <2>6. /\ DOMAIN issued \subseteq DOMAIN issued'
        /\ \A i \in DOMAIN issued :
              /\ issued[i].sent => issued'[i].sent
              /\ issued'[i].sent /\ ~issued[i].sent => i = request[c].row
              /\ issued'[i].state = "removed" => issued[i].state = "removed"
    BY <1>2, <2>2, <2>3
  <2>7. SendersOK'
    BY ONLY <1>1, <1>2, <2>1, <2>4, <2>5, <2>6, AskingKeeps, c \in Clients
  <2> QED
    BY <2>3, <2>7 DEF AccountInv
<1>4. CASE NotSent(c)
  <2>1. issued' = [issued EXCEPT ![row] = removed] /\ request' = [request EXCEPT ![c] = Idle]
    BY <1>4 DEF NotSent, Answer
  <2>2. /\ removed \in Secret /\ removed.kind = issued[row].kind /\ removed.pw = issued[row].pw
        /\ removed.to = issued[row].to /\ ~removed.sent /\ removed.state = "removed"
    BY <1>2 DEF Secret
  <2> HIDE DEF removed
  <2>3. /\ AccountOK' /\ SessionsOK' /\ SecretsOK' /\ DOMAIN issued' = DOMAIN issued
        /\ \A i \in DOMAIN issued \ {row} : issued'[i] = issued[i]
        /\ issued'[row] = removed
    BY <1>1, <1>2, <2>1, <2>2, RowWritten
  <2>4. Idle.op = "idle"
    BY DEF Idle
  <2>5. /\ DOMAIN issued \subseteq DOMAIN issued'
        /\ \A i \in DOMAIN issued :
              /\ issued[i].sent => issued'[i].sent
              /\ issued'[i].sent => issued[i].sent
              /\ issued'[i].state = "removed" /\ issued[i].state # "removed" => i = request[c].row
    BY <1>2, <2>2, <2>3
  <2>6. SendersOK'
    BY ONLY <1>1, <1>2, <2>1, <2>4, <2>5, AskingKeeps, c \in Clients
  <2> QED
    BY <2>3, <2>6 DEF AccountInv
<1> QED
  BY <1>3, <1>4

LEMMA AgeingKeeps ==
  ASSUME AccountInv, NEW i \in DOMAIN issued, Ageing(i)
  PROVE  AccountInv'
<1> DEFINE e == [issued[i] EXCEPT !.age = Older(@)]
<1>1. /\ UNCHANGED <<credentials, sessions>> /\ request' = request
      /\ issued' = [issued EXCEPT ![i] = e]
  BY DEF Ageing
<1>2. issued[i] \in Secret /\ (issued[i].state = "removed" => ~issued[i].sent)
  BY DEF AccountInv, SecretsOK, AllFit, Fits
<1>3. Older(issued[i].age) \in Ages
  BY <1>2 DEF Older, Ages, Secret
<1>4. /\ e \in Secret /\ e.kind = issued[i].kind /\ e.pw = issued[i].pw /\ e.to = issued[i].to
      /\ e.sent = issued[i].sent /\ e.state = issued[i].state
  BY <1>2, <1>3 DEF Secret
<1> HIDE DEF e
<1>5. /\ AccountOK' /\ SessionsOK' /\ SecretsOK' /\ DOMAIN issued' = DOMAIN issued
      /\ \A j \in DOMAIN issued \ {i} : issued'[j] = issued[j]
      /\ issued'[i] = e
  BY <1>1, <1>2, <1>4, RowWritten
<1>6. \A j \in DOMAIN issued : issued'[j].sent = issued[j].sent /\ issued'[j].state = issued[j].state
  BY <1>4, <1>5
<1>7. SendersOK'
  BY <1>1, <1>5, <1>6 DEF AccountInv, SendersOK, Doing
<1> QED
  BY <1>5, <1>7 DEF AccountInv

\* Once a secret is out the earlier ones are closed: a link only by a later link.
LEMMA CloseEarlierKeeps ==
  ASSUME AccountInv, NEW c \in Clients, CloseEarlier(c)
  PROVE  AccountInv'
<1> DEFINE row == request[c].row
           kinds == IF issued[row].kind = "link" THEN {"link", "pin"} ELSE {"emailPin"}
           closed == {i \in OpenSecrets(kinds) : i < row}
           q == CloseSecrets(closed)
<1>1. /\ UNCHANGED <<credentials, sessions>> /\ request' = [request EXCEPT ![c] = Idle]
      /\ issued' = q /\ Doing(c, "closing") /\ password' = password /\ email' = email
  BY DEF CloseEarlier, Answer, credentials
<1>2. /\ row \in DOMAIN issued /\ issued[row].sent /\ SendersOK
      /\ issued \in Seq(Secret) /\ AllFit(issued, password, email)
      /\ password \in Nat /\ email \in Nat
  BY <1>1 DEF AccountInv, AccountOK, SendersOK, SecretsOK, AllFit
<1>3. \A i \in closed : issued[i].kind \in kinds /\ i < row
  BY DEF OpenSecrets
<1>4. \A i \in closed : issued[i].kind = "link" => Superseded(issued, i)
  BY <1>2, <1>3 DEF Superseded
<1> HIDE DEF closed
<1>5. /\ q \in Seq(Secret) /\ DOMAIN q = DOMAIN issued
      /\ \A i \in DOMAIN issued :
            /\ q[i].kind = issued[i].kind /\ q[i].pw = issued[i].pw /\ q[i].to = issued[i].to
            /\ q[i].sent = issued[i].sent
            /\ i \in closed => q[i].state = "closed"
            /\ i \notin closed => q[i].state = issued[i].state
  BY <1>2, Closing
<1>6. q = [i \in DOMAIN issued |-> q[i]]
  BY DEF CloseSecrets
<1> HIDE DEF q
<1>7. ASSUME NEW i \in DOMAIN issued
      PROVE  /\ q[i] \in Secret
             /\ issued[i].sent => q[i].sent
             /\ q[i].state = "open" => issued[i].state = "open"
             /\ q[i].state = "removed" => ~q[i].sent
             /\ q[i].kind = "link" /\ q[i].state = "closed"
                   => issued[i].state = "closed" \/ Superseded(issued, i)
  BY <1>2, <1>4, <1>5 DEF AllFit, Fits
<1>8. SecretsOK'
  BY <1>1, <1>2, <1>5, <1>6, <1>7, WritingFits DEF SecretsOK
<1>9. /\ DOMAIN issued \subseteq DOMAIN issued'
      /\ \A i \in DOMAIN issued :
            /\ issued'[i].sent = issued[i].sent
            /\ issued'[i].state = "removed" => issued[i].state = "removed"
  BY <1>1, <1>5
<1>10. Idle.op = "idle"
  BY DEF Idle
<1>11. SendersOK'
  BY ONLY <1>1, <1>2, <1>9, <1>10, AskingKeeps, c \in Clients
<1> QED
  BY <1>1, <1>8, <1>11, AccountStands DEF AccountInv

-----------------------------------------------------------------------------
(* Steps about the credentials                                             *)

\* All secrets are closed; what is being mailed goes on being mailed.
LEMMA RenewingKeeps ==
  ASSUME AccountInv, NEW c \in Clients, request' = [request EXCEPT ![c] = Idle],
         issued' = CloseSecrets(OpenSecrets(Kinds)),
         password' \in Nat, email' \in Nat, password' >= password, email' >= email,
         password' # password \/ email' # email
  PROVE  SecretsOK' /\ SendersOK'
<1>1. issued \in Seq(Secret) /\ SendersOK
  BY DEF AccountInv, SecretsOK, AllFit
<1>2. SecretsOK'
  BY RenewingFits DEF AccountInv, SecretsOK
<1>3. /\ DOMAIN issued' = DOMAIN issued
      /\ \A i \in DOMAIN issued :
            /\ issued'[i].sent = issued[i].sent
            /\ i \in OpenSecrets(Kinds) => issued'[i].state = "closed"
            /\ i \notin OpenSecrets(Kinds) => issued'[i].state = issued[i].state
  BY <1>1, Closing
<1>4. /\ DOMAIN issued \subseteq DOMAIN issued'
      /\ \A i \in DOMAIN issued :
            /\ issued'[i].sent = issued[i].sent
            /\ issued'[i].state = "removed" => issued[i].state = "removed"
  BY <1>3
<1>5. Idle.op = "idle" /\ request' = [request EXCEPT ![c] = Idle]
  BY DEF Idle
<1>6. SendersOK'
  BY ONLY <1>1, <1>4, <1>5, AskingKeeps, c \in Clients
<1> QED
  BY <1>2, <1>6

\* A new password leaves at most the session that asked for it, which stands on it.
LEMMA NewPasswordTells ==
  ASSUME AccountInv, NEW kept, ApplyNewPassword(kept)
  PROVE  /\ AccountOK' /\ SessionsOK' /\ DOMAIN sessions' = DOMAIN sessions
         /\ Len(sessions') = Len(sessions)
         /\ \A s \in DOMAIN sessions : sessions'[s].open => sessions[s].open
         /\ password' = password + 1 /\ password' \in Nat /\ email' = email /\ password \in Nat
         /\ email \in Nat /\ issued' = CloseSecrets(OpenSecrets(Kinds))
<1>1. /\ password \in Nat /\ email \in Nat /\ sessions \in Seq(Session)
      /\ MaxFailed \in Nat \ {0}
  BY SignInConstants DEF AccountInv, AccountOK, SessionsOK
<1>2. /\ password' = password + 1 /\ email' = email /\ withdrawn' = withdrawn
      /\ failed' = 0 /\ lock' = "none" /\ issued' = CloseSecrets(OpenSecrets(Kinds))
      /\ sessions' = [s \in DOMAIN sessions |->
                         IF s \in kept THEN [sessions[s] EXCEPT !.pw = password + 1]
                                       ELSE [sessions[s] EXCEPT !.open = FALSE]]
  BY DEF ApplyNewPassword
<1>3. AccountOK'
  BY <1>1, <1>2 DEF AccountInv, AccountOK
<1>4. ASSUME NEW s \in Session, NEW n \in Nat
      PROVE  /\ [s EXCEPT !.pw = n] \in Session /\ [s EXCEPT !.pw = n].pw = n
             /\ [s EXCEPT !.pw = n].open = s.open
             /\ [s EXCEPT !.open = FALSE] \in Session /\ [s EXCEPT !.open = FALSE].open = FALSE
  BY DEF Session
<1>5. ASSUME NEW s \in DOMAIN sessions
      PROVE  /\ sessions'[s] \in Session /\ (sessions'[s].open => sessions[s].open)
             /\ sessions'[s].open => sessions'[s].pw = password + 1
  <2>1. sessions[s] \in Session
    BY <1>1
  <2>2. CASE s \in kept
    <3>1. sessions'[s] = [sessions[s] EXCEPT !.pw = password + 1]
      BY <1>2, <2>2
    <3>2. password + 1 \in Nat
      BY <1>1
    <3>3. /\ [sessions[s] EXCEPT !.pw = password + 1] \in Session
          /\ [sessions[s] EXCEPT !.pw = password + 1].pw = password + 1
          /\ [sessions[s] EXCEPT !.pw = password + 1].open = sessions[s].open
      BY <1>4, <2>1, <3>2
    <3> QED
      BY <3>1, <3>3
  <2>3. CASE s \notin kept
    <3>1. sessions'[s] = [sessions[s] EXCEPT !.open = FALSE]
      BY <1>2, <2>3
    <3>2. [sessions[s] EXCEPT !.open = FALSE] \in Session
          /\ [sessions[s] EXCEPT !.open = FALSE].open = FALSE
      BY <1>1, <1>4, <2>1
    <3> QED
      BY <3>1, <3>2
  <2> QED
    BY <2>2, <2>3
<1>6. sessions' = [s \in DOMAIN sessions |-> sessions'[s]]
  BY <1>2
<1>7. sessions' \in Seq(Session) /\ Len(sessions') = Len(sessions)
      /\ DOMAIN sessions' = DOMAIN sessions
  BY <1>1, <1>5, <1>6, Written
<1> QED
  BY <1>1, <1>2, <1>3, <1>5, <1>7 DEF SessionsOK

LEMMA CredentialsKeep ==
  ASSUME AccountInv, NEW c \in Clients,
         ResetByPin(c) \/ ResetByLink(c) \/ ChangePassword(c) \/ ConfirmEmail(c)
  PROVE  AccountInv'
<1>1. request' = [request EXCEPT ![c] = Idle]
  BY DEF ResetByPin, ResetByLink, ChangePassword, ConfirmEmail, Answer
<1>2. CASE ResetByPin(c) \/ ResetByLink(c) \/ ChangePassword(c)
  <2>1. PICK kept : ApplyNewPassword(kept)
    BY <1>2 DEF ResetByPin, ResetByLink, ChangePassword
  <2>2. /\ AccountOK' /\ SessionsOK' /\ password' = password + 1 /\ password \in Nat
        /\ email' = email /\ email \in Nat /\ issued' = CloseSecrets(OpenSecrets(Kinds))
    BY <2>1, NewPasswordTells
  <2>3. /\ password' \in Nat /\ email' \in Nat /\ password' >= password /\ email' >= email
        /\ password' # password
    BY <2>2
  <2>4. SecretsOK' /\ SendersOK'
    BY <1>1, <2>2, <2>3, RenewingKeeps
  <2> QED
    BY <2>2, <2>4 DEF AccountInv
<1>3. CASE ConfirmEmail(c)
  <2>1. /\ email' = email + 1 /\ issued' = CloseSecrets(OpenSecrets(Kinds))
        /\ UNCHANGED <<password, failed, lock, withdrawn, sessions>>
    BY <1>3 DEF ConfirmEmail
  <2>2. password \in Nat /\ email \in Nat /\ password' = password
    BY <2>1 DEF AccountInv, AccountOK
  <2>3. AccountOK' /\ SessionsOK'
    BY <2>1, <2>2 DEF AccountInv, AccountOK, SessionsOK
  <2>4. /\ password' \in Nat /\ email' \in Nat /\ password' >= password /\ email' >= email
        /\ email' # email
    BY <2>1, <2>2
  <2>5. SecretsOK' /\ SendersOK'
    BY <1>1, <2>1, <2>4, RenewingKeeps
  <2> QED
    BY <2>3, <2>5 DEF AccountInv
<1> QED
  BY <1>2, <1>3

-----------------------------------------------------------------------------
(* The theorems                                                            *)

LEMMA AccountInvInit == Init => AccountInv
<1> SUFFICES ASSUME Init PROVE AccountInv
  OBVIOUS
<1>1. AccountOK
  <2>1. MaxFailed \in Nat /\ MaxFailed # 0
    BY SignInConstants
  <2>2. withdrawn \in BOOLEAN /\ lock \in {"none", "ahead", "passed"}
    BY DEF Init
  <2>3. password \in Nat /\ email \in Nat /\ failed \in 0..MaxFailed /\ failed < MaxFailed
    BY <2>1 DEF Init
  <2> QED
    BY <2>2, <2>3 DEF AccountOK
<1>2. SessionsOK /\ SecretsOK
  BY DEF Init, SessionsOK, SecretsOK, AllFit
<1>3. SendersOK
  <2>1. Idle.op = "idle"
    BY DEF Idle
  <2> QED
    BY <2>1 DEF Init, SendersOK, Doing
<1> QED
  BY <1>1, <1>2, <1>3 DEF AccountInv

LEMMA AccountInvNext == AccountInv /\ [Next]_vars => AccountInv'
<1> SUFFICES ASSUME AccountInv, [Next]_vars PROVE AccountInv'
  OBVIOUS
<1>1. CASE UNCHANGED vars
  BY <1>1 DEF vars, AccountInv, AccountOK, SessionsOK, SecretsOK, SendersOK, Doing
<1>2. CASE SessionEnds \/ LockPasses \/ Withdraw
  BY <1>2, TimeKeeps
<1>3. CASE \E i \in DOMAIN issued : Ageing(i)
  BY <1>3, AgeingKeeps
<1>4. ASSUME NEW c \in Clients, Requests(c)
      PROVE  AccountInv'
  BY <1>4, ReadingKeeps, CompletingKeeps, ExtendKeeps, IssuePinKeeps, CountWrongPinKeeps,
     IssuingSecretsKeeps, SendingKeeps, CloseEarlierKeeps, CredentialsKeep DEF Requests
<1> QED
  BY <1>1, <1>2, <1>3, <1>4 DEF Next

\* Whatever is under way at once: sessions and secrets that are open are of the present
\* credentials, and a link that is closed although they have not changed since was closed
\* behind a later one that is out.
THEOREM AccountInvariant == Spec => []AccountInv
<1>1. AccountInv /\ [Next]_vars => AccountInv'
  BY AccountInvNext
<1> QED
  BY <1>1, AccountInvInit, PTL DEF Spec

\* Every request finds the account's columns, sessions and secrets well-formed: neither
\* the failed sign-ins nor the wrong guesses of a PIN are ever counted beyond their limits.
THEOREM TypeCorrect == Spec => []TypeOK
<1>1. AccountInv => TypeOK
  BY DEF AccountInv, AccountOK, SessionsOK, SecretsOK, AllFit, SendersOK, TypeOK
<1> QED
  BY <1>1, AccountInvariant, PTL

\* No session and no secret that can still be used is of a former password, and no link of
\* a former address, whichever requests had read the account before it changed.
THEOREM OpenStaysCurrent == Spec => []OpenIsCurrent
<1>1. AccountInv => OpenIsCurrent
  BY DEF AccountInv, SessionsOK, SecretsOK, AllFit, Fits, OpenIsCurrent, OpenSessions, OpenSecrets
<1> QED
  BY <1>1, AccountInvariant, PTL

\* The newest link that was mailed works, until the account changes: neither a later issue
\* whose mail is refused nor an earlier one that ends late takes it away.
THEOREM SentLinksWork == Spec => []SentLinkWorks
<1>1. ASSUME AccountInv, NEW i \in DOMAIN issued, issued[i].kind = "link", issued[i].sent,
             issued[i].pw = password, issued[i].to = email, issued[i].state # "open"
      PROVE  \E j \in (i + 1)..Len(issued) : issued[j].kind = "link" /\ issued[j].sent
  <2>1. issued[i] \in Secret /\ Fits(issued, i, password, email)
    BY <1>1 DEF AccountInv, SecretsOK, AllFit
  <2>2. issued[i].state = "closed"
    BY <1>1, <2>1 DEF Fits, Secret
  <2>3. PICK j \in DOMAIN issued : j > i /\ issued[j].kind = "link" /\ issued[j].sent
    BY <1>1, <2>1, <2>2 DEF Fits, Superseded
  <2>4. j \in (i + 1)..Len(issued)
    BY <1>1, <2>3 DEF AccountInv, SecretsOK, AllFit
  <2> QED
    BY <2>3, <2>4
<1>2. AccountInv => SentLinkWorks
  BY <1>1 DEF SentLinkWorks
<1> QED
  BY <1>2, AccountInvariant, PTL

-----------------------------------------------------------------------------
(* What no step does                                                       *)

\* Requests that leave the account and its sessions alone.
LEMMA AccountUntouched ==
  ASSUME NEW c \in Clients,
         \/ Login(c) \/ Refresh(c) \/ RequestPin(c) \/ IssuePin(c) \/ CountWrongPin(c)
         \/ MatchedPinOnly(c) \/ \E kind \in {"pin", "emailPin"} : EnterPin(c, kind)
         \/ IssueLink(c) \/ AskEmailChange(c) \/ IssueEmailPin(c) \/ Sent(c) \/ NotSent(c)
         \/ CloseEarlier(c) \/ OpenLink(c) \/ AskPasswordChange(c) \/ Abandon(c)
  PROVE  UNCHANGED <<credentials, sessions>>
BY DEF Login, Refresh, RequestPin, IssuePin, CountWrongPin, MatchedPinOnly, EnterPin, IssueLink,
       AskEmailChange, IssueEmailPin, Sent, NotSent, CloseEarlier, OpenLink, AskPasswordChange,
       Abandon

LEMMA LockIsLeftByTime ==
  ASSUME AccountInv, [Next]_vars, lock = "ahead"
  PROVE  /\ lock' = "ahead" \/ lock' = "passed" \/ password' # password
         /\ Len(sessions') = Len(sessions)
<1>1. CASE UNCHANGED <<credentials, sessions>>
  BY <1>1 DEF credentials
<1>2. CASE UNCHANGED vars
  BY <1>2 DEF vars
<1>3. CASE SessionEnds
  <2>1. PICK s \in OpenSessions : sessions' = EndSessions({s})
    BY <1>3 DEF SessionEnds
  <2> QED
    BY <1>3, <2>1, Ending DEF SessionEnds, AccountInv, SessionsOK, credentials
<1>4. CASE LockPasses \/ Withdraw \/ \E i \in DOMAIN issued : Ageing(i)
  BY <1>4 DEF LockPasses, Withdraw, Ageing, credentials
<1>5. ASSUME NEW c \in Clients, CompleteSuccess(c) \/ CountFailure(c)
      PROVE  UNCHANGED <<lock, sessions>>
  BY <1>5 DEF CompleteSuccess, CountFailure
<1>6. ASSUME NEW c \in Clients, Extend(c)
      PROVE  UNCHANGED <<credentials, sessions>>
  BY <1>6, ExtendTells DEF AccountInv, SessionsOK, Extend
<1>7. ASSUME NEW c \in Clients, ResetByPin(c) \/ ResetByLink(c) \/ ChangePassword(c)
      PROVE  password' # password /\ Len(sessions') = Len(sessions)
  <2>1. PICK kept : ApplyNewPassword(kept)
    BY <1>7 DEF ResetByPin, ResetByLink, ChangePassword
  <2>2. password' = password + 1 /\ password \in Nat /\ Len(sessions') = Len(sessions)
    BY <2>1, NewPasswordTells
  <2> QED
    BY <2>2
<1>8. ASSUME NEW c \in Clients, ConfirmEmail(c)
      PROVE  UNCHANGED <<lock, sessions>>
  BY <1>8 DEF ConfirmEmail
<1> QED
  BY <1>1, <1>2, <1>3, <1>4, <1>5, <1>6, <1>7, <1>8, AccountUntouched DEF Next, Requests

LEMMA SessionsStayEnded ==
  ASSUME AccountInv, [Next]_vars, NEW s \in DOMAIN sessions, sessions'[s].open
  PROVE  sessions[s].open
<1>1. CASE UNCHANGED sessions
  BY <1>1
<1>2. CASE SessionEnds
  BY <1>2, Ending DEF SessionEnds, AccountInv, SessionsOK
<1>3. CASE UNCHANGED vars \/ LockPasses \/ Withdraw \/ \E i \in DOMAIN issued : Ageing(i)
  BY <1>3 DEF vars, LockPasses, Withdraw, Ageing
<1>4. CASE IssueSession
  <2>1. PICK replaced \in {{}} \cup {{r} : r \in OpenSessions} :
           sessions' = Append(EndSessions(replaced), [open |-> TRUE, pw |-> password])
    BY <1>4 DEF IssueSession
  <2> DEFINE q == EndSessions(replaced)
             e == [open |-> TRUE, pw |-> password]
  <2>2. /\ q \in Seq(Session) /\ DOMAIN q = DOMAIN sessions
        /\ \A r \in DOMAIN sessions : q[r].open => sessions[r].open
    BY Ending DEF AccountInv, SessionsOK
  <2>3. e \in Session
    BY DEF Session, AccountInv, AccountOK
  <2> HIDE DEF q, e
  <2>4. sessions'[s] = q[s]
    BY <2>1, <2>2, <2>3, Grown DEF q, e
  <2> QED
    BY <2>2, <2>4
<1>5. ASSUME NEW c \in Clients, CompleteSuccess(c) \/ CountFailure(c)
      PROVE  UNCHANGED sessions \/ IssueSession
  BY <1>5 DEF CompleteSuccess, CountFailure
<1>6. ASSUME NEW c \in Clients, Extend(c)
      PROVE  UNCHANGED sessions
  BY <1>6, ExtendTells DEF AccountInv, SessionsOK
<1>7. ASSUME NEW c \in Clients, ResetByPin(c) \/ ResetByLink(c) \/ ChangePassword(c)
      PROVE  sessions[s].open
  <2>1. PICK kept : ApplyNewPassword(kept)
    BY <1>7 DEF ResetByPin, ResetByLink, ChangePassword
  <2> QED
    BY <2>1, NewPasswordTells
<1>8. ASSUME NEW c \in Clients, ConfirmEmail(c)
      PROVE  UNCHANGED sessions
  BY <1>8 DEF ConfirmEmail
<1> QED
  BY <1>1, <1>2, <1>3, <1>4, <1>5, <1>6, <1>7, <1>8, AccountUntouched DEF Next, Requests

LEMMA SecretsStayClosed ==
  ASSUME AccountInv, [Next]_vars, NEW i \in DOMAIN issued, issued'[i].state = "open"
  PROVE  issued[i].state = "open"
<1>0. issued \in Seq(Secret) /\ \A j \in DOMAIN issued : issued[j] \in Secret
  BY DEF AccountInv, SecretsOK, AllFit
<1>1. CASE UNCHANGED issued
  BY <1>1
<1>2. ASSUME NEW closed, NEW e \in Secret, issued' = Append(CloseSecrets(closed), e)
      PROVE  issued[i].state = "open"
  BY <1>0, <1>2, Closing, Grown
<1>3. ASSUME NEW closed, issued' = CloseSecrets(closed)
      PROVE  issued[i].state = "open"
  BY <1>0, <1>3, Closing
<1>4. ASSUME NEW e \in Secret, issued' = Append(issued, e)
      PROVE  issued[i].state = "open"
  BY <1>0, <1>4, Grown
<1>5. CASE UNCHANGED vars \/ SessionEnds \/ LockPasses \/ Withdraw
  BY <1>5 DEF vars, SessionEnds, LockPasses, Withdraw
<1>6. ASSUME NEW j \in DOMAIN issued, Ageing(j)
      PROVE  issued[i].state = "open"
  BY <1>0, <1>6 DEF Ageing, Secret
<1>7. ASSUME NEW c \in Clients,
             \/ Login(c) \/ Refresh(c) \/ RequestPin(c) \/ MatchedPinOnly(c)
             \/ \E kind \in {"pin", "emailPin"} : EnterPin(c, kind)
             \/ AskEmailChange(c) \/ OpenLink(c) \/ AskPasswordChange(c) \/ Abandon(c)
             \/ CompleteSuccess(c) \/ CountFailure(c) \/ Extend(c)
      PROVE  UNCHANGED issued
  BY <1>7 DEF Login, Refresh, RequestPin, MatchedPinOnly, EnterPin, AskEmailChange, OpenLink,
              AskPasswordChange, Abandon, CompleteSuccess, CountFailure, Extend
<1>8. ASSUME NEW c \in Clients, IssuePin(c)
      PROVE  issued[i].state = "open"
  <2>1. CASE UNCHANGED issued
    BY <2>1
  <2>2. CASE issued' = Append(CloseSecrets(OpenSecrets({"pin"})), NewSecret("pin", request[c].to))
    <3>1. request[c].to \in Nat
      BY <1>8 DEF IssuePin, AccountInv, SendersOK
    <3>2. NewSecret("pin", request[c].to) \in Secret
      BY <3>1, NewSecretTells DEF AccountInv, Kinds
    <3> QED
      BY <1>2, <2>2, <3>2
  <2> QED
    BY <1>8, <2>1, <2>2 DEF IssuePin
<1>9. ASSUME NEW c \in Clients, IssueLink(c) \/ IssueEmailPin(c)
      PROVE  issued[i].state = "open"
  <2>1. email \in Nat /\ email + 1 \in Nat
    BY DEF AccountInv, AccountOK
  <2>2. NewSecret("link", email) \in Secret /\ NewSecret("emailPin", email + 1) \in Secret
    BY <2>1, NewSecretTells DEF AccountInv, Kinds
  <2> QED
    BY <1>4, <1>9, <2>2 DEF IssueLink, IssueEmailPin
<1>10. ASSUME NEW c \in Clients, CountWrongPin(c)
       PROVE  issued[i].state = "open"
  BY <1>0, <1>10 DEF CountWrongPin, Secret
<1>11. ASSUME NEW c \in Clients, Sent(c) \/ NotSent(c)
       PROVE  issued[i].state = "open"
  BY <1>0, <1>11 DEF Sent, NotSent, Secret
<1>12. ASSUME NEW c \in Clients,
              CloseEarlier(c) \/ ResetByPin(c) \/ ResetByLink(c) \/ ChangePassword(c)
              \/ ConfirmEmail(c)
       PROVE  \E closed : issued' = CloseSecrets(closed)
  BY <1>12 DEF CloseEarlier, ResetByPin, ResetByLink, ChangePassword, ConfirmEmail,
               ApplyNewPassword
<1> QED
  BY <1>1, <1>3, <1>5, <1>6, <1>7, <1>8, <1>9, <1>10, <1>11, <1>12 DEF Next, Requests

\* A lock set by wrong passwords is left by time or by a new password only, although a
\* sign-in that was verified before it comes to its end after it.
THEOREM LocksHold == Spec => LockHolds
<1>1. AccountInv /\ [Next]_vars =>
         [lock = "ahead" =>
            /\ lock' = "ahead" \/ lock' = "passed" \/ password' # password
            /\ Len(sessions') = Len(sessions)]_vars
  BY LockIsLeftByTime
<1> QED
  BY <1>1, AccountInvariant, PTL DEF Spec, LockHolds

\* No step brings back a session that has ended or a secret that was closed or removed:
\* neither a session read open and pushed back, nor a mail that is answered late.
THEOREM EndedStaysEnded == Spec => EndedForGood
<1>1. AccountInv /\ [Next]_vars =>
         [/\ \A s \in DOMAIN sessions : sessions'[s].open => sessions[s].open
          /\ \A i \in DOMAIN issued : issued'[i].state = "open" => issued[i].state = "open"]_vars
  BY SessionsStayEnded, SecretsStayClosed
<1> QED
  BY <1>1, AccountInvariant, PTL DEF Spec, EndedForGood

-----------------------------------------------------------------------------
(* The temporary passwords of an administrator                             *)

TempRow == [purpose: {"INITIAL", "RESET", "TEMPORARY"}, used: BOOLEAN, live: BOOLEAN,
            expired: BOOLEAN, sent: BOOLEAN, to: Nat]
\* A request that signs in by a password of its own has seen one; one that signs in
\* with, mails or marks a temporary password knows its row; it marks what is out.
CallHolds(r, q) ==
    /\ r.op = "own" => r.saw # Admin!Locked
    /\ r.op \in {"temporary", "mailing", "marking"} => r.row \in 1 .. Len(q)
    /\ r.op = "marking" => q[r.row].sent
CallsAre(f, q) == f = [c \in Callers |-> f[c]] /\ \A c \in Callers : CallHolds(f[c], q)

TempsInv ==
    /\ temps \in Seq(TempRow) /\ own \in Nat /\ unsent \in BOOLEAN /\ address \in Nat
    /\ CallsAre(call, temps) /\ Admin!LiveTemporaryIsMailedHere /\ Admin!SentMeansDelivered

\* Rows stay, are added, and are not unsent.
Later(q, n) ==
    /\ q \in Seq(TempRow) /\ n \in Seq(TempRow) /\ Len(q) <= Len(n)
    /\ \A i \in 1 .. Len(q) : q[i].sent => n[i].sent

LEMMA VoidTells ==
  ASSUME NEW S, temps \in Seq(TempRow)
  PROVE  /\ Admin!Void(S) \in Seq(TempRow) /\ Len(Admin!Void(S)) = Len(temps)
         /\ \A i \in 1 .. Len(temps) :
              /\ Admin!Void(S)[i].to = temps[i].to /\ Admin!Void(S)[i].sent = temps[i].sent
              /\ Admin!Void(S)[i].live => temps[i].live
              /\ i \in S => ~Admin!Void(S)[i].live
<1>1. \A i \in 1 .. Len(temps) : temps[i] \in TempRow
  OBVIOUS
<1>2. PICK v : v = Admin!Void(S)
  OBVIOUS
<1>3. v = [i \in 1 .. Len(temps) |->
             IF i \in S THEN [temps[i] EXCEPT !.live = FALSE] ELSE temps[i]]
  BY <1>2 DEF Admin!Void
<1>4. ASSUME NEW i \in 1 .. Len(temps)
      PROVE  /\ v[i] \in TempRow /\ v[i].to = temps[i].to /\ v[i].sent = temps[i].sent
             /\ v[i].live => temps[i].live
             /\ i \in S => ~v[i].live
  BY <1>1, <1>3, <1>4 DEF TempRow
<1>5. v \in Seq(TempRow) /\ Len(v) = Len(temps)
  BY <1>3, <1>4
<1> QED
  BY <1>2, <1>4, <1>5

LEMMA AddTells ==
  ASSUME NEW q \in Seq(TempRow), NEW t \in TempRow
  PROVE  /\ Append(q, t) \in Seq(TempRow) /\ Len(Append(q, t)) = Len(q) + 1
         /\ Append(q, t)[Len(q) + 1] = t
         /\ \A i \in 1 .. Len(q) : Append(q, t)[i] = q[i]
OBVIOUS

\* What one request knows next.
LEMMA CallSet ==
  ASSUME NEW c \in Callers, NEW r, NEW q, CallsAre(call, q), CallHolds(r, q),
         call' = [call EXCEPT ![c] = r]
  PROVE  CallsAre(call', q)
BY DEF CallsAre

\* What an action must show.
LEMMA TempsKeep ==
  ASSUME TempsInv, NEW n, temps' = n, Later(temps, n), CallsAre(call', n),
         own' \in Nat, unsent' \in BOOLEAN, address' \in Nat,
         \A i \in 1 .. Len(n) : n[i].live => n[i].to = address',
         own' = Admin!Locked /\ ~unsent' => \E i \in 1 .. Len(n) : n[i].live /\ n[i].sent
  PROVE  TempsInv'
<1>1. DOMAIN n = 1 .. Len(n) /\ n \in Seq(TempRow)
  BY DEF Later
<1> QED
  BY <1>1 DEF TempsInv, Admin!LiveTemporaryIsMailedHere, Admin!SentMeansDelivered

\* What an action may use.
LEMMA TempsInvTells ==
  ASSUME TempsInv
  PROVE  /\ temps \in Seq(TempRow) /\ own \in Nat /\ unsent \in BOOLEAN /\ address \in Nat
         /\ CallsAre(call, temps) /\ DOMAIN temps = 1 .. Len(temps)
         /\ \A i \in 1 .. Len(temps) : temps[i] \in TempRow
              /\ (temps[i].live => temps[i].to = address)
         /\ own = Admin!Locked /\ ~unsent =>
              \E i \in 1 .. Len(temps) : temps[i].live /\ temps[i].sent
         /\ Later(temps, temps)
BY DEF TempsInv, Admin!LiveTemporaryIsMailedHere, Admin!SentMeansDelivered, Later

\* A request that only reads, or ends, and leaves rows, password, mark and address.
LEMMA ReadingKeepsTemps ==
  ASSUME TempsInv, NEW c \in Callers, NEW r, CallHolds(r, temps), call' = [call EXCEPT ![c] = r],
         UNCHANGED <<own, unsent, address, temps>>
  PROVE  TempsInv'
<1>1. CallsAre(call', temps)
  BY TempsInvTells, CallSet
<1> QED
  BY <1>1, TempsInvTells, TempsKeep

LEMMA NothingKeepsTemps ==
  ASSUME TempsInv, UNCHANGED <<own, unsent, address, temps, call>>
  PROVE  TempsInv'
BY TempsInvTells, TempsKeep

LEMMA IdleHolds ==
  ASSUME NEW q
  PROVE  CallHolds(Admin!Idle, q)
BY DEF Admin!Idle, CallHolds

LEMMA LoginKeepsTemps ==
  ASSUME TempsInv, NEW c \in Callers, Admin!Login(c)
  PROVE  TempsInv'
<1>0. UNCHANGED <<own, unsent, address, temps>>
  BY DEF Admin!Login, Admin!flags
<1>1. CASE own # Admin!Locked /\ Admin!Ask(c, [op |-> "own", saw |-> own])
  <2>1. PICK r : r = [op |-> "own", saw |-> own]
    OBVIOUS
  <2>2. CallHolds(r, temps)
    BY <1>1, <2>1 DEF CallHolds
  <2> QED
    BY <1>0, <1>1, <2>1, <2>2, ReadingKeepsTemps DEF Admin!Ask
<1>2. ASSUME NEW i \in Admin!Live, Admin!Ask(c, [op |-> "temporary", row |-> i])
      PROVE  TempsInv'
  <2>1. PICK r : r = [op |-> "temporary", row |-> i]
    OBVIOUS
  <2>2. CallHolds(r, temps)
    BY <2>1, TempsInvTells DEF CallHolds, Admin!Live
  <2> QED
    BY <1>0, <1>2, <2>1, <2>2, ReadingKeepsTemps DEF Admin!Ask
<1>3. CASE Admin!Ask(c, [op |-> "wrong"])
  <2>1. PICK r : r = [op |-> "wrong"]
    OBVIOUS
  <2>2. CallHolds(r, temps)
    BY <2>1 DEF CallHolds
  <2> QED
    BY <1>0, <1>3, <2>1, <2>2, ReadingKeepsTemps DEF Admin!Ask
<1> QED
  BY <1>1, <1>2, <1>3 DEF Admin!Login

LEMMA SessionsKeepTemps ==
  ASSUME TempsInv, NEW c \in Callers, Admin!Refresh(c) \/ Admin!Extend(c)
         \/ Admin!CountFailure(c) \/ Admin!Abandon(c)
                                      \/ Admin!RequestTemporary(c)
  PROVE  TempsInv'
<1>0. UNCHANGED <<own, unsent, address, temps>>
  BY DEF Admin!Refresh, Admin!Extend, Admin!CountFailure, Admin!Abandon,
     Admin!RequestTemporary, Admin!flags
<1>1. ASSUME NEW r, r.op \in {"refresh", "requested"}, Admin!Ask(c, r)
      PROVE  TempsInv'
  <2>1. CallHolds(r, temps)
    BY <1>1 DEF CallHolds
  <2> QED
    BY <1>0, <1>1, <2>1, ReadingKeepsTemps DEF Admin!Ask
<1>2. CASE UNCHANGED call
  BY <1>0, <1>2, NothingKeepsTemps
<1>3. CASE Admin!Answer(c)
  BY <1>0, <1>3, IdleHolds, ReadingKeepsTemps DEF Admin!Answer
<1>4. CASE Admin!Refresh(c)
  <2>1. ASSUME NEW s, NEW i, Admin!Ask(c, [op |-> "refresh", sid |-> s, cap |-> i])
        PROVE  TempsInv'
    <3>1. PICK r : r = [op |-> "refresh", sid |-> s, cap |-> i]
      OBVIOUS
    <3> QED
      BY <1>1, <2>1, <3>1
  <2> QED
    BY <1>2, <1>4, <2>1 DEF Admin!Refresh
<1>5. CASE Admin!RequestTemporary(c)
  <2>1. PICK r : r = [op |-> "requested", to |-> address]
    OBVIOUS
  <2> QED
    BY <1>1, <1>5, <2>1 DEF Admin!RequestTemporary
<1> QED
  BY <1>3, <1>4, <1>5 DEF Admin!Extend, Admin!CountFailure, Admin!Abandon

LEMMA OwnSucceedsKeepsTemps ==
  ASSUME TempsInv, NEW c \in Callers, Admin!OwnSucceeds(c)
  PROVE  TempsInv'
<1>1. PICK n : n = Admin!Void({i \in Admin!OnRequest : ~temps[i].used})
  OBVIOUS
<1>2. temps' = n /\ own # Admin!Locked /\ UNCHANGED <<own, unsent, address>>
      /\ call' = [call EXCEPT ![c] = Admin!Idle]
  BY <1>1, TempsInvTells DEF Admin!OwnSucceeds, Admin!Doing, Admin!Answer, CallsAre, CallHolds
<1>a. /\ n \in Seq(TempRow) /\ Len(n) = Len(temps)
      /\ \A i \in 1 .. Len(temps) :
           /\ n[i].to = temps[i].to /\ n[i].sent = temps[i].sent /\ (n[i].live => temps[i].live)
  <2>1. temps \in Seq(TempRow)
    BY TempsInvTells
  <2> QED
    BY ONLY <1>1, <2>1, VoidTells
<1>3. Later(temps, n) /\ \A i \in 1 .. Len(n) : n[i].live => n[i].to = address
  BY <1>a, TempsInvTells DEF Later
<1>4. CallsAre(call, n)
  BY <1>3, TempsInvTells DEF Later, CallsAre, CallHolds
<1>5. CallsAre(call', n)
  BY <1>2, <1>4, IdleHolds, CallSet
<1> QED
  BY <1>2, <1>3, <1>5, TempsInvTells, TempsKeep

\* One row is used, expires or goes out.
LEMMA RowKeepsTemps ==
  ASSUME TempsInv, NEW n, temps' = n, n = [i \in 1 .. Len(temps) |-> n[i]],
         \A i \in 1 .. Len(temps) : /\ n[i] \in TempRow /\ n[i].live = temps[i].live
                                    /\ n[i].to = temps[i].to /\ (temps[i].sent => n[i].sent),
         UNCHANGED <<own, unsent, address>>, CallsAre(call', n)
  PROVE  TempsInv'
<1>1. n \in Seq(TempRow) /\ Len(n) = Len(temps)
  BY TempsInvTells
<1>2. Later(temps, n)
  BY <1>1, TempsInvTells DEF Later
<1>3. /\ \A i \in 1 .. Len(n) : n[i].live => n[i].to = address
      /\ own = Admin!Locked /\ ~unsent => \E i \in 1 .. Len(n) : n[i].live /\ n[i].sent
  BY <1>1, TempsInvTells
<1> QED
  BY <1>2, <1>3, TempsInvTells, TempsKeep

LEMMA TemporarySucceedsKeepsTemps ==
  ASSUME TempsInv, NEW c \in Callers, Admin!TemporarySucceeds(c)
  PROVE  TempsInv'
<1>1. PICK k, n : k = call[c].row /\ n = [temps EXCEPT ![k].used = TRUE]
  OBVIOUS
<1>2. temps' = n /\ UNCHANGED <<own, unsent, address>> /\ call' = [call EXCEPT ![c] = Admin!Idle]
  BY <1>1 DEF Admin!TemporarySucceeds, Admin!Answer
<1>3. n = [i \in 1 .. Len(temps) |-> n[i]]
  BY <1>1, TempsInvTells
<1>4. ASSUME NEW i \in 1 .. Len(temps)
      PROVE  /\ n[i] \in TempRow /\ n[i].live = temps[i].live /\ n[i].to = temps[i].to
             /\ n[i].sent = temps[i].sent
  BY <1>1, <1>4, TempsInvTells DEF TempRow
<1>5. CallsAre(call, n)
  BY <1>3, <1>4, TempsInvTells DEF CallsAre, CallHolds
<1> QED
  BY <1>2, <1>3, <1>4, <1>5, IdleHolds, CallSet, RowKeepsTemps

LEMMA TempExpiresKeepsTemps ==
  ASSUME TempsInv, Admin!TempExpires
  PROVE  TempsInv'
<1>1. PICK k, n : k \in DOMAIN temps /\ n = [temps EXCEPT ![k].expired = TRUE] /\ temps' = n
  BY DEF Admin!TempExpires
<1>2. UNCHANGED <<own, unsent, address, call>>
  BY DEF Admin!TempExpires, Admin!flags
<1>3. n = [i \in 1 .. Len(temps) |-> n[i]]
  BY <1>1, TempsInvTells
<1>4. ASSUME NEW i \in 1 .. Len(temps)
      PROVE  /\ n[i] \in TempRow /\ n[i].live = temps[i].live /\ n[i].to = temps[i].to
             /\ n[i].sent = temps[i].sent
  BY <1>1, <1>4, TempsInvTells DEF TempRow
<1>5. CallsAre(call, n)
  BY <1>3, <1>4, TempsInvTells DEF CallsAre, CallHolds
<1> QED
  BY <1>1, <1>2, <1>3, <1>4, <1>5, RowKeepsTemps

LEMMA MailAcceptedKeepsTemps ==
  ASSUME TempsInv, NEW c \in Callers, Admin!MailAccepted(c)
  PROVE  TempsInv'
<1>1. PICK k, n, r : /\ k = call[c].row /\ n = [temps EXCEPT ![k].sent = TRUE]
                     /\ r = [op |-> "marking", row |-> k]
  OBVIOUS
<1>2. temps' = n /\ UNCHANGED <<own, unsent, address>> /\ call' = [call EXCEPT ![c] = r]
  BY <1>1 DEF Admin!MailAccepted, Admin!Continue, Admin!flags
<1>3. n = [i \in 1 .. Len(temps) |-> n[i]] /\ k \in 1 .. Len(temps)
  BY <1>1, TempsInvTells DEF Admin!MailAccepted, Admin!Doing, CallsAre, CallHolds
<1>4. ASSUME NEW i \in 1 .. Len(temps)
      PROVE  /\ n[i] \in TempRow /\ n[i].live = temps[i].live /\ n[i].to = temps[i].to
             /\ temps[i].sent => n[i].sent
             /\ i = k => n[i].sent
  BY <1>1, <1>4, TempsInvTells DEF TempRow
<1>5. CallsAre(call, n)
  BY <1>3, <1>4, TempsInvTells DEF CallsAre, CallHolds
<1>6. CallHolds(r, n)
  BY <1>1, <1>3, <1>4, TempsInvTells DEF CallHolds
<1> QED
  BY <1>2, <1>3, <1>4, <1>5, <1>6, CallSet, RowKeepsTemps

\* The mark goes only while what went out is the live one.
LEMMA MarkSentKeepsTemps ==
  ASSUME TempsInv, NEW c \in Callers, Admin!MarkSent(c)
  PROVE  TempsInv'
<1>1. PICK k : k = call[c].row
  OBVIOUS
<1>2. UNCHANGED <<own, address, temps>> /\ call' = [call EXCEPT ![c] = Admin!Idle]
      /\ unsent' = (unsent /\ ~temps[k].live)
  BY <1>1 DEF Admin!MarkSent, Admin!Answer
<1>3. k \in 1 .. Len(temps) /\ temps[k].sent
  BY <1>1, TempsInvTells DEF Admin!MarkSent, Admin!Doing, CallsAre, CallHolds
<1>4. own = Admin!Locked /\ ~(unsent /\ ~temps[k].live) =>
        \E i \in 1 .. Len(temps) : temps[i].live /\ temps[i].sent
  BY <1>3, TempsInvTells
<1>5. CallsAre(call', temps)
  BY <1>2, TempsInvTells, IdleHolds, CallSet
<1> QED
  BY <1>2, <1>4, <1>5, TempsInvTells, TempsKeep

LEMMA StoreTemporaryKeepsTemps ==
  ASSUME TempsInv, NEW c \in Callers, Admin!StoreTemporary(c)
  PROVE  TempsInv'
<1>1. PICK v, t, n : /\ v = Admin!Void(Admin!OnRequest)
        /\ t = Admin!NewTemp("TEMPORARY", address, TRUE)
                     /\ n = Append(v, t)
  OBVIOUS
<1>2. temps' = n /\ UNCHANGED <<own, unsent, address>> /\ call' = [call EXCEPT ![c] = Admin!Idle]
  BY <1>1 DEF Admin!StoreTemporary, Admin!Answer
<1>3. t \in TempRow /\ t.live /\ t.sent /\ t.to = address
  BY <1>1, TempsInvTells DEF Admin!NewTemp, TempRow
<1>4. v \in Seq(TempRow) /\ Len(v) = Len(temps)
      /\ \A i \in 1 .. Len(v) : (v[i].live => v[i].to = address) /\ v[i].sent = temps[i].sent
  BY <1>1, TempsInvTells, VoidTells
<1>5. /\ n \in Seq(TempRow) /\ Len(n) = Len(v) + 1 /\ n[Len(v) + 1] = t
      /\ \A i \in 1 .. Len(v) : n[i] = v[i]
  BY <1>1, <1>3, <1>4, AddTells
<1>6. Later(temps, n) /\ \A i \in 1 .. Len(n) : n[i].live => n[i].to = address
  BY <1>3, <1>4, <1>5, TempsInvTells DEF Later
<1>7. \E i \in 1 .. Len(n) : n[i].live /\ n[i].sent
  <2>1. Len(n) \in 1 .. Len(n) /\ n[Len(n)] = t
    BY <1>4, <1>5
  <2> QED
    BY <1>3, <2>1
<1>8. CallsAre(call, n)
  BY <1>6, TempsInvTells DEF Later, CallsAre, CallHolds
<1>9. CallsAre(call', n)
  BY <1>2, <1>8, IdleHolds, CallSet
<1> QED
  BY <1>2, <1>6, <1>7, <1>9, TempsInvTells, TempsKeep

LEMMA ResetPasswordKeepsTemps ==
  ASSUME TempsInv, NEW c \in Callers, Admin!ResetPassword(c)
  PROVE  TempsInv'
<1>1. PICK v, t, n, r : /\ v = Admin!Void(DOMAIN temps)
        /\ t = Admin!NewTemp("RESET", address, FALSE)
                        /\ n = Append(v, t) /\ r = [op |-> "mailing", row |-> Len(temps) + 1]
  OBVIOUS
<1>2. temps' = n /\ own' = Admin!Locked /\ unsent' = TRUE /\ UNCHANGED address
      /\ call' = [call EXCEPT ![c] = r]
  BY <1>1 DEF Admin!ResetPassword, Admin!IssueTemp, Admin!Ask
<1>3. t \in TempRow /\ t.to = address
  BY <1>1, TempsInvTells DEF Admin!NewTemp, TempRow
<1>4. v \in Seq(TempRow) /\ Len(v) = Len(temps)
      /\ \A i \in 1 .. Len(v) : (v[i].live => v[i].to = address) /\ v[i].sent = temps[i].sent
  BY <1>1, TempsInvTells, VoidTells
<1>5. /\ n \in Seq(TempRow) /\ Len(n) = Len(v) + 1 /\ n[Len(v) + 1] = t
      /\ \A i \in 1 .. Len(v) : n[i] = v[i]
  BY <1>1, <1>3, <1>4, AddTells
<1>6. Later(temps, n) /\ \A i \in 1 .. Len(n) : n[i].live => n[i].to = address
  BY <1>3, <1>4, <1>5, TempsInvTells DEF Later
<1>7. CallsAre(call, n) /\ CallHolds(r, n)
  <2>1. CallsAre(call, n)
    BY <1>6, TempsInvTells DEF Later, CallsAre, CallHolds
  <2>2. r.op = "mailing" /\ r.row = Len(n)
    BY <1>1, <1>4, <1>5
  <2>3. Len(n) \in 1 .. Len(n)
    BY <1>4, <1>5
  <2> QED
    BY <2>1, <2>2, <2>3 DEF CallHolds
<1>8. CallsAre(call', n)
  BY <1>2, <1>7, CallSet
<1> QED
  BY <1>2, <1>6, <1>8, TempsInvTells, TempsKeep DEF Admin!Locked

\* A password of the account's own ends every temporary one; a change of address
\* those that were mailed to the former one.
LEMMA VoidingKeepsTemps ==
  ASSUME TempsInv, temps' = Admin!Void(DOMAIN temps), UNCHANGED call,
         own' \in Nat, unsent' \in BOOLEAN, address' \in Nat, own' # Admin!Locked \/ unsent'
  PROVE  TempsInv'
<1>1. PICK n : n = Admin!Void(DOMAIN temps)
  OBVIOUS
<1>2. Later(temps, n) /\ \A i \in 1 .. Len(n) : ~n[i].live
  BY <1>1, TempsInvTells, VoidTells DEF Later
<1>3. CallsAre(call, n)
  BY <1>2, TempsInvTells DEF Later, CallsAre, CallHolds
<1> QED
  BY <1>1, <1>2, <1>3, TempsInvTells, TempsKeep

LEMMA ChangesKeepTemps ==
  ASSUME TempsInv, Admin!ChangeRequired \/ Admin!ChangeOwn \/ Admin!ChangeEmail
  PROVE  TempsInv'
<1>1. CASE Admin!ChangeRequired \/ Admin!ChangeOwn
  <2>1. own' = own + 1 /\ temps' = Admin!Void(DOMAIN temps) /\ UNCHANGED <<unsent, address, call>>
    BY <1>1 DEF Admin!ChangeRequired, Admin!ChangeOwn, Admin!NewOwn
  <2> QED
    BY <2>1, TempsInvTells, VoidingKeepsTemps DEF Admin!Locked
<1>2. CASE Admin!ChangeEmail
  <2>1. /\ temps' = Admin!Void(DOMAIN temps) /\ UNCHANGED <<own, call>> /\ address' = address + 1
        /\ unsent' = (unsent \/ (own = Admin!Locked /\ \E i \in DOMAIN temps : temps[i].live))
    BY <1>2 DEF Admin!ChangeEmail
  <2>2. unsent' \in BOOLEAN /\ (own' # Admin!Locked \/ unsent')
    BY <2>1, TempsInvTells
  <2> QED
    BY <2>1, <2>2, TempsInvTells, VoidingKeepsTemps
<1> QED
  BY <1>1, <1>2

LEMMA TempsInit ==
  Admin!Init => TempsInv
<1> SUFFICES ASSUME Admin!Init PROVE TempsInv
  OBVIOUS
<1>0. address = 0
  BY DEF Admin!Init
<1>1. ASSUME temps = <<Admin!NewTemp("INITIAL", 0, FALSE)>>, unsent = TRUE,
             own = Admin!Locked, NEW c \in Callers,
             call = [d \in Callers |-> IF d = c THEN [op |-> "mailing",
               row |-> 1] ELSE Admin!Idle]
      PROVE  TempsInv
  <2>1. PICK t : t = Admin!NewTemp("INITIAL", 0, FALSE)
    OBVIOUS
  <2>2. t \in TempRow /\ t.to = 0
    BY <2>1 DEF Admin!NewTemp, TempRow
  <2>3. temps = <<t>>
    BY <1>1, <2>1
  <2>4. temps \in Seq(TempRow) /\ Len(temps) = 1 /\ temps[1] = t /\ DOMAIN temps = 1 .. 1
    BY <2>2, <2>3
  <2>5. CallsAre(call, temps)
    BY <1>1, <2>4 DEF CallsAre, CallHolds, Admin!Idle
  <2>6. Admin!LiveTemporaryIsMailedHere
    BY <1>0, <2>2, <2>4 DEF Admin!LiveTemporaryIsMailedHere
  <2>7. Admin!SentMeansDelivered /\ unsent \in BOOLEAN
    BY <1>1 DEF Admin!SentMeansDelivered
  <2> QED
    BY <1>0, <1>1, <2>4, <2>5, <2>6, <2>7 DEF TempsInv, Admin!Locked
<1>2. ASSUME own = 1, unsent = FALSE, temps = <<>>, call = [c \in Callers |-> Admin!Idle]
      PROVE  TempsInv
  <2>1. temps \in Seq(TempRow) /\ DOMAIN temps = {}
    BY <1>2
  <2>2. CallsAre(call, temps)
    BY <1>2 DEF CallsAre, CallHolds, Admin!Idle
  <2>3. Admin!LiveTemporaryIsMailedHere /\ Admin!SentMeansDelivered
    BY <1>2, <2>1 DEF Admin!LiveTemporaryIsMailedHere, Admin!SentMeansDelivered, Admin!Locked
  <2>4. unsent \in BOOLEAN
    BY <1>2
  <2> QED
    BY <1>0, <1>2, <2>1, <2>2, <2>3, <2>4 DEF TempsInv
<1> QED
  BY <1>1, <1>2 DEF Admin!Init

LEMMA TempsNext ==
  TempsInv /\ [Admin!Next]_adminSide => TempsInv'
<1> SUFFICES ASSUME TempsInv, [Admin!Next]_adminSide PROVE TempsInv'
  OBVIOUS
<1>1. CASE Admin!LockPasses \/ Admin!SignupLogin \/ Admin!SessionEnds
        \/ Admin!ChangeStatus \/ Admin!Leaves \/ UNCHANGED adminSide
  <2>1. UNCHANGED <<own, unsent, address, temps, call>>
    BY <1>1 DEF Admin!LockPasses, Admin!SignupLogin, Admin!SessionEnds, Admin!ChangeStatus,
       Admin!Leaves, adminSide, Admin!flags
  <2> QED
    BY <2>1, NothingKeepsTemps
<1> QED
  BY <1>1, LoginKeepsTemps, SessionsKeepTemps, OwnSucceedsKeepsTemps,
     TemporarySucceedsKeepsTemps, TempExpiresKeepsTemps, MailAcceptedKeepsTemps,
     MarkSentKeepsTemps, StoreTemporaryKeepsTemps, ResetPasswordKeepsTemps, ChangesKeepTemps
     DEF Admin!Next

LEMMA TempsMatch ==
  TempsInv => Admin!TemporariesMatchTheirMail
BY DEF TempsInv, Admin!TemporariesMatchTheirMail

\* However resets, requests, mails, sign-ins and changes of address or password overlap:
\* a temporary password that works was made for the present address, and an account that
\* has no other one is shown as unsent unless its own went out.
THEOREM TemporariesMatch == BothSpec => []TemporariesMatchTheirMail
<1>1. BothInit => TempsInv
  BY TempsInit DEF BothInit
<1>2. TempsInv /\ [BothNext]_<<vars, adminSide, part>> => TempsInv'
  <2> SUFFICES ASSUME TempsInv, [BothNext]_<<vars, adminSide, part>> PROVE TempsInv'
    OBVIOUS
  <2>1. [Admin!Next]_adminSide
    BY DEF BothNext
  <2> QED
    BY <2>1, TempsNext
<1>3. TempsInv => TemporariesMatchTheirMail
  BY TempsMatch DEF TemporariesMatchTheirMail
<1> QED
  BY <1>1, <1>2, <1>3, PTL DEF BothSpec
=============================================================================
