----------------------------- MODULE ExportJobs -----------------------------
(***************************************************************************)
(* Files made in the background for administrators: the archive of staff   *)
(* records (bulk-exports/bulk-exports.service.ts) and the workbooks of one *)
(* screen, made at once ("direct") or by the batch ("excel",               *)
(* excel-exports/excel-exports.service.ts).  Each instance of the program  *)
(* runs the batch once a minute: it first recovers attempts that seem      *)
(* stuck, then claims waiting jobs one by one.  It may die at any step, a  *)
(* call to the object storage may fail after it took effect, and an        *)
(* attempt given up as stuck may still be running.                         *)
(***************************************************************************)
EXTENDS Integers, FiniteSets

CONSTANTS
    Workers,      \* instances of the program that run the batch
    Callers,      \* requests for a file in progress
    Kinds,        \* the kinds of files asked for, of "bulk", "excel", "direct"
    Stores,       \* stores of the BP
    MaxJobs,      \* Bound: rows of bulk_exports and excel_download_logs
    MaxTime,      \* Bound: the clock; attempts are stuck, and files expire, after one tick
    LoseAnswers   \* whether the answer to a commit may be lost

VARIABLES
    now,        \* the clock
    scope,      \* the stores the requester manages now
    hidden,     \* stores whose staff the requester may not see: a franchise store that
                \* closed, or consent that was withdrawn, if the requester is a BP master
    jobs,       \* the rows
    content,    \* object storage: <<row, attempt>> -> {stores the file shows}, {} without one
    mails,      \* result mails sent for a row
    desk,       \* caller -> its request
    worker      \* instance -> its run of the batch

visible == <<scope, hidden>>
exportVars == <<now, visible, jobs, content, mails, desk, worker>>

Ids == 1..MaxJobs
MaxAttempts == 2
Keys == Ids \X (1..MaxAttempts)
NoJob == [kind |-> "none", status |-> "none", attempt |-> 0, at |-> 0, began |-> 0,
          key |-> 0, expires |-> 0, scope |-> {}, shows |-> {}, moved |-> FALSE]
Resting == [step |-> "idle", since |-> 0, stuck |-> {}, handled |-> {},
            id |-> 0, attempt |-> 0, key |-> 0, scope |-> {}, made |-> {}, moved |-> FALSE]
Away == [step |-> "idle", kind |-> "none", stores |-> {}, at |-> 0, id |-> 0]

Init ==
    /\ now = 1 /\ scope \in SUBSET Stores /\ hidden \in SUBSET Stores
    /\ jobs = [i \in Ids |-> NoJob] /\ content = [k \in Keys |-> {}] /\ mails = [i \in Ids |-> 0]
    /\ desk = [c \in Callers |-> Away] /\ worker = [w \in Workers |-> Resting]

-----------------------------------------------------------------------------
(* Requests. *)
Busy(i) == jobs[i].status \in {"PENDING", "PROCESSING"}
\* Rows that count against a request: an archive of the same stores, any workbook.
Rivals(kind, stores) ==
    {i \in Ids : /\ jobs[i].kind # "none" /\ (jobs[i].kind = "bulk") = (kind = "bulk")
                 /\ kind = "bulk" => jobs[i].scope = stores}
\* A workbook may also be asked for only once a minute.
Admitted(q) ==
    \A i \in Rivals(q.kind, q.stores) : ~Busy(i) /\ (q.kind # "bulk" => jobs[i].at < q.at)

\* An archive is of stores the requester manages, with staff that may be seen; a
\* workbook of whatever the requester manages when it is made.
Ask(c, kind) ==
    /\ desk[c].step = "idle"
    /\ \E i \in Ids : jobs[i].kind = "none"   \* Bound: rows
    /\ \E stores \in SUBSET scope :
        LET q == [step |-> "asked", kind |-> kind, stores |-> stores, at |-> now, id |-> 0] IN
        /\ IF kind = "bulk" THEN ~(stores \subseteq hidden) ELSE stores = {}
        /\ Admitted(q)
        /\ desk' = [desk EXCEPT ![c] = q]
    /\ UNCHANGED <<now, visible, jobs, content, mails, worker>>

\* The row is inserted: of archives of the same stores the partial unique index keeps
\* one, of workbooks the advisory lock under which admission is judged again.
Insert(c) ==
    LET q == desk[c]
        i == Cardinality({j \in Ids : jobs[j].kind # "none"}) + 1
        direct == q.kind = "direct"
    IN  /\ q.step = "asked"
        /\ IF i \in Ids /\ Admitted(q)
           THEN /\ jobs' = [jobs EXCEPT ![i] =
                    [NoJob EXCEPT !.kind = q.kind, !.at = q.at, !.began = IF direct THEN q.at ELSE 0,
                                  !.status = IF direct THEN "PROCESSING" ELSE "PENDING",
                                  !.scope = q.stores]]
                /\ desk' = [desk EXCEPT ![c] = IF direct THEN [@ EXCEPT !.step = "making", !.id = i] ELSE Away]
           ELSE desk' = [desk EXCEPT ![c] = Away] /\ UNCHANGED jobs
        /\ UNCHANGED <<now, visible, content, mails, worker>>

\* A workbook made at once ends in its row whatever the row says by now; a process
\* that dies leaves it to the recovery.
FinishDirect(c) ==
    /\ desk[c].step = "making"
    /\ \/ \E s \in {"SUCCEEDED", "FAILED"} : jobs' = [jobs EXCEPT ![desk[c].id].status = s]
       \/ UNCHANGED jobs
    /\ desk' = [desk EXCEPT ![c] = Away]
    /\ UNCHANGED <<now, visible, content, mails, worker>>

-----------------------------------------------------------------------------
(* The batch: a run of one instance. *)
At(w, step) == worker[w].step = step
\* The next step of instance w, with the file in hand only until it is uploaded; of an
\* attempt that is over only the run remains.
Goes(w, step) ==
    LET run == worker[w]
        kept == IF step = "put" THEN run ELSE [run EXCEPT !.scope = {}, !.made = {}, !.moved = FALSE]
    IN  worker' = [worker EXCEPT ![w] =
            IF step \in {"recover", "claim"} THEN [kept EXCEPT !.step = step, !.id = 0, !.attempt = 0, !.key = 0]
            ELSE [kept EXCEPT !.step = step]]
\* The attempt is still the instance's own: in progress, and no other has begun.
Own(i, attempt) == jobs[i].status = "PROCESSING" /\ jobs[i].attempt = attempt
AfterFailure(attempt, final) == IF final \/ attempt >= MaxAttempts THEN "FAILED" ELSE "PENDING"
TakesTooLong(i) == jobs[i].status = "PROCESSING" /\ jobs[i].began < now

\* recoverStuck reads what seems stuck; direct ones fail in the same statement.
StartRun(w) ==
    /\ At(w, "idle")
    /\ worker' = [worker EXCEPT ![w] =
          [Resting EXCEPT !.step = "recover", !.since = now,
             !.stuck = {[id |-> i, attempt |-> jobs[i].attempt, key |-> jobs[i].key] :
                        i \in {j \in Ids : TakesTooLong(j) /\ jobs[j].kind # "direct"}}]]
    /\ jobs' = [i \in Ids |-> IF TakesTooLong(i) /\ jobs[i].kind = "direct"
                              THEN [jobs[i] EXCEPT !.status = "FAILED"] ELSE jobs[i]]
    /\ UNCHANGED <<now, visible, content, mails, desk>>

\* A row is failed as a given attempt: it waits again or failed for good, and of an
\* archive the key is taken out.
Failed(i, attempt, final) ==
    jobs' = [jobs EXCEPT ![i].status = AfterFailure(attempt, final),
                         ![i].key = IF jobs[i].kind = "bulk" THEN 0 ELSE @]
\* What follows of it: the mail of a workbook that failed for good.
MailsFailure(i, attempt, final) ==
    Own(i, attempt) /\ jobs[i].kind = "excel" /\ AfterFailure(attempt, final) = "FAILED"

\* Each stuck row is failed if it is still in that attempt; what the attempt of an
\* archive had uploaded is deleted only then.
SweepsAnyway(s) == jobs[s.id].kind = "bulk" /\ s.key # 0
Sweeps(s) == jobs[s.id].kind = "bulk" /\ s.key # 0 /\ Own(s.id, s.attempt)
Recover(w) ==
    /\ At(w, "recover")
    /\ \E s \in worker[w].stuck :
        /\ IF Own(s.id, s.attempt) THEN Failed(s.id, s.attempt, FALSE) ELSE UNCHANGED jobs
        /\ LET rest == [worker[w] EXCEPT !.stuck = @ \ {s}] IN
           worker' = [worker EXCEPT ![w] =
              IF Sweeps(s) THEN [rest EXCEPT !.step = "sweep", !.id = s.id, !.key = s.key]
              ELSE IF MailsFailure(s.id, s.attempt, FALSE)
              THEN [rest EXCEPT !.step = "mailStuck", !.id = s.id] ELSE rest]
    /\ UNCHANGED <<now, visible, content, mails, desk>>
Recovered(w) == At(w, "recover") /\ worker[w].stuck = {} /\ Goes(w, "claim")
                /\ UNCHANGED <<now, visible, jobs, content, mails, desk>>

\* Deletes the object under worker[w].key, or fails to (which is only logged).
Delete(w, step, next) ==
    /\ At(w, step) /\ Goes(w, next)
    /\ content' \in {content, [content EXCEPT ![<<worker[w].id, worker[w].key>>] = {}]}
    /\ UNCHANGED <<now, visible, jobs, mails, desk>>
Sweep(w) == Delete(w, "sweep", "recover")

\* The oldest waiting job this run has not had yet, row lock with SKIP LOCKED.
Waiting(w) == {i \in Ids : jobs[i].status = "PENDING" /\ i \notin worker[w].handled}
Claim(w) ==
    /\ At(w, "claim")
    /\ IF Waiting(w) = {} THEN worker' = [worker EXCEPT ![w] = Resting] /\ UNCHANGED jobs
       ELSE LET i == CHOOSE i \in Waiting(w) : \A j \in Waiting(w) : i <= j
                since == IF jobs[i].kind = "bulk" THEN worker[w].since ELSE now
            IN  /\ jobs' = [jobs EXCEPT ![i].status = "PROCESSING", ![i].attempt = @ + 1, ![i].began = since]
                /\ worker' = [worker EXCEPT ![w].step = "check", ![w].handled = @ \cup {i}, ![w].id = i,
                                            ![w].attempt = jobs[i].attempt + 1, ![w].key = 0]
    /\ UNCHANGED <<now, visible, content, mails, desk>>

\* The requester is looked at again (refused: failed for good): of an archive, whether all
\* its stores are still managed, and which of them show their staff by their status; of
\* a workbook, the fingerprint of the stores is read.
StoresKept(i) == jobs[i].kind = "bulk" => jobs[i].scope \subseteq scope
Check(w) ==
    LET i == worker[w].id IN
    /\ At(w, "check")
    /\ worker' = [worker EXCEPT
          ![w].scope = IF jobs[i].kind = "bulk" THEN jobs[i].scope \ hidden ELSE scope,
          ![w].step = IF StoresKept(i) THEN "build" ELSE "refuse"]
    /\ UNCHANGED <<now, visible, jobs, content, mails, desk>>

\* What an archive may show of its stores: staff are chosen by the status read before and
\* by the consent read now, and hidden does not say which of the two it is.
Shown(i, before) ==
    {made \in SUBSET jobs[i].scope : before \ hidden \subseteq made}

\* The file is made: an archive of the stores of its row, a workbook of those managed by
\* now.  Reading may fail, for good if the file gets too large or the account is gone.
Build(w) ==
    LET i == worker[w].id
        bulk == jobs[i].kind = "bulk"
    IN  /\ At(w, "build")
        /\ \/ Goes(w, "fail")
           \/ Goes(w, "refuse")
           \/ \E made \in IF bulk THEN Shown(i, worker[w].scope) ELSE {scope} :
                worker' = [worker EXCEPT ![w].made = made, ![w].step = IF bulk THEN "note" ELSE "put"]
        /\ UNCHANGED <<now, visible, jobs, content, mails, desk>>

\* The key of an archive is put down before the upload, so that a later recovery finds it.
NoteKey(w) ==
    LET i == worker[w].id IN
    /\ At(w, "note")
    /\ IF Own(i, worker[w].attempt)
       THEN jobs' = [jobs EXCEPT ![i].key = worker[w].attempt] /\ Goes(w, "put")
       ELSE UNCHANGED jobs /\ Goes(w, "claim")
    /\ UNCHANGED <<now, visible, content, mails, desk>>

\* The upload; an error leaves the object there or not.
Put(w) ==
    LET k == <<worker[w].id, worker[w].attempt>> IN
    /\ At(w, "put")
    /\ \E there \in BOOLEAN, failed \in BOOLEAN :
        /\ there \/ failed
        /\ content' = [content EXCEPT ![k] = IF there THEN {worker[w].made} ELSE @]
        /\ worker' = [worker EXCEPT ![w].key = worker[w].attempt,
                                    ![w].step = IF failed THEN "drop" ELSE "settle"]
    /\ UNCHANGED <<now, visible, jobs, mails, desk>>

\* The fingerprint that is noted for downloads of a workbook: the one read before the
\* file was made (the fault: the one of the moment the row is written).
NoteOfNow(w) == scope
NoteOf(w) == worker[w].scope

\* The job succeeds if the attempt is still its own; otherwise its file is thrown
\* away.  An error may hide that the row was written.  Of an archive it is put down
\* whom it shows, of a workbook the fingerprint.
Settle(w) ==
    LET i == worker[w].id
        own == Own(i, worker[w].attempt)
        bulk == jobs[i].kind = "bulk"
        done == jobs' = [jobs EXCEPT ![i].status = "SUCCEEDED", ![i].key = worker[w].attempt,
                                     ![i].expires = now + 1,
                                     ![i].shows = IF bulk THEN worker[w].made ELSE @,
                                     ![i].scope = IF bulk THEN @ ELSE NoteOf(w),
                                     ![i].moved = worker[w].moved]
    IN  /\ At(w, "settle")
        /\ \/ own /\ done /\ Goes(w, IF jobs[i].kind = "excel" THEN "mail" ELSE "claim")
           \/ ~own /\ UNCHANGED jobs /\ Goes(w, "dropLost")
           \/ UNCHANGED jobs /\ Goes(w, "drop")
           \/ LoseAnswers /\ own /\ done /\ Goes(w, "drop")
        /\ UNCHANGED <<now, visible, content, mails, desk>>
DropLost(w) == Delete(w, "dropLost", "claim")
Drop(w) == Delete(w, "drop", "fail")

\* fail: a refusal ends the job, any other error leaves it another attempt.
Fail(w) ==
    LET i == worker[w].id
        attempt == worker[w].attempt
        final == At(w, "refuse")
    IN  /\ At(w, "refuse") \/ At(w, "fail")
        /\ IF Own(i, attempt) THEN Failed(i, attempt, final) ELSE UNCHANGED jobs
        /\ Goes(w, IF MailsFailure(i, attempt, final) THEN "mail" ELSE "claim")
        /\ UNCHANGED <<now, visible, content, mails, desk>>

\* notify: the mail is sent, or fails, which changes nothing else.
Mail(w) ==
    /\ At(w, "mail") \/ At(w, "mailStuck")
    /\ mails' \in {mails, [mails EXCEPT ![worker[w].id] = @ + 1]}
    /\ Goes(w, IF At(w, "mail") THEN "claim" ELSE "recover")
    /\ UNCHANGED <<now, visible, jobs, content, desk>>

Die(w) ==
    /\ ~At(w, "idle") /\ worker' = [worker EXCEPT ![w] = Resting]
    /\ UNCHANGED <<now, visible, jobs, content, mails, desk>>

-----------------------------------------------------------------------------
(* Expired files are deleted each day: of an archive the key goes with it. *)
Live(i) == jobs[i].status = "SUCCEEDED" /\ jobs[i].kind # "direct" /\ now < jobs[i].expires
Purge(i) ==
    /\ jobs[i].status = "SUCCEEDED" /\ jobs[i].key # 0 /\ ~Live(i)
    /\ content[<<i, jobs[i].key>>] # {}
    /\ content' = [content EXCEPT ![<<i, jobs[i].key>>] = {}]
    /\ jobs' = [jobs EXCEPT ![i].key = IF jobs[i].kind = "bulk" THEN 0 ELSE @]
    /\ UNCHANGED <<now, visible, mails, desk, worker>>

\* Who may download: of an archive all stores of the request must be managed now, and
\* all whom it shows must still be seen; a workbook needs the fingerprint it was noted with.
MayDownload(i) ==
    /\ Live(i)
    /\ IF jobs[i].kind = "bulk" THEN jobs[i].scope \subseteq scope /\ jobs[i].shows \cap hidden = {}
       ELSE jobs[i].scope = scope
\* What a download of row i hands out now: {stores the file shows}, or {}.
HandsOut(i) == IF MayDownload(i) THEN content[<<i, jobs[i].key>>] ELSE {}

Tick == now < MaxTime /\ now' = now + 1
        /\ UNCHANGED <<visible, jobs, content, mails, desk, worker>>
\* The stores of the requester change, perhaps back to what they were, and perhaps while
\* a workbook is being made; so may the status and the consent by which staff are seen.
Making(w) == At(w, "build") /\ jobs[worker[w].id].kind = "excel"
ChangeScope ==
    /\ scope' \in SUBSET Stores \ {scope}
    /\ worker' = [w \in Workers |-> IF Making(w) THEN [worker[w] EXCEPT !.moved = TRUE] ELSE worker[w]]
    /\ UNCHANGED <<now, hidden, jobs, content, mails, desk>>
ChangeConsent(s) == hidden' = (IF s \in hidden THEN hidden \ {s} ELSE hidden \cup {s})
                    /\ UNCHANGED <<now, scope, jobs, content, mails, desk, worker>>

Batch(w) ==
    \/ StartRun(w) \/ Recover(w) \/ Recovered(w) \/ Sweep(w) \/ Claim(w) \/ Check(w)
    \/ Build(w) \/ NoteKey(w) \/ Put(w) \/ Settle(w) \/ DropLost(w) \/ Drop(w)
    \/ Fail(w) \/ Mail(w) \/ Die(w)
Next ==
    \/ \E c \in Callers : Insert(c) \/ FinishDirect(c) \/ \E kind \in Kinds : Ask(c, kind)
    \/ \E w \in Workers : Batch(w)
    \/ \E i \in Ids : Purge(i)
    \/ Tick \/ ChangeScope \/ \E s \in Stores : ChangeConsent(s)
Spec == Init /\ [][Next]_exportVars

-----------------------------------------------------------------------------
\* Types of the rows, the objects and the runs of the batch.
TypeOK ==
    /\ now \in 1..MaxTime /\ scope \subseteq Stores /\ hidden \subseteq Stores
    /\ \A i \in Ids : /\ jobs[i].kind \in Kinds \cup {"none"}
                      /\ jobs[i].status \in {"none", "PENDING", "PROCESSING", "SUCCEEDED", "FAILED"}
                      /\ jobs[i].attempt \in 0..MaxAttempts /\ jobs[i].key \in 0..MaxAttempts
    /\ content \in [Keys -> {{}} \cup {{shown} : shown \in SUBSET Stores}]
    /\ \A w \in Workers : worker[w].key \in 0..MaxAttempts /\ worker[w].handled \subseteq Ids
    /\ \A c \in Callers : desk[c].step \in {"idle", "asked", "making"}

\* A row that says its file is there is right until the file expires: no recovery, no
\* attempt that lost the row and no failed upload deletes the file of another attempt.
FinishedHasItsFile == \A i \in Ids : Live(i) => jobs[i].key # 0 /\ content[<<i, jobs[i].key>>] # {}

\* The requester is told once of a workbook, that it is ready or that it failed, though
\* two attempts of it run at the same time (settle).
ToldOnce == \A i \in Ids : mails[i] <= 1

\* Attempts of one workbook that overlap end as one: one file, one notice.
FinishedOnce == FinishedHasItsFile /\ ToldOnce

\* An archive that is handed out shows nobody of a store its requester does not manage
\* now, of a store that closed, or without consent: whatever changed between the
\* reading of the status, the reading of the staff, the upload and the download, and
\* whatever changed back.
ArchivesWithinScope ==
    \A i \in Ids : jobs[i].kind = "bulk" =>
        \A shown \in HandsOut(i) : shown \subseteq scope \ hidden

\* A workbook that is handed out shows the stores its requester manages now, unless they
\* changed between the reading of the fingerprint and the making of the file: if they
\* are changed back later, the file of the other stores is handed out.
WorkbooksWithinScope ==
    \A i \in Ids : jobs[i].kind = "excel" /\ ~jobs[i].moved => \A shown \in HandsOut(i) : shown = scope

HandedOutWithinScope == ArchivesWithinScope /\ WorkbooksWithinScope
=============================================================================
