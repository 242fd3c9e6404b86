--------------------------- MODULE ContractPapers ---------------------------
(***************************************************************************)
(* The files of one contract: the original of each send, the worker's      *)
(* signature, the copy with the signature in it, and the signed paper of a *)
(* contract that was not sent.  Rows of contract_documents refer to        *)
(* objects of a storage no transaction covers: who fails has to find out   *)
(* whether its row was written before it deletes what it put there.        *)
(*                                                                         *)
(* What a paper says is the version of the contract (the send it was       *)
(* written for) and, as the employer, the version of the store's details.  *)
(***************************************************************************)
EXTENDS Naturals

CONSTANTS Makers,     \* runs of make that may overlap: afterSent, afterSigned, the batch
          MaxSends,   \* bound: sends of the contract
          MaxStore,   \* bound: versions of the store's details
          MaxKeys     \* bound: keys in use at the same time

VARIABLES
  contract,  \* [st, sent, terms, employer, restored]: sent is the send contracts.sent_at
             \* is of, terms the last one that wrote the contract, employer what
             \* contract_parties keeps of the store, restored the sends an undo returned to
  before,    \* for each send that was not answered yet, what undo returns to
  store,     \* version of the store's details
  late,      \* the day after the last send is over
  docs,      \* contract_documents: [kind, sent, key]
  files,     \* the storage.  An object that could not be deleted, or whose request
             \* died, is not followed further: no row refers to it
  maker,     \* runs of make
  signing,   \* the worker's screen and request
  paper,     \* the registration of a signed paper
  purge      \* the purge of contracts of who left three years ago

contractVars == <<contract, before, store, late>>
storageVars == <<docs, files>>
workVars == <<maker, signing, paper, purge>>
papersVars == <<contractVars, storageVars, workVars>>

None == 0
Idle == [stage |-> "idle"]
Done == [stage |-> "done"]

Has(kind) == \E d \in docs : d.kind = kind
\* contract_documents_contract_id_kind_sent_at_key
Taken(kind, sent) == \E d \in docs : d.kind = kind /\ d.sent = sent
Row(kind, sent, key) == [kind |-> kind, sent |-> sent, key |-> key]

\* Transactions that hold the row of the contract while they wait for the storage.
Locked == paper.stage = "put" \/ purge.stage \in {"locked", "deleted"}

\* Requests whose object no row may refer to yet.
InFlight ==
  {maker[m].key : m \in {n \in Makers : maker[n].stage \in {"put", "failed"}}}
    \union {r.key : r \in {q \in {signing, paper} : q.stage \in {"put", "failed"}}}
InUse == {key.n : key \in files \union InFlight \union {d.key : d \in docs}}
\* Bound: a key is left.
Room == \E n \in 1..MaxKeys : n \notin InUse
\* newKey and put: a key nothing has.
Put(terms, employer) ==
  CHOOSE key \in [n : 1..MaxKeys, terms : {terms}, employer : {employer}] :
    /\ key.n \notin InUse
    /\ \A n \in 1..(key.n - 1) : n \in InUse

\* Fault: whatever failed is deleted.
KeptNever(key) == FALSE
\* The row that refers to the key is there: only the answer was lost.
Kept(key) == \E d \in docs : d.key = key
\* What a failed request does with its object; who cannot look leaves it.
CleanUp(key) == files' = IF Kept(key) THEN files ELSE files \ {key}

-----------------------------------------------------------------------------
(* The contract                                                            *)

Contract(st, sent) == [st |-> st, sent |-> sent, terms |-> sent, employer |-> None, restored |-> {}]
Old == [n |-> 1, terms |-> 1, employer |-> None]

\* Not sent yet, or signed before signing kept the employer.
Init ==
  /\ \/ contract = Contract("DRAFT", None) /\ docs = {} /\ files = {}
     \/ contract = Contract("SIGNED", 1) /\ docs = {Row("SIGNATURE", None, Old)}
          /\ files = {Old}
  /\ before = [n \in {} |-> contract] /\ store = 1 /\ late = FALSE
  /\ maker = [m \in Makers |-> Idle]
  /\ signing = Idle /\ paper = Idle /\ purge = Idle

\* create, update, updateWorker and send with prepare: the contract is written
\* and gets a new time of sending.  Who joined has it at once, others by mail.
Send(n) ==
  /\ ~Locked /\ contract.st \in {"DRAFT", "PENDING_SEND", "PENDING_SIGNATURE"}
  /\ contract.sent < n /\ contract.terms = n - 1
  /\ contract' = [contract EXCEPT !.sent = n, !.terms = n,
                    !.st = IF @ = "PENDING_SIGNATURE" THEN @ ELSE "PENDING_SEND"]
  /\ before' = IF contract.st = "PENDING_SIGNATURE" THEN before
               ELSE [k \in DOMAIN before \union {n} |-> IF k = n THEN contract ELSE before[k]]
  /\ late' = FALSE
  /\ UNCHANGED <<store, storageVars, maker, signing, paper, purge>>

Answered(n) == n \in DOMAIN before /\ before' = [k \in DOMAIN before \ {n} |-> before[k]]
\* settledResult, or the process dies before the answer.
Settle(n) ==
  Answered(n) /\ UNCHANGED <<contract, store, late, storageVars, workVars>>
\* undo: back to the send before if its invitation is still good, else to a
\* draft; what was written stays written.
Undo(n) ==
  /\ ~Locked /\ Answered(n)
  /\ IF contract.st = "PENDING_SEND" /\ contract.sent = n
     THEN \/ /\ before[n].st = "PENDING_SEND"
             /\ contract' = [contract EXCEPT !.sent = before[n].sent,
                                             !.restored = @ \union {before[n].sent}]
          \/ contract' = [contract EXCEPT !.sent = None, !.st = "DRAFT"]
     ELSE UNCHANGED contract
  /\ UNCHANGED <<store, late, storageVars, workVars>>

\* complete, accept: the worker has an account.
Join ==
  /\ ~Locked /\ contract.st = "PENDING_SEND"
  /\ contract' = [contract EXCEPT !.st = "PENDING_SIGNATURE"]
  /\ UNCHANGED <<before, store, late, storageVars, workVars>>

ChangeStore ==
  /\ store < MaxStore /\ store' = store + 1
  /\ UNCHANGED <<contract, before, late, storageVars, workVars>>
DayOver ==
  /\ contract.sent # None /\ ~late /\ late' = TRUE
  /\ UNCHANGED <<contract, before, store, storageVars, workVars>>

-----------------------------------------------------------------------------
(* Signing (MyContractsService.sign)                                       *)

OpenScreen ==
  /\ signing = Idle /\ contract.st = "PENDING_SIGNATURE"
  /\ signing' = [stage |-> "open", sent |-> contract.sent, terms |-> contract.terms]
  /\ UNCHANGED <<contractVars, storageVars, maker, paper, purge>>

\* Fault: nobody asks which send the worker has read.
SignableUnseen == contract.st = "PENDING_SIGNATURE"
\* checkSignable
Signable == contract.st = "PENDING_SIGNATURE" /\ contract.sent = signing.sent

At(stage, key) == [stage |-> stage, sent |-> signing.sent, terms |-> signing.terms, key |-> key]
\* Before anything is locked; a put that fails may have put it all the same.
PutSignature ==
  /\ signing.stage = "open" /\ Signable /\ Room
  /\ LET key == Put(signing.terms, None)
     IN  files' = files \union {key} /\ \E stage \in {"put", "failed"} : signing' = At(stage, key)
  /\ UNCHANGED <<contractVars, docs, maker, paper, purge>>
\* The transaction; its answer may be lost after the commit.
Sign ==
  /\ signing.stage = "put" /\ ~Locked /\ Signable
  /\ contract' = [contract EXCEPT !.st = "SIGNED", !.employer = store]
  /\ docs' = docs \union {Row("SIGNATURE", None, signing.key)}
  /\ signing' \in {Done, [signing EXCEPT !.stage = "failed"]}
  /\ UNCHANGED <<before, store, late, files, maker, paper, purge>>
SignFails ==
  /\ signing.stage = "put"
  /\ signing' = [signing EXCEPT !.stage = "failed"]
  /\ UNCHANGED <<contractVars, storageVars, maker, paper, purge>>
SignCleanUp ==
  /\ signing.stage = "failed" /\ CleanUp(signing.key)
  /\ signing' = IF Kept(signing.key) THEN Done ELSE Idle
  /\ UNCHANGED <<contractVars, docs, maker, paper, purge>>
CloseScreen ==
  /\ signing.stage = "open" /\ signing' = Idle
  /\ UNCHANGED <<contractVars, storageVars, maker, paper, purge>>

-----------------------------------------------------------------------------
(* Originals and copies (ContractFilesService)                             *)

\* Fault: copies too are only looked for within a day of the send.
MissingToday(kind) ==
  /\ ~late
  /\ kind = "SIGNED_COPY" => Has("SIGNATURE") /\ ~Has("SIGNED_COPY")
  /\ kind = "SENT_ORIGINAL" => ~Taken("SENT_ORIGINAL", contract.sent)
\* fillMissing comes back to what afterSent and afterSigned, called at once, did
\* not make: to an original for a day, to a copy always.
Missing(kind) ==
  /\ kind = "SIGNED_COPY" => Has("SIGNATURE") /\ ~Has("SIGNED_COPY")
  /\ kind = "SENT_ORIGINAL" => ~late /\ ~Taken("SENT_ORIGINAL", contract.sent)

\* make, what it reads in one snapshot.  There is nothing to make of a contract
\* that was not sent, is on paper, or is not signed.
Makeable(kind) ==
  /\ contract.st # "GONE" /\ contract.sent # None
  /\ kind = "SIGNED_COPY" => Has("SIGNATURE") /\ ~Has("SIGNED_COPY")
  /\ kind = "SENT_ORIGINAL" => ~Taken(kind, contract.sent)
\* The copy shows the employer that was kept, if one was; the original the store's.
Employer(kind) ==
  IF kind = "SIGNED_COPY" /\ contract.employer # None THEN contract.employer ELSE store
Reading(kind) ==
  [stage |-> "read", kind |-> kind, sent |-> contract.sent, terms |-> contract.terms,
   employer |-> Employer(kind), backfill |-> kind = "SIGNED_COPY" /\ contract.employer = None]
Read(m, kind) ==
  /\ maker[m] = Idle
  /\ Missing(kind) /\ Makeable(kind)
  /\ maker' = [maker EXCEPT ![m] = Reading(kind)]
  /\ UNCHANGED <<contractVars, storageVars, signing, paper, purge>>
\* The storage gives the signature and takes the paper.
PutPaper(m) ==
  /\ maker[m].stage = "read" /\ Room
  /\ \A d \in docs : d.kind = "SIGNATURE" => d.key \in files
  /\ LET key == Put(maker[m].terms, maker[m].employer)
     IN  /\ files' = files \union {key}
         /\ maker' = [maker EXCEPT ![m] =
                        [stage |-> "put", kind |-> maker[m].kind, sent |-> maker[m].sent,
                         backfill |-> maker[m].backfill, key |-> key]]
  /\ UNCHANGED <<contractVars, docs, signing, paper, purge>>
\* The row is written, and with it the employer where signing had kept none.  It
\* is committed and answered, or committed and not answered.
Insert(m, answered) ==
  /\ maker[m].stage = "put" /\ ~Locked /\ contract.st # "GONE"
  /\ ~Taken(maker[m].kind, maker[m].sent)
  /\ docs' = docs \union {Row(maker[m].kind, maker[m].sent, maker[m].key)}
  /\ contract' = IF maker[m].backfill /\ contract.employer = None
                 THEN [contract EXCEPT !.employer = maker[m].key.employer] ELSE contract
  /\ maker' = [maker EXCEPT ![m] = IF answered THEN Idle ELSE [@ EXCEPT !.stage = "failed"]]
  /\ UNCHANGED <<before, store, late, files, signing, paper, purge>>
\* Refused by the unique index or the foreign key, or not reached.
InsertFails(m) ==
  /\ maker[m].stage = "put"
  /\ maker' = [maker EXCEPT ![m].stage = "failed"]
  /\ UNCHANGED <<contractVars, storageVars, signing, paper, purge>>
MakeCleanUp(m) ==
  /\ maker[m].stage = "failed" /\ CleanUp(maker[m].key)
  /\ maker' = [maker EXCEPT ![m] = Idle]
  /\ UNCHANGED <<contractVars, docs, signing, paper, purge>>
\* The storage refuses, or the process dies, wherever the run is.
MakeDies(m) ==
  /\ maker[m] # Idle
  /\ maker' = [maker EXCEPT ![m] = Idle]
  /\ IF maker[m].stage = "read" THEN UNCHANGED files ELSE CleanUp(maker[m].key)
  /\ UNCHANGED <<contractVars, docs, signing, paper, purge>>

-----------------------------------------------------------------------------
(* A signed paper is registered (withDocuments, saveDocuments)             *)

\* The files are put inside the transaction, which holds the draft.
RegisterPaper ==
  /\ contract.st = "DRAFT" /\ paper = Idle /\ ~Locked /\ Room
  /\ LET key == Put(contract.terms, None)
     IN  files' = files \union {key} /\ paper' = [stage |-> "put", key |-> key]
  /\ UNCHANGED <<contractVars, docs, maker, signing, purge>>
\* After a commit that is not answered what was put is deleted all the same.
PaperCommitted ==
  /\ paper.stage = "put"
  /\ docs' = docs \union {Row("PAPER_EMPLOYMENT_CONTRACT", None, paper.key)}
  /\ contract' = [contract EXCEPT !.st = "SIGNED", !.sent = None]
  /\ \/ paper' = Done /\ UNCHANGED files
     \/ paper' = [stage |-> "cut"] /\ files' = files \ {paper.key}
  /\ UNCHANGED <<before, store, late, maker, signing, purge>>
PaperFails ==
  /\ paper.stage = "put" /\ paper' = Idle /\ files' = files \ {paper.key}
  /\ UNCHANGED <<contractVars, docs, maker, signing, purge>>

-----------------------------------------------------------------------------
(* The purge, three years after who signed it left (ContractPurgeService)  *)

PurgeLocks ==
  /\ contract.st = "SIGNED" /\ purge.stage \in {"idle", "deferred"} /\ ~Locked
  /\ purge' = [stage |-> "locked"]
  /\ UNCHANGED <<contractVars, storageVars, maker, signing, paper>>
\* The files of the rows, which cannot change behind the lock.
Listed == {d.key : d \in docs}
\* All are deleted, or some and the record waits for the next day.
PurgeDeletes ==
  /\ purge.stage = "locked"
  /\ \/ files' = files \ Listed /\ purge' = [stage |-> "deleted"]
     \/ /\ \E some \in SUBSET Listed : files' = files \ some
        /\ purge' = [stage |-> "deferred"]
  /\ UNCHANGED <<contractVars, docs, maker, signing, paper>>
PurgeCommits ==
  /\ purge.stage = "deleted"
  /\ docs' = {} /\ contract' = [contract EXCEPT !.st = "GONE"]
  /\ purge' = Done
  /\ UNCHANGED <<before, store, late, files, maker, signing, paper>>
\* Rolled back after its files are deleted.
PurgeAborts ==
  /\ purge.stage = "deleted" /\ purge' = [stage |-> "deferred"]
  /\ UNCHANGED <<contractVars, storageVars, maker, signing, paper>>

-----------------------------------------------------------------------------
Makes(m) ==
  \/ \E kind \in {"SENT_ORIGINAL", "SIGNED_COPY"} : Read(m, kind)
  \/ PutPaper(m) \/ InsertFails(m) \/ MakeCleanUp(m) \/ MakeDies(m)
  \/ \E answered \in BOOLEAN : Insert(m, answered)
Next ==
  \/ \E n \in 1..MaxSends : Send(n) \/ Settle(n) \/ Undo(n)
  \/ Join \/ ChangeStore \/ DayOver
  \/ OpenScreen \/ PutSignature \/ Sign \/ SignFails \/ SignCleanUp \/ CloseScreen
  \/ \E m \in Makers : Makes(m)
  \/ RegisterPaper \/ PaperCommitted \/ PaperFails
  \/ PurgeLocks \/ PurgeDeletes \/ PurgeCommits \/ PurgeAborts
Spec == Init /\ [][Next]_papersVars

Copying(m) == maker[m].stage # "idle" /\ maker[m].kind = "SIGNED_COPY"
CopyRead == \E m \in Makers : Read(m, "SIGNED_COPY")
CopyPut == \E m \in Makers : Copying(m) /\ PutPaper(m)
CopyInserted == \E m \in Makers : Copying(m) /\ Insert(m, TRUE)
Ends(m) == InsertFails(m) \/ MakeCleanUp(m) \/ MakeDies(m) \/ Insert(m, TRUE)
\* The batch runs every ten minutes and comes back to what failed; a run ends; the
\* storage and the database do not fail every time.
Fairness ==
  /\ SF_papersVars(CopyRead) /\ SF_papersVars(CopyPut) /\ SF_papersVars(CopyInserted)
  /\ \A m \in Makers : WF_papersVars(Ends(m))
FairSpec == Spec /\ Fairness

-----------------------------------------------------------------------------
(* Properties                                                              *)

\* What a row refers to is in the storage, whatever failed after the commit that
\* wrote it (but for a purge that has begun, and for a paper whose
\* commit was not answered); and once the purge took the contract, nothing is
\* left of it but what a request still holds.
RowsAndFiles ==
  /\ \A d \in docs : \/ d.key \in files
                     \/ purge # Idle \/ paper.stage = "cut"
  /\ contract.st = "GONE" => files \subseteq InFlight

\* The original of a send says what was sent then, unless an undo returned to that
\* send; who signs has read what the contract says; and the copy says what was
\* signed, with the employer that is kept with it.
PapersTellWhatWasAgreed ==
  /\ \A d \in docs : d.kind = "SENT_ORIGINAL" =>
       d.key.terms = d.sent \/ d.sent \in contract.restored
  /\ \A d \in docs : d.kind = "SIGNATURE" => d.key.terms = contract.terms
  /\ \A d \in docs : d.kind = "SIGNED_COPY" =>
       d.key.terms = contract.terms /\ d.key.employer = contract.employer

\* Who signed gets a copy, however often making it fails, unless the contract is
\* old enough to be purged.
SignedGetsItsCopy ==
  [](Has("SIGNATURE") => <>(Has("SIGNED_COPY") \/ purge # Idle))
=============================================================================
