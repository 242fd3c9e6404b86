# Verification of whale-erp-api

TLA+ models of the parts of this NestJS / Prisma / PostgreSQL service where
requests, workers' answers, mail and message providers, object storage and nightly
batches meet on the same rows; the TLC runs that check them on small instances; and
proofs that TLAPS checks for every value of the constants.

The core is the sending of employment contracts: what is written in one
transaction, sent after its commit, and turned back in a second transaction when
nothing went out, while other requests, answers and batches go on.

## 1. The system

Files are under `src/src/`. "Modules" are those of section 2; a component without
one is not modelled.

| Component | State it keeps | What is hard | What makes it correct | Modules |
|---|---|---|---|---|
| **Contract status, sending, writing** (`contracts/contract-status.ts`, `contract-delivery.service.ts`, `contract-send.service.ts`, `contracts.service.ts`, `contract-duplicates.ts`) | contracts, their status history, invitations, the record's join status and candidate account; in memory: the sends a request still has to hand over | commit first, send after it, undo in a second transaction; overlapping sends; unknown outcome; crash; answers before the message; replacement of contracts in progress | one usable link per record; link, contract and judgement of the number agree; undo touches only its own work; one contract in progress per number | `ContractStatus`, `ContractDelivery`, `InvitationLink` |
| **Worker app: signing** (`contracts/my-contracts.service.ts`), **contract files** (`contract-files.service.ts`, `contract-purge.ts`) | status, signature, original, copy, signed paper: rows and stored objects | object storage and rows are not one transaction; a commit whose answer is lost; a paper drawn from what was read before | no row without its file, no file of a signed contract lost, the copy shows what was signed | `ContractDelivery`, `ContractPapers` |
| **Contract batches** (`contract-expiry.service.ts`, `batch/batch-lock.service.ts`) | as above | run against every request | what has a deadline closes | `ContractDelivery` |
| **Staff sign-up, affiliation requests** (`staff-signup/`) | accounts, records, invitations, `invitation_code_attempts` | same invitation used twice; undo of a send takes attempt rows away | an answer is final; whoever holds a usable link is not locked out by other people's sends | `ContractDelivery`, `InvitationCode`, `CodeThrottle` |
| **Retirement** (`staff-members/retirement.service.ts`), **store closings** (`store-closings/`), **stores** (`stores/store-management.service.ts`) | retired date, employment status, store status, locks | final retirement against sends, answers and undos; records locked before accounts here and after them there | a leaver holds nothing; nobody stays employed at a closed store; only known lock circles | `ContractDelivery`, `StoreClosing`, `RowLocks` |
| **Payslips** (`payslips/`) | payslip, lines, review reasons, send mark | edit, cancel and confirm against a mail that is under way; a mark that goes stale | a mailed payslip is what the worker sees | `Payslip` |
| **Attendance** (`attendance/`) | check-ins and check-outs | two devices and an administrator; the account or the record is locked | at most one open check-in, one check-out each, no overlap | `Attendance` |
| **Work schedules** (`work-schedules/`) | shifts, their history | what is judged before a lock and written after others; leaving, closing and purge alongside | nobody planned twice or after leaving; the history tells how a plan came to be | `WorkSchedules`, `RowLocks` |
| **Staff sign-in, reset, sessions, my profile** (`auth/account-auth.service.ts`, `password-reset*.ts`, `auth-session/`, `my-profile/`) | password, failures, lock, sessions, PINs and links | verified outside the lock; mailed after the commit; revoked while extended | what is open stands on the present password and address | `AccountSignIn` |
| **Administrator sign-in** (`auth/admin-*.ts`, `admin-session/`) | own and temporary passwords, sessions | a temporary password mailed before or after it is stored | a live temporary password is the one that was mailed to the present address | `AdminSignIn` |
| **BP masters, admins, role groups** (`bp-masters/`, `bp-admins/`, `bp-role-groups/`) | BP status, accounts, stores, groups, menu rights | what was read before the locks; withdrawal against edits | a store has one master, a team stays within its master's stores, nobody active in an inactive BP | `BpOrganisation`, `MenuRights` |
| **Platform administration** (`platform-admins/`, `platform-menus/`) | accounts, role groups, menus | the last master; lock order; order of menus | always an active master; menus keep their order | `PlatformAdmins`, `PlatformMenus`, `MenuTree` |
| **Bulk and Excel exports** (`bulk-exports/`, `excel-exports/`) | job rows, stored files | an attempt given up as stuck that still runs; storage that fails after it took effect | finished once, with its file, within the requester's scope | `ExportJobs` |
| **Alimtalk and mail providers** | none here | accepted, certainly not sent, unknown | seen from `dispatch` and from the mailing steps | (external) |

Not modelled: staff records other than retirement (reads, one birth-date correction, a
purge of one statement), administrator sign-up (one insert behind validations),
holidays, to-dos and home (reads, and a batch that queues notices), inquiries, leads
and posts (life cycles of one row), notifications and templates, storage, tax office,
configuration and the database client (I/O adapters, generated code).

How they interact.  Nothing but rows is shared between requests, workers and
batches; a process keeps in memory only what it has committed and not yet
settled, and a crash forgets it.  A request reads without locks, takes row locks
(or an advisory lock) and reads again what it decides on, writes and commits; mail,
messages and uploads come before or after that transaction, never inside it.  The
hazards are therefore of three kinds: what was read before a lock and used behind
it, what is done outside the transaction and has to be matched with it, and the
order in which different requests take their locks.  PROJECT.json lists them at
their lines.

## 2. The modules

| Module | Models | Actions and the code they stand for |
|---|---|---|
| `ContractStatus` | the status table, the way a judgement of a number leads to channel and status | pure functions of `contract-status.ts` |
| `ContractDelivery` | the rows of one store: contracts, records, invitations; dispatch and undo step by step | `Create`, `Save`, `UpdateWorker`, `Remove` (ContractsService); `Resend`, `End` (ContractSendService); `Prepare`, `Replace` (in those); `DispatchReread`, `Alimtalk…`, `Undo`, `UndoError`, `Abandoned` (ContractDeliveryService); `Signup…`, `AcceptForAccount`, `AcceptRequest`, `RejectRequest`; `Decide` (sign, reject, requestCorrection); `Retire`, `CancelRetirement`, `RetireDue`, `RunDaily` |
| `InvitationLink` | abstract: what the above promises about usable links | |
| `ContractPapers` | the files of one contract | `Send`, `Undo`, `OpenScreen`, `PutSignature`, `Sign`, `SignCleanUp`; `Read`, `PutPaper`, `Insert`, `MakeCleanUp` (make, fillMissing); `RegisterPaper` and how it ends (withDocuments); `Purge…` |
| `InvitationCode`, `CodeThrottle` | the attempt rows of one number, and what their lock promises | `Enter…` (guardCode), `Send`, `Undo`, `Answer`, `CloseLink` |
| `StoreClosing`, `RowLocks` | one store, lock by lock | `Begin`, `Acquire`, `Abort`, then `Close`, `Update`, `RemoveStore`, `Retire`, `Write`, `Send`, `Accept`, `ClockIn`, `Sign` and their refusals |
| `Payslip` | one payslip | `Draft`, `Locate`, `Save`, `Recalculate`, `Confirm`, `CancelConfirmation`; `Claim`, `Mail`, `Record`, `Release`, `Abandon` (deliver) |
| `Attendance` | one person at several stores | `CheckIn`, `CheckOut`, `Record`; `BeginProxy`, `EnterProxy`, `BeginCorrection`, `EnterCorrection` with the locks between |
| `WorkSchedules`, `RowLocks` | the plans of one store | `CreateShift`, `UpdateShift`, `RemoveShift`, `Copy`, `Purge`, each lock by lock, then `Finish…`; `Retire`, `Close` |
| `AccountSignIn` | one worker account | `Login`, `CompleteSuccess`, `CountFailure`, `Refresh`, `Extend`, the PIN, link and e-mail requests, `ApplyNewPassword` |
| `AdminSignIn` | one administrator account | `Login`, `OwnSucceeds`, `TemporarySucceeds`, `RequestTemporary`, `StoreTemporary`, `ResetPassword`, `MarkSent`, changes and leaving |
| `BpOrganisation` | the accounts, stores and role groups of one BP | `BeginMaster`/`SaveMaster`, `BeginAdmin`/`SaveAdmin`, `BeginRemoveGroup`/`RemoveGroup`, `ReadBp`/`UpdateBp`, `ReadForStore`/`SaveStore`, `ChangeBpStatus`, `Withdraw`, `RemoveBp` |
| `PlatformAdmins` | platform accounts and role groups, lock by lock | `BeginChange` … `Change`, `BeginRemoval` … `RemoveGroup` |
| `MenuRights` | the rights of a base role and the groups under it | `ReadMenus`, `ReadCeiling`, `SaveTeam`, `SaveBase`, `Reshape` |
| `PlatformMenus`, `MenuTree` | the menus, and what their administration promises of their order | `Create`, `EditScreen`, `EditElsewhere`, `Move` |
| `ExportJobs` | rows, files and two instances of the batch | `Ask`, `Insert`, `FinishDirect`; `StartRun`, `Recover`, `Sweep`, `Claim`, `Check`, `Build`, `Put`, `Settle`, `Drop`, `Fail`, `Mail`, `Die`; `Purge`, `HandsOut` |

The eight `…Proofs` modules hold the theorems (section 4): of the contract core
`ContractDeliveryProofs`, `ContractOfferProofs` and `ContractLinkProofs`; of the others
`AccountSignInProofs`, `BpOrganisationProofs`, `OperationsProofs` (attendance and work
schedules), `PayslipProofs` and `StoreClosingProofs`.  They extend the `MC…` module where
several components stand side by side.

`MC…` modules give TLC its instances.  Six of them put up to four of the modules
above side by side, with a variable `part` that says, from the initial state on, which
one a behaviour is about while the others stand still.  The parts share no
rows, so nothing is lost; their state spaces add up instead of multiplying, and one
symmetry serves all of them: model values of different parts are the same values where
that makes the sets interchangeable.

One transaction is one step where the code holds, from its first decisive read to its
commit, a lock that every writer of the same rows takes.  Where it does not
(`StoreClosing`, `PlatformAdmins`, `WorkSchedules`, and every request that reads first
and writes later) the steps are separate.

### State of `ContractDelivery`

| Variable | In the code |
|---|---|
| `account[ph]` | an account with that phone number exists |
| `staff[s]` | `staff_members`: joinStatus, phone, candidateAccountId (named by its phone), employmentStatus with retiredDate (`leave`), whether retirement log rows refer to it (`logged`) |
| `contract[c]` | `contracts`: status, staffMemberId, draftAction, sentAt, signDeadlineAt (as the stamp the 30 days count from), whether previousContractId is set |
| `history[c]` | `contract_status_histories`, as far as it is read: the newest row's status, the send that wrote it, whether SIGNED, REJECTED or EXPIRED has been recorded |
| `inv[n]` | `invitations`, by the stamp of the send: status, record, kind |
| `pending` | the `PendingInvite` values a request holds between its commit and its answer, with the point `dispatch` has reached |
| `out`, `lost` | sends the provider took; sends nobody will settle |
| `stamps`, `lapsed` | the clock |

The other modules say in their headers and beside their variables which columns they
stand for.

### Abstractions

* **Time** in `ContractDelivery` is the order of the stamps: each send, and each
  acceptance of an affiliation request, takes the next one; stamps up to `lapsed` are
  over 30 days old.  A send's stamp is also the id of its invitation and the
  contract's sentAt, as `p.now` is in the code.  `Lapse` waits for sends under way.
  RETURN_CONFIRM is written, answered and undone as AFFILIATION_CONFIRM, REINVITE as
  SIGNUP.  An account is named by its number.  Names and contract periods are not state:
  where they decide, every outcome is allowed.  A record with invitations or
  retirement log rows cannot be deleted (ON DELETE RESTRICT), which is a guard.  Left
  out: the correction of signed contracts, overlaps of work time and periods, terms,
  the notice to joined staff, `resendCount`, consents.
* **`ContractPapers`**: what a paper says is the version of the terms (the send they
  were written for) and of the store's details.  A key no row and no object uses is
  free again.  The five minutes of grace of the batch are dropped; `afterSent` and
  `afterSigned` read what the batch reads.  Objects nobody refers to that could
  not be deleted are not followed further.  Reading the screen is one step: sentAt is
  read first and `sign` compares it.  The purge takes one contract.
* **`Payslip`**: moments are compared for equality, so a fresh one is the smallest
  nobody holds.  Amounts are blank or entered; the attendance they are worked out of
  gives overtime pay or not.
* **`Attendance`**: a time is a number of days; the account's row and the record's row
  are the two locks an administrator may take.  A correction gives a check-in and a
  check-out; of a check-in that is open the check-out may be left out, and it then stays
  open.  Consent and location decide only
  whether a request is allowed.
* **`WorkSchedules`**: a day is a slot and a night shift overlaps the next one; the
  table's EXCLUDE constraint is not used as a guard, the code has to do without
  it; the purge goes row by row.  Notices and what is hidden from the headquarters are
  left out.
* **`AccountSignIn`**, **`AdminSignIn`**: passwords, addresses and PINs are versions and
  rows; secrets stand in the order of their issue, of which the code's
  comparison of `issued_at` uses only the order.  The lock by failures is counted in
  the first; the second only has an account barred or not.
* **`MenuRights`**: create, update and delete behave alike and are one right "write".
  **`PlatformMenus`**: names, codes and writes within one millisecond are left out; a
  URL is the sequence of its segments.
* **`ExportJobs`**: a file is the set of stores it shows.  `scope`, the stores the
  requester manages, may change to any set and back; seeing all stores of the BP is one
  more value of it.  `hidden` are the stores whose staff the requester may not see, for
  the role that is kept from them (a BP master); for the others it is empty.
  An archive is of the stores of its row, checked for inclusion when it is made
  and when it is fetched (`StoresKept`, `MayDownload`); what it may show of them is judged
  by a status and a consent read one after the other, and `hidden` stands for both, so
  `Shown` allows whatever either reading allows.  A workbook notes a fingerprint, which is
  the value of `scope`, before it is made (`Check`), and is fetched with an equal one.
  An account or a role that is refused is a choice of `Build`; for downloads these checks
  are left out, which hands out more and not less.  A claim reads back the
  attempt in a second statement; the model does so in one, and keys, which are
  random in the code, are named by row and attempt.  The clock has ticks after which
  attempts are stuck and files expire.
* **`StoreClosing`**: days; one contract and one invitation per record; the log and
  the notices are left out.

## 3. What is checked

`tlc -config <run>.cfg <module>`.

| Run | Module | Instance | Shows |
|---|---|---|---|
| `sends_and_codes` | `MCSendsAndCodes` | 1 record and contract, 2 numbers, 3 stamps; codes for a number at 2 stores, 2 sends, 2 failures lock; papers of a contract sent twice, 2 makers | all overlaps of three sends of a contract; the throttle through sends and undos; rows and files through lost answers |
| `people` | `MCContractDelivery` | 2 records, 2 contracts, 2 numbers or 2 leavers of one number, 3 stamps | replacement, change of number, leaving and rehire |
| `everything_closes` | `MCOffersAndPapers` | 1 record that may retire, 1 contract, 3 stamps; 1 maker, 2 sends | liveness |
| `identity` | `MCIdentity` | 2 requests at a time on one worker's and one administrator's account | passwords verified before the lock, secrets mailed around the commit |
| `organisation` | `MCOrganisation` | 2 masters, 1 franchise admin, 2 stores, 2 groups; 2 platform admins; a base role and a team; 3 to 4 menus | saves against each other, the BP's status and withdrawal |
| `operations` | `MCOperations` | 2 administrators on a payslip; 2 devices and 2 desks; 2 requests on 2 weeks of 1 record | the daily operation of a store |
| `closings_and_exports` | `MCClosingsAndExports` | 2 requests on a store with one record; 2 instances of the batch on one row | locks in different orders; files and rows through crashes |
| `draft_removal`, `refused_contract`, `withdrawn_bp`, `lost_answer`, `beyond_base` | | | the findings below, each violated |

`ContractDelivery`
* `OneLiveInvitation` of the invitations of a record at most one can be used;
  `LiveLinkMatchesContract` a usable invitation stands for a waiting contract of its
  record, and type, draftAction and candidate account agree.
* `OfferedWasSent` what waits for an answer, and what can be used, was sent, is under
  way, or was left unsettled by a failure.
* `UndoneConsistently` whenever undo would turn a contract back, the contract is still
  as its send left it; and the newest history row names the status, also
  after an undo has deleted rows.  `StatusFollowsTable` a status changes along the table
  or by an undo.
* `OneInProgressPerPhone`, `OneEmployedRecord`, `SigningIsPossible`,
  `LeaverHoldsNothing` as their names say; `IInv` is the invariant of the proofs.
* `ImplementsInvitationLink` refinement; `OffersEnd` no link stays usable and no
  contract waits for a signature for ever.

`InvitationCode`, `ContractPapers`
* `ReceivedCodeWorks` whoever holds a usable link finds the number locked only after
  five failures since its send; `ImplementsThrottle` the undo of a send puts count
  and lock back as they were, unless there was a later start.
* `RowsAndFiles` every row has its object, but for a purge that has begun and an uploaded
  paper whose commit was not answered; once the purge took the contract, nothing is
  left but what a request still holds; `PapersTellWhatWasAgreed` the papers of a
  contract show what was offered and signed; `SignedGetsItsCopy` whoever signed gets a copy in the end.

`AccountSignIn`, `AdminSignIn`
* `OpenIsCurrent`, `SentLinkWorks`, `LockHolds`, `EndedForGood`,
  `TemporariesMatchTheirMail` (a live temporary password was mailed to the present
  address, and is marked as sent only if it was).

`BpOrganisation`, `PlatformAdmins`, `MenuRights`, `PlatformMenus`
* `OneMasterPerStore`, `TeamWithinMaster`, `ActiveOnlyInActiveBp`, `AllGroupsAlive`
  (nobody is in a deleted group, at a BP or at the platform); `AlwaysAMaster`,
  `NobodyWaitsInACircle`; `TeamsWithinBase`; `MenusHold` (levels, URLs and open screens
  through edits and moves), `ImplementsMenuTree`.

`Payslip`, `Attendance`, `WorkSchedules`
* `ConfirmedAddsUp`, `SentOnceAsMailed` (SENT only by the send that mailed it and
  with nothing changed in between; no two sends at once unless one is overdue);
  `HoursCountOnce` (one check-out each, no overlap; that an account has one open
  check-in at a time, `OneOpenCheckIn`, is proved and is in no run); `PlansHold`
  (nobody planned twice or after leaving; a copy goes into an empty week);
  `HistoryIsAChain`.

`StoreClosing`, `ExportJobs`
* `GoneStoreHoldsNobody`; `CirclesAreKnown` (requests wait in a circle only where a
  contract sent again, record before store, meets a closing, or an answer, account
  before record, meets a closing or a retirement);
  `FinishedOnce`; `HandedOutWithinScope`: an archive that is handed out shows only stores
  that are managed and may be seen at that moment, whatever changed or changed back; a
  workbook shows the stores managed at that moment, unless they changed between
  the reading of its fingerprint and the making of the file (`moved`, observation 6).

Each property of a passing run fails on a mutant of the model: definitions marked
`Fault:` or `A mutant:` are plausible mistakes in the operator that follows them.

**Bounds.**  Three sends of one contract are enough for a send to overtake one that is
being undone and to have its own predecessor to revive: undo knows its own send, what
it closed and whatever came later.  Two records of one or two numbers are enough for
replacement, orphaned records and rehire, which relate one record with the others
of a number; `PeopleBound` keeps the third stamp for a rehire that follows two settled
sends.  Two failures lock instead of five: the count matters at its limit and at
nought.  Six attempt rows allow a lock, a send, a second lock and its undo.
`PapersBound` lets the store change while papers are made, and two papers be made at a
time, of a contract that was sent once and signed, else one or the other; the purge
(three years later) meets papers in the making but no signing.  `MCIdentity`'s
`MaxEvents` bounds what happens to an account to three secrets, sessions and changes:
a secret, what closes it, and a request that read it before.  In `MCOrganisation` a
save that is out of date is cut off, as it can only be given up; an edit of the BP
itself overlaps no other save of accounts, and `overtaken` saves of menu rights are
finding 5.  `MCOperations` cuts off `crossed`, observation 4 below.  One store is enough
for `scope` and `hidden` of `ExportJobs` to change and to change back at every step; the
theorem is for any number.  One store record, one job row and one planned record are enough where a property is about one row and
the requests that meet on it.  With its bounds used up a system may stop, which is
why deadlock is not checked; what waits in a circle is a property of its own.

**Fairness** (`everything_closes`).  The clock goes on (`Lapse`), the batch runs every
day (`RunDaily`, scheduled), a request that committed a send settles it or dies
(`Settle`: the provider call has a timeout).  Of papers: whoever makes one ends
(`Ends`), and the batch, which comes back every ten minutes, gets to read, to put and to
insert again and again; strong fairness says that the storage and the database do not
fail every single time.  Administrators and workers owe nothing.  Nothing that is
fair is enabled in the part that stands still.

### Findings

1. `draft_removal`: a draft whose record still has a closed invitation of an earlier
   send cannot be removed.  Send; correct the number and send again; the second
   message fails, undo deletes only its own invitation and the contract and the record
   are drafts again.  `remove` then deletes the record, which the first invitation
   still refers to (`contracts.service.ts:2413`).
2. `refused_contract`: two overlapping resends of a refused contract, both failing,
   leave a draft.  The first is overtaken and leaves the contract to the second, which
   turns back from the PENDING_SEND the first one wrote
   (`contract-delivery.service.ts:973`).
3. `withdrawn_bp`: an edit of a BP that was read before its withdrawal writes the name
   and address of the master back after they were erased (`bp-masters.service.ts:477`).
4. `lost_answer`: when the answer to the commit that finishes an export is lost, the
   file is deleted although the row says it is there (`bulk-exports.service.ts:633`).
5. `beyond_base`: rights of a group are saved by a ceiling read before the
   transaction; what the base role lost in between stays with the group
   (`bp-role-group-menus.service.ts:107`).

### Observations

Met while modelling, within what the code accepts or beyond what its docs promise; the
models follow the code, and where a property has to leave one out it says so.

1. `contracts.remove` does not delete `contract_documents` either (RESTRICT), so a draft
   with an original of an earlier send cannot be removed.
2. `withDocuments` (`contracts.service.ts:1038`) deletes uploaded paper files on any
   error of the transaction, also when only the commit's answer was lost
   (`paper.stage = "cut"`; the same mistake as finding 4).  The upload of posts and
   inquiries does the same.
3. The undo of a resend that changed party values restores the former sending time, so
   an original made later for that time shows the new values (`restored`;
   `my-contract-scope.ts:28` knows of it).
4. Attendance: if an account is linked between the reading and the locking of a
   correction, administrator and app lock different rows (`crossed`).  `HoursCountOnce`
   claims what holds until then.
5. A contract written while its store closes is `late`: an accepted gap
   (`retirement.service.ts`, around line 365).  An affiliation answer that is
   repeated (account, then record) can wait in a circle with a retirement (record,
   then account); only closings retry.
6. Exports: a bulk claim writes the batch's start as started_at; a late direct build
   overwrites FAILED with SUCCEEDED.  The fingerprint of a workbook is to be kept "at the
   same moment as the file" (comment at `excel-exports.service.ts:514`), but is read
   before the file is made and compared by value.  If the stores of the requester go
   from X to Y between the two and back to X before the download, the file of Y is
   handed out (`moved`); archives note no fingerprint and are not concerned.
7. Platform administration: a deletion that is undone and repeated between two reads
   is not noticed; the removal of a role group moves whoever was read.  Stores read the
   BP's status before their transaction.  The hourly count of temporary passwords is
   outside the lock.
8. Menus: one that became a group and a leaf again keeps "read" in a team beyond its
   base (`grouped`).

## 4. What is proved

Everything here is checked by TLAPS for any sets of records, contracts, numbers,
requests, devices, menus and rows and any values of the limits: every invariant and
every action property of the passing runs is a theorem, and so are the refinements
`ImplementsInvitationLink` and `ImplementsThrottle`.  What is left to TLC alone is the
refinement `ImplementsMenuTree` and liveness (end of this section).
The assumptions on the constants are stated where the constants are declared and
evaluated by every run of that module: `LeaversAssumption`, `MaxStampsAssumption`,
`NoOneAssumption` (`ContractDelivery`: the leavers are records, stamps are counted,
"nobody" is no record and no number), `OrganisationConstants` (`BpOrganisation`),
`EditorsAssumption` (`Payslip`: finitely many administrators, so that there is a fresh
moment), `SignInConstants` (`AccountSignIn`: limits are positive), `StoreAssumption`
(`StoreClosing`).  Those of the components that are put side by side are in the module
that does it: `HoursConstants` (bounds are numbers) and
`PlansConstants` (records are finitely many numbers, a week has days) in
`MCOperations`; `PlatformConstants` (people and role groups are finitely many numbers,
the master group is none of the others), `RightsConstants` (the base role is no
group) and `MenuConstants` (the menus of the migrations exist; menus and services have
different ids) in `MCOrganisation`; `ExportConstants` in `MCClosingsAndExports`;
`CodeConstants` and `PapersConstants` (bounds are numbers) in `MCSendsAndCodes`.

| Module | Theorems |
|---|---|
| `ContractDeliveryProofs` | `TypeCorrect`, `Invariance` (`IInv`), `AtMostOneLiveInvitation` |
| `ContractLinkProofs` | `SettledOnce`, `Implementation` (`ImplementsInvitationLink`); codes: `CodeInvariant`, `CodesThatWork`, `CodeImplementsThrottle`; papers: `PapersInvariant`, `FilesAreThere`, `PapersAreTrue` |
| `ContractOfferProofs` | `OfferInvariant`; `LinksMatchContracts`, `NothingOfferedUnsent`, `UndoTakesBackItsOwn`, `OneContractPerPhone`, `SignaturesCanBeGiven`, `LeaversHoldNothing`, `NobodyEmployedTwice`, `StatusesFollowTheTable` |
| `StoreClosingProofs` | `StoreInvariant`; `ClosedForEverybody`, `CirclesNeedAReversal`, `StoreTypes`; exports: `ExportInvariant`, `FinishedFilesStay`, `DownloadsStayInScope` |
| `BpOrganisationProofs` | `OrganisationInvariant`; `MastersShareNoStore`, `TeamsWithinMasters`, `NobodyActiveOutsideActiveBp`, `AdminsAreInLiveGroups`, `AllAreInLiveGroups`, `OrganisationTypes`; `PlatformInvariant`, `AMasterRemains`, `PlatformHasNoCircle`; menus: `TeamsStayWithinBase`, `MenusStayInShape` |
| `AccountSignInProofs` | `AccountInvariant`; `TypeCorrect`, `OpenStaysCurrent`, `SentLinksWork`, `LocksHold`, `EndedStaysEnded`; administrators: `TemporariesMatch` |
| `PayslipProofs` | `SlipInvariant`; `ConfirmedSlipsAddUp`, `OneSender`, `MailedAsSent` |
| `OperationsProofs` | `HoursInvariant`, `HoursCountedOnce`, `OneOpenAtATime`; `PlansInvariant`, `PlansStayWhole`, `HistoryStaysAChain` |

TLC checked each inductive invariant on an instance before it was proved.

### One usable link (`IInv`, `SentOnce`)

`OneLiveInvitation` is not inductive: undo puts back the invitations its prepare closed.
`SendsKnowTheirLinks` adds that these are at most one, older than the send and of the
same record; `LinksAreStamped` that the next stamp is new; `RecordsExist` that contracts
keep pointing at a record, which is what the type of the record needs when others
are deleted.  `prepare` then closes every usable link of the record before it writes
one, and undo revives one only while its own is the usable one, and deletes that.

The refinement maps an invitation in SENT to a usable link.  Its one delicate step is
undo, which looks for ACCEPTED and REJECTED but not for UNDER_AGE: that no answered link
is withdrawn needs `SentOnce`, by which a send that may be undone has not gone out, so
nobody can have signed up with its code.

### What is on offer (`OfferInv`)

The promises relate links, contracts and records, and undo restores all three from what
the process remembers of them.  `OfferInv` adds to `IInv` and `SentOnce`:

* `LinksAreOffers`: a usable link is the one the sentAt of a waiting contract of its
  record names, judged as that contract is, and its record is INVITED and nobody is
  employed under its number.  This, and one contract in progress per number, gives
  `LiveLinkMatchesContract` and tells an answer whose contract it moves.
* `StampsAreOwned`: a stamp belongs to one contract, on its row or in the memory of a
  send.  So a sentAt equal to the send's stamp, which is what undo compares, means its
  own contract, and undo brings back a stamp nobody else has.
* `SendsRemember`: what a send remembers of the contract before it is a status it can
  have been in; it wrote a history row if and only if the status moved, and whoever
  waits since has a row at least as late; a link it closed without replacing anything
  was its own contract's.  This is why undo finds the row it deletes
  (`UndoneConsistently`), and why a link it revives is an offer again.
* `WaitingIsAccounted`, `LinksAreAccounted`: a contract waits on a link that is usable or
  a send that went out or was left unsettled, and whoever is INVITEd has a
  deadline.  `OfferedWasSent` follows from these two.
* `SendsAreOpen`: no send under way is 30 days old or settled, so the batch closes only
  links that are settled, and undo never meets one of those.

`Prepare` with `Replace` is the one hard step: lemmas about the rows they leave
(`ReplaceRows`, `SendRows`) and about one send (`SendingKeepsDealings`) are shared by
the four requests that send.

### Codes and papers (`CodeInv`, `PapersInv`)

The rows of a number are read backwards from the newest to the last start, so
`CodeInv` says that a count is reached one failure at a time since that start
(`RowsCount`), and that the start a send wrote stays unless the send is undone
(`SendsFit`): an undo deletes its own start with what was entered since, up to the next
start, so no count loses a failure from its middle.  A link is of a send that was not
undone (`LinksFit`), so whoever holds one is locked out only by failures entered after
that send.  The refinement maps every start that is left, with what was counted since, to
a count of `CodeThrottle`; an undo takes one away, and if it was the newest, the one
before it counts again.

`PapersInv` ties three things that no transaction holds together.  Keys: one in hand
belongs to one request and no row names it until its request writes that row
(`KeysApart`, `KeysAreNew`); what is stored is a row's or in somebody's hands
(`FilesKnown`, `RowsThere`); the purge holds the contract's row while it deletes
(`PurgeFits`), so nobody inserts behind it.  Terms: original and contract tell of the
same send (`TellsSend`, `RowsTell`), the worker's screen is compared by the moment of
the send (`SigningTells`), and whoever makes a copy has read what a signed contract
still says, as nothing changes a signed one (`MakersTell`).  What a backfill may meet
is the copy of a faster run, which kept the same employer.

### Locks and closings (`StoreInv`)

`LocksInOrder` says what each job holds and wants at each of its steps, and that no two
requests hold locks that exclude each other.  `CirclesAreKnown` follows from it alone:
in a smallest circle everybody holds something and waits for something; a KEY SHARE lock
is never waited for there, as only a removal or an answer that has all its locks
excludes it; two closings conflict on the store's row, which both take first; and whom a
retirement waits for on an account would be a closing that holds the record already.
What remains are requests that take record before store, or account before record.
`ClosingKnowsAll` is why nobody stays: while the closing holds the store's row, whoever
is employed and was not written to meanwhile is among the records it holds or still
wants, and, once it has their record, so is their account; `UpdatesAreCurrent` says that
an update that has its lock has seen the row as it is, and `ClockInsAreJudged` what one
that waits for the store's row already knows.

### Exports (`ExportInv`)

A row counts its attempts, and its key, its file and the run that makes it belong to one
of them (`RowsFit`).  `RunsFit` says what a run with an attempt in hand knows: the row
has not succeeded at that attempt, no other run has it, and the file under its key, if
the row still waits for it, is the one the run made; a file is deleted only when its
attempt is over.  Two runs never have a mail in common.  A run given up as stuck is
therefore harmless: its key is another one and its update, which names its attempt,
changes nothing.  All this holds unless the answer to a commit is lost, and
`FinishedFilesStay` says so (`~LoseAnswers`): a run that does not know that its commit
took effect deletes the file of a finished row, which is finding 4 and run
`lost_answer`.  `DownloadsStayInScope` needs no such hypothesis.  `ShowsNoted` relates the
file of a finished row to what the row says: of an archive, that it shows exactly
whom the row says it shows, which lie within the stores of the row; of a workbook, that it
shows the stores of its fingerprint, or these changed while it was made (`moved`).
`HandFits` says the same of a file that is in the hands of a run, from the reading of the
fingerprint on: until the file is made, the stores are those it read or the run knows
them to have `moved`.  What a download compares does the rest: inclusion and
visibility for archives, equality for workbooks.  The gap of observation 6 is the
exception the theorem makes, and the only one.

### Accounts of a BP (`OrgInv`)

The promises are inductive but for what requests under way have read.  `UnknownIsBlank`:
an account nobody saved yet holds nothing.  `ActiveSavesFit`: a save as active holds the
row of an active BP.  `AdminSavesFit`: a franchise admin that nobody wrote since it was
read is of the saver's team.  `RemovalsFit`: a removal of a role group has locked and
read everybody in it, and no two removals cross.

### Platform administrators, rights and menus (`PlatformInv`, `RightsInv`, `MenusInv`)

`LocksApart` says that no two requests hold locks that exclude each other, and
`RequestsFit` what each holds at its step and therefore still knows: who stops being an
active master holds, when that is written, the row of another one (`AlwaysAMaster`); a
removal of a group has locked everybody in it or has yet to, and whoever moves in
holds the group's row SHARED, which the removal has alone (`GroupsAlive`).
`NobodyWaitsInACircle` has no bound on the length of the circle: groups and rows stand
in one order, a request waits only for what comes after all it holds, and the one
that waits for the last of them has nobody to wait for.

`RightsInv` says of every menu, in use or not, that a group's rights lie within the base
role's, or a save was overtaken, or the menu was once a group (`CellsWithin`,
`GroupsKnown`); the promise itself is about what is open now.  `MenusInv` adds to levels
and URLs (`LevelsAddUp`, `UrlsTellMenus`) what a screen has read: it is as new as its
menu's row exactly while nobody else saved that (`ScreenHolds`).

### Passwords and links (`AccountInv`)

Every secret is of a password and an address the account had until now, and open ones
are of those it has.  `SentLinkWorks` needs more: a current link that is closed was closed
behind a later one that went out (`Superseded`), and the request that mails a secret
is the only one that settles it.  `LockHolds` and `EndedForGood` follow step by step.

`TempsInv` is the same for temporary passwords: a request that mailed one knows the row
it wrote and the address it mailed to (`CallsAre`), and marks or voids that row and
no other, as rows are only added and never lose their mark (`Later`).

### Payslips (`SlipInv`)

A request compares the moment it has read with the one on the row.  `FlagsAreCurrent` and
`ClaimedIsUntouched` say what equal moments mean: the flags it knows are those of the row,
and the payslip is as the send claimed it, even if a release brings the moment back.
`MarkIsOfTheLatest` says that sends have moments of their own and that the mark is that of
the one in time.  That a fresh moment exists is a counting argument about finitely many
requests (`FreshIsNew`).

### Hours and plans (`HoursInv`, `PlansInv`)

`HoursInv` holds while no edit has `crossed` a change of the account.  The locks are
`Exclusive`: who has the account's row has it alone, and so with a record's.  What an
entry found under its lock is therefore still so when it writes (`EntriesFit`), and so is
what an edit found before and under its lock (`EditsFit`).  `Recorded` gives every row
an end, so that rows of a member are apart: its check-out, or, while it is open and
may still be checked out, the time after now; once that has passed, one tick.

`PlansInv`: the rows of a record do not overlap and are taken in order, and the history
of a row ends with what the row says, unless a purge, which holds its lock, has deleted
the history and has yet to delete the row (`HistoryFits`).  Locks are taken in turn,
week before record before row (`InTurn`), and held ones do not exclude each other
(`LocksApart`).  `Relies` says what each request found once it had them: its record is
employed until that day, its time is free, its row is as it read it, the week it copies
into is empty.  That the steps of the others keep this is one lemma (`ReliesStill`) from
one fact that is shown step by step: nobody writes what a lock that is held by another
protects (`LeavesAlone`).  A copy relies on the lock of the week alone, which an entry
takes in SHARED mode before anything else.

### Only model-checked

* Liveness under fairness (`OffersEnd`, `SignedGetsItsCopy`), which is out of the prover's
  reach, as is ENABLED.
* `ImplementsMenuTree`: `MenuTree` describes levels and subtrees by recursive functions,
  and the order of siblings by operators on sequences; what these compute would need
  induction over trees and sequences, which the provers cannot instantiate.
  `MenusHold`, which speaks of each menu and its parent, is proved.
* The runs that show a finding: the property is violated there.
