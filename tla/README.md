# Lotlord: a verification of its protocols in TLA+

Lotlord is a property-management service: a Node/Express API over PostgreSQL
(`src/src`), a React client (`src/frontend`), cron jobs that run in the API
process, and Stripe, Twilio, SES, S3 and OpenAI as outside services. Several API
processes may run at once. No handler locks a row it reads: transactions run at
READ COMMITTED, and nearly every check is a query made before the transaction
that relies on it. What can go wrong in this system therefore lies between the
statements of two handlers, between a handler and an outside service that
repeats, delays and reorders what it says, or between a page and the answers it
is still waiting for. That is what the modules here model.

## Inventory

| Component | State | Operations | Interacts with | Hard part | Correct when | Module |
|---|---|---|---|---|---|---|
| Rent ledger (`ledgerService`, `chargesController`, `ledgerRepository`) | `rent_charges`, append-only `ledger_entries` | create, batch, late fee, void, void by unit | payments (checks), jobs (late fee) | checks outside the transaction; two voids at once | every charge is billed once and reversed once when voided; a voided charge carries no money | `RentLedger` |
| ACH payments (`stripeService.createPaymentIntent`, `paymentController`) | `rent_payments`, Stripe PaymentIntents | tenant, admin and manual payment | Stripe, ledger | Stripe call between check and insert; crash between intent and row | never more than the charge; no credit without money | `RentLedger` |
| Payment webhooks (`webhooks.js`, `onPaymentSucceeded`, `onPaymentFailed`) | the same rows | succeeded, failed, canceled | Stripe | repeated, late, reordered, concurrent delivery; 500 and retry | each payment credited once; completed is final; success is applied in the end | `RentLedger` |
| Reconciliation script | the same rows | select, retrieve, write | Stripe, webhooks | rows selected once and written later | as above | `RentLedger` |
| Late-fee job (`jobs/lateFee`) and advisory locks | session locks, fees | fire, query, bill | ledger | two processes; work between query and write | one run at a time; one fee per overdue charge | `LateFees` |
| Notices, rent reminder, lease warnings (`notificationService`, `jobs/*`) | `notifications_log`, locks | send by two channels, remind, warn | SES, Twilio | a provider's answer that is lost, a restart on the day of a run | the log is honest; nobody is reminded twice | `Notices` |
| Maintenance requests, documents, attachments | request rows, file rows, objects in S3 | create, change, upload, delete | notices, S3 | row and object written one after the other | a row has its object and an object its row; a status reaches its submitter | `Upkeep` |
| Leases, units, properties (`leaseService`, `unitService`, `propertyService`) | `leases`, `units.status`, `properties` | create, update, archive | charges, billing (limits) | vacancy read outside the writes; unit freed twice | one live lease per unit; occupied exactly when let | `Occupancy` |
| Conversations (`conversationService`, `emailInboxService`) | threads, drafts, sent flags | inbound, draft, approve, reply | OpenAI, SES, Twilio | approval against automatic send; crash between claim and send | a draft is sent at most once; replies are capped | `Conversation` |
| Subscription billing, Connect, Twilio numbers, tenants' customers | columns of `users` and `tenants`, objects at the service | get or create, checkout, webhooks, polls, release | Stripe, Twilio | call between read and write; events out of order | nothing at a service is forgotten; the row settles; one subscription | `Integrations` |
| Bank accounts, cards, commercial units | set-ups and accounts at Stripe, the page's list, the default card, a quantity | connect, verify, list, remove, save, sync | Stripe, pages | two reads of one list; several calls per save | the page is right about what Stripe has | `Wallets` |
| Authentication (`authService`, `middleware/auth.js`) | `users`, refresh cookies, `token_version`, reset tokens | register, login, refresh, logout, reset | users, invitations | checks before a password hash; a log-in under way during a reset | one account per address; old sessions end with a reset | `Accounts` |
| Invitations (`invitationService`) | `tenant_invitations` | create, resend, delete, accept | users, leases | acceptance against resending, deletion and another acceptance | an accepted invitation has its account | `Accounts` |
| Browser session (`authStore`, `axios` interceptors, query cache) | user, token, cached answers, queue of calls | renew, log in and out, reload | other tabs, API | renewals that overlap log-outs; calls that wait for one | no data of others; old cookies are dead; nobody waits in vain | `Session` |
| Rent schedules (create and edit pages of a lease) | months, charges listed, requests in parallel | plan, batch, add months, void and terminate | charges API, other pages | a list that is out of date; the first refusal decides; time zones | what a page reports done is done; one rent a month | `RentPlan` |
| Ledger page, statements, portfolio | reports put together from several queries | read, export | everything that writes | queries not of one snapshot; entries dated by rows that change | figures of a report agree; what was issued stays | `Statement` |
| Panes and dialogs of the client | fields, request under way, last word | open, type, send, close | API | an answer for a row that is no longer shown | nothing left over; late answers pass | `Panes` |
| Connection pool (`config/db.js`) | ten connections | connect, release, timeout | every handler | a handler that holds one and asks for another | every request ends | not modelled |
| ACH fee, status of a charge, analytics, audit, users | none, or rows of their own | compute, CRUD | all | rounding | agree with a definition | not modelled |

`PROJECT.json` lists the components with their status and their source files, and
the hazards of the code at their lines, each with the properties that cover it.

## How the modules hang together

| Layer | Modules | Instances for TLC | Proofs |
|---|---|---|---|
| Money | `RentLedger`, with the abstract `LedgerBook` | `MCRentLedger` | `RentLedgerProofs` |
| Jobs | `LateFees`; `Notices`, extended by `Upkeep` | `MCLateFees`, `MCUpkeep` | `LateFeesProofs`, `UpkeepProofs` |
| Homes | `Occupancy` | `MCOccupancy` | `OccupancyProofs` |
| People | `Accounts`, `Conversation` | `MCAccounts`, `MCConversation` | `AccountsProofs`, `ConversationProofs` |
| Services | `Integrations`, extended by `Wallets` | `MCIntegrations` | `WalletsProofs` |
| Browser | `Session`, `RentPlan`, `Statement`, `Panes`, put together by `Client` | `MCClient` | `ClientProofs` |

`Upkeep` and `Wallets` compose: a change of a maintenance request posts the notice
that `Notices` sends; a tenant's request for a set-up looks up or creates his
customer by the protocol of `Integrations`. `Client` puts four modules side by
side that share no variable: a behaviour is about one of them (`topic`).

## Plan

Done: the modules above, their runs, and theorems for each of them. In order,
what is left:

1. Co-tenants in `Occupancy`: `addCoTenant` counts its five before the insert.
   They multiply the states of `OC_all` and are left for an instance of their own.
2. `balance_after` of the ledger, a snapshot no decision reads.
3. The connection pool: ten connections, handlers that need two, jobs that hold
   one for their lock; liveness by the two-second timeout.
4. Pure functions: the ACH fee, the status of a charge.

The number of runs is kept small: one for what holds under every interleaving of
a component, and a second one only for what needs an assumption.

## Modules

### `RentLedger`

One lease, its charges, the payments on them and the entries of its ledger.

| Variable | Code |
|---|---|
| `charge[c]` | row of `rent_charges`: absent, open, or `voided_at` set |
| `payment[r]` | `rent_payments.status` of the row that request `r` inserted |
| `billed`, `reversed`, `credited` | number of `ledger_entries` of type charge, credit and payment with this `reference_id` |
| `intent[r]` | Stripe's PaymentIntent of request `r`; `failed` is `requires_payment_method`, which is also an intent nobody confirmed yet |
| `event[<<kind, r>>]` | Stripe's delivery of an event: not sent, due, or answered with 200; `payment_failed` and `canceled` are one kind, as one handler treats them alike |
| `req[r]` | where request `r` stands between two awaits, and what it has read |
| `hook[h]` | the event that webhook handler `h` has read the row for and will apply |
| `recon` | the script's selected rows, the one it asks Stripe about, and the answer |

A request inserts at most one payment row and creates at most one intent, so row,
intent and request share a name. A transaction that writes is one action, its
commit: the statements before the commit are reads without locks, and the one
read that guards the writes of a transaction (the second check of
`ledgerRepository.voidCharge`) is an action of its own.

| Actions | Code |
|---|---|
| `PostCharges` | `createChargesBatch`, `createCharge`, `createRentCharge`, `applyLateFee` |
| `TenantReadCharge`, `TenantCheckPending`, `TenantCheckPaid` | `createMyPaymentIntent`: one action per query it decides on |
| `AdminStart` | `createStripePaymentIntent`, which checks nothing about the charge's state |
| `CreateIntent`, `InsertPayment`, `InsertFails`, `CancelIntent` | `stripeService.createPaymentIntent` |
| `ManualReadCharge`, `ManualCheckPaid`, `RecordManual` | `recordManualPayment` |
| `VoidReadCharge`, `VoidCheckPayments`, `VoidCheckCompleted`, `CommitVoid` | `chargesController.voidCharge` and `ledgerRepository.voidCharge` |
| `SelectUnitCharges`, `CommitUnitVoid` | `voidChargesByUnit` |
| `Abort` | any failing statement or Stripe call, the death of the process, a refused cancellation |
| `IntentSucceeds`, `IntentFails`, `IntentReconfirmed` | Stripe and the bank (external) |
| `Deliver`, `DeliverInVain`, `CommitSucceeded`, `CommitFailed`, `HandlerFails` | the webhook route with `onPaymentSucceeded` and `onPaymentFailed` |
| `ReconSelect`, `ReconRetrieve`, `ReconComplete`, `ReconFail`, `ReconError` | `scripts/reconcile-payments.js --commit` |

`Features` names the endpoints and outside events of an instance, `Hooks` bounds
the webhook handlers that run at once, and `Serialized` lets API requests run one
at a time. They exist to state what each property depends on: a property that
fails when two handlers overlap may still hold, and matter, when they do not.

### `LedgerBook`

The abstract specification: entries are only added, a charge is billed once, a
billed charge is reversed at most once, a payment is credited at most once.
`RentLedger!BookSpec` instantiates it with the ledger variables themselves.

### `RentLedgerProofs`

Theorems of `RentLedger`, see below. `MCRentLedger` holds the instances for TLC.

### `Conversation`

One tenant and their landlord: e-mails and texts that come in, the threads they
enter, the drafts of the AI and what becomes of them.

| Variable | Code |
|---|---|
| `log` | rows of `notifications_log` with status received; an e-mail's carries the unique `external_id`, a text's none |
| `conv[p]` | `ai_conversations.status` of the conversation that post `p` created |
| `thread` | posts whose message is in `ai_messages` with role user |
| `draft[p]`, `born[p]` | the draft that post `p` led to: `suggested` and `sent_at`, and its place in `created_at` |
| `mode` | `users.ai_enabled` and `ai_reply_mode` of the landlord |
| `inbound[p]` | where the handler of post `p` stands, its conversation, the status and the mode it has read |
| `op[o]` | an approval or dismissal: the conversation, the draft asked for, the draft found |

A post is one delivery of a webhook; `MailOf` says which message it carries, so
that two posts of one message are a repeated delivery.

| Actions | Code |
|---|---|
| `Receive`, `LogMail` | `processInboundEmail` and the SMS webhook: the look-up, then the insert that a unique column may refuse |
| `Route`, `CreateConversation`, `AppendInbound`, `Triage`, `CheckLimit`, `AppendDraft` | `_handleInbound`, one action between two awaits whose results matter |
| `Click`, `FindDraft`, `MarkSent`, `Deliver`, `Unmark`, `DeleteDraft` | `approveDraft` and `dismissDraft`, `approveSuggestedReply` (also when a post sends its own draft) and `dismissSuggestedReply` |
| `InboundFails`, `OpFails` | a statement or provider call that throws, the death of the process |
| `SetStatus`, `SetMode` | `updateConversation`, `supervisorUpdateConversation`, `updateMe` |

The text of a message is reduced to whether it holds a trigger word. Which of
several active threads of a channel a message joins is left open, where the code
takes the one with the latest `last_message_at`. All drafts count as sent in the
same 24 hours. `ConversationProofs` holds its theorems, `MCConversation` its
instances.

### `LateFees`

The daily late-fee job in every process, and what changes under its feet.

| Variable | Code |
|---|---|
| `today`, `offset` | `CURRENT_DATE`, and how the date in UTC that `applyLateFee` stamps on a fee differs from it at nine in the morning (0, or -1 when the database keeps the time of a zone far to the east) |
| `charge[c]` | `due_date` of a rent charge that is neither voided nor paid, 0 for none |
| `lease[l]` | active or not, with a late fee or not, and the grace period |
| `feeDate[l]` | the latest `due_date` of the lease's `late_fee` rows: the query asks whether one lies on or after a charge's |
| `lock`, `job[i]` | the advisory lock's session and the run of process `i`: the rows it has selected, the one it is billing |
| `billed[r]` | history: fees booked for a charge and due date |

| Actions | Code |
|---|---|
| `Fire`, `Finish` | `withAdvisoryLock` around the job; a process that finds the lock taken skips its run |
| `Query`, `Take`, `ApplyLateFee` | `lateFee.run` with `findOverdueUnpaidCharges`, and `applyLateFee`: the lease is read, then the transaction commits |
| `StatementFails`, `Crash` | a query or transaction that throws; the end of the process, and with its session the lock |
| `CreateCharge`, `CloseCharge`, `MoveCharge`, `CreateFee`, `EditFee`, `UpdateLease`, `Tick` | everybody else |

`EditFee` clears the history of its lease: a landlord who moves a late fee to an
earlier date, or makes it a charge of another type, asks for the next run to bill
again. `LateFeesProofs` holds the theorems, `MCLateFees` the instance.

### `Accounts`

How accounts come to be and how long their sessions last.

| Variable | Code |
|---|---|
| `user[u]` | row of `users`, with `token_version`, the number of the password it holds, and the invitation it came from (which the code does not store); a tenant's row of `tenants` is part of it |
| `invite[i]` | row of `tenant_invitations`: address, type, the number of its token, `expires_at` ahead or not, `accepted_at`, `tenant_id` |
| `link[l]` | row of `password_reset_tokens`: whose it is, or no longer valid |
| `cookies` | every refresh token that was handed out: whose, its `tokenVersion`, and the password its session was opened on |
| `settled[u]` | history: the latest password whose reset has come as far as the new `token_version` |
| `req[r]` | where a request stands between two awaits, and what it has read |

| Actions | Code |
|---|---|
| `Register`, `CommitRegister` | `register`: the checks, then (a password hash later) the transaction |
| `CreateInvitation`, `CheckPending`, `CreateEmployeeInvitation`, `InsertInvitation` | `createInvitation`, `createEmployeeInvitation` |
| `AcceptInvitation`, `CheckEmail`, `CommitAccept` | `acceptInvitation`; `IssueTokens` is its end |
| `ResendInvitation`, `RefreshToken`, `DeleteInvitation`, `RemoveInvitation` | `resendInvitation`, `deleteInvitation` |
| `Login`, `SignLogin`, `VerifyEmail`, `IssueTokens`, `Logout` | `login`, `verifyEmail`, `issueTokensForUser`, `logoutUser` |
| `ForgotPassword`, `ResetPassword`, `UpdatePassword`, `IncrementTokenVersion`, `MarkUsed`, `DeleteForUser` | `forgotPassword`, and `resetPassword` statement by statement |
| `InvitationExpires`, `LinkExpires` | time |
| `Stops` | a refusal, a failed statement, a roll-back, the death of the process |

A refresh is not an action: it answers with a token that is equal, for the model,
to the one it was given, and `Refreshes` says whether it does. `AccountsProofs`
holds the theorems, `MCAccounts` the instance.

### `Occupancy`

The properties, units and leases of one landlord.

| Variable | Code |
|---|---|
| `property[p]`, `unit[u]`, `lease[l]` | rows: type and `deleted_at`; property, `status` and `deleted_at`; unit and whether the status is active or pending |
| `paid` | the landlord's plan, which lifts the limits |
| `req[s]` | a request between two awaits, with what it has checked |
| `doubt[u]` | history: another request wrote behind the back of one that had read the unit, or its status was set by hand |
| `exempt` | history: there was a plan once, or an administrator passed a check |

| Actions | Code |
|---|---|
| `CreateProperty`, `InsertProperty`, `UpdateProperty`, `CascadeArchive` | `propertyController`, `propertyService`: the limit is counted, then the row inserted; an archive is one transaction over property and units |
| `CreateUnit`, `AssertMultiFamilyCap`, `InsertUnit`, `UpdateUnit`, `DeleteUnit`, `RemoveUnit` | `unitService`: each count and each look at leases is apart from the write |
| `CreateLease`, `InsertLease`, `OccupyUnit` | `leaseService.createLease`: its two writes do not run on the connection of its transaction and commit one by one |
| `EndLease`, `UpdateLease` | `updateLease`, with what it does to the unit |
| `SubscriptionChanges`, `RequestFails` | Stripe; any failing statement or the death of the process |

### `Integrations`

One row and one object at a service: a landlord's billing customer with its
subscription, his Connect account, his Twilio number, or a tenant's Stripe
customer. The columns are disjoint, so a behaviour is about one `kind`.

| Variable | Code |
|---|---|
| `row` | the columns: id, onboarded, subscription, status |
| `remote`, `ready`, `open`, `sub` | objects at the service, accounts that can be paid out, checkout sessions, subscriptions |
| `events` | Stripe's events that are not yet answered with 200 |
| `req[s]` | a request or a webhook call between two awaits |
| `doubt` | history: why row and service may have parted (overlap, cut, blind, reorder, twice, replaced) |

| Actions | Code |
|---|---|
| `Ask`, `Verify`, `CreateRemote`, `Attach`, `Persist` | `getOrCreateStripeCustomer`, `getOrCreateBillingCustomer`, `getOrCreateConnectAccount`, `provisionSmsNumber`: read, retrieve, create, write |
| `OpenSession`, `CompleteSession`, `SubChanges` | `createCheckoutSession` and its embedded form; Stripe Checkout and Stripe |
| `SubscriptionEvent`, `SessionEvent`, `Settle` | the billing webhooks: find the landlord, then write |
| `AccountChanges`, `AccountEvent`, `LookUp`, `Poll`, `Sync` | Connect: the onboarding, `account.updated`, deauthorization, `getConnectStatus` |
| `Remove`, `Clear`, `RemoteGoes` | `deprovisionSmsNumber`, `reset` of an account that is gone; dashboards |
| `Stops` | any failing call, the death of the process |

### `Wallets`

What customers are for; extends `Integrations`, whose actions on a tenant's
customer it composes with the requests about his bank accounts.

| Variable | Code |
|---|---|
| `bank[b]`, `setups` | accounts and set-up intents at Stripe, the set-ups oldest first |
| `listed`, `dialog`, `heard` | the tenant's profile page, `ConnectBankDialog`, answers on their way to its form |
| `card` | the customer's and the subscription's default card, and the panel of the payments page |
| `units` | commercial units and the quantity of the subscription's item |
| `job[s]` | what a request has found out |
| `slip` | history: what may have set page and Stripe apart |

| Actions | Code |
|---|---|
| `AskBank`, `CreateSetup`, `Confirm`, `HearConfirm`, `OpenDialog`, `CloseDialog`, `SetupFails` | `createSetupIntent` and the dialog that connects an account |
| `ReadBanks`, `ReadSetups`, `List` | `listPaymentMethods`: two calls side by side, joined afterwards |
| `FindSetup`, `VerifyAmounts`, `VerifyElsewhere`, `FindBank`, `Detach` | micro-deposits in the dialog or on Stripe's page; removal |
| `Save`, `ReadRow`, `SetCustomer`, `SetSubscription`, `Saved`, `SaveFails`, `OpenPanel`, `ClosePanel` | `setBillingPaymentMethod` with `BillingPaymentMethodDialog` |
| `Subscribe`, `Unsubscribe`, `Learn` | Stripe, and the row's knowledge of it |
| `ChangeUnits`, `Archive`, `Count`, `FindItem`, `SetQuantity`, `SyncFails` | units that come and go, `syncCommercialUnitQuantity` |

### `Notices`

Notices by two channels and the two jobs that send them.

| Variable | Code |
|---|---|
| `notice[n]` | what it is about, the process that sends it, and how far each channel has come: its row of `notifications_log` when ended |
| `out` | what SES and Twilio have delivered |
| `agenda`, `day`, `due`, `settled` | the job of the behaviour, the date, due days and lease ends |
| `fired`, `lock`, `job[i]` | timers gone off today, the advisory lock, the run of a process |
| `doubt` | history: an answer lost, a stop in the middle, a run repeated |

| Actions | Code |
|---|---|
| `Send`, `Mark` | `executeSend`, `executeSendSms`: the provider, then the log |
| `WriteMessage` | `notificationController.sendMessage` |
| `Fires`, `SendNext`, `Finishes` | `withAdvisoryLock` around `rentReminder.run` and `leaseExpiry.run`, one notice after the other |
| `Dies`, `NextDay`, `IsSettled` | the end of a process, the calendar, payments and ended leases |

### `Upkeep`

A maintenance request, its attachments and a landlord's documents; extends
`Notices`.

| Variable | Code |
|---|---|
| `desk` | what callers ask for in this behaviour |
| `ticket` | the row of the request, with who submitted it and who changed it last |
| `store[f]`, `row[f]` | objects in the bucket; rows of `maintenance_attachments` and `documents` |
| `task[s]` | a handler between two awaits |

| Actions | Code |
|---|---|
| `CreateRequest`, `BeginUpdate`, `WriteUpdate` | `createRequest`, `updateRequest`: the row is read for the check and for the notice, then written |
| `BeginUpload`, `Put`, `InsertRow` | `addAttachment`, `uploadDocument` |
| `BeginRemove`, `BeginDelete`, `DeleteObject`, `DeleteRows`, `DeleteTicket` | `removeAttachment`, `deleteDocument`, `deleteRequest` |
| `Stops` | a failing statement, the death of the process |

### `Session`

One tab of a browser, and the cookie it shares with the others.

| Variable | Code |
|---|---|
| `version`, `cookie` | `users.token_version`; the refresh cookie |
| `shown`, `loading`, `cached` | `authStore` (user), the first renewal, the query cache |
| `call[k]`, `leader` | calls to the API, `failedQueue` and the call that renews (`isRefreshing`) |
| `renewal`, `entry`, `exit` | answers to a renewal by timer or by a call, to a log-in and to a log-out |
| `opened`, `slipped` | history: versions that were logged in under; whether the user changed without the cache being cleared |

| Actions | Code |
|---|---|
| `Send`, `Answered`, `Unauthorized` | the interceptors of the client |
| `TimerFires`, `Boot`, `RenewedForCall`, `RenewalFails`, `Reload` | renewals and what becomes of them |
| `LogIn`, `Entered`, `LogOut`, `LoggedOut` | `useLogin`, `useLogout`, `authController.logout` |
| `OtherTab` | other tabs: they change cookie and versions |

### `RentPlan`

The schedule of a lease: the pages that create a lease, the page that edits it.

| Variable | Code |
|---|---|
| `lease`, `vacant`, `charge` | rows of the server: term and status, the unit, each charge with what became of it |
| `page[p]` | where a page stands, the charges it has listed, the plan in its hands, what it said last |
| `waits[p]`, `strays` | requests a page waits for, and those nobody waits for any more |
| `saves`, `swept`, `blur` | a bound; history: leases ended by "Void & Terminate"; what put a page out of step |

| Actions | Code |
|---|---|
| `CreateLease`, `ListUnit`, `Choose`, `ClearUnit`, `Batch` | `LeasesPage` and `PropertyDetailPage`: the lease, the question about charges that are there, one batch |
| `OpenEdit`, `Refetch`, `Save`, `TerminateVoid`, `TerminateSkip`, `Put` | `EditLeasePage` |
| `Answer`, `Stray`, `Leave` | `Promise.all` over requests: the first refusal decides, the others stay on their way |
| `Pay`, `Settle` | payments on charges |

`MonthlyDueDates`, `EditDueDates` and `Schedule` are the date arithmetic of the
pages; `Shift` is 1 for a browser west of UTC, which reads a date as the evening
before.

### `Statement`

Reports over one lease's ledger, put together from queries that run beside
writes.

| Variable | Code |
|---|---|
| `bill`, `money`, `entries`, `today` | charges, payments, ledger entries, the date |
| `report` | the report asked for or shown: its period, the queries not yet answered, the sums |
| `during`, `since` | history: dates that writes touched while it was read, and since it is shown |

| Actions | Code |
|---|---|
| `CreateBill`, `UpdateCharge`, `VoidCharge`, `RecordManualPayment`, `StartDebit`, `DebitSucceeds`, `Tomorrow` | everything that moves an entry or its date |
| `AskReport`, `Read` | the lease page, the export, the portfolio: each query of `ledgerRepository` by itself |

### `Panes`

The places of the client in which one row is worked on, one `kind` in a behaviour.

| Variable | Code |
|---|---|
| `kind`, `pane` | the pane and its state: the row, editing or not, the text, the last word, the request it heeds |
| `rows`, `listed` | charges on the server and as the page listed them |
| `out[q]` | requests under way and their answers |
| `typedFor`, `written`, `harm` | history: the row each text was typed for, what the server took, whether an answer reached what it was not about |

| Actions | Code |
|---|---|
| `Select`, `Close`, `StartEditing`, `StopEditing`, `Type` | opening, shutting and typing: `ChargeDetailDrawer`, `MaintenanceDetailDrawer`, `PaymentDialog`, `MessagesPage`, `SupervisorPage` |
| `Submit`, `Serve`, `HearAnswer` | a mutation, the server, `onSuccess` and `onError` of each pane |
| `Elsewhere`, `Relist` | payments and voids by others; the list fetched again |

### `Client`

`Session`, `RentPlan`, `Statement` and `Panes` side by side. `ClientProofs` proves
about it, `MCClient` holds the instance.

## Runs

| Run | Instance | Question |
|---|---|---|
| `RL_all` | one charge, two requests, two handlers, everything switched on | what holds for every interleaving: `EveryRowIsBooked`, `MoneyBehindEveryCredit` |
| `RL_onehook` | one handler, no script; fair delivery | `CreditedExactlyOnce`, `SuccessIsApplied` |
| `RL_serial` | three requests one at a time, one handler, explicit amounts | `BookSpec` (refinement), `VoidedCarriesNoMoney`, `NeverOverdebited` |
| `RL_bug_webhook` | one request, two handlers | `CreditedAtMostOnce`: the "idempotent" webhook credits twice |
| `CV_all` | an e-mail delivered twice, a text, two clicks, failures anywhere, handlers interleaved | `SentByOne`, `ThreadedOnce` |
| `CV_serial` | a plain and an urgent e-mail and a text, handled one at a time, automatic replies | `SilentWhenEscalated`, `RepliesAreCapped`, `AutoOnlyWhenOptedIn` |
| `LF_all` | two processes, two charges of one lease, three days, one crash or failure | `FeeOnce`, and with fair timers `FeeComes` |
| `AC_all` | two accounts, one address, one invitation, one reset link, two requests | `AcceptedIsBacked`, `OldPasswordsAreOut` |
| `OC_all` | one property, two units, two leases, two requests, limits of one | `OneLiveLease`, `StatusIsTrue`, `ArchivedIsFree`, `LimitsHoldUpToOverlap` |
| `IN_all` | two objects, two subscriptions, two events, two requests; one bank account, three set-ups of which two are looked at, two cards, three units | `RemoteIsKept`, `RowIsSettled`, `OneSubscription`, `VerifiedIsTrue`, `CardToldIsCharged`, `UnitsAreBilled` |
| `UK_all` | one request, two files, two handlers; two notices, two processes, 35 days | `LogIsHonest`, `RemindedOnce`, `FilesMatchRows`, `SubmitterKnows` |
| `CL_all` | two users and two calls; two pages and one lease; one charge and one payment; two rows and two requests | `OwnData`, `LogoutRevokes`, `WaitersAreServed`, `SaidIsDone`, `OneRentPerMonth`, `SweptClean`, `ReportAddsUp`, `IssuedStays`, `NothingLeftOver`, `LateAnswersPass` |

`RL_bug_webhook` checks one sentence of a comment and finds the code at odds with
it: `stripeService.js:390` calls the handler of a succeeded payment idempotent,
but the row is read before the transaction and the update has no condition on
the status, so two deliveries at once append two payment entries.

`TypeOK` of every module, and `CompletedIsFinal`, `OneRun` and `EmailsAreUnique`,
are proved and therefore checked by no run.

**Deadlock** is not checked in any run: requests, notices, events and days are
used up, and users, tenants and services may always do nothing more; an instance
really stops there. That nobody waits for ever is what `WaitersAreServed`,
`SuccessIsApplied` and `FeeComes` say where the code promises it.

### Bounds

*Ledger.* One charge is enough: no property relates two charges, except the bulk
void, which treats its charges independently. Two requests give every pairwise
race (payment against payment, void against payment, manual against tenant);
three in `RL_serial` give a part payment, a second one, and a void or a third.
Two handlers give a repeated event processed at once and a late failure beside a
success. Amounts are 1 and 2 on a charge of 2: part and whole; 0 stands for an
omitted amount. Counters of entries need no bound: every entry is tied to a
request or a charge, and repeats are limited by the events that remain
applicable.

*Conversations.* Two posts of one e-mail are the repeated delivery, the third
post is a text, whose thread is apart but whose reply counts against the same
limit; two clicks give approval against approval, against dismissal and against
an automatic reply, and one retry after a failed delivery. The limit is 2 of
three possible drafts in `CV_all` and 1 of two in `CV_serial`, where the code has
5: the count is compared once per draft, and one draft beyond the limit is the
case that matters. The three properties of `CV_serial` speak of what handlers do
in sequence: when they overlap, a draft is added to a thread that was escalated
meanwhile. `RepliesAreCapped` is checked without clicks, since approval does not
look at the limit.

*Late fees.* Two charges of one lease are the case in which one run bills two
rows and a fee of one hides the other; two processes are the race for the lock;
three days let a charge be due, overdue, billed and overdue again after an edit,
with a grace period of 0 or 1; one failure, anywhere, is a crash or an error in
the middle of a list, and the next run repeats.

*Accounts.* Two requests for one address are the race that the unique column
decides, and two requests on one invitation are acceptance against resending,
deletion and acceptance. One password after the first, two versions and one link
give a reset beside a log-in and a log-out. Overlapping resets of one account and
acceptances under different addresses take TLC too long; the proofs cover them.

*Occupancy.* Two units and two leases give the second lease on a let unit, a lease
ended while another begins, and a unit counted beside another; limits of one,
where the code has two properties and four units, are passed by the second
request. One property: no property of the run relates two.

*Services.* Two objects are the duplicate, two subscriptions the second checkout,
two events the overtaking. One kind of trouble in a behaviour (`MaxDoubts`): each
property names the troubles it excuses, so pairs of them say little more; the
proofs have no such bound. Three set-ups of which two are looked at stand for the
20 of the code: the third is the one beyond the window. Three units let a sync
write 2 over 3 and 1 over 2.

*Upkeep.* 35 days are five Mondays: a lease that ends on day 60 is in both bands of
the weekly warning, one that ends on day 62 in the first only; the daily reminder
has two due days. Two notices per behaviour are the repeated reminder. Jobs,
files and the request share their model values, as no behaviour has two of them.

*Client.* A behaviour is about one topic, so topics share model values. Two calls
are the leader and the one that waits for it. Months have three days and a lease
runs from the last day of one month into the next, extended by a day: the edit
page then asks for two months, one of which the create page left out. There is
one lease and no extra charge; two copies of a charge are the double month. A
report over two days, with one write while it is read, has an entry before, in
and after its period; two texts in a pane are one for each row.

**Symmetry** is used in runs of invariants only, over names that the
specification does not tell apart.

### Fairness

`FairSpec` of `RentLedger` assumes something of Stripe and of the webhook handler
alone: Stripe delivers an event until it is answered with 200, and a handler that
is tried again and again in the end commits (an outage of the database ends).
Strong fairness is needed because a failing handler disables its own commit each
time it gives up. In `LateFees`, weak fairness of the job as a whole: the timers
fire every day, and a run that is not stopped goes on; `FeeComes` needs the
failures to end. Nothing is assumed of tenants, operators, banks or the script,
and no other module states fairness: what they check are invariants.

## What is proved

`RentLedgerProofs`, for any sets of charges, requests and handlers, any
amounts and any features:

- `TypeCorrect`: `Spec => []TypeOK`.
- `CreditsAreBacked`: `Spec => []MoneyBehindEveryCredit`.
- `RowsAreBooked`: `Spec => []EveryRowIsBooked`.

All three follow from the inductive invariant `Evidence`. `MoneyBehindEveryCredit`
is not inductive alone: a handler or the script commits on what it has read
earlier, so the invariant adds that what they hold about Stripe's success is true
and stays true (`SuccessIsTrue`: success is terminal for an intent), that the rows
they hold exist (`HandlersHaveRows`), that a request that has not called Stripe has
no intent and one that is not over no row (`RequestsAreFresh`), and that a void in
progress is about existing charges (`DoomedExist`).

With one handler at a time and no script (`Hooks` a singleton, `"reconcile"` not
in `Features`), `HandlersAreCurrent` is inductive as well: what the handler read
of the row still holds when it commits. From it

- `CreditsAreExact`: `Spec => []CreditedExactlyOnce`,
- `CompletionIsFinal`: `Spec => CompletedIsFinal`.

With API requests one at a time in addition, `VoidsAreCurrent` is inductive (a
charge that is being voided is still open), and

- `LedgerIsABook`: `Spec => BookSpec`, the refinement.

Two more theorems are about API requests that run one at a time, now beside any
number of handlers and the script. Both rest on `FailureIsFinal`: unless an intent
is confirmed again, one that has failed never succeeds, so no late event brings a
failed payment back.

- `VoidedIsClear`: `Spec => []VoidedCarriesNoMoney`, without the admin endpoint, the
  unit-wide void and reconfirmed intents. A void that has looked at the payments
  still finds none (`VoidsAreClear`), also those that would be inserted by a request
  that began before it.
- `DebitsStayWithin`: `Spec => []NeverOverdebited`, without the admin endpoint and
  reconfirmed intents, and with every tenant naming an amount (`0 \notin
  TenantAmounts`: an omitted one debits the whole charge again). The invariant
  `DebitsFit` adds that nothing is pending when the completed payments are added up,
  and that what is about to be debited fits into what is left (`RoomFor`); what is
  added up are finitely many rows at any time, though the names of requests need not
  be finite. The facts about sums it needs (`SumPicked`, `SumAdded`, `SumOfPart`,
  `SumSame`) are proved from the library's definition by looking at a smallest
  counterexample, since the induction theorems cannot be used.

`ConversationProofs`, for any posts, clicks, repetitions, limit and features:

- `TypeCorrect`: `Spec => []TypeOK`.
- `SentByOneHolds`: `Spec => []SentByOne`, from the inductive invariant `Stamps`.
  The property alone is not inductive: a new draft must not overwrite one that is
  being sent (`Undrafted`: a handler that has not stored its draft has none, and
  has not begun to send it), and an approval must know its draft before it stamps
  it (`Targeted`). The argument for the hand-back after a failed delivery is that
  the approval that failed is itself the only holder of the stamp.
- `ThreadedOnceHolds`: `Spec => []ThreadedOnce`, from `Records`: a handler past
  the log has its row, and no two rows record one e-mail.

With handlers one at a time (`Serialized`), what a handler has read of its
conversation and of the settings still stands when it acts on it (`ReadsStand`,
which needs that one at most is at work, `OneAtWork`). From it

- `EscalationSilences`: `Spec => SilentWhenEscalated`,
- `AutoIsOptedIn`: `Spec => AutoOnlyWhenOptedIn`,
- `RepliesStayCapped`: `Spec => []RepliesAreCapped`, when nobody approves drafts by
  hand (`Clicks = {}`): a handler past the limit's check has room for its draft
  (`Room`), the drafts handed back after a failed delivery counted in.

`LateFeesProofs`, for any charges, leases, processes, calendar, grace periods
and number of failures:

- `TypeCorrect`: `Spec => []TypeOK`.
- `OneRunHolds`: `Spec => []OneRun`.
- `FeeOnceHolds`: `Spec => []FeeOnce`. lateFee.js says that "the duplicate-prevention
  logic lives in the SQL query"; the proof needs the lock as well. What a run has
  selected has no fee yet (`SelectedAreUnbilled`), which a step of another run
  would break and `OneRun` excludes; a fee that is booked hides its charge from
  every later query (`BilledAreHidden`), because a selected row lies at least a
  day back and the fee is dated at most a day before today.

`AccountsProofs`, for any accounts, addresses, invitations, links and requests:

- `TypeCorrect`: `Spec => []TypeOK`, from `BaseInv`, which adds that cookies, links
  and requests are about accounts that exist.
- `NoEmailTwice`: `Spec => []EmailsAreUnique`.
- `EveryAcceptedIsBacked`: `Spec => []AcceptedIsBacked`. An acceptance writes what
  it has read long before, so the invariant adds that it stays true of the
  invitation (`AcceptsMatch`): invitations change their token, never their type.
- `OldPasswordsStayOut`: `Spec => []OldPasswordsAreOut`. The order of the writes
  in `resetPassword` carries it: the password is written first (`SettledIsWritten`),
  so a log-in that reads the new version has read the new password or a later one
  (`LoginsAreCurrent`), and nobody holds a version that is yet to come
  (`VersionsArePast`).

`OccupancyProofs`, for any properties, units, leases, requests and limits:

- `TypesHold`: `Spec => []TypeOK`.
- `NeverLetTwice`: `Spec => []OneLiveLease`, `StatusFollowsLeases`:
  `Spec => []StatusIsTrue`, `ArchivedStaysFree`: `Spec => []ArchivedIsFree`. The
  three are inductive together with what a request has checked: a unit about to be
  let, or archived, has no live lease and is not archived, as long as nobody wrote
  behind the request (`LetInv`, `ArchiveInv`), and rows and requests are about rows
  that exist (`Refs`). The proof rests on who counts as busy: a writer always finds
  the request that has checked and not yet written, and records the doubt.
- `LimitsHold`: `Spec => []LimitsHoldUpToOverlap`. A request that was let through
  had counted fewer rows than the limit; so the rows there are and the requests
  still to insert exceed it by at most one less than the slots (`LimitInv`).

`WalletsProofs`, for any objects, subscriptions, events, banks, set-ups, windows,
cards and units, and any number of troubles:

- `TypesHold`: `WalletSpec => [](TypeOK /\ WalletTypeOK)`.
- `NothingForgotten`: `WalletSpec => []RemoteIsKept`. A request that is about to
  give the row an id must not overwrite one that exists, and what it read of the
  row is still there while nobody wrote beside it (`KeptInv`); that rests on ids
  never being shared between two requests (`IdsInv`).
- `RowAgrees`: `WalletSpec => []RowIsSettled` and `BilledOnce`:
  `WalletSpec => []OneSubscription`. "Once the events are in" is not inductive: the
  invariant speaks of the events on their way, of which the last change says what
  Stripe says (`Tells`, `TellsOf`), and of a webhook handler that has read and not
  yet written (`Settling`). A checkout under way found no plan and none has come
  since (`Asked`); every session and billing subscription is the row's customer's
  (`OnePlan`).
- `PageTellsTheTruth`: `WalletSpec => []VerifiedIsTrue`. What a list has read of the
  set-ups contains every account it has read that still awaits its deposits
  (`ListFits`), unless one was connected between the two reads or lies beyond the
  window; every account has a set-up (`PageFits`).
- `SavedIsCharged`: `WalletSpec => []CardToldIsCharged`, `QuantityIsRight`:
  `WalletSpec => []UnitsAreBilled`: from what a save or a sync has found out at each
  step (`CardInv`, `UnitInv`), with one save or sync at a time.

All follow from one inductive invariant, `IInv`, whose parts about the protocol
(`CoreInv`) are shown to survive the steps of `Integrations` once, for whichever
topic of `Wallets` takes them.

`UpkeepProofs`, for any notices, instances, days, files and handlers:

- `TypesHold`: `Spec => []TypeOK`.
- `LogTellsTheTruth`: `Spec => []LogIsHonest`, from `NoticesInv`: a channel whose
  provider accepted was delivered, also before the log says so.
- `NobodyRemindedTwice`: `Spec => []RemindedOnce`, from `JobsInv`: a reminder that
  was sent lies outside the days of every later selection, and what a run has left
  was not sent. The bands are five days wide and the job runs every seven, which is
  what keeps a lease from being selected twice for one band.
- `RowsHaveFiles`: `Spec => []FilesMatchRows`, from `FilesInv`: a handler about to
  write a row has its object for itself, an object that a removal has passed is
  gone.
- `NoSilentStatus`: `Spec => []SubmitterKnows`, from `TicketInv`: nobody changed
  the status between an update's read and its write.

`ClientProofs`, for any users, calls, log-outs, log-ins, rows, requests, texts,
pages, leases, terms and lengths of the month, as theorems of `Client`:

- `SessionIsTyped`: `Spec => []SessionTypeOK`.
- `NoForeignData`: `Spec => []OwnData`. It needs that the answers still to be heard
  are about the user shown, and that there are none when nobody is (`Kept`).
- `OldCookiesAreDead`: `Spec => []LogoutRevokes`. No cookie, wherever it is, holds a
  version of the future (`NotAhead`), so a log-out leaves all of its user behind.
- `NobodyWaitsInVain`: `Spec => []WaitersAreServed`, inductive with the types.

- `NothingIsLeftOver`: `Spec => []NothingLeftOver`, and `LateAnswersAreHarmless`:
  `Spec => []LateAnswersPass`, from `PaneInv`: a request carries a text typed for
  the row it goes to (`Sensible`), a pane made anew heeds no request of another row
  and speaks of what happened to its own (`AboutItsRow`), and a thread keeps the
  text it sends (`Locked`).
- `StatementsStand`: `Spec => []IssuedStays`, from `StatementInv`: an entry is that
  of a row (`RowsExist`), and a sum that was read is what a new query would give as
  long as nothing is written with a date in the period or before it (`FiguresHold`).
  The set of entries summed stays the same; what a sum is is not unfolded.
- `ReportsAddUp`: `Spec => []ReportAddsUp`, from `StatementInv` and `BooksAgree`. The
  property is about a report that is all read; the invariant also says of one that
  is half read what each figure will agree with (`AsRead`). The opening and the
  figures of the entries are tied to what lies before the period, which stays as it
  is while nothing is dated there, so they agree though others wrote between the
  two queries; the rest is tied to the entries and rows of now, as long as nothing
  was written at all. That the balance then makes what is due needs the ledger to
  add up to its rows: the sum of the entries is what open charges come to less what
  was received, a credit is of a voided charge, a payment of money that has come in
  and names a charge there is (`BooksAgree`), which every write keeps. The facts
  about sums - what one more element, or a second part, adds - are proved from the
  library's definition of a sum, by way of a smallest counterexample.
- `SuccessIsTrue`: `Spec => []SaidIsDone`. At every step before a page says so, each
  due day or month of the term has its charge, a place in the page's plan or a
  request that the page still waits for (`Promises`). With the arithmetic of the
  dates: the due days of the create forms are all found (`DueDaysListed`), and the
  months the edit page looks at contain those of the term on either side of UTC
  (`MissingCovers`).
- `NoMonthTwice`: `Spec => []OneRentPerMonth`. The months of a lease's charges, of
  the charges asked for and of those planned are pairwise different (`Apart`), which
  needs that one page at a time works on a lease and that what others left on the
  way there are voids (`Alone`). Days a whole number of months apart are in
  different months (`WholeMonthsApart`), and the edit page plans the first day of
  months that have none (`MissingFacts`).
- `SweptLeavesNothing`: `Spec => []SweptClean`. What is open on a lease that was
  swept, or that a page is sweeping, has a void on its way (`Sweeping`), also with
  `Alone`.

The last three follow from `PlanInv`, which also holds what the pages and requests
are about (`PlanBase`).

### Assumptions

The assumptions on the constants stand in the modules and TLC evaluates them on
every run: the null values are no names and no records; bounds are natural
numbers; posts, clicks, slots and rows are finite; amounts are positive; late
fees are dated today or the day before; a template for e-mail exists for a
request's notices. What some theorems assume beyond that stands in those theorems:
about `RentLedger` one handler, no script, requests one at a time, endpoints left
out; about `Conversation` handlers one at a time and nobody approving by hand. Each
is a restriction of the instance, not of what happens in it, and the run that
checks the property has the same one.

### Only model-checked

- `FeeComes` and `SuccessIsApplied`: liveness under fairness is outside the
  prover's reach.

## Where the code and its words part

Met while modelling; the first is a run (`RL_bug_webhook`), the others are what the
modules do because the code does it.

Money:
- A tenant's payment without an amount, after a part payment, debits the whole
  charge (`stripeService.js:131`), though `paymentController.js:200` counts what is
  left. Two payment requests for one charge that overlap are both in flight
  (`paymentController.js:179`).
- The unit-wide void takes a charge that was paid since it was selected
  (`chargesController.js:453`); `README.md:458` says paid charges are left alone.
- `README.md:454` calls `balance_after` the running balance; it is the balance at
  the time of the insert, and a report dates entries otherwise. An ACH payment is
  booked when it settles and counts on the day it was started.
- `getAmountDueNow` leaves out payments without a charge and takes off payments on
  voided ones; the portfolio's `netIncome` and `outstanding`
  (`ledgerRepository.js:537`) differ from their comments once a charge is voided;
  the queries of one report are not one snapshot.

Services:
- `getOrCreateStripeCustomer` is called idempotent; two requests at once, or a
  retrieve that fails, make a second customer.
- `syncCommercialUnitQuantity` "should be called after any commercial unit is
  created or deleted"; archiving a property, changing a unit's type and an
  employee's changes do not call it.
- `BillingPaymentMethodDialog` can be closed while it saves, and calls the API
  directly, so the subscription's query is not refreshed. Reactivation hands the
  response to `onBillingUpdated` (`PaymentsPage.jsx:176`); "Cancellation
  scheduled." is shown as an error (`PaymentsPage.jsx:340`); the branch of
  `ConnectBankDialog` for the return from a redirect is never reached.

Jobs and notices:
- `leaseExpiry` says that its bands of ±2 days always catch a lease in a weekly
  job; five days in seven do not. Migration 015 calls texts opt-in, `sendAllChannels`
  does not ask. `unread_count` counts every received message.

Homes and people:
- `addCoTenant` counts its limit of five before the insert. `PLAN_LIMITS` names a
  limit of employees that nothing checks.
- `logoutUser` swallows errors of the database: the cookie is cleared and still
  valid. `res.clearCookie` (`authController.js:68`) names no domain, where
  `cookieOptions` sets the cookie with `COOKIE_DOMAIN`: with one configured the
  browser keeps the cookie that `README.md:845` says is cleared.

Pages:
- `EditLeasePage` says it covers "every month in [startDate, endDate]"; west of UTC
  it starts a month early for a lease that begins on the first. `LeasesPage` asks
  about "pre-existing unpaid charges" when there is any charge; its filter reads
  fields the list does not have. "Already exist" counts voided charges.
- The maintenance drawer keeps its edited fields when it is closed; typed text and
  errors of a thread survive a switch to another; a late success of a void or a
  withdrawal closes another row's drawer, and one of an edit ends another's
  editing; text of a new message that was edited while the first was sent is
  dropped. The upload warning of the maintenance page is in the dialog that
  closes. `PaymentDialog` preselects the first account, verified or not.

## What is not modelled

- `balance_after`, a snapshot that no decision of the API reads (the balance is
  the sum of the entries).
- Ownership and role checks, validation of request bodies, audit entries.
- The ACH fee, which is added to the debit and taken out again by Stripe.
- `refunded` payments: the schema has the status, no code writes it.
- Manual replies and supervisor overrides as conversation steps: no decision of
  another handler reads them (their panes are in `Panes`). Urgency and category,
  which decide nothing but the order of a list.
- Whether a message whose delivery is reported failed has reached the tenant.
  `executeSend` reports a failure also when only its log update failed, and the
  restored draft can then be sent again.
- The notice that follows a late fee, and a `charge_type` edit that turns a rent
  charge into something else while it is selected. A session that loses its
  connection is taken to end its process, as the uncaught error does in `index.js`.
- Cents: amounts are small naturals, as no property depends on rounding.
- Access tokens, the verification state of an address, and the mails and texts
  that carry a link. An invitation that is resent between the look-up and the
  commit of an acceptance stays open although its account exists, and two requests
  with one link or one invitation may both succeed: the model does all of this,
  and no property of the code excludes it.
- Of `Occupancy`: co-tenants, rents, dates, addresses, ownership.
- Of `Wallets`: the administrator's list, redirects, the portal, cancelling and
  reactivating, changes of plan. A list that is fetched again replaces the older
  request; one account is connected at a time.
- Of `Upkeep`: title, category, priority and assignee, type checks, signed links,
  why an address cannot be reached.
- Of `Panes`: amounts, the status select, attachments, the rules of who may do
  what, opt-in, the tabs of templates and logs.
- Of `Session`: roles and routes, the time a token expires at. Of `RentPlan`:
  daylight saving, co-tenants, documents. Of `Statement`: the PDF's layout, the
  limit of rows, the total of what was paid.
- The connection pool and the components marked `not_modelled` in `PROJECT.json`.
