# Verification of webook

webook is the backend of an interview-preparation site: a modular monolith in
Go (gin, gorm over MySQL, Redis, Kafka, Elasticsearch, cron jobs; 788 source
files). This directory holds TLA+ models of the parts of it in which something
can go wrong that a test will hardly show, the TLC runs that check them, and
proofs checked by TLAPS. Paths are relative to the repository; module paths
drop `src/internal/`.

Contents: 1 inventory, 2 plan, 3 modules, 4 runs, bounds, fairness, findings,
5 proofs, 6 what is not modelled, 7 running.

## 1. Inventory

### The modules that move money, credits and rights

| component | state | operations | how it is reached |
|---|---|---|---|
| credit | `credits` (available, locked, version), `credit_logs` (unique key, change, status 1 Active, 2 Locked, 3 Inactive) | AddCredits, TryDeduct, Confirm, Cancel; CloseTimeoutLockedCreditsJob | calls from payment and ai; Kafka `credit_increase_events` |
| payment | `payments` (status, paid_at), `payment_records` (one per channel) | CreatePayment, PayByID, HandleWechatCallback, SyncWechatInfo, CloseTimeoutPayment, SetPaymentStatusPaidFailed | calls from order and recon; WeChat notifications; SyncWechatOrderJob |
| order | `orders` (init, processing, success, failed, canceled, timeout closed), items | CreateOrder, RepayOrder, CancelOrder, CloseTimeoutOrders | HTTP; Kafka `payment_events`; CloseTimeoutOrdersJob; produces `order_events` |
| recon | none | Reconcile | SyncPaymentAndOrderJob; calls order, payment, credit |
| marketing | redemption codes and their log, redeem log, invitation codes and records, cached invitation codes | order and registration activities, redeem, generate | HTTP; Kafka `order_events`, `user_registration_events`; produces member, credit and permission events |
| member | end date with a version, a record per key | extend | Kafka `member_update_events` |
| permission | a row per user, business and entity | grant all of an event, or none | Kafka `permission_events` |
| user | `users` and `users_ielts`, cached profiles, verification codes, WeChat states, sessions and tokens | login (WeChat web and mini program, phone), register, edit, codes | HTTP; produces `user_registration_events` |
| ai | `llm_records`, `llm_credits`, configurations, uploaded files | a chain of handlers around one call of a model, streams, mock interviews, uploads | calls from content modules, HTTP, Kafka; calls credit |
| pkg (middlewares) | the list of permissions in the session, the end of the membership in the token | CheckMembership, CheckPermission, X-APP | every request |

What makes them correct: a balance is the sum of its log; a key counts once; a
hold is settled once; nothing is delivered that was not paid, everything paid
is delivered; ended orders and payments stay ended; whatever times out is
cleaned up; everything granted is granted once, and lasts as long as was paid;
one person is one row per application; who may read is let in and nobody else.

What is hard: all of it runs at once. Handlers, notifications, four cron jobs
and the consumers work on the same rows; only credit and member use versions,
payment and order write back what they read some calls earlier. Calls fail,
replies get lost, processes die between two writes; events may be lost (a send
error is only logged), repeated, or reordered (messages have no key). Tokens and
sessions keep answers that were true when they were asked for.

### The content modules

| component | state | what is hard |
|---|---|---|
| question, cases | draft and published tables; cached items, first pages and totals; documents in search and in the knowledge base; sets and what they name; exam records | a reader fills the cache with what was read before a publication or a delete; events are sent after the commit, one by one, and may fail; a full sync pages by offset through rows that move |
| project, review, skill, roadmap | draft and published rows, parts in tables of their own, references to rows of other modules | several queries make one answer; what is named may be gone; migrations and forms opened long ago |
| search, kbase | documents, written without a version | order of events against full syncs and deletes; batches that fail and are tried again |
| interactive, bff | likes, collection records, and counts beside them | toggles racing, a deleted collection whose counts follow later, pages put together by goroutines |
| comment | rows with parent and root | replies to what is being deleted; paging by the last id seen |
| feedback, material | rows with a decision | a decision, then an event that may fail; a key made of a millisecond |
| resume, interview, product, company | rows saved together by forms | two windows, forms of deleted rows, upserts on unique keys |

label, notification, cos, email, sms and test keep nothing that two calls could
disagree about. What makes the content modules correct: what readers find was
published, drafts are shown to nobody else, documents follow their table, what
is counted is there, what one form wrote stays together, and every sync comes to
its end having skipped nothing.

`PROJECT.json` lists every component with its status, and 40 hazards, each at
its line, with the properties about it.

## 2. Plan

Written, in the order of the damage a mistake would do:

1. **Credit** and its abstract specification **CreditLedger**; proofs.
2. **Payment**, and **Trade**: the order module, recon and the jobs around it, over
   CreditLedger (what the credit module promises, and is proved to keep); proofs.
3. **Marketing** over what its receivers promise; **Member** with
   **MemberLedger**, **Permission**; proofs of the receivers and of what is granted.
4. Content: **Question**, **Cases**, **Project**, **Search**, **KnowledgeBase**,
   **Kbase**, **FullSync**, **QuestionSet**, **CaseSet**, **Skill**, **Roadmap**,
   **Review**; proofs about the caches and about drafts (**ContentProofs**).
5. Community: **Interactive**, **User**, **Login**, **Access**, **Comment**,
   **LLM** (a client of CreditLedger), **Stream**, **Resume**, **Analysis**,
   **Interview**, **Feedback**, **Material**, **Shop**, **SearchQuery**; proofs of
   five properties of the run (**AccountProofs**, **CommunityProofs**).

Left: several payments in a page of the payment jobs; proofs of what documents
become once everything has come to rest.

## 3. Modules

### Credit (`credit/internal/repository/dao/credit.go`, service, consumer, job)

`credit` is a user's row, `creditLog` the log by key, which stands for the
row's id too: the key is unique and rows are never deleted. A row that does
not exist has version 0. A call is a transaction of two steps. `Read` takes
MySQL's snapshot (REPEATABLE READ) of the Credit row and of the log row; a write step
checks, writes and commits, or rolls back: the versioned UPDATE and the unique
index look at the rows as they are then, so nothing another transaction does
between a write and the commit can be seen. Each outcome of
the code is an action: `UpsertCommit`, `UpsertDuplicate`, `UpsertConflict` for
`upsert`; `LockNoAccount`, `LockNotEnough`, `LockCommit`, `LockDuplicate`,
`LockConflict` for `createCreditLockLog`; `SettleNotFound`, `SettleRepeated`,
`SettleInvalid`, `SettleCommit`, `SettleConflict` for `updateCreditLockLog`. A
conflict starts the loop again; `DBError` fails a statement, and `Answer` may
lose the reply of a transaction that has committed. `Expire` lets a hold pass
the timeout, `JobScan` and `JobCancel` are the job's Run: a page, and one
cancellation after another until one fails.

Balances are integers here, not `uint64`: `NoUnderflow` is the property that
makes the difference disappear.

**CreditLedger** is what the module promises: available and held credits and an
entry per key, changed by Grant, Hold, Spend and Release in single steps.
**KeySum** sums over keys without recursion, and proves what such sums do.

### Payment, Trade

One order, its payment, the buyer's credits, WeChat's trade. A goroutine is a
label `pc`, the next call it makes, and `loc`, the `domain.Payment` it holds.
Every call to a table, to credit, to WeChat or to Kafka is a step, and may
fail, or succeed and lose its reply, in which case the goroutine takes the
error path of the code; `Crash` ends a goroutine anywhere. `UpdatePayment` writes
what the goroutine holds, skipping zero values as gorm's `Updates` does, over
whatever is there. `Find` and `Found` are FindPaymentByID's two reads, each at
its own moment, in either order. `Kept` forgets the fields a goroutine will
assign before it reads them again, which changes nothing it can do.

| code | actions |
|---|---|
| `PayByID`, `executePayment`, `payByCredit`, `prepay...` | Find, ExecutePayment, Deduct, Confirm, Paid, Undo, Prepay, Processing |
| `HandleWechatCallback`, `HandleCreditCallback` | HandleWechatCallback (Notified), CallbackUpdate, Settle, Record |
| `SyncWechatOrderJob` | FindTimeoutPayments, SyncFound, SyncFindFailed, CloseMain, SyncWechatInfo, SyncUpdate, CloseCancel, Close |
| order handlers | CreateOrder, CreatePayment, LinkPayment, RepayOrder, CancelOrder |
| CloseTimeoutOrdersJob, PaymentConsumer | CloseTimeoutOrders, Consume |
| `Reconcile` | FindTimeoutOrders, Find, Reconcile, FailCancel, FailUpdate, Settle, Record, ReconSetOrder |
| CloseTimeoutLockedCreditsJob | ReleaseTimeoutCredits |

Merged into one step, because no other goroutine can tell: an update and the
event after it (an event may wait in Kafka as long as it could have waited to
be sent), a message and its handling, the check and the UPDATE of CancelOrder
(whose WHERE repeats the check). `Wechat` is external: a trade the buyer has a
code for may be paid, any trade may end unpaid, and a final state may be
notified several times or never. `Age` lets what exists pass the 30 minutes
and 10 seconds that all jobs wait.

### Marketing, Member, Permission

**Marketing** is the order and registration activities, redemption and
invitation codes. An order event is a list of items; each handler
(`product_member`, `code_project`, ...) writes its tables and sends its events, in
the order of the executor, and the first error ends the event, which nobody handles again.
Events go to receivers by what these promise (a key counts once, a permission
is granted once), which the next two modules show of them. FirstOrCreate of an
invitation record is two actions, SelectInvitationRecord and
InsertInvitationRecord, with InvitationRecordRefused where a unique index
answers; `raced` remembers whom that happened to, so that InvitersAreRewarded
excuses exactly these, and asks that another guest with the same code is rewarded.

**Member** is `upsert` of `member/internal/repository/dao/member.go`: look at
the clock, read the row, write both rows or start again. Time is in days and
`Midnight` may come between any two of these. **MemberLedger** is what it
promises: a key extends a membership once, in one step, from its last day or
from the current one. **Permission** is one event's rows inserted in one
transaction, with the snapshot of its first select, row locks, the unique index
and the deadlocks MySQL breaks.

### Content

A call is a transaction followed by steps nothing holds together: each cache
write, each event and each query of its own is a step, and any other call may
come between. What a row says is its version, the number of the call that wrote
it. A cache entry or a document that lags behind its table does so because of
a race, a failed call or a path that refreshes too little; a history variable
(`spoiled`, `stale`, `late` ...) names those cases as they happen, and the
properties say that there are no others.

| module | code | what is in it |
|---|---|---|
| Question | `question/internal/service/question.go`, repository, cache, dao | save, publish, delete; three cached views and their readers; events to search |
| Cases | `cases/internal/...` | the same of cases, with the knowledge base event |
| Project | `project/internal/...` | a project and five kinds of parts, published one by one, six queries at once |
| Search | `search/internal/event`, `search/internal/repository/dao` | the consumer that writes documents; instantiated by its producers |
| KnowledgeBase | `ai/internal/event`, `ai/internal/service/...` | the file of a document replaced in four calls; instantiated by Cases and FullSync |
| Kbase | `kbase/internal/service` | paged syncs with batches and retries, of questions and of the edges of roadmaps; single documents by hand |
| FullSync | `question/internal/service/search.go`, `cases/internal/service/search_sync.go` | SyncAll of questions or cases beside editors, events, consumers |
| QuestionSet, CaseSet, Skill | sets and skills | forms, what they name, candidates, documents, exams and their results |
| Roadmap | `roadmap/internal/...` | maps, nodes, edges, the migration, titles by kind |
| Review | `review/internal/...`, `company/internal/...` | reviews, their cache, and companies that come and go |

### Community

| module | code | what is in it |
|---|---|---|
| Interactive | `interactive/internal/...`, `bff/internal/web` | toggles, collections, the goroutine after a deletion, pages, the page of a collection |
| User | `user/internal/service`, repository, dao | find-or-create by WeChat or phone, write-backs, edits, the cached profile |
| Login | `user/internal/service/verification_code.go`, `user_callback.go`, `pkg/snowflake` ... | states and codes, tables by application, ids |
| Access | `pkg/middleware`, handlers of question, cases, project | membership in the token, permissions in the session, two requests of one session, texts cut short |
| Comment | `comment/internal/...` | parents, roots, the cascade, paging |
| LLM | `ai/internal/service/llm/...` | the chain config, credit, platform, record; configurations |
| Stream | `ai/internal/service/llm/handler/platform/ali_deepseek`, `ai/internal/web` | the goroutine, the buffer, the handler, the relay of a mock interview |
| Resume, Analysis | `resume/internal/...` | a project's parts and the cases it names, jobs that overlap, calls of a model side by side |
| Interview | `interview/internal/...` | journeys with rounds, sharing |
| Feedback, Material | `feedback`, `material` | decisions and their rewards |
| Shop | `product/internal/...`, `order/internal/web`, `order/internal/repository/...` | SPU and SKU, serial numbers, readers; previews, request ids, orders of SKUs whose prices are edited meanwhile, their payments, lists |
| SearchQuery | `search/internal/service`, `repository/dao`, `web` | from the expression to the list |

### How the modules are put together for TLC

**Credit** and **Trade** are checked as they are, with the symmetry (and Trade's
`Scope`) at their end. The MC modules play one *scene* in a behaviour: modules that share no row do not interact, so
checking them beside each other would only multiply their states. The variables of
a scene are either its own or the shared slots `s1`, `s2`, ..., renamed by the
`INSTANCE`; `Scenes` says which are played.

- **MCGrants**: Member, Permission, and Credit's liveness.
- **MCMarketing**: `deliver` (order events), `grant` (an order's codes, the
  administrator's, redeeming, invitations), `invite` (registrations); codes_lost plays
  `clash`. There is one set of orders, users and codes; `Scope` keeps a scene to its own.
- **MCContent**: twelve scenes. Question, Cases, Project and FullSync write the
  same `topic` and `index`, as Search has it.
- **MCCommunity**: seventeen scenes. `resume` and `experience`, `product` and
  `order`, `interactive` and `collection` are two halves of one module each.

A property of such a run is the conjunction of what the played module promises
for the same question:

| property | parts |
|---|---|
| CachesShowTheTable | Question, Cases, Review |
| DraftsStayPrivate | Question, Cases, Project, Review, QuestionSet, FullSync |
| DocumentsFollow | Question, Cases, Project, QuestionSet, Skill; one file per document (KnowledgeBase), files replaced (FullSync) |
| ReferencesHold | sets, skills, exams and titles; maps, edges and the migration; companies; forms written whole |
| NothingIsSkipped | Kbase (questions, relations), FullSync |
| CountsEqualRows | Interactive: likes, collections, totals, pages |
| AccountsAreSound | User, Login |
| DoorsAreRight | Access: entitled readers, nobody else |
| AnswersArePaid | LLM, Analysis; rewards of Feedback and Material |
| EndShowsAll | Stream: nothing lost, errors told |
| RecordsAreWhole | Resume, Interview, Shop (serial numbers, products, orders), Comment (threads, pages), SearchQuery, Feedback's pager, what Access cuts short |
| GrantsAddUp, EveryDayCounts | Member, Permission |

## 4. Runs

All with `CHECK_DEADLOCK FALSE`: calls, notifications and faults are bounded,
so the system comes to rest.

| run | instance | distinct states | what it shows |
|---|---|---|---|
| credit | 2 users, 3 keys, amounts 1 and 2, 2 goroutines and the job, pages of 1, 3 calls, 1 fault | 85,387 | balances agree with the log and stay natural, answers stay true, settled logs are final; the ledger is implemented |
| trade | 2 handlers, 4 requests, 2 notifications, 2 faults before anything times out; then 1 handler, the jobs, and at most 2 of requests, notifications and faults | 458,019 | EventsAreTrue, SuccessIsPaid, CreditsSpentOnlyIfPaid, TerminalStays, SuccessIsFinalInTime |
| trade_live | fair, 1 handler, orders and payments time out, 1 request, 1 notification, 1 fault | 249,850 | PaidIsDelivered, PaymentsEnd |
| grants | fair; member: 2 users, 3 keys, 3 days, 3 deliveries, 1 fault; permission: 3 events that share projects in a ring, 3 goroutines; credit: 1 user, 2 keys, 4 calls, pages of 2 | 122,998 | EveryDayCounts, GrantsAddUp, MemberLedger implemented, all messages handled, all calls return, holds released |
| marketing | 2 goroutines, 3 deliveries of two orders of seven kinds of items; 4 calls around 2 codes and 2 invitations; 4 registrations and calls with 1 invitation; 1 fault, 3 deliveries and faults in all | 187,117 | GrantsAreEarned, OrdersAreFulfilled, RedeemedIsGranted, InvitersAreRewarded |
| content | 12 scenes, 2 goroutines, 1 fault | 633,040 | six questions about tables, caches, documents and syncs; SyncEnds |
| community | 17 scenes | 911,054 | numbers, accounts, doors, payments, streams, rows; RecvEnds |
| order_overwritten, payment_overwritten, credits_unspent, codes_lost, app_logins | small | | five disagreements between code and comments or tests, below |

Bounds. Two goroutines and the job suffice for every pair of transactions to
race, three keys for a grant and two holds to compete; calls beyond the number of
keys let a key come back that is in use. In Trade one handler beside two jobs
and a notification is already four parties at one row (goroutines of handlers
also take notifications); two handlers are checked where no job runs (`Scope`
of Trade). One fault reaches every error path, two reach
an error path whose own compensation fails. `Timeouts` bounds which tables have
rows old enough for the jobs. Amounts beyond 2 change nothing but arithmetic,
and the theorems hold for all of them. Memberships need three days: one sold, one
running out, one after that. The permission events form the smallest ring in
which three transactions deadlock. In content two goroutines are a writer and a
reader, or two writers; two versions tell old from new, a third tells old
from older. Pages hold one row and batches one or two, so that offsets move and batches
split; a stream of 12 chunks fills the buffer of 10. Of a SKU there are two, and buyers
ask for two, for three or for two SKUs of one each; one preview may be submitted
by both goroutines, each making an order. `MaxCalls`, `MaxFaults`,
`MaxMoves`, `MaxReads`, `MaxNow` and their like bound what would go on for
ever; each is a constant with its comment.

Some scenes are cut by action constraints. `Scope` bounds sums: question three calls
and faults; skill three calls, disappearances and faults; questionsync four and casesync
three publications, deletions and faults, where `OneByOne` also has one table synced after the
other (they share nothing but editors, who may come anywhere); access six calls,
faults and days; order one product and three saves, orders and faults; login four logins, steps of the clock and
faults; collection the reader's moves between own collections, without likes and views, which
scene interactive plays with every collection as a target. Marketing's receivers count
events while no goroutine runs: the properties look at what they received at rest. `ConsumeFirst` lets the consumers of the topics take waiting messages
before anything else happens, since what they write depends on the order of the
messages alone, never on the tables.

Fairness. `Step` and `HandlerStep`: the Go scheduler does not starve a
goroutine, and MySQL answers or fails. Jobs: ecron starts each of them every
minute. Consumers loop for ever. WeChat repeats a notification until it is
answered. Time passes. Nothing is assumed of the buyer or of WeChat's users,
and no fault has to happen. Weak fairness is enough: a job's start stays
possible until it happens. In grants: what a goroutine has begun
goes on, and the cron keeps starting Credit's job; nobody is obliged to call or send. Stream: recv and the handler go on (of a mock interview this assumes that the
other service answers or the request's context ends). Kbase: the sync goes on;
failures are bounded, so SyncEnds is about a service that recovers.

Each property has a mutant in `PROJECT.json`: a plausible bug, defined in the
module beside the definition it replaces, which TLC finds to violate it; a
folded property has one for each of its parts that is a property of its own.

### Findings

- **order_overwritten** (SuccessIsFinal). An order is being paid with credits
  when it passes the timeout. Recon reads the payment before it is recorded as
  paid, the handler records it, its event makes the order a success, and recon
  writes failed over payment and order. The credits are spent.
  `order/internal/service/service.go:97` says a paid order is completed for good.
- **payment_overwritten** (PaidIsNotClosed). SyncWechatOrderJob chooses payments
  that are not paid yet, and CloseTimeoutPayment never looks again; a payment
  recorded as paid meanwhile becomes closed. The assumption is the comment at
  `payment/internal/service/service.go:455`.
- **credits_unspent** (CreditRecordIsSpent). Repaying while WeChat is being paid:
  the second Prepay is refused, and its error path releases the credits of the
  first attempt. The notification cannot confirm them, logs that, and records
  them as paid. `recon/internal/service/service.go:103` says they are confirmed.
- **codes_lost** (OrdersAreFulfilled). CreateRedemptionCodes takes business, order
  and number of codes for the identity of a batch
  (`marketing/internal/repository/dao/marketing.go:69`). An order of one member
  code and one project code makes two batches of one identity: the second is
  rolled back and answered with the first. The module's own tests
  (`integration/module_test.go:320`, `:659`) say that an order generates both.
- **app_logins** (LoginsSucceed). The callback of `user_callback.go:96` puts every
  statement of a request with X-APP to the table of users, whatever its table
  was, and is registered on the connection all modules share. A login from the
  second application asks `users_ielts` for permissions and ends as a system error;
  `user/internal/integration/handler_test.go:1258` expects 200, with those modules mocked.

### Observations

Seen while modelling; each is part of the model as it is, and the properties
name it where it matters.

Credits and rights: two submissions of one order at once both pass
`checkRequestID` (get, then set); a permission event whose rows another
transaction has just inserted is lost whole; FirstOrCreate of an invitation record has no
condition, so only the first invitation is recorded, and while there is no record two
registrations with one code both select nothing: the second INSERT meets the unique index,
its handling ends, and the inviter's reward for it is never sent; a redelivered like toggles
back; adopting feedback twice sends credits twice; the key of a material's
reward is a millisecond; streamed answers are never charged; `llm_records` may say success
where the user got an error; of Evaluate's four calls some may be charged before
one fails; saving a new configuration for a business that has one overwrites it.

Access: concurrent checks of permissions overwrite each other's list in the
session; handlers look at the clock again after the query; CheckMembership
answers 403 when the token cannot be renewed, handlers answer whole; a text
without `<p>` is shown whole to everyone; an unknown X-APP is treated as webook;
every process uses snowflake node 0; of two codes asked for at once the phone's last
message may not be the one kept, and a message that fails voids the one before.

Collections: MoveCollection takes any cid. A record moved to another user's collection counts
in that collection's total and is on no page, and deleting the collection lowers the item's
number of collections for it although the record stays.

Content: a project's event has no `live` field, so the consumer puts published projects into
`project_index`, `pub_project_index` is never written, and search reads neither; `return x, eg.Wait()` leaves the order of evaluation open (interactive
`service.go:109`, question and case sets, skill, material, project); cases' Save
answers `id, nil` on an error; deleting a project deletes only its draft;
introductions keep their first utime; saving edges does not touch the map's
utime, so incremental syncs of relations miss them and documents of deleted
edges stay; kbase's Upsert takes a roadmap's id where Delete takes an edge's; the
full sync of cases has no logger and panics on a failure, and puts drafts into
the index that publications alone write otherwise; a full sync may overwrite a newer
document and bring deleted questions back; a question saved between its publication
and the read for the event puts the draft into the live index; deleting a
question leaves the documents of its sets as they are; GetByBiz of a question set shows unpublished
questions; readers of a case set see unpublished cases; saving no references for a
skill deletes none; saving a map twice for one business creates its nodes twice; the
migration is not idempotent; an administrator's search names a path that does not
exist (`ioc/question.go:145`); a platform that fails in the middle of a stream
is told as the end by ali_deepseek and as an error by the mock interview.

Records: a resume's contribution type is never updated; contributions saved late
leave orphan references; an older job that goes on is told as a gap; a
shared round is taken back by a form with id 0 and the same number; a product saved
without SKUs always fails, and SKUs taken off a form stay on sale.

## 5. Proofs

### Credit

For every number of users, keys, goroutines, calls and faults, from
`CreditAssumption` (finitely many keys, natural amounts, the job is no worker):

- `TypeCorrect`, `BalancesCorrect`, `BalancesDoNotUnderflow`,
  `SettledLogsAreFinal`;
- `CreditImplementsLedger`: Credit implements CreditLedger;
- `AnswersStayTrue`: what a caller was told stays true.

The balances alone are not inductive: a commit writes what it computed from an
old snapshot. `CreditInv` adds SnapshotsAgree (if the version read is still the
current one, so is the row; a log that was settled when it was read still is),
HoldsAreDeductions (only deductions are ever Locked, so releasing adds) and
TotalsNonNegative. The proof goes by what a step writes: `OnlyCommitsWrite`
reduces Next to three commits, `UpsertEffect`, `LockEffect` and `SettleEffect`
say what each writes in terms of the current rows, and `SumsChange` what that
does to the sums. KeySum proves the facts about sums from cardinalities
of finite sets, since the prover cannot do induction over data. Freedom from underflow
follows because a sum over Locked deductions is a natural number and
`TotalCredits` is compared before it is reduced. The refinement reuses the
three effects: each is a Grant, a Hold, or a Spend or Release. For the
answers, `AnswersInv` adds that a log row comes with its account
(RowsHaveAccounts) and that a call about to settle a log has found it
(SettlersHaveRows); `RowsAreKept` says that no step takes a log row away or
settles it again, so an answer that was true remains so.

### Trade

For every number of handlers, requests, notifications and faults, from
`TradeAssumption` (finitely many handlers, the jobs' goroutines are none of
them, the price is positive, `NoRow` is no row): `TradeTypeCorrect`,
`SuccessRequiresMoney`, `EventsTellTheTruth`, `CreditsNeedTheMoney` and
`EndedOrdersStayEnded` (TradeProofs).

What has been written is not inductive, since every write comes from something a
goroutine read before. `TradeInv` says as much of what is held and of what
waits as of what is written:

- `Believed => MoneyReceived`: nobody holds a success, no row says one and no
  event tells of one before the money is there. What is stale can then only
  be too pessimistic, which is why a paid payment can be overwritten (the
  findings) while an unpaid one never becomes a success.
- `Standing`: what a label says of the channels and the payment held. At
  `confirm` the payment is in credits alone; at `notified` and `syncUpdate` it has
  a final status, and failed only if WeChat closed the trade.
- `BeforePayment`: until the payment exists nothing has been paid, held or
  told, and only one handler is about to create it; it is what makes the later
  reads of the row reads of a payment.

MoneyReceived never becomes false again: a final trade stays final, and spent
credits stay spent (`CreditMoves`, from CreditLedger). The proof goes
by `Move`, which says what any call of any goroutine may do to the shared state:
`MoveKeeps` shows once that a move keeps the invariant, and each call of
Payment, Order and recon is shown to be a move. `NowIsNat` is the one fact
about cardinalities: `Now` chooses among more stamps than can be in use.

### Member and Permission

GrantsProofs. For every number of users, keys, goroutines, days, deliveries and
faults, from `MemberAssumption` (finitely many keys; days are natural):
`MemberInvariant`, `MemberImplementsLedger` and `DaysAreServed`. What a commit
writes was computed from a row read earlier and from a day that may be over.
RowsReadAgree says that a row whose version still matches is the current one,
and that nobody has seen a day that has not come. That makes a commit
MemberLedger's Extend. The sums of days are then kept by the commit alone
(`CommitCounts`: it counts for its user from every day up to its own); at
midnight no record lies in the new day, which is why DaysInv says that records
are of days that have come.

`GrantsByWholeEvents`, for any events, rows and goroutines: `RowsArePassed`
says that a transaction has found every row before its position in its
snapshot or has inserted it, so what it commits completes its event. Locks keep
inserted rows apart (InsertedOnce) until the commit. The assumption is that an
event names a row (`EventsAreNamed`).

`GrantsTyped` and `GrantsAreSums` are the run's two properties, for every value of
its constants: `MemberSteps` and `PermissionSteps` say that a step of the run is a
step of the module or leaves its variables alone. `FailedNext`: what fails is an
event, because only what was being handled can fail.

### Marketing

MarketingProofs, from `MarketingAssumption` (finitely many users; items and buyers are
what their types say; an order is no batch; `NoRow` is no row): the run's five
properties, for any number of orders, codes, goroutines and calls.

- `MarketingInvariant` (TypeOK). `TablesInv` says that the ids in use are 1 to some m,
  so that new rows overwrite nothing (`InsertedRows`), that redeemed codes are rows,
  and that orders have codes of the two types with handlers alone. `GoroutinesInv`
  says of every label what the goroutine works on; at `grant` its code has been
  redeemed by its user. `RowsStay`, proved with them, is what the rest lives on: no
  step takes back a row's owner, type or attribute, a redeemer, an inviter, a log or an event.
- `NothingIsGivenAway` (GrantsAreEarned). `EventsInv`: every event is explained by an
  order, a redeemed code, a newcomer or a guest, and stays so by RowsStay. `CodesInv`: an
  order has codes of a type only once the log has their number, and never
  more than that many; `CodesCreated` is what one batch does to the numbers.
- `CodesBenefit` and `RewardsMatchGuests`. When nothing has failed, what is marked
  redeemed, or registered by invitation, has its event sent or has a goroutine about to
  send it (`RedeemInv`, `RewardInv`), but for guests whose record was refused: then there
  is a record with their code, and its guest is rewarded or about to be (`RecordsInv`). What is sent is received or has a key that was;
  `KeyDetermines` says that such events are equal, so AllReceived: at rest everything
  has arrived. There are as many rewards as guests rewarded because a
  reward's key is its guest.
- `OrdersArrive` (OrdersAreFulfilled). `OrdersInv`: each category of a handled order is
  delivered or on the list of a goroutine. Three things have to be assumed. No order is for
  as many member codes as project codes (`CountsApart`): the second batch would be
  taken for the first, which is the finding codes_lost. No order is for a code without a handler
  (`CodesHaveHandlers`): Execute gives up there, and in the order of a Go map
  the categories before it vary. And there is an id left, since the model's ids are bounded.

### The community run

Five properties of the run are proved for every value of the constants, from two
assumptions TLC evaluates on its instance: `AccountsAreRightlyKept` (AccountProofs),
`StreamsAreWhole`, `VisitorsReadTheirs`, `CallsArePaid` and `RowsAreCounted`
(CommunityProofs). `CommunityAssumption`: users, goroutines and calls are finitely
many, prices and balances natural numbers, the absent row is no row.
`AccountAssumption`: requests are finitely many, union ids are no phone numbers, 0 is no
resource, and `MaxRequests <= 3 * IdSteps`: visitors of an unknown application get ids
from MySQL, one above the last of `users`, and so many of them fit between a millisecond's
last id of webook and the first of the second application (with the five bits of node of
the code it is 31 * 4096).
`OneScene` and `SceneBegins` say that a behaviour plays one scene and begins as its
module does, and a lemma per scene (`MarkSteps`, `LLMSteps`, ...) that a step of the run is
a step of the module or leaves its variables alone; so each theorem is about modules:

- `StreamInv`. What was taken from the platform is what was shown and what is on its
  way (NothingIsLost), nothing but deltas precede the event that ends the answer, and
  until the handler has ended that event is still there (EndsLast).
- `AccessInv`. What is written down need not be true any more, only never more
  than the tables say: `KeptIsOld` says that of tokens, sessions and requests.
  `Known` says of every label of a request what it has learnt about the moments of
  the request, in `may` and `must`: at `claims` it was entitled at one of them, at
  `out` not at all of them. Rights only grow but for the clock (`TablesGrow`), so what
  is known stays known while others go on (`OthersKnow`).
- `AccountsInv`. `AccountCall` says of every call that has a row in hand that it is its
  own person's, and equal to the table's unless the id is in `overlapped`; UniqueRows is
  the index that makes one of two first logins find the other's row;
  `RowsHaveIds`, that ids suffice, counts the calls about to insert. A row is announced
  by nobody but the call that inserted it.
- `LoginsInv`. `RowsHaveOrigins`: an id is a generator's of its application, or one of
  MySQL's counted from a generator's, so its application can be read off it
  (`IdsAreNumbers` does the arithmetic). `IdsAreOnce`: a generator's id belongs to one
  call or to one row. A visitor's invitation and code were asked for by
  themselves (StatesAreAsked).
- `MarksInv`. A like is a row and a number in one transaction, but deleting a
  collection leaves the numbers to a goroutine: they are the rows and what is still
  to be taken off (CollectsCounted). Totals need that a record lies in no
  one else's collection unless its owner has moved it there (Filed: MoveCollection asks
  nothing, and `strays` remembers the moves to collections that were not the mover's), pages that what is not shown yet is still asked
  for or is not there (PageHolds).
- `PaidInv`. `PaidCall` says of every label of a call whether it holds or has spent
  credits, and what its rows and its answer may say by then; `ConfigInv` that a
  business has one configuration, with the price saved last.
- `AnalysisInv`: until something fails a request has been charged for all calls
  but those it has left. `OpinionsInv`: adoptions are events sent, being sent, or
  named lost. `MaterialInv`: what was accepted has been, is being, or was given up
  being rewarded.

### The content run

ContentProofs proves `CachesAreRight` and `DraftsAreKept` for any number of rows,
businesses, editors, readers, calls and faults, from `ContentAssumption` (tables are
finite, 0 is no id, every business has a name, what is published is there).

A cache entry at rest says nothing about the goroutine that will fill it, so neither
property is inductive. `QuestionInv`, `CaseInv` and `ReviewInv` speak of what a call has
in hand as of what is cached. It is a published version (PairShown, PageShown), and it
fits the table (QuestionFits, ListFits, TotalFits) for as long as the entry is not
spoiled: whoever commits while another holds something else spoils it. The other half
is who still has to come: an entry may differ from the table only while a call is
busy with it (QuestionBusy, ListBusy, TotalBusy), which for a page of questions begins
at the publication of a row and lasts over several reads. The steps that write the table,
those that write a cache and those that only read are proved in this order; the
history variables are what the proofs show to be complete: no other interleaving
leaves an entry stale.

Drafts go further than caches. `CaseDocs` follows cases through topic, index, uploads and
files, `ProjectInv` a project's columns through six queries and their event, `SetInv` the
questions a reader of a set has read. `SyncInv` does it for a full sync: the pages in
hand, old as they may be, hold published versions of rows nobody saved between
(`SyncHolds`), and so do the topic, the index, both uploads and the files. Questions and
cases have one proof: the run instantiates FullSync once, as `Syncs(kind)`. Since an
event's data is read after the commit, a question saved meanwhile is excused by name
(`raced`, s4 in the run), and nothing else is.

tlapm 1.4.5 expands an `@` in the value of an EXCEPT that itself holds an
EXCEPT of `@` with the wrong function, so Interactive names such updates (`Upserted`,
`Lowered`), and FullSync and Shop write them out.

### Only model-checked

SuccessIsFinalInTime. DocumentsFollow and ReferencesHold of the content run:
many modules, each with history of its own. NothingIsSkipped compares offsets with rows that move, and
RecordsAreWhole folds over sequences and walks through trees, which both need
induction over data. The type invariants of content and community, which
the proofs have in the parts they need. All liveness, since the
prover has no fairness or ENABLED. Trade, LLM and Marketing use
CreditLedger or what receivers promise, so the theorems that Credit and Member
implement their ledgers connect the parts.

## 6. Not modelled

In credit: reads for display, the balance kept in each log row. Of orders and
payments: Trade is about one order and Shop about what several are made of, so
several payments in a job's page, whose credits are Credit's business, are left
out; and so are the administrators' list, the JSAPI lookup, WeChat's states USERPAYING, REVOKED and REFUND, the status of the WeChat record
(nothing reads it), recon's limit of six attempts (giving up after a failure is
covered by failing and not trying again).

In the other modules: texts, prices, labels and order of lists, which are data
no property is about; lists and totals read for display; how Elasticsearch
scores and analyses words; prompts; the tables of mock interviews, which
nothing but the wiring reaches; the waiting between two tries. notification,
cos, email and sms hand a request to another service and keep nothing; label
creates and lists; test is helpers; wiring and configuration (ioc) have no
state of their own beyond the jobs they start. Tracing, metrics, PDF pages and
random serial numbers (pkg) keep none either. `api/proto/gen` is generated.
`PROJECT.json` says of every component what is left out of it.

## 7. Running

    tlc -workers 2 -config MCCredit.cfg Credit.tla
    tlc -workers 2 -config MCTrade.cfg Trade.tla
    tlc -workers 2 -config MCTradeLive.cfg Trade.tla
    tlc -workers 2 -config MCGrants.cfg MCGrants.tla
    tlc -workers 2 -config MCMarketing.cfg MCMarketing.tla
    tlc -workers 2 -config MCContent.cfg MCContent.tla
    tlc -workers 2 -config MCCommunity.cfg MCCommunity.tla
    tlapm KeySum.tla CreditProofs.tla TradeProofs.tla GrantsProofs.tla
    tlapm MarketingProofs.tla AccountProofs.tla CommunityProofs.tla ContentProofs.tla

The five disagreements: MCOrderOverwritten, MCPaymentOverwritten,
MCCreditsUnspent (with Trade), MCCodesLost (MCMarketing), MCAppLogins
(MCCommunity); TLC is expected to find a violation. To play some scenes of a
run only, give `Scenes` fewer members.
