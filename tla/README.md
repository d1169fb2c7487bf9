# Verification of the learning hub backend

TLA+ models, TLC runs and TLAPS proofs for the FastAPI backend in `src/app`:
schools, their members and their accounts; courses with curricula, exams,
progress and rewards; paper trading with watchlists, history and a real-time
price feed; subscriptions and invoices through Stripe; and a response cache in
front of the reads.

## How the system runs

One uvicorn worker (`Dockerfile`, `--workers 1`) runs every `async def` handler
on a single asyncio event loop, with SQLAlchemy in front of PostgreSQL. Four
facts decide where things can interleave, and every module is built on them:

* Database calls are synchronous. A handler gives up control only at an `await`
  that really suspends: a quote, an e-mail, the subscribers of an event.
  Between two such points a handler is one atomic step.
* `CRUDBase.create`, `update` and `delete` (`app/crud/base.py`) commit by default,
  on their own. A handler with three writes is three transactions, and a failure
  or a restart between them leaves the first ones behind.
* Plain `def` endpoints (verification, password reset, sign-in) and dependencies
  (`utils/deps.py`: who asks, and for which school) run in FastAPI's thread pool,
  beside the loop: each of their statements is a step.
* Process-wide dictionaries (order limits, socket sessions, polled symbols, the
  in-memory cache, upload reports) live in the one process and are empty after
  a restart; the tables are not.

## Inventory

| Part | State | Operations | Hard behaviour | What must hold |
|---|---|---|---|---|
| Paper trading: orders and funds (`services/trading.py`, `crud/trading.py`) | `account_balances`, `portfolio_positions`, `trade_orders`, `transactions`, the dictionary `order_limits` | `place_order`, `add_funds_to_student_account`, the decorator `rate_limit_orders` | the account is read before the quote is awaited and written after it; three commits per order; rounding to cents; sliding window | no overdraft, shares never lost, balance equal to its replay, at most `max_orders` per window |
| Portfolio history and snapshots (same file, `core/scheduler.py`) | `portfolio_snapshots` | daily job, requests for the history, summary | the job and the requests write the same days; requests await prices between looking and writing; queries return at most 100 orders, and 100 rows; no unique key | one row per day as far as the query sees, and it is what the trades up to it leave |
| Watchlists (same file) | `user_watchlists`, `watchlist_stocks` | create, rename, delete, add and remove stocks | an addition awaits a quote between its check and its insert; no unique keys | names and stocks without repetition, no stock without its list |
| Real-time prices (`realtime/websockets.py`) | `user_sessions`, rooms, `active_subscriptions`, `subscribe_limits`, `symbol_error_backoff` | connect, disconnect, subscribe, unsubscribe, the polling task | handlers run between the awaits of a polling round; backoff; many clients, one polled set | subscribers get prices, again and again; those who left do not |
| Market data (`services/polygon.py`) | a five-second cache | quote, history | outside service: price, none, or error | (modelled at its callers) |
| Courses, curricula, lessons, places of exams (`services/course.py`, `curriculum.py`, `lesson.py`, `exam.py`, `utils/permission.py`) | their rows, soft-deleted, teachers and students of a course | create, assign, move, delete, also with the school; lists and pages | several commits per request; exams move between courses and curricula, or out of both; lists and pages ask different queries, some of them one page of 100 rows | content follows its course; what may be opened is listed, but for known exceptions |
| Enrolment, progress, rewards (`services/course*.py`, `reward_rating.py`) | roster and enrolment rows, `lesson_progress`, `course_rewards` | enrol, leave, bulk update, start and complete lessons, award | the lesson and the exam arrive in any order; several commits; leaving and coming back | one active row per student on the roster; one reward, when due and only then |
| Exams and attempts (`services/exam.py`, `exam_attempt.py`) | `questions`, `exam_attempts`, `user_answers` | edit questions, start, answer, submit | questions change under open and closed attempts; grading commits answer by answer; the submission awaits its event | a stored score is what its answers add up to; results stay |
| Response cache (`core/cache.py`, `core/decorators.py`) | key -> stored answer with ttl | lookup, fill, sweep by pattern, clear | a read fills late, after a write has swept; patterns that miss keys | staleness bounded by the ttl, and only for known reasons |
| Schools and membership (`services/user.py`, `services/school.py`) | `users`, `schools`, `user_school_association`, upload reports | sign-up, invite, upload, add super admins, change address, remove, change role, delete accounts and schools | a request reads its school on a thread and uses it later; an insert stays uncommitted while an e-mail is awaited, and a second one blocks the event loop; partial commits | unique addresses, every account in a school, known ways alone to lose the last administrator or to join a deleted school, reports are true |
| Accounts and tokens (`services/auth.py`, `crud/one_time_token.py`) | `one_time_tokens`, active flag, password | sign up, verify, resend, forgot, reset | threads beside the loop; tokens found and deleted by value; four-digit codes | who waits for activation holds a code; a link sets one password |
| Billing (`services/stripe.py`, `endpoints/webhooks.py`) | rows for customers, subscriptions, invoices, products, prices | create, pay, cancel, renew, webhook handlers, revenue reports | two systems and no common transaction; events late, twice, reordered, never; paging | rows come to agree with Stripe; canceled stays canceled; each charge counted once |
| Reports and leaderboards (`services/report.py`) | leaderboard rows | recompute on a trade's event | recomputed while the sources change | the entry is the last trade's |
| Notifications, ratings, roles, files, logging, configuration | single rows or none | create, read, update, delete | none of their own | (left out, or a step of another part) |

How the parts interact: handlers call services, services call the CRUD classes,
all over the same session of a request. `utils/events.py` lets a handler publish
an event and await its subscribers: the e-mail, the exam submission and the
leaderboard update suspend there. The cache decorator wraps read endpoints; write
endpoints sweep it after the service has returned. The price feed, `place_order`
and the watchlists ask the market data client for quotes. The webhooks and the
user's own requests write the same billing rows. Removing a member is meant to
unenrol him from the courses of his school, but calls a coroutine without
awaiting it.

`PROJECT.json` lists all components with their status, and under `hazards` the
places where the code is exposed to what tests hardly reach, each with the
properties that cover it.

## Modules

| Module | What it models |
|---|---|
| `Money` | the decimal arithmetic of orders: `TotalAmount`, `NewAveragePrice`, half-up rounding to cents. Amounts are naturals in units of `1/Cent` cent |
| `OrderRateLimit` | the sliding window of `rate_limit_orders`: pruning, admission, refusal, the clock, loss at a restart |
| `TradingOrders` | `place_order` and `add_funds_to_student_account`; extends the two above |
| `Brokerage` | what the order desk promises: atomic deposits, purchases and sales |
| `TradingRefinement` | `TradingOrders` as an implementation of `Brokerage`: balance column = cash, position quantity = shares |
| `Portfolio` | what is derived from trades and deposits: snapshot rows, written by the job and by requests for the history; the shown balance; the profit of a period; the leaderboard entry |
| `Watchlists` | lists and their stocks, with additions that wait for a quote |
| `PriceStream` | the Socket.IO handlers and the polling task over their shared dictionaries |
| `CourseLearning` | one course and its students: enrolment rows, lessons, percentage, attempts, completion reward |
| `ExamAttempts` | one exam in detail: questions, attempts, answers, grading; its steps are exam steps of `CourseLearning` |
| `Courses` | courses, curricula, lessons and the places of exams, with the permission checks, and what lists and pages show |
| `ReadCache` | lookup, fill, sweep and clear around reads and writes of the database |
| `Subscriptions` | Stripe's customers and subscriptions, the rows that mirror them, and the webhooks |
| `Invoices` | invoices, the ways to pay them, products and prices, their webhooks, and the revenue reports over pages of charges |
| `SchoolMembers` | users, schools and associations, invitations one by one or from a file |
| `Accounts` | accounts, the codes that activate them and the links that reset a password |
| `InductionLemmas` | what the other proofs need of numbers, counts and sums |
| `TradingProofs`, `PortfolioProofs`, `CourseProofs`, `LearningProofs`, `StreamProofs`, `MembersProofs`, `BillingProofs` | the theorems, by the parts that are run together |
| `MC...` | constants of the modules above for TLC; `MCSnapshotJob` also tells the runs of the job from the requests that write the same rows |

`map` in `PROJECT.json` gives, for every definition, the lines it stands for.
Definitions whose comment begins with "Mutant of" are no part of a
specification: each is a plausible error in the operator it names, and the
property listed with it in `PROJECT.json` fails when it takes its place.

How state and actions correspond:

* **TradingOrders.** `balance` and `position` are the columns; quantity 0 means no
  row. `place_order` is `PlaceOrder` (limiter, validation, account lookup) up to
  the quote, then `FillBuy` or `FillSell`, or an action for a quote that is
  unusable or a check that fails. Each writing action chooses how many of its
  commits reached the database. `seen` is the balance attribute the session
  loaded before the quote, which is `Expired` where a commit in the same request
  makes SQLAlchemy read it again. `cashReplay` and `sharesReplay` are what
  `_calculate_cash_balance_at_date` and `_calculate_holdings_at_date` would
  compute from the rows of `transactions` and `trade_orders`.
* **Portfolio.** `trades` and `deposits` are the rows that count, with their day;
  the price is 1, so that whatever a replay gets wrong shows in the figures.
  `CreateSnapshots` is the job, which the scheduler runs at midnight and an
  administrator when he likes. `RequestHistory` is a request up to its prices,
  `FinishHistory` the rest. `StepUpdate` takes the subscriber of `trade_executed`
  from one await to the next. `Reads` is a query without an order and with a limit;
  the one behind `Missing` has an order, and returns the first `RowLimit` rows of
  its range.
* **Watchlists.** `RequestAdd` and `FinishAdd` are the two sides of the quote.
* **PriceStream.** One variable per dictionary, with the source's names. A
  `subscribe` is `Subscribe` before the initial quote and `AnswerSubscribe` after
  it. The polling task is `StartRound`, then one `Emit` per symbol, in any order.
  Timestamps are ages, cut off where no test of the code tells them apart.
* **CourseLearning.** `enrollments` is the sequence of enrolment rows, each with
  its lessons and rewards; the percentage is recomputed where the code does it.
  `SubmitExam` and `FinishSubmit` are the two sides of the awaited event.
* **ExamAttempts.** `Submit` grades an attempt and closes it; `SubmitDies` reaches
  some of its commits only, and a second submission of the attempt, still open,
  grades again. `OfCourse` maps questions, answers and scores to the
  five exam variables of `CourseLearning`.
* **Courses.** One action per endpoint, taken by a user with his role and school;
  `CanManageSchool`, `CanViewCourse` and their like are those of
  `utils/permission.py`; the `get_...` operators are the queries behind the lists,
  `MayOpen...` the guards of the pages. Creating a course and deleting a
  curriculum commit several times and may end in between. `closed` are the
  deleted schools: `DeleteSchool` deletes the content of one `Page` of courses
  (any of the pages, as the query has no order) and leaves the courses; the list
  of exams is filtered by such a page too. `Placeless` exams were moved to
  neither course nor curriculum.
* **ReadCache.** Data is the number of the commit that wrote it, so "stale" is a
  comparison. `Touches` says which endpoints an operation changes the data of,
  `Sweeps` which its patterns match; both are constants, read off the endpoints.
* **Subscriptions, Invoices.** A call of the Stripe library is synchronous, so a
  handler is one step; a death between Stripe and the commit is a choice in that
  step. Stripe (what a subscription or an invoice may become, which events it
  sends, that it repeats unanswered ones and at last gives up) is external and
  modelled as the handlers rely on it. Charges are numbered as they come; Stripe
  lists the newest first, and a page is what `starting_after` asks for: the newest
  charges older than the last of the page before.
* **SchoolMembers.** `Admit` is the dependency that reads the school of a request
  that invites, on a thread; what comes of the request is a later step
  (`InviteUser`, `InviteStaff`, `StartBulkInvite`), which does not look again. The
  other requests of administrators look up what they change in the step that
  changes it. `transaction` holds what a request has inserted and not committed,
  `loop` the request that occupies the event loop. `InviteUser`, `InviteStaff`,
  `SignUp`, `CreateSchool` and `BulkRowInvited` insert and await the e-mail;
  `FinishInvite` and `BulkRowDone` commit. `Locked` is the unique index of
  PostgreSQL at work: an insert of an address that an open transaction has
  inserted waits, and with it the loop (`AddressAwaited`, `BulkRowAwaited`);
  `UserAwaited` is an update that waits for the membership of its user to commit.
  `Platform` is the school of the platform's staff, opened by the first request
  that looks for it by its name. Teachers, students and staff are one role.
  The history variables: `unguarded` are the schools that lost their last
  administrator by a demotion, with his account, with a rollback, or by a removal
  whose guard a deleted account met; `late` are the requests that had read a
  school before it was deleted.
* **Accounts.** `signing` and `resending` are handlers that await an e-mail, the
  first with an open transaction; `threads` are `verify_account` and
  `reset_password` between their statements. `hung` is the loop waiting for a
  transaction that only the loop can end.

## Runs

Several modules have no variable in common. Their runs are summed, not
multiplied: an `MC` module extends the modules, a variable `focus` chooses at the
start which of them moves, and the others keep their initial state. That loses no
behaviour of either; it only shows no interleaving of modules that do not meet.

| Run | Question and result |
|---|---|
| `trading_overlap` | Orders and deposits of one user overlap, a commit fails, the worker restarts. Accounts never go below zero; shares are never lost; the balance equals its replay for everybody not hit by an overlapping write or a failed commit; the average price stays within the prices paid; the window of the limiter is never exceeded, and nobody is refused without cause. |
| `trading_serial` | Requests of each user one at a time: `TradingOrders` implements `Brokerage`. |
| `trading_lost_deposit` (violation) | Without that exception for overlaps the balance does not equal its replay: a deposit that commits during the quote of an order is overwritten. |
| `portfolio` | A day gets a second row only where as many rows as the query returns precede it (the run reaches that); a row written with all trades of its day known is right, whoever wrote it and when; between two midnights of a constant price there is no profit; the leaderboard shows the last trade unless its update was overtaken, died, or was shown a frozen balance. Watchlists keep their names and stocks apart but for two additions at the same time. |
| `snapshot_job` (violation) | The job ends with the first user who holds stocks, and the users after him get no snapshot. |
| `price_stream` | A symbol is polled if a subscriber wants it, and only if one does or left with his connection; answers that overlap leave no client unaware of a subscription; what is subscribed is fetched again and again. |
| `learning` | Roster and rows agree; whoever is due is rewarded, once, and nobody else; what is earned stays. The exam in detail: scores and verdicts are what the answers add up to, results stay, and every step is an exam step of the course (`ExamOfCourse`). |
| `learning_progress` (violation) | The percentage counts the lessons started, not those of the course. |
| `course_pages` | No content outlives its course, whatever was moved and deleted before, schools included; whatever a user may open he also finds in a list, except exams without a place and, for administrators of schools with more courses than one query returns, exams. Cached answers are stale for less than the ttl plus the fetch, and only for one of the causes the property lists. |
| `subscriptions` | With every event answered, rows agree with Stripe unless an event was overtaken, found no row or was given up; a canceled subscription revives only that way. Invoices, products and prices likewise; the reports count each charge once, however it falls on pages. |
| `subscription_renewal` (violation) | `auto_renew` is passed on as `cancel_at_period_end`: what is enabled ends. |
| `school_members` | Addresses stay unique across the await of an e-mail and reports are true; accounts have a school, and deleted schools are empty but for those invited by requests that had read them before; schools other than the platform's keep an administrator unless he is demoted, deletes his account, was half created, or is removed while a deleted account is counted for another; every request is answered unless the event loop waits for a lock only it can release. One-time tokens serve once, but for the races the property names. |

The violation runs are disagreements between the code and its own documentation,
tests or messages; `findings` quotes them.

### Bounds, and why they are enough

* `trading_overlap`: one user (users share nothing but the limiter's dictionary,
  which is per user), four requests with two at a time, one stock, a limit of 2
  orders in a window of 2 ticks, one failed commit and one restart. `Cent = 4`
  with quotes of 1 and 6 units makes totals round down to nothing, round up, and
  come out exact; the deposit of 12 pays for some orders and not for others. The
  proofs cover every other value of these constants.
* `trading_serial`: two users, so that only the requests of one user are serial.
* `portfolio`: one user, as the rows of users are apart (the job, which goes
  through all of them, is `snapshot_job` with two); two days, so that rows are
  written for a day gone, today and a day to come; three trades against a query
  that returns two; two deposits, before and after the first trade, four trades
  and deposits in all; two requests or updates that wait, so that one overtakes
  the other; one crash. Other behaviours (`OneTrade`) have four days (`MaxDay`)
  against a query of two rows (`RowLimit`), with one trade and one deposit: days
  beyond the limit are written twice. Watchlists:
  two lists, two names one of which is blank, two stocks, two additions waiting.
* `price_stream`: two clients of one user share its limiter, two symbols of which
  one may fail; limit 1, so that refusals happen.
* `learning`: one student, as rows of different students never meet; two lessons,
  so that a course may be started, half done and completed; two enrolment rows
  for leaving and coming back; three attempts and two deaths. The exam: two
  questions worth 1 or 2, a pass mark of 50 that one of them may or may not reach,
  two sittings, three edits, one death while grading.
* `course_pages`: two schools, courses and curricula, so that things move between
  them, one lesson and one exam; an administrator, a teacher and a student of the
  first school and a super admin; one death. A query returns one course
  (`CourseLimit`), so that both are more than it returns. Behaviours in which the
  school is deleted (`OneSchool`) have both courses in it, nobody who teaches or
  attends them, and no death. The cache: two readers and two
  writers, two commits, ttls 1 and 2, one tick between a read and its fill, so a
  fill can be overtaken, and an entry can expire before or after a sweep. Its
  constants are real endpoints: an order sweeps the balance and leaves out the
  history, a deposit sweeps nothing.
* `subscriptions`: one user, two customers, so that a duplicate can arise; four
  states per subscription, so that an update can be overtaken by an update and by
  the deletion; one death. Two invoices and one product; three charges in two
  periods on pages of two, so that a page ends inside a period and at its edge.
* `school_members`: three addresses; one failure (a commit or the worker). A
  behaviour follows one of three: three requests of two schools, up to two of them
  uploads of two rows, so that two requests collide on an address while the third
  changes or deletes what they work on; three requests of a school and the
  platform; four requests that administer two members of a school, so that both are
  promoted, one deletes his account and the other is removed. Requests are
  interchangeable, so they are numbered in the order they are sent in (`InOrder`);
  TLC's symmetry would not do with a liveness property. Once a request has been let
  in by a live school, the next step lets in another, goes on with one of them or
  deletes a school (`AdmittedLate`): any other step could as well come before.
  `MaxUsers = 7` is one plus three times two rows: the bound on ids never
  binds. The accounts: two people, two codes, so that both may draw the same, one
  link, two threads, one crash. Codes and links are explored apart: they share no
  row, and the columns of an account they write have nothing in common.

Deadlock is not checked where the system may stop: all requests are answered and
the bounds are used up, or, in `school_members`, the event loop is stuck.

### Fairness

* `PriceStream`: weak fairness of `StartRound`, of `Emit` of each symbol and of
  `Tick`. The task is `while True` on a loop that runs whatever is ready, the
  quotes are fetched with a 10-second timeout, every exception inside the round is
  caught, and time passes. Nothing is assumed of clients.
* `SchoolMembers`: weak fairness of what a request does once it is let in
  (`Handled`), of the steps after an e-mail and of the steps of an upload. The loop runs every task that is ready, and the e-mail call returns
  or raises an error that `gather(return_exceptions=True)` collects. Nothing is
  assumed of requests that have not been sent, nor that a restart helps.

## Proofs

The theorems hold for every value of the constants that satisfies the assumption
of the module: any users, symbols, rows and prices, and any number of requests,
crashes and restarts. The runs check the properties they state on small instances.
Every safety property of a passing run is stated by a theorem.

| Theorem | What it says |
|---|---|
| `TradingProofs.TypeCorrect` | the order desk stays well typed: no position below zero shares |
| `TradingProofs.RateLimitHolds` | no window holds more than `MaxOrders` executed orders of a user |
| `TradingProofs.RefusalsAreJustified` | an order is refused only when its window is full |
| `TradingProofs.NeverOverdrawn` | no account goes below zero |
| `TradingProofs.CashIsReplayed` | a balance differs from its replay only after an overlapping write or a failed commit |
| `TradingProofs.SharesAreReplayed` | positions are what replaying the trades yields, however orders overlap |
| `TradingProofs.AverageWithinPaid` | the average price stays within the whole cents around the prices paid |
| `TradingProofs.AverageStaysWithin` | the same for one purchase, as a fact about the arithmetic |
| `TradingProofs.DeskImplementsBrokerage` | one request at a time and no failed commit: `TradingOrders` implements `Brokerage` |
| `PortfolioProofs.DaysHaveOneSnapshot` | a day of a user gets a second snapshot row only where as many rows precede it as one query returns |
| `PortfolioProofs.SnapshotsAreRight` | a row written with all trades known shows what they and the deposits leave |
| `PortfolioProofs.PeriodsAreFlat` | with a constant price no period shows profit or loss |
| `PortfolioProofs.LeaderboardIsRight` | once no update of the last trade waits the entry is that trade's, but for the causes the property names |
| `PortfolioProofs.WatchlistsStaySets` | names and stocks without repetition, but for the race the property names |
| `PortfolioProofs.PortfolioTyped`, `WatchlistsTyped`, `PortfolioTypeCorrect` | types, of each part and of the two together |
| `CourseProofs.NothingOutlivesItsCourse` | no curriculum, lesson or exam outlives its course, whatever courses and schools are deleted |
| `CourseProofs.PagesAreListed` | whatever a user may open is in a list he is shown, except exams without a place and those of an administrator whose school has more courses than one query returns |
| `CourseProofs.AnswersAreRecent` | an answer from the cache was the database's within the ttl and the time of a fetch |
| `CourseProofs.StaleAnswersHaveCauses` | a stale entry has one of the causes the property lists |
| `CourseProofs.CoursesTyped`, `CacheTyped`, `PagesTypeCorrect` | types; no entry outlives its ttl |
| `LearningProofs.RosterAgrees` | a student on the roster has one active row, and nobody else has any |
| `LearningProofs.RewardsFollowCompletion` | rewards are neither early nor doubled nor, but for a torn row, missing |
| `LearningProofs.GradesAreRight` | where scores are settled, scores and verdicts are what the answers add up to |
| `LearningProofs.AchievementsAreKept`, `ResultsAreKept`, `EarnedIsKept` | no step takes a completion, a reward or a result away: course, exam, both |
| `LearningProofs.ExamsAreOfCourse` | `ExamAttempts` implements the exam that `CourseLearning` assumes (`ExamOfCourse`) |
| `LearningProofs.ExamTyped`, `LearningTypeCorrect` | types |
| `StreamProofs.SubscribersAreFed` | what somebody subscribed to is polled, and nothing else that was not left behind |
| `StreamProofs.StoppedStayStopped` | a client told that it is unsubscribed stays so until it asks again |
| `StreamProofs.StreamTypeCorrect` | types; the limiter remembers no more subscribes than its limit, the oldest first |
| `MembersProofs.SchoolsKeepAdministrators` | a live school loses its last administrator only by a demotion, with his account, by a rollback, or by a removal whose guard counted a deleted account |
| `MembersProofs.MembersGoWithSchools` | a deleted school has nobody but those invited by requests that had read it before; no account is outside every school without a cause |
| `MembersProofs.UploadsReportWhatTheyDid` | a report accounts for every row and for who was invited; no two accounts share an address |
| `MembersProofs.CodesAndLinksServeOnce` | who waits for activation has a code and a link sets one password, but for the races the property names |
| `MembersProofs.MembersTypeCorrect`, `AccountsTyped`, `SchoolsTypeCorrect` | types; a transaction is open exactly while its request awaits an e-mail |
| `BillingProofs.RowsAgreeWithStripe` | with every event answered a subscription's row is Stripe's, unless one was overtaken, found no row or was given up |
| `BillingProofs.CanceledSubscriptionsStay` | no step revives a canceled subscription unless the event of its cancellation is to come or went wrong |
| `BillingProofs.BillsFollowStripe` | the same for invoices and products |
| `BillingProofs.RevenueIsRight` | both revenue reports count each charge of their range once, whatever the size of a page |
| `BillingProofs.SubscriptionsTypeCorrect`, `BillsTypeCorrect`, `BillingTypeCorrect` | types |

### Assumptions

TLC evaluates each of them in the runs of the module that declares it.

| Assumption | What it says |
|---|---|
| `CentAssumption`, `LimitAssumption` | a cent has a positive number of units; the limit and the window are naturals |
| `TradingAssumption` | usable quotes and deposits are positive; quantities are integers, which includes the negative ones a client may send |
| `PortfolioAssumption`, `WatchlistAssumption` | a deposit is positive and a query returns at least one trade, or one row; the blank name is a name |
| `CourseAssumption`, `RowAssumption` | what the constants of the rows are; a query returns at least one course |
| `LearningAssumption`, `ExamAssumption` | a course has finitely many lessons and an exam finitely many questions; points are naturals, and a question is worth some |
| `StreamAssumption` | limit and window are positive, backoff and waiting handlers are bounded |
| `CacheAssumption`, `OperationAssumption` | touched and swept are sets of keys, a ttl is positive; "no write" is no operation |
| `MembersAssumption`, `LoopAssumption` | there are a first address, a first school and another one for the platform; "none" is no address, "idle" no request |
| `AccountAssumption`, `TokenAssumption` | codes are no links, there are finitely many threads; "none" is no value and no row |
| `SubscriptionsAssumption`, `NamesAssumption`, `InvoicesAssumption` | bounds are naturals, "no user" is no user; periods are numbered, a page holds a charge |

`DeskImplementsBrokerage` assumes in addition `MaxInFlight = 1` and
`MaxFailedCommits = 0`: without them the claim is false, as `trading_lost_deposit`
shows.

### The arguments

* **Rate limit.** `WindowNeverExceeded` speaks of all orders ever admitted, the
  limiter of those it remembers. `LimitInv` relates them: what is young enough to
  count is remembered (`Young(admitted[u])` is in `order_limits[u]`), so the
  length the guard reads bounds the window. At a restart both start afresh. That
  nobody is refused without cause is the other inclusion: what is remembered when
  an order is refused was admitted and is young.
* **Cash.** That a balance equals its replay is not inductive: the write uses the
  balance read before the quote. `FreshReads` adds that a waiting request of a
  user nobody overlapped has seen the balance there is, or nothing.
  `SeenNeverNegative` does the same for the guard of a purchase, whose funds check
  may be stale but never lets a negative balance through.
* **Average price.** The total of an order is rounded before it is added and the
  average is rounded again. What survives is the bound widened to whole cents:
  half-up rounding never leaves an interval whose ends are whole cents.
* **Refinement.** With one slot per user nothing overlaps (`TakingTurns`), so
  `FreshReads` says that the balance read before the quote is the one there is
  after it, and the step that writes is the atomic purchase or sale. All others
  stutter.
* **Snapshots.** Both writers insert rows for the days they find without one, and
  the request looks again after its prices (`Missing`). A second row of a day is
  thus written only if the query stopped before that day, and then the rows before
  it are as many as the query returns and stay so: `OneSnapshotPerDay` is inductive
  once the rows of finitely many days are known to be finitely many
  (`RowsAreFinite`, `RowsGrow`). What a row shows is
  `HistoryInv`: it remembers how many trades and deposits there were when it was
  written and shows the cash of those; a request that waits has seen all the trades
  there were when it asked, as long as they fit a query. A replay clamps a sale at
  zero shares; `RecordsFit` (trades in order, nobody sells short) makes it equal to
  bought minus sold, by induction along the trades.
* **Leaderboard.** `BoardInv`: an update of the last trade that was funded and not
  shown a snapshot has the balance of all trades, and one that was valued their
  shares. An entry is right when it was written by such an update and none waits.
  With three updates waiting, the first of them may end last; the entry is then
  not the last trade's, and the history variable `clean` says so.
* **Watchlists.** `FinishAdd` inserts without a guard after the quote. `OneComing`
  counts the row and the additions that wait together: at most one unless two
  passed the check before either inserted, which is what `contested` records.
* **Courses.** "No content outlives its course" is not inductive as it stands,
  because a lesson hangs on its course through a curriculum; `RowsExist` adds
  that the rows on the way exist. Deleting a course and deleting a school delete
  the content of some courses and take some courses, or a school, out of those that
  are `Standing`; `ContentFollows` says it once for both. That pages are listed
  goes by roles; where the user's courses are fewer than the limit, the page of the
  query has all of them (`ViewedIsSeen`).
* **Cache.** `AgesFit` carries age from the database to an answer: what a reader
  holds was superseded no longer ago than its fetch has taken, what is stored no
  longer ago than that and the age of the entry. `StaleIsCaused` says more than the
  property: an entry that has expired has a cause too, and the writer that is waited
  for will sweep the key.
* **Course progress.** `LearningInv` says it row by row. The roster: active rows
  belong to students on it, each of those has one, and no student has two, which is
  why Unenroll's choice of a row is no choice. The rewards: `Once` bounds them, and
  `Due` says of every active row no death has torn that 100 percent means
  completed, and completed, passed and nothing waiting means rewarded. `checking`
  carries the argument over the await of `submit_exam`: between the commit of the
  pass and the look at the enrolment `Due` asks nothing of the row. `Grows` is
  what a lesson or a reward may do to a row; it gives `AchievementsAreKept`.
* **Exams.** A submission grades every answer to a question that is there, those
  that a death left graded as well, and reads nothing grading writes; so what it
  stores is what the questions say at that moment. An edit supersedes the results
  there are, of which nothing is claimed afterwards. What remains are sums: the
  stored scores, the shown ones and the points of the right answers. They are
  `MapThenSumSet`, of which `InductionLemmas` proves what is needed (naturals, in any
  order, zeros left out) by way of a set without a least counterexample.
  `ExamsAreOfCourse` goes through the steps: start, submission and deactivation are
  the course's, the others change nothing the course sees.
* **Price stream.** `StreamIInv` has a part per client and one per symbol: `Fed`
  (what it subscribed to is in its rooms and polled), `Aware` (who was told of an
  unsubscription and has no answer coming has no subscription) and `Reason` (what
  is polled has a subscriber or was abandoned). A sid without a connection has no
  subscriptions, which lets every step be read client by client. The list of the
  limiter is pruned at its old end; that it is in order, a part of `TypeOK`, is why
  nothing younger than the window goes (`RecentAreRemembered`).
* **Schools and members.** A transaction hides a row until its e-mail returns, so
  the invariants speak of both tables and open transactions: `RowsFit` (which rows an
  insert may refer to), `AddressesDiffer` (no address twice among rows and inserts;
  the unique index is what keeps it), `UploadCounts` (every row of an upload is
  counted or to come, and successes are who was invited), `LateKnown` (who was let
  in by a school that is deleted now is among the late, and stays so until he is
  answered) and that schools keep administrators, which is inductive when those
  to come are counted (`Administrators`). A school that loses some keeps another, is
  noted in `unguarded`, or had none (`AdministratorsLeft`): a removal that passes
  the guard leaves a member who counts for an administrator, and if he has no
  account the school is noted.
* **Codes and links.** `Coded` holds of everybody but those whose code is being
  drawn again or was lost. `ServesOnce` says of a link no cause excuses that at most
  one thread holds it, that its row stands while one does, and that a password set
  with the row still there was set by that thread. For the links that are excused
  `SettingsCounted` bounds the damage: no more passwords than there are threads
  between two restarts.
* **Subscriptions.** Events carry the state they tell of. `EventsTrue` ties them to
  the states a subscription went through, the first and the cancellation among
  them; `RowFresh` says that every state is delivered or pending and the row holds
  one no older than the newest delivered, unless an older one is still to come.
  With no event pending that is the last state. `CustomersCounted` allows a user one
  customer and one for each request that died between Stripe and its commit.
* **Invoices.** `NoticesAreTrue` (an event says what has happened) and `RowsFollow`
  (where nothing died the row is Stripe's or the event that makes it so is to come).
* **Revenue.** A charge older than some charge is on the next page or older than the
  last of that page, and not both (`NextPage`). The recursion of the reports is a
  function defined from smaller numbers: it exists, and by induction it counts.
* **Parts together.** The parts of an `MC` module have no variable in common, so a
  behaviour of its specification is one of each part (`BillingFollowsBoth` and its
  like), and the theorems about the parts hold of it.

### Only model-checked

* Liveness (`SubscribedIsFetched`, `AnsweredUnlessStuck`) rests on fairness, and
  with it on ENABLED, which the prover does not handle.
* The violation runs: each is a counterexample, which TLC finds.

## Not modelled, and why

* **Redis.** The cache is modelled with the in-memory backend's operations, which
  are those of Redis as the code uses them; serialisation, the spelling of keys
  and failures of Redis are left out.
* **Permission checks** other than those of courses, curricula and exams: the
  modules take their actions for users who may take them.
* **Sign-in, sign-out, the denylist, choosing a context**: they write nothing but a
  denylist row; Google's sign-in has no caller.
* **Payment methods, setup intents and the customer portal** keep their state at
  Stripe; products and prices are only created and mirrored here, their update
  and deletion are left out.
* **Ratings** are one row per user and course with an average over one query;
  **roles and permissions** are tables an administrator edits and the checks read
  as constants; **notifications** are read and marked one row at a time.
* **The learning leaderboard** is always empty (see below), and the other reports
  aggregate one query each.
* **The five-second cache of the market data client** is seen only as the quote its
  callers get.
* **Connection pool, e-mail contents, file storage, logging, configuration**: no
  state the modules' properties refer to.
* **Endpoints that call a coroutine without awaiting it** (`endpoints/school.py:89`,
  `endpoints/account.py:202`) do nothing; there is nothing to model.
* **What removal from a school does to the rosters** (`services/user.py:340`): the
  call is not awaited, so nothing. Membership and rosters have no variable in
  common, and a run of both would be their product.
* **An exam that moves into or out of a course** is an action of `Courses`; in
  `ExamAttempts` and `CourseLearning` the exam stays in its course, and what the
  move would do to enrolments and rewards is left out.
* **A row of an upload that fails after its notification has committed it**
  (`services/user.py:683`) is counted as failed with the account there; the step is
  one here.
* **What the snapshot job and the history order arbitrarily**: trades of one day,
  and the 10000 users the job looks at (`services/trading.py:1277`).
* **Lists that clients page through** stand for all their pages.
* **What becomes of the members of a deleted school** who still have a token: the
  handlers of `Courses` may run after it, as their school was read before.
* **Deletion of a user with lesson progress** fails on a foreign key; accounts in
  `SchoolMembers` have none.

## Observations

Met while reading and modelling; not all of them are the business of a property.

* Trading: `_calculate_portfolio_history` answers with `_calculate_cash_at_date`
  (`services/trading.py:1011`), which starts from today's balance and subtracts
  the trades again, so the first answer differs from the rows it saves. A row
  written today freezes the shown balance. Rows may be stored for days to come,
  and the job then finds the day taken. `_save_snapshots_from_history` sees the
  first 100 rows of its range (`services/trading.py:1340`), which is 365 days unless
  given: beyond them two requests that overlap write the same days twice. Realised profit (1396) is always 0. The
  scheduler's default misfire grace of one second may skip a night.
* Watchlists: blank names are not checked for uniqueness.
* Billing: the refusal in `update_invoice_status` uses a name its parameter
  shadows and ends in a 500; `get_by_invoice_number` matches substrings;
  `int(amount * 100)` truncates a fraction of a cent.
* Reports: `crud_user.get_leaderboard_data_for_student` (`services/report.py:324`)
  does not exist and the `precompute_...` functions have no caller.
* Courses: `order` defaults to 0, so the branches for `order is None` are dead;
  deleting a course leaves its lessons' rows live, deleting a curriculum its
  exams' rows, although neither can be opened; the bulk update of a teacher's
  courses does not look at the schools of the courses; an exam created with
  course and curriculum is checked against the course alone. An exam moved to
  neither opens for everybody but students and is listed only for super admins.
  The list of exams takes the courses of one query (100) of a school
  (`services/exam.py:97`), and `delete_school_admin` the same: it deletes the
  curricula and exams of those courses, and leaves all courses and lessons live.
* Progress: the reward given by `_update_course_progress` publishes no event.
* Cache: `invalidate_user_cache` without patterns deletes nothing
  (`core/cache.py:192`), which is what `complete_lesson` and others call.
* Real-time: `leave_room` is not awaited (`realtime/websockets.py:234`): the client
  stays in the room and gets prices as long as somebody else wants them.
* Schools: `get_school_admin_count` counts administrators whose accounts are deleted,
  so `remove_user_from_school` may remove the last one who can sign in. The school
  of the platform has no school administrator, and is found by its name even when
  it is deleted. A school may get members after its deletion, from requests that
  had read it before: an upload reads its file and sends its e-mails in between.
* Accounts: `resend_verification_code` deletes the old code before it draws a new
  one that may be taken, and then leaves none; expired tokens are never deleted;
  an insert of a code equal to an uncommitted one blocks the event loop.

## Plan

1. Membership and rosters together, once the removal of a member unenrols him.
2. Payment methods and the update of products and prices in `Invoices`; ratings.
