# Antenna Educator: formal models

TLA+ models of the parts of Antenna Educator in which several processes share
state: the asynchronous compute jobs and the tokens that pay for them, the
accounts with their e-mail claims, course work, the folder tree, the project
store, and in the browser the signed-in session, the solver workflow and the
automatic saving of designs. TLC checks them on small instances; TLAPS proves
their main safety properties for every number of users, requests, workers,
projects, folders, tabs and crashes.

- [The system](#the-system): inventory of the parts, what is hard about them
- [Modules](#modules): what models what, and how it corresponds to the code
- [Runs](#runs): what TLC checks, with which bounds and fairness
- [Findings](#findings) and [Further configurations](#further-configurations)
- [Proofs](#proofs): what is proved, from which assumptions
- [Abstractions](#abstractions), [Not modelled](#not-modelled) and [Plan](#plan)

Paths below are relative to the repository's root.

## The system

Antenna Educator is a web application: a React page (`frontend/`) in which a
student draws an antenna, solves it and looks at fields, and a set of FastAPI
services (`backend/`) behind it. The services run as AWS Lambda functions: many
instances of one service at a time, each serving one request, each with its own
memory. What they share is one DynamoDB table, S3 buckets and an SQS queue.
Every call to one of those is atomic by itself, and there is hardly a place
where two of them are. In the browser the page is one event loop, but every tab
is a page of its own, and all tabs share `localStorage`.

That fixes the grain of the models. **One action is the code between two calls
that leave the process** (a DynamoDB, S3 or SQS request, an HTTP call, an
`await`); between them, steps of anybody else may come.

### Components

| Component | State it keeps | Operations | Interacts with | Modelled in |
|---|---|---|---|---|
| Asynchronous compute jobs (`backend/solver/jobs.py`, `main.py`, `lambda_handler.py`, `async_jobs.tf`, `frontend/src/api/solver.ts`) | job record in DynamoDB, request and result objects in S3, message in SQS | submit, deliver, run, mark, refund, poll | tokens (charge, refund), account deletion (removes records) | `SolveJobs` |
| Simulation tokens, profile cache (`common/auth/token_dependency.py`, `dependencies.py`, `user_repository.py`) | balance and flatrate in the profile item; a copy per process for 60 s | check, charge, refund | every service | `Tokens` |
| Registration (`common/auth/local_provider.py`, `user_repository.py`) | profile item, claim item of the e-mail | register | deletion, retention | `Accounts` |
| Account deletion and retention (`projects/account_service.py`, `retention.py`) | all items of a user | delete my account; daily run | registration, jobs, projects | `Accounts` (profile, claim), `SolveJobs` (job records), `CourseWork` (submissions, courses) |
| Administration of users (`projects/folder_routes.py`) | role, lock, approval, tokens, flatrate of a profile | five update endpoints | deletion, cache | `Accounts` |
| API client (`frontend/src/api/client.ts`) | tokens in localStorage; `isRefreshing` and `failedQueue` per page | request, 401, refresh, queue, re-send | session, Cognito, services | `ApiSession` |
| Browser session (`services/auth/`, `store/authSlice.ts`, `ProtectedRoute.tsx`, `store/store.ts`) | the auth slice, what the store has loaded | login, logout, load, validate | API client, other tabs | `ApiSession` |
| Courses, enrolments, submissions (`projects/submission_routes.py`, repositories) | an item under the course and one under the user, snapshot and results in S3 | enrol, submit, review, show, delete account, course or old submission | project store, retention | `CourseWork` |
| Projects, results, documentation (`projects/main.py`, `results_service.py`, `documentation_service.py`) | project item, the objects in S3 it names | create, save, open, reset, document, upload, delete, duplicate | auto-save, folders | `ProjectStore` |
| Folders and courses (`projects/folder_routes.py`, `folder_repository.py`) | parent of every folder and course, folder of every project | create, move, empty, delete, copy | projects | `FolderTree` |
| Solver workflow in the browser (`store/solverSlice.ts`, `designSlice.ts`, `parameterStudyThunks.ts`, `SolverTab.tsx`) | results, parameter study, fields and whether they are stale | edit, solve, study, postprocess, stop, navigate, reload | jobs, design | `SolverSlice` |
| Automatic saving (`features/design/DesignPage.tsx`, `store/projectsSlice.ts`) | pending save, retries, the project and the design in the store | open, leave, switch, change, save, retry | project store | `AutoSave` |
| Local login, Cognito provider, token checks | none | log in, check a bearer token | accounts | stateless |
| Preprocessor, PEEC solver, postprocessor, FEM service, femsolver, mesher | none per request | numerics in floating point | tokens | out of reach |
| Storage providers | none | one S3 request each | all services | single steps in the models |
| User interface, other store slices, infrastructure, course material, tools | caches, configuration, data | - | - | not modelled |

### What is hard about it

`PROJECT.json` lists every hazard at its line. They are of these kinds:

- **Check, then act, in two requests.** `run_job` reads the status and then sets
  it; `register` scans for an e-mail and then claims it; an admin endpoint reads
  a profile and then updates it; the retention run scans a page and then deletes.
- **One fact in two stores.** A job is an S3 object, a DynamoDB item and an SQS
  message; an account is a profile item and a claim item; a project is an item
  and its S3 objects. A process may die between any two of the writes.
- **Unconditional updates.** DynamoDB's `update_item` creates the item it does
  not find, so an update that comes after a deletion brings a fragment back.
- **At-least-once delivery.** SQS delivers again after a crash, and may deliver
  twice without one.
- **Stale reads.** A profile is cached for 60 s in every process; the balance
  that was checked is not the balance that is charged.
- **Answers out of order.** A refresh, a solve or a save of the browser ends
  after a logout, after a newer one, or in another user's session.
- **Walks over a changing tree.** A move climbs to the root one read at a time,
  a deletion and a copy descend into subcourses they have listed before.
- **A list written as a whole.** The image keys of a project are read, changed
  and written back, while others do the same.
- **One slice for many pages.** The design shown is a single slice of the store:
  it survives the page, and timers and requests survive it too.

### What makes each part correct

- Jobs: a queued job settles; it is run by one worker at a time; its payload is
  there when it runs and its result when it is done; it is charged at most once;
  it is refunded only if it failed, and at most once.
- Accounts: an e-mail belongs to one account; its claim is held by that account
  and free when it is gone; roles decide over deletion when it happens.
- Session: one refresh per page at a time; no call is forgotten in the queue or
  re-sent for ever; a page shows the data of its user; a logout clears the
  storage and it stays clear.
- Course work: the two copies of an item live and die together; a deletion
  leaves nothing and no object that nothing leads to; what was handed in stays
  as it was.
- Folders: no folder contains itself; nothing is left in a folder that is gone;
  a deletion reaches what is inside and nothing else.
- Project store: the results an item names are there and of one save; what is
  opened is one save's; a deleted project leaves nothing behind; every image can
  be found again.
- Solver workflow: what is shown as solved and fresh was computed for the design
  as it is; a field belongs to the stored solution; nothing stays busy for ever.
- Automatic saving: a project is given its own design; the last change is
  stored and stays stored; a save that fails again and again ends.

## Modules

| Module | Contents |
|---|---|
| `Tokens` | The token part of a profile and the profile cache: one operator per DynamoDB request. No behaviour of its own; `SolveJobs` extends it. |
| `SolveJobs` | The job system in full: handler, queue, worker, poller, account deletion, and the faults. |
| `JobPromise` | The abstract specification: a job is queued, runs, ends once; is paid at most once; is refunded at most once and only when failed. |
| `Accounts` | Registration, deletion, retention, administration, profile cache. |
| `ApiSession` | API client and session of all tabs of one browser. |
| `CourseWork` | Enrolments, submissions and their snapshots against the deletion of an account, a course or an old submission. |
| `FolderTree` | Folders, courses and the projects in them; moves, deletions and copies, one access at a time. |
| `ProjectStore` | The project item and its objects in S3 under every handler that writes either. |
| `SolverSlice` | One page's solver slice with the thunks that solve, sweep and postprocess. |
| `AutoSave` | The design page's debounced saves, and how the design in the store changes with the pages. |
| `*_proofs` | Theorems and proofs about the module of that name (all but `Tokens` and `JobPromise`). |
| `MC*` | Values of the constants, symmetry sets and state constraints for TLC. |

The modules meet at the items they share. `SolveJobs` extends `Tokens` and
implements `JobPromise`. Between the others the interface is narrow enough to be
an action of each: the deletion of an account removes job records in `SolveJobs`
(`"erase"`), profile and claim in `Accounts`, submissions in `CourseWork`; a save
of `AutoSave` is one step (`Store`) there and the handler that stores objects and
item in `ProjectStore`; a project of a submission is a version number in
`CourseWork`; a folder's deletion takes projects away in `FolderTree` as
`ProjectStore`'s deletion does.

### SolveJobs, Tokens

A POST to `/api/jobs/*` is a member of `Requests`; since each submission draws a
fresh job id, the request also names its job.

- `handler[r]` walks through the endpoint: `Check` (the first half of
  `require_simulation_tokens`, reading the balance through the profile cache of
  one instance), then either `RunInline` or the three writes of `JobStore.submit`
  in the code's order (`StoreRequest`, `PutRecord`, `SendMessage`), then `Charge`
  (the second half of the dependency, after the endpoint has returned). `Abort`
  is an exception or a dying Lambda at any of these points.
- `status`, `fee` and `expiring` are `Status`, `TokensCharged` and the TTL
  attribute of the job record. `fee` is written by `PutRecord` from what the
  *check* found, before anything has been charged, as the code does.
- `worker[w]` is one invocation: `ReadJob` (with `run_job`'s early return),
  `MarkRunning`, `Compute`, `StoreResult`, `MarkDone`, and on any exception
  `MarkFailed` and `RefundFee`. `Acknowledge` ends the invocation, which is when
  SQS deletes the message. `SetStatus` is an update without a condition, so it
  creates the record of a job whose record was deleted, without TTL.
- `visible`, `receives` and `dead` are the queue: number of visible copies,
  `ApproximateReceiveCount`, dead letters. A crash makes the message visible
  again; it cannot come back while its worker lives, because the visibility
  timeout (`async_jobs.tf:32`) exceeds the Lambda's own timeout. After
  `MaxReceive` receipts it goes to the dead-letter queue.
- `charged` and `refunded` are history variables: tokens moved for each request.

`Faults` selects what may happen: `"duplicate"` (SQS delivers a copy while
another is under way or done), `"abort"`, `"erase"` (the account is deleted
meanwhile), `"late"` (a FastAPI that runs the exit code of a dependency after
the answer has been sent, so that a refused charge cannot refuse the request;
`pyproject.toml` asks for 0.104 or newer, which admits both behaviours). Crashes are bounded by `MaxCrashes`.
The run `SolveJobs` has aborts and crashes, and neither duplicates nor late
charging: with `Faults = {"late"}`, or `{"duplicate"}`, in its cfg TLC refutes
`DeliveredWasPaid` (a result whose charge was refused after the answer; a job
that one delivery finishes and the other refunds). `SolveJobsFaults` has all.

Abstractions: payloads and results are the fact that they are stored; the costs
are those of the three endpoints with a single frequency (5 for a solve, 3 for
fields), whereas the code multiplies a solve's by its frequencies; TTL and S3
lifecycle never remove anything; the queue retains messages.

### Accounts

- `full` and `partial` are the profile items: written by `create_user`, or
  created by an update of something that was gone (no e-mail, no `UserId`).
  `claims` are the items `EMAIL#<e-mail>/CLAIM`, each with the user it names.
- A registration runs `CountUsers` (is it the first user?), `ScanEmail`
  (`get_user_by_email`, which compares the e-mail as typed), `ClaimEmail` (the
  conditional put, on the e-mail stripped and in lower case: that difference is
  what `ClaimKey` keeps), `PutProfile`, and after a failed put `Unclaim`.
- A deletion runs `AskDeletion`, `ListDeletion` (the keys are listed *once*),
  then `DeleteItem` in any order, as a batch deletes its keys, and `EndDeletion`.
- An edit by an admin runs `AskEdit`, `ReadTarget`, `WriteTarget`,
  `InvalidateTarget`; `NewRole` is `"same"` for the four endpoints that do not
  change the role.
- The retention run takes one page of profiles (`ScanProfiles`) and then skips,
  stamps or deletes one after the other, on what the *page* said.
- `cache` holds the role each process remembers; `Resolve` counts a fresh read
  as activity (`record_activity`).

`Faults`: `"scan"` (both scans swallow their errors: no users, nobody found) and
`"crash"` (a process dies between two of its requests).

Abstractions: dates are `"never"`, `"stale"` (before the cutoff) or `"recent"`;
locks, approval and tokens are written but not told apart; the other items of a
user are left out.

### ApiSession

- `access`, `refresh`, `profile` are the keys in `localStorage`. Access tokens
  are numbered as they are issued; `owner` and `valid` are what the servers know
  of them. A refresh token is identified with its user.
- `request[r]` is a call: `Send` (the interceptor reads the token when the call
  goes out), `Serve` (external), then `Receive`, the interceptor's error handler
  with every branch: `Deliver`, `Reject`, `DenyAuthCall` (401 of `/api/auth/`),
  `Enqueue` (somebody refreshes), `Lead` (start the refresh), and `LeadInVain`
  (no refresh token: `refreshAccessToken` throws before its `try`).
- `flow[t][c]` is a run of `refreshToken()`, on behalf of the client or of
  `validateSession`; `AskCognito` reads the refresh token *after* `getSession`.
  `ClientRefreshed` stores the token, runs `processQueue` and re-sends;
  `ClientNotRefreshed` clears the storage and leaves the page.
- `page[t]` is the auth slice and, as `shown`, the users whose data the other
  slices hold. `Load` is a page load, which drops all that was in memory.

Abstractions: response bodies are the user whose token was used; `Logout` stands
for the button and for the idle timer, which is why it needs no clock.

### CourseWork

An entry is an enrolment (number 0) or a submission of a student to a course.

- `table[e]` are its two items, under `COURSE#` and under `USER#`: `full`,
  missing, or `bare`, which is what an update of a deleted item leaves (no user,
  no course). `Written` is the transaction that puts both.
- `pc[s]` walks through `submit_project`: `SubmitCheck` (enrolled?),
  `SubmitRead` (the project item), `SubmitCopy` (its results in S3),
  `SubmitStore` (the snapshot) or `SubmitInline` (S3 failed), `SubmitCreate`.
  `frozen[s]` is what item and snapshot say: of which version of the project the
  design and the results are. `Detail` is what the detail view then shows.
- `ReviewRead` and `ReviewWrite` are a review: the item is read, both copies are
  updated without a condition.
- `wipe[t]` is a deletion of a student's account, of a course or of a submission
  past its retention: `WipeStart` lists the items, `WipeObject` removes the
  objects of each, `WipeTurns` goes on to the items, `WipeItem` removes one of a
  batch, `WipeStops` is a failure at any point, after which it may be started
  again.
- `loose` is history: entries that a stopped deletion tore, that were written
  behind a deletion, or that a review wrote back; `escaped` are those of the last
  two kinds. `PairsAgree` excepts all of them. `Erased` excepts the escaped ones,
  and of the torn ones only the other copy: the partition that a deletion lists
  is empty when it has ended, also when it is the repetition of one that stopped.
  `SnapshotReachable` excepts the objects of a submission that died before it was
  recorded.

### FolderTree

- `state`, `parent` are the folder items, `place` the folder a project names. A
  ghost is an item an update created again: it has a parent but no `FolderId`,
  so `Subfolders` returns it as `NoId`, and nothing finds it by its id.
- A move is `MoveCheck`, one `Climb` per turn of `_check_folder_cycle`, the
  repository's own read `Find`, and `MovePut`, an unconditional update. A course
  skips the walk, as `update_course` does.
- `delete_folder` moves what is inside to the root, piece by piece: `EmptyStart`,
  `EmptyProject`, `EmptyList`, `LiftFind`, `LiftPut`, `RemoveFolder`.
- `delete_course` and `copy_course_to_user` are recursions, modelled as stacks of
  frames: `PurgeDescend`/`PurgeReturn` and `CopyDescend`/`CopyReturn`, each frame
  with what its own call still has to do. `Dies` is an error, a timeout or
  Python's recursion limit; `MaxDepth` bounds the stack.
- `raced` is history: a move was written after another move had changed the tree
  during its walk. `loose` is what was put into a folder that is gone or going.

### ProjectStore

- `item[p]`, `sim[p]` and `listed[p]` are the project item: whether it exists,
  its results (which save, and `result_keys`), its `image_keys`. `object[p][x]`
  is S3: by which save an object was written.
- `job[h]` is a request: what it read (`ver`, `keys`, `seen`), what it still has
  to do (`todo`) and whether anything has disturbed it (`clean`). A save is
  `Save` (or `CreateWith`), one `StoreResult` per type, `Find` (the repository
  reads once more) and `Write`; opening is `OpenRead`, `Stamp`, `Load`,
  `Opened`; a deletion `WipeResults`, `WipeDocs`, `DeleteItem`, where S3's errors
  are logged and passed over; documentation `DocRead`, `DocObject`, `Find`,
  `DocWrite`, and the browser's own `PutImage` to the URL it got, however late;
  a duplicate `CopyStart`, `CopyBlobs`, `CopyObject`, `CopyKeys` (or
  `CopyFails`), `CopyText`, `CopyImage`, `CopyList`; a reset `Write` and
  `ResetText`. `Dies` may end each.
- `torn`, `crossed` and `loose` are history: projects whose results, or list of
  images, requests overlapped on or left half done, and objects stored behind a
  deletion. Everything the properties except is named by one of them, and each
  is taken back by the step that mends it: a save that nobody disturbed makes a
  project whole again. So a save that dies between the objects and the item
  (`main.py:337`) tears its project for `OneSave` and for `OpenedWhole`, also if
  it is opened long after, until such a save follows; and a copy is `crossed`
  until it has ended undisturbed, so that one that dies before its list is
  written, or whose original was torn or changed meanwhile, stays so.

### SolverSlice

- A design is a version number; `geom` is the point of a study whose meshes it
  carries, 0 at the user's own variables. `results` names the run, version and
  point it was computed for, and so does each field.
- `EditListed` and `EditUnlisted` are the edits that set the stale flag (the list
  of `extraReducers`) and those that do not; `Navigate` puts a study's meshes in.
- A solve is `StartSolve` with `Pending`, then `SolveOk` or `SolveFails`; a study
  is `StartStudy`, a `StudyPoint` each, `StudyNominal` with `StudyOk`, or
  `StudyFails`. `StudySkips` is a study that does without its nominal solve,
  since the user's own variables give no frequency or no element is left
  (`parameterStudyThunks.ts:236`): it is fulfilled over the results of an earlier
  solve, which lose their stale flag (`solverSlice.ts:1992`).
- A postprocessing workflow is `StartPost`, a `ComputeField` for each field that
  is missing, `PostOk` or `PostFails`. `CancelPost` changes only the status: the
  workflow runs on, and is a `stray` from then; so is one of a study that has
  skipped its nominal solve, whose fields are of another run than the results.
- `Reload` is a page load: thunks die, what was saved comes back.
- `raced` is history: the design changed during the solve, or a reload or
  `StudySkips` unflagged results of an older design.

### AutoSave

- A design is the project it belongs to and the changes made to it. `slice` is
  the one the store holds and the page shows, `current` the store's
  `currentProject`, `server` what is stored.
- `Open` is the first rendering: it fetches the project and fills the slice from
  whatever project the store still holds. `Fetched` replaces it only if the id
  differs, `Settle` is the 500 ms timer after which changes are saved, `Switch`
  is a jump in the browser's history that keeps the page.
- `pending[g]`, `retries` and `flying` are the debounced call of page `g`, the
  calls waiting to be retried and the requests under way. `Change` schedules,
  `Fire` sends, `Store` is the server, `Saved` and `Fail` the answer, `Retry`
  goes through the same debounced function with the old arguments.
- `cancels` is whether the effect on the number of elements has left a cleanup.
  It returns without one while the page is loading (`DesignPage.tsx:380`), so
  only a change of that number later, which `Counted` and `Change` choose, makes
  `Leave` cancel the waiting call; otherwise the page saves after it was left.
- `Hangs` is a save answered 401 when there is no refresh token any more: the
  client returns a promise that never settles (`client.ts:239`).
- `slips` is history: for each project what went wrong, `lapse`, `overlap`
  (which includes a save given up or never answered), `stale` or `foreign`, set
  at the line where it happens.

## Runs

`tlc -config <run>.cfg <module>`; all listed runs take well under five minutes
with two workers.

| Run | Question | Properties | Bounds |
|---|---|---|---|
| `SolveJobs` | Do retries keep a job's life cycle and money in order, and does every job end? | `TypeOK`, `NoOverlap`, `RefundedOnce`, `DeliveredWasPaid`, `TerminalIsFinal`, `KeepsPromise`, `JobSettles`, `FailedCostsNothing` | 2 jobs (solve, fields) of 1 user with 5 or 8 tokens, 2 workers, 2 receipts, 1 crash, aborts, `FairSpec` |
| `SolveJobsFaults` | What may be relied on under every fault? | `DoneHasResult`, `NothingLost` | 1 job, all faults, 3 receipts, 1 crash |
| `AccountsRace` | Does an e-mail stay with one account? | `TypeOK`, `ClaimBacked`, `UniqueEmail` | 3 founders, 2 registrations of one e-mail typed twice, its owner's deletion, the retention run, both faults, no edits |
| `AccountsFree` | Does a deletion end and free its e-mail? | `DeletionFrees` | 2 founders, 2 registrations, 1 deletion, 1 edit, failing scans, `FairSpec` |
| `ApiSessionTabs` | Is every call answered? | `LeaderInv`, `RequestsSettle` | 2 tabs, 2 calls, 2 tokens, `FairSpec` |
| `ApiSessionRetry` | How often is a call re-sent? | `TypeOK`, `RetryBounded` | 1 tab, 3 calls, 1 of them to an auth endpoint, 3 tokens |
| `SolverSlice` | Is what looks fresh current? | `TypeOK`, `FreshMeansCurrent`, `FieldsOfTheSolution`, `MeshOfTheSolution` | 1 field region, 2 workflows, a study of 2 points, 1 edit of the design and 1 of the region, 2 runs |
| `CourseWork` | Do submissions survive, and die, as a whole? | `TypeOK`, `PairsAgree`, `Erased`, `SnapshotReachable`, `FrozenStays` | 1 student, 1 course, 1 submission, 2 versions of the project, account and course deleted, one deletion stops half way |
| `FolderTree` | Does it stay a tree, and does a deletion empty what it removes? | `TypeOK`, `CycleTakesARace`, `NothingStranded` | 3 folders, or (`FewThings`) 2 folders, 2 projects and 1 course; 2 requests at once, recursion to depth 2 |
| `FolderTreeSpares` | Does a course's deletion spare what is the students' own? | `OwnProjectsStay` violated | 2 courses, 1 project outside, 2 requests |
| `ProjectStore` | Do item and objects belong together? | `TypeOK`, `OneSave`, `OpenedWhole`, `NothingLeft`, `ImagesListed` | 2 projects, 2 types of results, 1 image, 2 requests at a time, 4 in all |
| `AutoSave` | Is the last change stored, under the right project? | `TypeOK`, `OwnUnlessForeign`, `NothingForgotten`, `KeptChanges`, `SavesEnd` | 2 projects, 3 pages, 2 changes, 2 requests at a time, 1 retry, one slip (`FewSlips`), the first page's project fixed (`FirstOpened`), `FairSpec` |

The larger ones visit between one and six million distinct states.

**Why the bounds are enough.** Two jobs and 5 or 8 tokens: the balance pays for
one or for both, so that a check on a stale copy and a charge that is refused
both happen. Two receipts is the queue's own `maxReceiveCount`
(`async_jobs.tf:37`); two workers are needed for an overlap and a third could
only do what one of the two does. Two registrations against one deletion are the
smallest race in which a claim can be released under a third party's feet; `s1`
types the e-mail in capitals, since scan and claim compare it differently. Two
calls make one leader and one waiter, three a second round in which a waiter
leads; two tokens let the token that a refresh brought expire again. Two
workflows let one that was stopped write after the next has started; one edit of
each kind falls into every gap of a solve. One submission is enough because
submissions share no item; the two deletions that cover it are those of its
student and of its course. Three folders are the smallest tree in which a cycle
takes two moves and one of them climbs past a third folder; they need neither
course nor project for it, so that the run has both only next to two; its one course has no
subcourse, for which `FolderTreeSpares` has two. Depth 2 lets a course
contain itself. Two projects let one be the copy, or the source, of the other,
two types let half of a save be done, four requests let a third one come after
two that overlapped. Two pages of one project overlap, and the third is that of
another. Each property is also run against a deliberately broken definition (the
operators marked as mutants in the modules, listed in `PROJECT.json`) and is
violated there: the bounds reach the case each property is about.

**Symmetry.** Workers, workflows, folders, projects and types of results are
interchangeable where the run says `SYMMETRY`, and the handlers of
`ProjectStore`, which all do the same; those of `FolderTree` are not (only some
delete), nor are requests to the job system (they differ in cost). The runs with
liveness properties use none.

**Deadlock** is checked for the session and the solver workflow, which never
stop (a page can be loaded at any time). The others are finite: when all
requests, changes or deletions a run allows are over nothing is left to do, so
their runs do not check it.

### Fairness

- `SolveJobs!FairSpec`: a handler runs on unless it is aborted, Lambda's event
  source mapping keeps receiving, a worker runs on unless it crashes. All three
  are what AWS promises of a process within its timeout. Nothing makes a user
  call or poll, a message duplicate, or a cache entry expire. `JobSettles` needs
  fewer crashes than receipts, which is what the dead-letter queue is for: with
  `MaxCrashes = MaxReceive` the job stays `running`.
- `Accounts!FairSpec`: a registration or a deletion that has begun is carried
  on. Nobody has to begin one.
- `ApiSession!FairSpec`: services answer or the call times out (axios has a
  timeout), Cognito answers or fails, and the event loop runs the handlers.
  Users, page loads and the expiry of tokens are not fair. A refresh may fail
  again and again: fairness is of the whole refresh, not of its success.

- `AutoSave!FairSpec`: timers run out and a request ends, with an answer or with
  the client's timeout of five minutes, or without one, when the client leaves a
  refused request pending (`Hangs`, `FetchFails`): what is assumed is only that one of the
  three comes. Users need do nothing; `SavesEnd` says that once the user stays on
  one page every save, with its retries, is over. A save that hangs is over in the
  sense that nothing will come of it; its page is not told and shows "saving".
- `SolverSlice!FairSpec` and `CourseWork!FairSpec` (further configurations):
  every call to a service ends; the retention run is scheduled every day and
  goes on until it ends or fails.

What the liveness runs show: every queued job is done or failed, and a failed
one costs nothing unless a worker died; a begun deletion ends with the profile
gone and the claim released, whatever else is registered or edited; no call is
left in `failedQueue`; a design that cannot be saved is not tried for ever.

## Findings

One listed run shows a disagreement between the code and what the repository
says of it; `PROJECT.json` quotes it with its lines.

**Deleting a course may delete other people's projects** (`FolderTreeSpares`).
`update_folder` writes without a condition, so an update of a subcourse that a
deletion has removed a moment before leaves an item that has a parent and no
`FolderId`. Deleting the parent course then descends into the subcourse with the
id `""`, and `list_all_projects_in_folder("")` finds the projects of all users
that are in no folder, which are deleted. The docstring of the deletion says
that students' own copies "are theirs and stay".

The others we met are kept as further configurations.

## Further configurations

These cfg files are kept beside the listed runs to be used when the code around
them changes. Two of them hold: `SolverSliceSettles` (`Settles`: no solve, study
or postprocessing keeps the workspace busy for ever) and `CourseWorkExpires`
(`ExpiredLeaves`: an old submission leaves its course although a retention run
may fail). All others state what a comment, a doc or a test says, and TLC
refutes it as described; each is the place to start a fix. A file that names
several properties is run with one of them at a time.

| Configuration | Module | Property | What happens |
|---|---|---|---|
| `SolveJobsCrashedRefund` | `MCSolveJobs` | `FailedRefunded` | `run_job` sets `failed` and then refunds; the retry after a crash in between returns early, because the job has failed. |
| `SolveJobsMinted` | `MCSolveJobs` | `RefundWasCharged` | The record says `TokensCharged` before the charge; if a concurrent request has spent the balance, the charge is refused, the job stays queued, and if it fails it is refunded. |
| `SolveJobsDuplicate` | `MCSolveJobs` | `RefundedOnce` | Two overlapping deliveries of one message both run the job and both refund it: the status is read and set in two requests without a condition (`jobs.py:200-203`). |
| | | `TerminalIsFinal` | The second of those deliveries sets a job that is done back to running; `test_duplicate_delivery_does_not_rerun` holds only when the first has finished. |
| `SolveJobsErased` | `MCSolveJobs` | `RecordsExpire` | A worker that updates the status after the account was deleted creates a record without TTL. |
| | | `ErasedWithAccount` | The same, and a submission whose `put_item` follows the deletion's listing: records of a user that is gone. |
| `AccountsTwice` | `MCAccounts` | `UniqueEmail` | `delete_user_data` deletes the claim by its e-mail, not by its owner: if an account is deleted by two requests at once, the slower one releases the claim of whoever registered the e-mail meanwhile, and a third registration takes it again. |
| `AccountsOrphan` | `MCAccounts` | `ClaimReleased` | A process that dies between claim and profile leaves a claim nobody owns; the e-mail can never register again. |
| `AccountsBootstrap` | `MCAccounts` | `BootstrapOnce` | Two registrations on an empty table both count no users, and both become admins. |
| `AccountsGhost` | `MCAccounts` | `ErasedForGood` | An admin's update of a profile that was deleted after it was read creates it again, with nothing but the changed attribute. |
| `AccountsLastAdmin` | `MCAccounts` | `AdminRemains` | Two admins who demote each other at the same time leave none. |
| `AccountsRetention` | `MCAccounts` | `KeptStay` | The retention run deletes a maintainer who was a user when the page was read. |
| | | `ActiveStay` | The retention run deletes a user who came back after the page was read. |
| `ApiSessionUsers` | `MCApiSession` | `OwnDataOnly` | The store is reset at logout, but the answer of a call under way at that moment still fills it: the next user sees it. |
| | | `SessionOfOneUser` | A refresh of the previous user that ends after the next login leaves the access token of one user with the refresh token of the other. |
| | | `NothingKept` | A refresh under way during a logout stores its tokens afterwards. |
| `ApiSessionHung` | `MCApiSession` | `HungLeaves` | After a logout in another tab a 401 leaves its call pending on a page that stays: the missing refresh token is noticed before the `try` that would clear the session and leave. |
| `SolverSliceClaims` | `MCSolverSlice` | `UnflaggedIsCurrent` | A generated element, a circuit or the ground plane changes the problem and sets no stale flag. |
| | | `SolvedIsCurrent` | The design is edited while it is being solved: the answer is marked fresh. The same after a reload, and after a study that skipped its nominal solve. |
| | | `SolvesNominal` | A solve after the slider of a study was moved solves that point's geometry. |
| | | `FieldsAsDefined` | A field region is edited while it is being computed: the answer is marked computed. |
| | | `FieldsRecomputed` | A postprocessing that was stopped runs on and stores fields of a solution that has been replaced; one of a study that skipped its nominal solve stores fields of the study beside older results. |
| `CourseWorkExpired` | `MCCourseWork` | `ExpiredIsGone` | A review that had read a submission writes it again after the retention run has deleted it. |
| | | `FrozenIsOneState` | The project is saved between the reading of its design and the copying of its results. |
| `CourseWorkEscaped` | `MCCourseWork` | `NoHalfPair` | A batch deletion that stops leaves one of the two items, although they are written "both or neither". |
| | | `AllDeleted` | An enrolment or a submission written after the deletion's listing outlives the account. |
| `FolderTreeCycles` | `MCFolderTree` | `Acyclic` | Two moves check before either writes, and close a cycle that no listing shows. |
| | | `CoursesAcyclic` | A course is moved into itself: only personal folders are checked. |
| `ProjectStoreGhost` | `MCProjectStore` | `NoGhost` | An update after a deletion creates an item without an owner. |
| | | `EveryImageListed` | An upload and a save of the text read the same list of images, and the second to write drops the new image. |
| `AutoSaveForeign` | `MCAutoSave` | `OwnDesign` | The restoring effect runs on the first rendering with the project the store still holds, and its timer ends the loading after 500 ms whether or not the page's own project has arrived; a change then saves the other project's design under this one's id. |

## Proofs

All proofs are checked by `tlapm` with Z3, Zenon and LS4; no step is left out.
The assumptions are those the modules state of their constants
(`StartAssumption`, `JobsAssumption`, `AccountsAssumption`,
`SessionAssumption`, `CourseAssumption`, `FolderAssumption`, `StoreAssumption`,
`SolverAssumption`, `SaveAssumption`): types of the parameters, that special
values are none of the ordinary ones, and that founders do not share an e-mail.
TLC evaluates them in every run. No constant is bounded: the theorems hold for
any number of users, requests, workers, receipts, crashes, tabs, tokens,
courses, folders, projects, pages and fields.

Some properties hold only of what nobody disturbed. The models then keep a
history variable, or a flag in the request, that says so (`clean`, `raced`,
`loose`, `stray`, `slips`, `torn`): the property is as strong as the flag is
rarely set, so the flag is set by the one interleaving that does the harm, and
the configurations that drop it show that it does.

Where TLC refutes a claim of the repository, there is in most cases a theorem with
the claim under a hypothesis that the code does not enforce: an `[][A]_vars` about when
something may happen, conjoined to `Spec`, or a set of faults that do not occur. Such a
pair settles what the claim rests on: the configuration shows that the hypothesis cannot
be dropped, the theorem that nothing else is needed. Each hypothesis is
a rule that users or maintainers could keep, or a fix could enforce. It says when
something may happen; only `NeverStopped` rules an operation out, a stop button that
stops nothing, `NominalRuns` a study without its last solve, and `RegistersWhole`,
`DeletesWhole`, `StopsWhole` and `DiesEmpty` a death at one point.

### SolveJobs_proofs

| Theorem | Under | Says |
|---|---|---|
| `TypeCorrect` | every fault | `[]TypeOK`; among other things, no balance becomes negative |
| `DoneHasResultCorrect`, `PayloadPrecedesMessageCorrect` | every fault | payload before record before message; result before status |
| `NothingLostCorrect` | every fault | a queued job is settled, in the queue, with a worker, a dead letter or gone with its account |
| `GhostRecordsCorrect` | every fault | a record without TTL is of a user who is being deleted, and has no fee |
| `RecordsExpireCorrect` | no erasure | every record has a TTL |
| `NoOverlapCorrect`, `RefundedOnceCorrect` | no duplicates | one worker per job, one refund per job |
| `DeliveredWasPaidCorrect` | no duplicates, no late charge | what is delivered was charged and not refunded, unless by flatrate |
| `RefundBackedCorrect` | no duplicates, no late charge | tokens never taken go back only to a request refused, or dead, behind its message |
| `RefundOnlyFailedCorrect`, `TerminalIsFinalCorrect` | no duplicates, no erasure | only a failed job is refunded; a settled job keeps its status (an action property) |
| `DeadAfterCrashesCorrect` | no duplicates, no erasure | a dead letter takes `MaxReceive` crashes |
| `KeepsPromiseCorrect` | no duplicates, no erasure | `SolveJobs` implements `JobPromise` |
| `FailedGivenBackCorrect` | none of the three | unless a worker died, a failed job has its charge back, or a worker is about to return it |
| `RefundWasChargedCorrect` | no duplicates, no late charge, `SentIsCharged` | no more is given back than was taken |
| `ErasedWithAccountCorrect` | every fault, `RecordsInTime` | a deletion that is through leaves no job record |
| `TokensAccountedCorrect` | every fault | a step changes a balance by what one request is charged and given back in it (an action property) |

Faults are members of the constant `Faults`, so each hypothesis says which of
`"duplicate"` (SQS delivers twice), `"erase"` (the account is deleted meanwhile) and
`"late"` (the charge is refused after the message was sent) are absent. Aborts, and
crashes in any number, are in every theorem. `SolveJobsDuplicate`, `SolveJobsErased` and
`SolveJobsMinted` refute what loses its hypothesis.

None of these properties is inductive. That a job is refunded once follows
from the early return in `ReadJob` only if no other worker is past it, which
holds because there is a single copy of the message, which holds because a
message is visible again only when its worker is gone. `LifecycleInv` says it in
that order:

- `CopyInv`: at most one copy of a message, in the queue *or* with one worker,
  and none before the handler has sent it;
- `StageInv`: the record's status is the one the handler's or the worker's
  position implies, or the record is `Gone` with its account;
- `RefundInv`: a refund is at most the price, and while one was made no worker
  is under way that may make another.

Beside it stand `RecordInv` (under every fault: a record that is written back by a worker
after its deletion has neither TTL nor fee, so that its job is never refunded again),
`LedgerInv` and `PaidInv` (who is charged, and what), `DeliveredInv` (what is delivered
is done, or gone, and nobody reruns it), `ReceiveInv` (every receipt but the last ended in
a crash), `GiveBackInv` (whoever sets the status to failed gives the fee back) and
`StoreInv` (objects before what refers to them). Each part has a lemma for its step
(`CopyStep`, `StageStep`, `RefundStep`, `RecordStep`, ...). They rest on three table
lemmas, `WorkerTable`, `CrashTable` and `ReceiveTable`, that say once what the steps of a
worker do to every variable.

`TokensAccounted` is that no token is made or lost: as long as a profile exists, each
step is silent for its balance and its requests (`Calm`), or moves the tokens of one
request (`Moved`). As `charged` only tells that a request was charged, not how
often, it needs `LedgerInv`: what is charged has not been charged before. No listed run
checks it; TLC finds no error in the configuration `SolveJobsFaults` with
`PROPERTY TokensAccounted`.

The two claims about faults that are refuted, by `SolveJobsMinted` and `SolveJobsErased`,
hold under hypotheses on the order of steps. `SentIsCharged`: a request that has sent its
message is charged, that is its charge is not refused and its handler does not die before;
then nobody who ended otherwise has anything in the queue (`EndedInv`), and what is given
back was taken. `RecordsInTime`: no submission stores its record after the listing of its
account's deletion, and no worker updates a record that is gone; then a deletion's list is
all there will ever be (`ListedInv`).

`NothingLostCorrect` with `DeadAfterCrashesCorrect` is the safety half of `JobSettles`,
`FailedGivenBackCorrect` that of `FailedCostsNothing`: what fairness has to add is only
that the worker goes on.

The refinement maps the job's phase to `status`, "paid" to the requests with
`charged > 0` and "returned" to those with `refunded > 0`. A retry that starts a
running job again is the abstract `Start` from `running`.

### Accounts_proofs

| Theorem | Under | Says |
|---|---|---|
| `TypeCorrect` | every fault | `[]TypeOK`; a profile is never whole and partial at once |
| `ClaimInvariant` | `Alone` | the inductive invariant below |
| `ClaimsHeld` | `Alone` | the claim of an account's e-mail names the account |
| `EmailsUnique` | `Alone` | no two accounts share an e-mail |
| `ClaimsBacked` | `Alone` | a claim is held by an account, by a registration under way, by one whose process died, or by an account whose deletion or retention run, under way or stopped for good, has yet to delete it |

`Alone` is: no account is deleted by two requests, or by a request and the
retention run. Without it `AccountsTwice` is a counterexample. Failed scans,
failed writes and processes that die remain. `ClaimInv` is `ClaimHeld` with
`GrownInv` (whoever is cached, edited, listed or deleted has registered before,
so no registration will give that id a profile again), `EraseInv` (what a
deletion has yet to release it still holds, and what it has removed is not put
back) and `RegisterInv` (a registration past its conditional put holds the
claim). `EmailsUnique` follows from `ClaimHeld` alone, since a claim names one
user. `ClaimsBacked` needs more, `BackInv`: a claim names
a user with that very e-mail, and what a deletion has released is no longer its
user's, since the next registration may take it before the deletion has ended.

What the repository says of roles, inactivity and deletion holds under these hypotheses:

| Theorem | Hypothesis | Refuted without it by |
|---|---|---|
| `KeptFoundersCorrect` | none: an account whose kept role no edit takes away stays, under every fault | |
| `KeptStayCorrect` | `PromotesQuietly`: nobody gets a kept role while a process holds a copy of the profile from before | `AccountsRetention` |
| `ActiveStayCorrect` | `VisitsInTime`: nobody comes back between the retention run's page and its deletion | `AccountsRetention` |
| `ErasedForGoodCorrect` | `UpdatesInTime`: no update creates a profile again that a deletion has removed | `AccountsGhost` |
| `AdminRemainsCorrect` | `AdminFounder(f)`: there is an admin whose role no edit changes | `AccountsLastAdmin` |
| `BootstrapOnceCorrect` | scans do not fail; `FirstAlone`: no registration begins while one that found no users is under way | `AccountsBootstrap` |
| `NewcomersWaitCorrect` | scans do not fail; `KeptFounder(f)`: some account may not be deleted | `AccountsBootstrap` |
| `ClaimReleasedCorrect` | `RegistersWhole`: no registration dies between its claim and its profile; `DeletesWhole`: no deletion or retention run stops with the claim still to delete; and `Alone` | `AccountsOrphan` |

Only the last needs `Alone`: its `ClaimantInv` says that a registration that holds a claim has put its
profile, or is about to put it or to give the claim back, and `StoppedInv` that what a deletion
that stopped has left to delete is no claim. The common part of the others is a set of table lemmas (`SignupTable` to
`StepTable`) with what each action does to `full`, `partial`, `role` and the copies of a
profile that processes hold; the invariant of the first two rows is that a copy which
permits a deletion is of an account that may still be deleted.

### ApiSession_proofs

| Theorem | Says |
|---|---|
| `TypeCorrect` | `[]TypeOK` |
| `LeaderInvariant` | while a page refreshes, exactly one of its calls leads and `failedQueue` holds exactly the waiting ones; otherwise nobody leads or waits |
| `RetriesBounded` | a call goes out at most once more than calls of its tab have led a refresh |

`LeaderInv` is inductive with `TypeOK`. The bound is not: `SendsInv` adds that
during a refresh its leader is already counted, so that when the refresh ends
and everybody is re-sent, the count has grown before the sends do. The proof
rests on `LeaderInvariant` (somebody leads whenever there is somebody to
re-send) and on the library's facts about finite sets, for the set of calls that
have led, which only grows.

Of shared computers and several tabs the code keeps its word under these hypotheses:

| Theorem | Hypothesis | Refuted without it by |
|---|---|---|
| `SessionOfOneUserCorrect` | `LoginAfterRefreshes`: nobody logs in while a refresh of another user is at Cognito | `ApiSessionUsers` |
| `OwnDataOnlyCorrect` | `LoginToEmptyBrowser`: nobody logs in before the calls, refreshes and pages of the previous user are gone | `ApiSessionUsers` |
| `NothingKeptCorrect` | `EndsAfterRefreshes`: no session ends while a refresh is at Cognito | `ApiSessionUsers` |
| `HungLeavesCorrect` | `EndsAfterRefreshes` and `EndsInEveryPage`: a session ends with every page | `ApiSessionHung` |

`OneUserInv` says that a refresh at Cognito is of the user of the stored refresh token,
`PresentInv` that everything in the browser is of one user, `StoredInv` that without a refresh
token there is neither an access token nor a refresh under way, and `LeavingInv` that a
page without a session either leaves or has nothing to lose.

### CourseWork_proofs

| Theorem | Says |
|---|---|
| `TypeCorrect` | `[]TypeOK` |
| `CourseInvariant` | the inductive invariant below |
| `CopiesAgree` | the two copies of an enrolment or a submission exist together, or a deletion is about to remove the other, but for what a stopped deletion tore, was written behind one or was written back by a review |
| `NothingLeft` | a finished deletion, also a repeated one, has left nothing in the partition it lists and neither copy of what it covers, but for what was written behind one or back by a review, and the other copy of what a stopped deletion tore |
| `ObjectsReachable` | objects in S3 belong to an item or to a submission under way, but for those of a submission that died before it was recorded |
| `SubmissionsFrozen` | what is shown of a stored submission never changes; it only goes |

Several deletions may cover one submission, and each removes the two copies one
by one. That a half deleted one is finished is therefore a statement about the
lists that the deletions hold: `HalfInv` (the copy that is left is on somebody's
list) and `ListedInv` (a deletion that has listed has on its list all that it
covers, unless another one has it). `KeysInv` says what can be on a list, and
`ItemsInv` that submissions appear in the table, and are reviewed, only when their
creation is over. `SideInv` is apart from these: a deletion under way has on its own
list every copy in its partition that has not escaped, which needs no word about torn
entries, since a repeated deletion lists the partition anew.

What the documentation claims without the exceptions of these theorems holds under
these hypotheses:

| Theorem | Hypothesis | Refuted without, by |
|---|---|---|
| `ExpiredIsGoneCorrect` | `ReviewsInTime`: no review is written after a copy of its submission went | `CourseWorkExpired` |
| `FrozenIsOneStateCorrect` | `SavesWait`: the project is not saved between the reading of its design and the copying of its results | `CourseWorkExpired` |
| `NoHalfPairCorrect` | `ReviewsInTime`; `WritesInTime`: nothing is written behind the listing of a deletion that covers it; `StopsWhole`: no deletion stops between two copies | `CourseWorkEscaped` |
| `AllDeletedCorrect` | these three, and `DiesEmpty`: no submission dies with objects in S3 | `CourseWorkEscaped` |

`ExpiredInv` says that the list of the retention run has every copy that is left,
`FrozenInv` that the results in a snapshot are of the version of the design, and `TidyInv`
that nothing was written behind a deletion and that a submission of which one copy is
left, or that died, has no objects any more (they go before the items).

### FolderTree_proofs

| Theorem | Says |
|---|---|
| `TypeCorrect` | `[]TypeOK`, the stack of a recursive copy included |
| `CycleNeedsARace` | personal folders are a forest unless two moves overlapped |
| `DeletionsStrandNothing` | what is in a folder or course that is gone was put there behind the deletion |
| `AcyclicCorrect` | under `MovesApart`, personal folders are a forest |
| `CoursesAcyclicCorrect` | under `MovesOutside`, courses are a forest |
| `OwnProjectsStayCorrect` | under `UpdatesInTime`, the deletion of a course spares the students' own projects (an action property) |

A cycle is stated as a nonempty set of folders that contains the parent of each of
its members, which needs no recursion. The lemma behind the theorem, `Climbs`,
is about the walk of a move that no other move disturbed: if some set holds the
new parent and, with every folder but the moved one, its parent too, the walk is
still inside that set. At the root it is in none, so the write that follows closes
no cycle. Creations, deletions and copies only add leaves or lift folders to the
root (`Rooted`, `Heads`), whatever they interleave with. `AcyclicCorrect` follows: under
`MovesApart`, that no folder is moved while another move is between its check and its
write, nobody's check is ever outdated (`CleanInv`), so that personal folders form a tree
without exception. `FolderTreeCycles` shows that two moves suffice to break it.

`DeletionsStrandNothing` is about strays: what is in a folder and was not put
there behind its deletion. `StrayInv` says that the list of each deletion covers
the strays of its folder, that in a recursion each frame covers those of its
course, but for the subcourse the frame above it is at, and that a folder that
is gone has none. Any step may only shrink the strays of a folder that is gone or
being deleted (`AllShrink`), which is all that one request has to know of the
others. The lemmas about the stack (`StackGoesOn`, `StackDescends`,
`StackReturns`) are about any sequence of frames.

`CoursesAcyclicCorrect`: courses form a tree if `MovesOutside`, that is if no course, at
the moment its move is written, goes into itself or below itself. `update_course` does not check it,
as `FolderTreeCycles` shows; deletions, which lift subcourses or remove whole trees, and
copies, which build a tree from above, never close a cycle.

`OwnProjectsStayCorrect` is the comment the run `FolderTreeSpares` refutes: the recursive
deletion of a course never deletes a student's own project, if `UpdatesInTime`, that is
if every update of a folder finds the item that was read before it. Without that
`update_item` makes an item without an id, and a recursion into no id scans for the
projects of no folder. `SplitInv` says why it is enough: a folder or a project and the
place it is in, or a request is about to put it in, are of one world (`Alike`), so that
every frame of a recursive deletion is at a course and lists courses and their projects
(`CourseFrames`), and a copy fills personal folders only (`OwnFrames`). The two worlds
meet in the root alone, which `FolderAssumption` keeps apart from every id.

### ProjectStore_proofs

| Theorem | Says |
|---|---|
| `TypeCorrect` | `[]TypeOK` |
| `DeletionsComplete` | a deleted project leaves nothing in S3 but what was stored behind its deletion or what S3 refused to delete |
| `SavesWhole` | the objects that an item names exist and are of the save that wrote the item, unless a save, copy or deletion overlapped another or was cut short, and no undisturbed save followed |
| `OpensWhole` | a project that is opened while nobody saves, copies or deletes it is loaded with the results of one save, unless an earlier save, copy or deletion overlapped another or was cut short, and no undisturbed save followed |
| `ImagesFound` | an image in S3 is in the list from which images are copied and deleted, unless two requests overlapped on that list, or the project is a copy that was cut short before its list was written or whose original was torn or changed meanwhile |

`SavesWhole` needs `JobsInv` and `WholeInv`: an undisturbed save, copy or opening
is alone with the projects it reads and writes, and what it has stored so far is
of its own number; `BusyInv`: results change only under a busy handler, and a
project whose handler died is torn until a whole save repairs it.
`ImagesFound` needs `ListInv`: unless the project is crossed, whoever writes the
list from what it read is alone with it and has read what is stored; a copy that
nothing disturbs finds list and images of its new project empty, so what it puts
there is what it lists; and an upload that may still come is listed.

`NoGhostCorrect`: no write makes an item of its own if `DeletesApart`, that is if no item
is deleted between another handler's reading and its writing. `Holds` names the four
handlers that write what they read without a condition (the stamp of `get_project` is one);
`HeldInv` says that what they hold is there, and the theorem that there is no fifth.

### SolverSlice_proofs

| Theorem | Says |
|---|---|
| `TypeCorrect` | `[]TypeOK` |
| `SolverInvariant` | the inductive invariant below |
| `FreshResults` | results shown as solved and fresh are of the design as it is, unless it was edited during the solve, or older results lost their flag by a reload or by a study without its nominal solve |
| `FieldsFollow` | computed fields are of the stored solution, unless a stopped workflow wrote them, or one of a study without its nominal solve |
| `MeshesFlagged` | a field whose mesh is not that of its currents is flagged |

`JobInv` says that a solve under way is of the design as it is unless `raced`,
`PostsInv` that a postprocessing that is no stray is alone and that no solve
runs beside it, and `FieldsInv` that its source is the stored solution.

| Theorem | Hypothesis | Says |
|---|---|---|
| `UnflaggedCorrect` | `FlaggedEdits`: edits that `RESULTS_STALE_ACTIONS` forgets are made while nothing is solved | results not flagged as stale are of the design, with the exceptions of `FreshResults` |
| `SolvedIsCurrentCorrect` | `Undisturbed`: no edit during a solve, and no reload, nor a study without its nominal solve, with results of another design | what is shown as solved is of the design |
| `FieldsRecomputedCorrect` | `NeverStopped`: nobody presses the stop button of a postprocessing; `NominalRuns`: every study ends with its nominal solve | what is shown as computed is of the stored solution |
| `FieldsAsDefinedCorrect` | `NeverStopped`, and `EditsWait`: no region is edited while its field is computed | ... and of the region as it is defined |
| `SolvesNominalCorrect` | `SolvesAtNominal`: no solve, and no study over frequency, starts while the slider is at a point, and nothing is edited during a study | stored results are of the nominal geometry |

`SolverSliceClaims` refutes each without its hypothesis. The second and the third drop
the exceptions that `FreshMeansCurrent` and `FieldsOfTheSolution` have to make, which shows
that these exceptions are all there are.

### AutoSave_proofs

| Theorem | Says |
|---|---|
| `TypeCorrect` | `[]TypeOK` |
| `OwnDesigns` | what the server stores under a project is its own design, unless a page of it has shown another one |
| `NoChangeForgotten` | what a page that is left alone shows has reached the server, unless it was changed while loading, a retry replaced the save of a change, two saves overlapped, one was given up or left without an answer, or the page was filled with an older state or another project |
| `ChangesKept` | a change that has reached the server stays there, but for saves that overlapped (also that of a page that was left and that of the next), were given up or left without an answer, and such pages |

`OwnInv` follows a design along its whole way (the store, the timer, the retry,
the request, the server, the answer); `ShownInv` says that the page shows the
project of the store, and once it has stopped loading its own. The other two
follow from `SaveInv`: as long as nothing slipped for a project, at most one save
of it is on its way, the server has no change that this save lacks, and the save
none that the waiting one lacks (`Line`); the page has them all and has made them
(`Ahead`), and the last of them has all that the page has (`Caught`). `View` adds what the
cleanup needs: a page that loads has none that could cancel a call, and one that has stopped
loading shows its own project.

`OwnDesignCorrect` drops the exception of `OwnDesigns`: under `LoadsInTime`, that a
page stops loading only when the store shows its own project, gets no late answer for
another one and is not changed to another, no design is ever saved under another
project. `AutoSaveForeign` refutes it without.

### Only model-checked

- **Liveness** (of the first two the safety half is proved, see `SolveJobs_proofs`): `JobSettles`, `FailedCostsNothing`, `DeletionFrees`,
  `RequestsSettle` and `SavesEnd`, and of the further configurations `Settles` and
  `ExpiredLeaves`, are properties under fairness, out of the prover's reach, as is
  anything about ENABLED. `SavesEnd` is checked for behaviours with at most one
  slip, as its run stops at `FewSlips`; a save that hangs, or is given up, is such a slip,
  and so is one that a retry replaces or that overlaps another.

Every invariant and every action property of the passing runs has a theorem, and so has,
under a stated hypothesis, every claim that TLC refutes, but for `FailedRefunded`, which
is liveness.

The project uses no recursive operators.

## Abstractions

What the models leave open or merge, beyond what their constants bound.

- `SolverSlice`: whether the user's own variables give a positive frequency and
  leave an element to solve is a free choice (`StudyNominal`, `StudySkips`), and
  so is it of a point of a study, whose failure is `StudyFails`; the ground plane is read per call in
  the code, which is not told apart; the old frequency-sweep branch after a lost
  study counts as results; the solve mode `null` is "single"; a reload finds
  what the page had at that moment (when and what is saved is `AutoSave` and
  `ProjectStore`). Quantities at ports are left out.
- `CourseWork`: one object stands for all result types of a snapshot;
  `SaveProject` is one step (`ProjectStore` splits it); a batch deletion removes
  items one by one in any order; a user whose profile is gone does not start the
  deletion again. `Deletions` bounds how often somebody does. Items written again
  under the key of a user that is gone are not represented.
- `FolderTree`: the folders of one user, and courses; who may touch them is left
  out. The first reads of folder and parent are one step with the check. That a
  walk or a copy breaks off (50 levels, Python's recursion limit, a timeout) is
  `Dies` and `MaxDepth`. `Editors` and `Removers` bound the requests.
- `ProjectStore`: the types of results are stored and loaded in any order; a save
  is numbered by its request; text and images are there or not; a new image may
  get the id of one that is gone; the index on `FolderId` and `UserId` is taken
  as consistent. The source of a reset is any other project. The `documentation`
  field of a plain update and the response of an update are left out. The read
  and the write in `delete_item`, and in the last update of a copy, are one step.
- `AutoSave`: a design is the project it is of and the set of changes in it. The
  effects that watch separate parts of a design see one `Change`. Equal requests
  under way at once are one. Selecting, creating and deleting projects elsewhere
  in the app is left out, as is what it does to the current project. `Switch` is a
  jump in the browser's history that keeps the page mounted. Every failure is
  tried again, a 413 too: what a rejected thunk hands to the page has lost its
  status, and the default of `parseApiError` (`errors.ts:131-137`) is retryable,
  although the comment at `DesignPage.tsx:341` excludes it. `MaxRetries` is 1 in
  the run and 3 in the code.

## Not modelled

- **Numerics** (preprocessor, PEEC solver, postprocessor, FEM, mesher): pure
  functions in floating point.
- **Expiry**: DynamoDB's TTL and the S3 lifecycle remove job records and
  objects after seven days. A job that takes longer than that does not occur.
- **Pagination**: `get_user_by_email` and `get_user_count` read one page of the
  table. That a scan misses a user is modelled as the fault `"scan"`; at which
  size it happens is not.
- **Passwords, tokens' signatures, bcrypt, hashes of request bodies**: no state.
- **Cognito's side of an account**: the services create a missing profile on the
  first request of a Cognito user, so a deleted account may come back by a token
  that is still valid. `Accounts` models local authentication, where the profile
  is created by registration only.
- **Other store slices** (design, projects' list, courses, notifications, view):
  caches of answers and sequential editing. `runFrequencySweep` and
  `computeRadiationPattern` of the solver slice are not dispatched by any
  component.
- **Infrastructure, user interface, course data, tools**: configuration,
  presentation and data. Most of the repository's lines are of this kind or
  numerics, so the share of lines that the models map is small; within the files
  that hold the protocols it is most of the code that changes shared state.

## Plan

What is left, most valuable first.

1. `AutoSave` over `ProjectStore`: the saves of one tab interleaved with those of
   another and with the results' saves, which today meet only as "a request is
   answered or fails".
2. `JobStudy`: a parameter study polling the jobs of `SolveJobs`, once the page's
   side and the queue's are each settled; a study that is given up leaves jobs that
   are charged.
3. Expiry of job records, as one more actor of `SolveJobs`; the poll then meets a
   record that is gone.
4. For `SolveJobs`, the sum over all steps of what `TokensAccounted` says of one: the
   balance is what it was at the start less the charges plus the refunds. The sum of a
   function over a set is a fold, about which no induction can be proved here, so it
   would be one for TLC.

As lines in the code are fixed or documented, the configurations that refute a
claim about them become passing runs.
