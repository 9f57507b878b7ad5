# A TLA+ model of hexidian

hexidian is an event broker: it fetches events from Guru3 (where users register
their extensions) and turns them into rows of the Asterisk database and into
users of the Mitel Open Mobility Manager (OMM).  This directory holds TLA+
modules of its parts, TLC configurations that check them on small instances,
and proofs that TLAPS checks for every size.

Paths below are relative to the repository, whose Python sources are in `src/`
(`EventHandler.py`, `Guru3Mgr.py`, `OMMMgr.py`, `AsteriskMgr.py`,
`RegistrationMgr.py`, `python_mitel/`).

## Inventory

hexidian is one process.  `EventHandler.run_tasks` starts five asyncio tasks on
one thread; `OMMClient` adds two threads (worker, dispatcher).

| Component | State | Operations | Correct when |
|---|---|---|---|
| Guru3 event intake (`Guru3Mgr.py`) | websocket, `event_queue`, `event_queue_ids` | first fetch, websocket loop, `request_events`, `mark_event_complete` | every event is queued once per process, oldest first, after the OMM login |
| Event distribution (`EventHandler.py` 69-109) | the event in hand | take, ignore, handle, report | an event is reported only after its handler ran; effects keep Guru3's order |
| Handlers (`EventHandler.py` 133-251, 283-296) | none of their own | update (SIP, DECT, GROUP, other), delete, rename, unsubscribe, update callgroup | after an event the stores hold what Guru3 asked for, also when the handler ran twice |
| Asterisk access (`AsteriskMgr.py`) | `ps_aors`, `ps_auths`, `ps_endpoints`, `callgroups`, `callgroup_members` | one transaction per method | no insert meets an existing key |
| OMM users (`OMMMgr.py`, `OMMClient.py`, `types/PPUser.py`) | the OMM's users, `OMMMgr.users`, `PPUser.changes` | read, create, update, move, delete | cache and OMM agree; an update touches one user only |
| Unbound handsets (`EventHandler.py` 111-131, 253-274, `RegistrationMgr.py`) | temporary users in OMM and Asterisk, the binding of handsets | collect, register by POST, transfer, unsubscribe | a handset goes only to the extension it called, gets a user with which it can call, and leaves no temporary user behind |
| OMM transport (`OMMClient.py` 73-108, 717-759) | send and receive queues, `_events`, sequence | request, response, dispatch | each caller gets the answer to its own request, and gets it |
| OMM paging (`OMMClient.py` 298-397) | position in the list | `get_users`, `get_devices`, `find_user`, `find_device` | each record that stays is seen exactly once |
| Start and shutdown (`run_tasks`, `start_communication`, `handle_sigterm`, `OMMClient.logout`) | tasks, `request_lock`, the session, the database connection | start, login failure, cancel | a failed login or a signal ends the process, and nothing is used after it is closed |
| Message codec (`messagehelper.py`) | none | `construct_message`, `parse_message` | nothing is lost or mixed up, and callers can tell one record from many |
| Identity and password helpers (`utils.py`, `python_mitel/utils.py`) | none | encrypt, create a password, normalise a name | not modelled |
| Other OMM queries, configuration, logging | none | one request each; files | not modelled |

How they interact: Guru3 notifies over a websocket and answers REST calls;
`request_events` puts events into an `asyncio.Queue` that
`distribute_guru3_messages` empties; handlers call `AsteriskManager` (SQL, one
commit per call) and `OMMMgr` (one XML request per call, through the client's
queues and threads) and consult the cache `OMMMgr.users`; the registration web
server calls back into `EventHandler.try_device_registration`;
`request_lock` keeps Guru3 events out until the OMM login and `read_users` are
done.

What is hard here:

* The tasks share one thread, so a handler is not interrupted, but the process
  can end between any two external calls, and nothing is stored locally: the
  next process relies on Guru3's list, the OMM's users and the database alone.
* Events are delivered at least once.  Handlers must be repeatable from any
  point at which they were cut off.
* Fetches overlap with handling; reports can be lost in both directions.
* The cache and the class attribute `PPUser.changes` carry state from one event
  to the next.
* An exception in any task ends the process, so an event that always raises
  stops everything behind it.
* The OMM client has three threads and waits without a timeout, and the thread that
  waits is the one of the asyncio loop: an answer that does not come stops everything.
* Handsets come and go at the OMM, and Asterisk posts, while the collector works
  through a list it read before.

`PROJECT.json` lists each of these at its line under "hazards".

## Modules

| Module | Models | Kind |
|---|---|---|
| `EventDelivery` | what hexidian promises Guru3: first effects in order, forgotten only after their effect | abstract specification |
| `Guru3Events` | `Guru3Mgr.py` and `distribute_guru3_messages`, task by task | component |
| `Guru3EventsProofs` | inductive invariant and theorems about `Guru3Events` | proofs |
| `Provisioning` | the handlers with `AsteriskMgr.py`, `OMMMgr.py`, `PPUser.changes` | component |
| `ProvisioningProofs` | inductive invariant and theorems about `Provisioning` | proofs |
| `HandsetLife` | what becomes of a handset | abstract specification |
| `HandsetBinding` | collector, registration and UNSUBSCRIBE_DEVICE with the OMM, Asterisk and the handsets | composition |
| `HandsetBindingProofs` | inductive invariants and theorems about `HandsetBinding` | proofs |
| `RemoteCalls` | a request to the OMM is a remote call | abstract specification |
| `OMMTransport` | the threads, queues and the waiter table of `OMMClient.py` | component |
| `OMMTransportProofs` | inductive invariants and theorems about `OMMTransport` | proofs |
| `OMMPaging` | the generators `get_users`, `get_devices` and the searches on them | component |
| `OMMPagingProofs` | inductive invariants and theorems about `OMMPaging` | proofs |
| `Lifecycle` | the tasks of `run_tasks` from start to end, with the session and the database connection | composition |
| `LifecycleProofs` | inductive invariant and theorems about `Lifecycle` | proofs |
| `Messages` | `construct_message` and `parse_message` | component |
| `MessagesProofs` | inductive invariant and theorems about `Messages` | proofs |
| `MC...` | the sets and symmetries the configurations name | model checking |

How they fit together: `Guru3Events` takes the handler of an event as one step that
returns or raises; `Provisioning` is that handler for one event after the other;
`HandsetBinding` is the rest of what happens to the stores, with an extension's
creation and deletion as one step; both take a request to the OMM as one step that is
answered, which is what `RemoteCalls` promises and `OMMTransport` implements, and a
listing as one step, which `OMMPaging` justifies for records that stay; `Lifecycle`
puts all tasks next to each other and looks only at when they run and what they use.

### Guru3Events

Guru3's list is `backlog`, a set of the numbers in which events were created.
`queue`, `ids`, `batch` and `socket` are `event_queue`, `event_queue_ids`, the
rest of a REST answer, and the unread websocket messages.  `running` is the
task that holds the thread.  It changes only where the code really suspends:
`requests.get` and `requests.post` block, `Queue.put` on an unbounded queue
returns at once, `Queue.get` suspends only on an empty queue.  So a fetch and its
loop exclude the handling of an event, while Guru3 may create events and the
process may be killed at every step.

| Action | Code |
|---|---|
| `OmmLogin` | `OMMMgr.start_communication` up to `request_lock.release()` |
| `FirstFetch`, `Connect`, `Receive`, `FetchDone` | `Guru3Mgr.run` |
| `SkipKnown`, `Enqueue` (both through `LookAt`) | the loop of `request_events` |
| `Take`, `Handle`, `HandlerRaises` | the loop of `distribute_guru3_messages` |
| `Report`, `ReportLost`, `ReportThenCrash` | `mark_event_complete` answered with 200, with another status, not at all |
| `Create`, `Crash`, `Restart` | Guru3, a kill or lost connection, the supervisor |

`Handle` abstracts the handler to one step; `applied` and `handledHere` are
history variables (handled ever, handled by this process).  An event of one of
`ignored_msgtypes` is handled by being passed over.  `Poison` is the set of
events whose handler raises, which includes unknown types.

### Provisioning

Asterisk is `accounts` (the three `ps_` tables change in one transaction and
are one function from number to password), `callgroups` and `members`; the OMM
is `omm`, from uid to number (`num` and `sipAuthId` are always written
together), `info` (name and token) and password; the cache is `users`, from
number to uid.  A handler is a sequence of statements, `plan`, computed when the
event is taken.  The only branch that decides between different statements
depends on the cache, which the statements of the other branch do not change
before their end.  Each statement is one transaction or one OMM request.
`Crash` may fall between any two of them and the event is then handled again
from the start by a process that read the OMM's users anew.

`do_update_callgroup` is one pass, as in the code: `FetchMembers` reads the rows of the
callgroup into `current` and takes `active` and `current` together for the set `todo`;
`SyncMember` takes any extension out of it, with one transaction for a row to add or to
remove; `MembersSynced` ends the pass when `todo` is empty, without another look at the
rows.

`served` is what Guru3 asked for by the events completed so far.  Guru3 hands
over one event after the other: the queue is in order and no handler looks at
a later event, so longer backlogs add nothing to these stores.  Events are those
Guru3 can create: a rename goes from an existing number to a free one, callgroup
members are existing extensions.

`PPUser.changes` is modelled as it is: one record for all users, filled by every
attribute that is set and emptied only with the process.  `SetPPUser` sends all
of it.  `spilled` records whether a request ever carried a value that was set on
another user and differs from the user's own; the properties about the stores
are stated for behaviours in which that did not happen (`Clean`), which shows
that nothing else breaks them.

### HandsetBinding

`holder` says whose handset each one is at the OMM: a number, `"unbound"`, or
`"gone"`.  `ommUsers` are the OMM's users and `cache` is `OMMMgr.users`, both by number;
what the cache keeps of a user is the ppn it had when it was read.  `accounts` are the
temporary rows in Asterisk and `posts` the POSTs under way.

| Action | Code |
|---|---|
| `FindUnbound`, `TakeNext`, `CreateTempUser`, `CreateTempUserRaises`, `AttachTempUser`, `CreateTempAccount` | `find_unbound_pps` with `create_user`, `attach_user_device`, `create_extension` |
| `FindUsers`, `AnswerNak` | `handle_post` and the two searches of `try_device_registration` |
| `DetachTempUser`, `AttachExtension`, `DeleteTempUser`, `DeleteTempAccount` | `transfer_pp`, `delete_user`, `delete_extension` |
| `UnsubscribeDevice`, `UnsubscribeDeviceRaises` | `do_unsubscribe_device`; the KeyError of a number that has no user |
| `CreateExtension`, `DeleteExtension` | the OMM side of `do_update_extension`, `do_delete_extension` |
| `Crash`, `Restart` | a kill, the supervisor with `read_users` |
| `Subscribe`, `Leave`, `CallToken`, `LosePost` | handsets, callers and Asterisk |

Each request to the OMM and each transaction is a step.  On the asyncio thread the
collector, a POST and an event exclude each other (`ThreadIdle`), since none of them
awaits in between; handsets and crashes come between any two requests.  External, and
stated at the head of the module: how the OMM answers `SetPP` and `DeletePPDev`.  An
attachment that the code does not look at may be done or refused where the OMM could do
either.  After `UnsubscribeDeviceRaises` the event would be listed again at the next
start; each such run counts as an event.  A number is not drawn while a POST with it is
under way: numbers are random, and a call lasts seconds.

### OMMTransport

A thread in `_sendrequest` and `_awaitresponse` passes through `pc`: `check` (another
waiter?), `register` (the entry, under the lock), `lookup` (the entry's Event, read
again after the lock), `wait`, `pop`.  `sendq`, `recvq` and `entry` are `_send_q`,
`_recv_q` and `_events`; an entry is named by the response's name and its sequence
number, 0 for the requests without one.  `WorkerSend`, `WorkerReceive` are `_work`;
`DispatchGarbage`, `DispatchResponse`, `DispatchNotice` are `_dispatch`, the last one
with the subscription that `__getattr__` makes.  `Execute`, `Notice` and `Close` are
the OMM.

The worker may die on an open connection, and the dispatcher does not notice: `send`
runs under the timeout of 0.1 s that is set for `recv` (`OMMClient.py:721`, 723), the
third disjunct of `WorkerSend`; a read may end inside a character of several bytes,
which `decode` refuses outside of the `try` (730), `WorkerCannotDecode`; a connection
that was reset raises in `recv` (726), `WorkerIsReset`.

The socket carries whole messages; a read of `_worker` that is not one message, because
it is a part of one or joins several, is one item with `whole = "no"`, which
`parse_message` cannot parse: the dispatcher dies.  What comes after it does not
matter any more, so the rest of a split message is not kept.

### OMMPaging

One listing: `start` is `start_uid` or `start_ppn`, `page` the records of the answer
that are still to be yielded, `top` its last.  `Query` is the request with its
answer, `Yield` one turn of the generator, together with the test of `find_user` and
`find_device`; `Create` and `Delete` are other clients of the OMM.  `IsAnswer` says
what is assumed of the OMM: the records from the id on, in order, as many as were asked
for or all that are left.  `lasting` are the records that were there all the time.

### Lifecycle

`ready` is the queue of the asyncio loop, `at` the await at which each task is.
`Web`, `Guru3`, `Events`, `Omm`, `Collect` are one turn of each task, `Main` is
`gather` with the `except` of `run_tasks` and the end of `asyncio.run`, `Cancel` is a
CancelledError at the await, `HandleSigterm` the signal handler.  `client` is the
session of `OMMClient`: a request outside of a session is queued for threads that do
not run, and the loop's thread waits for ever (`hung`).  A session may also break, at
any time (`Breaks`, the causes that `CallsReturnOrHangForACause` of `OMMTransport`
names): `"mute"` when requests do not come back any more, `"stuck"` when the dispatcher
waits for its own Subscribe.  The next request blocks in both (`AskingBlocks`).  In a
stuck session the logout blocks as well (`LogoutBlocks`): it joins both threads without
a timeout (`OMMClient.py:757-758`), and that one never looks at `_terminate` again.
`asterisk` is the database connection; `late` who used it after it was closed.  A POST
in the queue that `asyncio.run` cancels stays there as `"refused"` and takes its turn without touching a
store (`PostRefused`).

### Messages

`AppendChild` is one turn of the loop of `construct_message`, `TakeChild` one turn of
that of `parse_message`, with the limit of 5000 children as `MaxChildren`.  The
attributes of a child are one value.  An answer is any sequence of children, a
request any dict; XML writes and reads back names, attributes and order.  The
properties count positions: the list of a name is as long as the set of positions of
its children that are read, and each of these is found at its rank.

## Runs

| Run | Instance | Shows |
|---|---|---|
| `events` | 5 events, the 4th raises, 2 crashes, 2 lost reports | `ReportedWasApplied`, `KnownIsNotLost`, `NoSecondHandling`, `NothingBeforeLogin`, `HandledInOrder`, the path implements `EventDelivery`, and `EveryEventApplied` |
| `events_report` | 2 events, 1 lost report | finding: `EveryEventReported` fails |
| `provisioning_safety` | 4 events of all kinds, 3 numbers, 2 crashes | `MirrorsGuru3`, `OmmUsersAreUsable`, `CacheMatchesOmm`, `NoHandlerRaises`, `CallgroupReflectsEvent` |
| `provisioning_liveness` | 6 SIP and DECT events, 2 numbers, 1 crash | `EveryEventCompletes`, also for numbers that change hands and type |
| `provisioning_spill` | 4 DECT events, 2 numbers | finding: `NothingSpills` fails |
| `handsets` | 2 handsets, 3 temporary numbers, 1 extension, 2 calls, 1 event, 1 departure, 1 crash | it implements `HandsetLife`, `OrphansHaveACause`, `CacheKnowsTempUser`, `EveryHandsetCanCall` |
| `handset_unsubscribe` | 1 handset, 1 call, 1 event | finding: `DiscardedOnlyWithoutPP` fails |
| `transport` | 2 callers and the dispatcher, 3 requests, 1 event of the OMM | it implements `RemoteCalls`, `AnswersAreOwn`, `NoCallRaises`, `Accounted`, `CallsReturnOrHangForACause` |
| `paging` | 5 ids, pages of 2 users or 3 devices, 2 changes | `Complete`, `Ascending`, `FindsFirst`, `FewQueries` |
| `lifecycle` | all tasks, a login that may fail, a session that may break, 2 POSTs, 1 signal | `TasksAskInSession`, `NoTaskOnClosedDatabase`, `LoggedOutAtEnd`, `EndsOrHangsForACause` |
| `lifecycle_login` | a login that may fail | finding: `CommandsAfterLogin` fails |
| `messages` | 3 names, answers of up to 4 children with a limit of 3 | `NothingMixedUp`, `FormTellsNumber`, `RoundTrip` |

Bounds and why they suffice.

* `Guru3Events`: five events fill the queue with several known and unknown ids at once,
  and leave events before and behind the one that raises.  Two crashes allow a crash
  during the repetition caused by the first.  Two lost reports leave two stale ids in
  `event_queue_ids`.
* `Provisioning`: an event touches at most two numbers and the third is a bystander;
  four events are enough to create, change the type of, rename and delete an
  extension.  Six events over two numbers reach a number that is freed, taken over by
  a spilled update, and asked for again, which is how `Raise` is reached.  Numbers,
  uids, versions and passwords are interchangeable and declared symmetric in the runs
  without liveness.
* `HandsetBinding`: two handsets meet at one extension and at one temporary number
  that is given out again; with three numbers one can be left behind by a crash, one by
  a departure, and the third is still free.  Two calls are two POSTs that are repeated
  and overtake each other.  The extension may be there at the start or be created by
  the event.  Nothing relates two extensions but the POSTs that name them.
* `OMMTransport`: two callers, of which one makes requests without a sequence number,
  so that an entry without one and entries with different ones are in the table
  together; the third request reuses what the first one left.  One event is enough to
  kill or block the dispatcher.
* `OMMPaging`: five records are two full pages of users and a short one, and an exactly
  full and a short page of devices; two changes fall into one or two of the gaps.  The
  proofs cover all other sizes.
* `Lifecycle`: the tasks are those of the code.  Two POSTs are one at hand and one that
  comes after the cancellation.
* `Messages`: four children are one more than `MaxChildren`, and three of one name with
  another in between.

Deadlock is not checked: a broker without events waits, a process may be over, and
the counters that bound a run stop it.

Fairness.  Crashes, losses and departures are bounded in every run, so they cannot
starve anything.

* `Guru3Events`: weak fairness of each task's steps (the asyncio loop runs what is
  ready; a task gives up the thread only at an await), of the login (the OMM answers)
  and of `Restart` (a supervisor).  `GreetsOnConnect` is the assumption that Guru3 sends
  its queue length to a new websocket; without it an event created between the first
  fetch and the connection would wait for the next event.  The comment at
  `Guru3Mgr.py:31` and the message format suggest it; the repository cannot show it.
* `Provisioning`: weak fairness of the handler's next step and of `Restart`.
* `HandsetBinding`: weak fairness of `Restart` and of the steps of a collection or a
  transfer under way; strong fairness of the collector's round, which comes
  at a configured interval and finds the thread free again and again, as POSTs and
  events end; and strong fairness of `CreateTempUser`: the number is drawn at
  random, so it is not one taken at the OMM for ever.
* `OMMTransport`: weak fairness of every thread's next step and of the OMM's answers
  while the connection is open.  None for `Close`, `Notice` or a new call.
* `Lifecycle`: the loop runs what is ready, and closing the websocket ends (the
  library has a timeout for it).  None for any other timer or socket: the end of the
  process must not depend on what others send.  None for `Breaks`, which need not happen.

Each property has a mutant in `PROJECT.json`: a variant of one definition, with a
plausible bug, under which TLC finds that property violated in the same run.

## Findings

* `events_report`: `README.md:11` (of the repository) promises that a processed event is reported
  complete.  When the POST is not answered with 200, the id stays in
  `event_queue_ids`; every later fetch skips the event and nobody repeats the
  report until hexidian is restarted.
* `provisioning_spill`: `OMMClient.py:670` says that `update_user` updates a user by
  the changes done to the object it is given.  `PPUser.changes` is an attribute of
  the class, shared by all objects and never emptied.  After the rename of one
  extension, the update of another carries the first one's number: the OMM refuses
  it and the update is lost, or, when that number is free again, the user
  changes its number.

* `handset_unsubscribe`: `EventHandler.py:248` discards an UNSUBSCRIBE_DEVICE "since the
  user has no PP".  The ppn it looks at is the one in the cache, read when the user was
  created or at the start.  `transfer_pp` does not update it: a handset that was
  registered since stays, and one that was registered before and belongs to somebody
  else by now would be deleted.
* `lifecycle_login`: `OMMClient.py:113-114` wants the login before any command.  When the
  OMM refuses the connection, the OMM task fails, but the collector is ready in the
  same pass of the loop.  Its `GetPPDev` is queued for threads that were never started,
  and the process hangs where it should end with the exception.

Some properties of passing runs hold with exceptions which the property names, and the
model shows each of these to happen:

* `CallsReturnOrHangForACause`: the request is queued before its waiter is registered
  (`OMMClient.py:104`), so an answer in between is dropped and the caller waits for
  ever; a read that is not exactly one message kills the dispatcher (726, 737); a read
  that ends inside a character (730) or a send that runs into the timeout (721) kills the
  worker; a first
  `EventDECTSubscriptionMode` makes the dispatcher wait for an answer only it could
  dispatch; after the connection closed nobody is told.
* `EveryHandsetCanCall`: a crash between the temporary user and its Asterisk account
  (`EventHandler.py:269-270`) strands a handset, since it is not unbound any more; and
  leftovers can use up the temporary numbers.
* `OrphansHaveACause`: `transfer_pp` looks at neither result (`OMMMgr.py:82-83`) and the
  temporary user is deleted anyway.  The handset is then unbound, not lost: the
  collector finds it again.
* `EndsOrHangsForACause`: the web server is not one of the cancelled tasks, so a POST
  that comes after the logout blocks the process on its way down; and the logout itself
  blocks it when the dispatcher waits for its own Subscribe.

## Proofs

`Guru3EventsProofs` proves, for every number of events, crashes and lost reports
and every set of raising events:

| Theorem | Statement |
|---|---|
| `TypeCorrect` | `Spec => []TypeOK` |
| `NoEventLost` | `Spec => []ReportedWasApplied` |
| `KnownEventsAreHandled` | `Spec => []KnownIsNotLost` |
| `LoginComesFirst` | `Spec => []NothingBeforeLogin` |
| `HandledOnce` | `Spec => []NoSecondHandling` |
| `HandledOldestFirst` | `Spec => HandledInOrder` |
| `PathImplementsDelivery` | `Spec => ImplementsDelivery` (refinement of `EventDelivery`) |

The assumption is `BoundsAssumption` (the bounds are natural numbers).

The argument.  None of the properties is inductive: that the queue is sorted
depends on what a later fetch may append.  `IInv` adds three things.  `Control` says
where the tasks are while a batch is open or an event is in hand.  `QueueOrder` and
`CurrentOrder` say that numbers increase from the handled events over the one in
hand to the queue.  `FreshOrder` is the heart: an event on Guru3's list whose id
is not known is newer than every id that is known and every event that was
handled, and, while an answer is worked through, newer than what was looked
at.  So what a fetch appends is newer than everything before it.  A failed report
does not disturb this, because the id stays known; a successful one removes the id
and the list entry together.  Each action has a lemma with one step per
conjunct; the actions of the fetching task share one lemma for what they leave
alone, and the three ways to die share another.  For the refinement,
`OlderApplied` derives from `IInv` that everything older than the event in hand
has taken effect: it would otherwise be on the list, hence known, hence queued
behind a younger event.

`OMMPagingProofs` proves, for every number of ids and changes and every page size
above zero (`SizesAssumption`):

| Theorem | Statement |
|---|---|
| `TypeCorrect` | `Spec => []TypeOK` |
| `ListingComplete` | `Spec => []Complete` |
| `FirstMatchFound` | `Spec => []FindsFirst` |
| `ListingAscends` | `Spec => Ascending` |
| `QueriesAreFew` | `Spec => []FewQueries` |

The argument.  `Complete` speaks only of the end of a listing; the invariant says what
each position on the way stands for.  `Covered`: what lasted below `start` was
yielded; while a page is open, what lasted up to its top was yielded or is still in
the page, and when the page was short there is nothing above it.  `Position`: what
the page still holds lies between the record yielded last and the top, so that ids
increase.  `NoMatchYet` and `FirstFound` carry the search along.  Changes by others can
only shrink `lasting`, which leaves all of it true; the deletion of the very record at
which a page ended does not matter, because `start` is a number and not a record.

`FewQueries` is a matter of counting, and not inductive.  `Paid` says that all queries
but the last have been paid for with a full page each, of records that were yielded or
are still to be; `Behind` that a record of the page has not been yielded before, so none
pays twice.

`OMMTransportProofs` proves, for every number of callers, requests and events of the
OMM and every choice of names (`ThreadsAssumption`, `NamesAssumption`: no two threads
make the same request without a sequence number; `NoneAssumption`, `BoundsAssumption`):

| Theorem | Statement |
|---|---|
| `TypeCorrect` | `Spec => []TypeOK` |
| `OwnAnswers` | `Spec => []AnswersAreOwn` |
| `CallsDoNotRaise` | `Spec => []NoCallRaises`, under `NamesAssumption` |
| `NoAnswerIsLost` | `Spec => []Accounted` |
| `TransportImplementsCalls` | `Spec => ImplementsRemoteCalls` (refinement of `RemoteCalls`) |

The argument.  The table is keyed by name and sequence number, the properties speak of
requests; so `IInv` has to say that a key stands for one request at a time.  `Calls` is
about the threads: their keys differ (`OwnRequests`), because sequence numbers only
grow and other names belong to one thread each, and the table has exactly the entries
of the registered calls (`TableOfCalls`).  `Wire` is about what is on its way: as long
as the Event of a request is not set it is in at most one of send queue, OMM, socket
and receive queue, and its thread is still in the call (`Awaited`); once the Event is
set it is in none.  Hence a name that is used again cannot meet an old answer.  What
is executed and what is not (`InLog`) separates the first two places from the last two,
and is also what the refinement needs.  `EntryOfCall` then gives the lookups outside of
the lock.  `Accounted` is the other direction, that a request which is not answered is
in one of the places and not in none.  It needs in addition that a read which is whole
is one message (`ReadsAreWhole`) and that a dead dispatcher is in no call it could come
back from (`DispatcherCalls`).

`HandsetBindingProofs` proves, for every number of handsets, extensions, temporary
numbers, POSTs, events, departures and crashes (`NumbersAssumption`,
`BoundsAssumption`):

| Theorem | Statement |
|---|---|
| `TypeCorrect` | `Spec => []TypeOK` |
| `TempUserIsKnown` | `Spec => []CacheKnowsTempUser` |
| `BindingImplementsLife` | `Spec => ImplementsHandsetLife` (refinement of `HandsetLife`) |
| `OrphansAreCounted` | `Spec => []OrphansHaveACause` |

The argument.  A step of the collector or the registration uses what it read several
requests ago.  `CollectorKnows` and `RegistrationKnows` say what is left of that when
it is used: the handset in hand may have left and come back, but nobody has bound it,
since only these two bind handsets and they exclude each other.  `CalledBefore` says
that the number of a POST under way belongs to the handset the call was made with, or to
nobody; it is kept because a number is new to the OMM and in no POST when it is given
out, and nobody has a number the OMM does not know (`HoldersAreUsers`).  `OneHandset`
makes the deletion of a user release one handset at most.  `CacheShowsUsers` is the cache
after each request and each restart.

`OrphansHaveACause` speaks of idle tasks only.  `Counted` extends it to the requests in
between: not only the numbers without a handset that no task has in hand count
(`Loose`), but also the handsets in the collector's list that have left (`Missed`), as
each of them will leave a number when the collector comes to it.  A departure adds one
to one of the two, never to both, since a handset in that list has no number; a crash
makes the number in hand loose; a transfer adds none, because it deletes user and account of
its number in the end, whatever was refused (`UserFirst` gives their order).

`ProvisioningProofs` proves, for every number of extensions, users, passwords, versions,
events and crashes and every choice of kinds of events (`NoneAssumption`,
`KindsAssumption`, `BoundsAssumption`):

| Theorem | Statement |
|---|---|
| `TypeCorrect` | `Spec => []TypeOK` |
| `StoresMirrorGuru3` | `Spec => []MirrorsGuru3` |
| `UsersAreUsable` | `Spec => []OmmUsersAreUsable` |
| `CacheIsTheOmms` | `Spec => []CacheMatchesOmm` |
| `HandlersDoNotRaise` | `Spec => []NoHandlerRaises`, for the kinds of events of the module; the KeyError of UNSUBSCRIBE_DEVICE is in `HandsetBinding` |
| `CallgroupsReflectEvents` | `Spec => CallgroupReflectsEvent` |

The argument.  A handler that runs again starts from what an earlier run left, at any
of its statements.  The invariant therefore says, for the number of the event, less
than that it is as Guru3 asked, and more than nothing.  `OthersAreSettled`: the numbers
the event does not concern are as Guru3 asked.  `PendingIsConsistent`: a half-done DECT
update may have left an account without a user, but never a user whose password is not
that of the account; a half-done rename has account, user and callgroup each at one of
the two numbers, not at both.  `Progress` reads from the statements still to run what
those already run have done; a crash empties it, since the next run begins with all of
them.  That these hold while PPUser.changes is shared needs `Clean`, as the properties
do; without it only `Structure` is left: types, one user per number, the cache names
users that exist (`CachedUsersExist`), and the statements to run are a rest of a handler
of the event (`PlanFits`).

For `CallgroupReflectsEvent`, `InPass` says at every transaction of the pass over a
callgroup that the rows of the extensions looked at are as the event asks, and those of
the others as they were fetched.  It holds at the start because the pass covers all that
are members or shall be, whatever an interrupted pass left; at the end none is left.

`LifecycleProofs` proves, for every number of POSTs and every outcome of the login
(`BoundsAssumption`):

| Theorem | Statement |
|---|---|
| `TypeCorrect` | `Spec => []TypeOK` |
| `TasksAskOnlyInSession` | `Spec => []TasksAskInSession` |
| `TasksSpareTheClosedDatabase` | `Spec => []NoTaskOnClosedDatabase` |
| `NoSessionIsLeft` | `Spec => []LoggedOutAtEnd` |

The argument is about order.  `OmmBeforeCollector`: as long as the OMM task has not had
its first turn it stands before the collector in the queue of the loop.  `LockHolds`: the
Guru3 task is behind its lock, and an event ready for its task, only once there is a
session, whole or broken, or the login failed.  `CancelledTogether`: a session that is over and a database
that is closed mean that every task is over or has a CancelledError ahead
(`AllCancelled`), so none of them makes another request.  `QueueIsFit` (no task is queued
twice or after its end) keeps a task from a turn it is not due.

`MessagesProofs` proves, for all names and attributes, every limit and answers of every
length (`NamesAssumption`: the names are finitely many; `LimitsAssumption`):

| Theorem | Statement |
|---|---|
| `TypeCorrect` | `Spec => []TypeOK` |
| `ChildrenKeepTheirPlaces` | `Spec => []NothingMixedUp` |
| `FormIsTheNumber` | `Spec => []FormTellsNumber` |
| `RequestsComeBack` | `Spec => []RoundTrip` |

The argument.  `Collected` is the first two properties for the children taken so far.  It
is kept because one more child is the last of its name: the ranks of the others stay,
its own is the new length (`NextPosition`).  For `RoundTrip`, `Constructed` says that the
message of a request has exactly one child for each name that was looked at, so there
are no more children than names and none is dropped.

Every safety invariant, action property and refinement that a passing run checks is proved.
Only model-checked: the liveness properties `EveryEventApplied`, `EveryEventCompletes`,
`CallsReturnOrHangForACause`, `EveryHandsetCanCall` and `EndsOrHangsForACause`, since
the provers at hand do not reason about fairness and ENABLED.

## Not modelled

* Configuration and logging: pure input and output.
* Identity and password helpers: `encrypt_pin` and `create_password` are cryptography
  and randomness, `normalize_name` is formatting, and nothing calls `convert_ipui`.  In
  `Provisioning` a fresh password is a fresh value.
* OMM queries that hexidian does not call (`get_sari`, `get_limits`, ...): each is one
  request and its answer, without state of its own; so are `PPUser.commit` and
  `get_attributes`.  Their way to the OMM is `OMMTransport`.
* Malformed POSTs, which are answered with 400 or 417 before anything is looked up.
* A full pool of temporary numbers, in which the search for a free one never ends.

Assumed of the outside: the OMM keeps one user per number and refuses a request that
would break this, ids are primary keys in the database, no one else writes to the
rows of hexidian; and what the heads of `HandsetBinding`, `OMMTransport`, `OMMPaging`
and `Lifecycle` say of the OMM and of asyncio.

## Plan

What is left.

1. `DeliveredProvisioning`: composition of `Guru3Events` and `Provisioning` for
   events that are repeated behind younger ones after a failed report.
2. The refusals of a failing OMM in `Provisioning`, where so far only a number that is
   taken is refused.
