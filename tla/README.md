# telephony: a formal model of pjproject's call machinery

The repository wraps pjproject 2.2.1 (`src/telephony/Classes/pjproject-2.2.1`)
for iOS. All of its logic is pjproject's; paths below are relative to that
directory. This project models what a call rests on: the SIP transaction, the
dialog and the invite session with its SDP negotiation, the registration, the
transport, the timer heap under all of them, and ICE.

Contents: 1 the system; 2 the modules; 3 how the models follow the code; 4 what
is checked; 5 what is proved; 6 disagreements found; 7 what is left and in which
order.

## 1. The system

### 1.1 Components

| Component | State | Operations | What makes it correct |
|---|---|---|---|
| **Transaction** `sip_transaction.c` | `state`, `status_code`, `last_tx`, `transport_flag`, `tp`, two timers, a group lock, `terminating` | create, send, receive, terminate, set_timeout, stop_retransmit, timer and transport callbacks | moves forward only; the user hears of every end once; a waiting state has its timer; one final response per server; memory freed once, when nobody can reach it |
| Transaction layer, same file | hash table of keys, a mutex | register, unregister, look up, stop | no lookup finds a destroyed transaction |
| **Stateless send** `sip_util.c` | address list, current address | resolve, acquire, send, next address | one final callback per send |
| **Dialog, user agent** `sip_dialog.c`, `sip_ua_layer.c` | `tsx_count`, `sess_count`, `mutex_`; table of dialogs, its mutex | request, response, inc/dec_lock, dec_session, unregister | counters exact; destroyed when both are zero and nobody waits; no circular wait |
| **Invite session** `sip_inv.c` | state, `invite_tsx`, negotiator, pending BYE and CANCEL | invite, answer, reinvite, cancel, end | both ends agree on the description and on the end |
| **SDP negotiator** `sdp_neg.c` | state; active, local and remote description | offers, answers, negotiate, cancel | offer and answer alternate, nothing stuck |
| **Client registration** `sip_reg.c` | `has_tsx`, `current_op`, `busy_ctr`, `_delete_flag`, timer | send, callback, refresh, destroy | freed once, after the last callback; refreshes not lost |
| **Transport manager, TCP** `sip_transport.c`, `sip_transport_tcp.c` | `ref_cnt`, idle timer, `is_shutdown`; delayed messages, keep-alive | acquire, release, shutdown, destroy; connect, send, data, close | counter exact; every message answered; an idle or closed transport goes |
| **Timer heap** `pjlib/src/pj/timer.c` | heap array, id table, free list | schedule, cancel, poll | an entry runs once per schedule, the earliest first; one lock reference per entry |
| **Group lock** `pjlib/src/pj/lock.c` | `ref_cnt`, chain, owner | acquire, add_ref, dec_ref, chain, replace | destroyed exactly when the counter reaches zero |
| **ICE** `ice_session.c` | check list, early checks, role, timer id | check, nominate, respond, complete | both ends succeed if a path is open, on a pair both nominated |
| 100rel, session timer | responses, rseq; refresher, timer entry | send, PRACK; negotiate, refresh, expire | in order; one side refreshes |
| Event subscription, presence `evsub.c` | subscription state, `pending_tsx`, timers | subscribe, notify, terminate | terminated once, freed after the last transaction |
| Endpoint, resolver, DNS | modules by priority; queries, cache | register, distribute; query, time out | one answer per query |
| STUN, TURN | retransmission; allocation | send, respond; refresh, bind | one completion per request |
| Jitter buffer, media engine | ring of frames, bridge ports | put, get; mix | frames in order, never twice |
| I/O queue, pools, strings, codecs, devices | - | - | not state machines, or tested by themselves |
| pjsua, pjsua2, applications | accounts, calls, buddies | call, answer, ... | the locking order over the libraries |

Bold components are modelled; `PROJECT.json` has the list with statuses.

### 1.2 How they interact

A *transaction* is created by its user (a dialog, a registration, a module), which
passes it messages and hears of it through `on_tsx_state`. Messages reach it from
a transport's thread through the layer's table. It sends through the stateless
functions while it has no transport, directly once one is attached; the result may
come before the call returns or later from another thread. Two entries in the
endpoint's *timer heap*, polled by any number of workers, drive retransmission,
timeouts and the report of transport errors. One group lock serialises its
handlers; that lock's reference counter decides when the memory goes.

A *dialog* counts the transactions that have it to notify (`tsx_count`) and whoever
keeps it (`sess_count`: the invite session, and every thread inside). Requests find
it through the user agent's table, responses and timeouts through the transaction;
both may destroy it on their way out. The *invite session* is a usage of the
dialog: its handlers run under the dialog's lock, and it feeds the *negotiator*
what bodies it meets in INVITEs, responses and ACKs. A *registration* sends through
`pjsip_endpt_send_request`, hears of the end in a callback of the transaction's
thread and refreshes itself from the timer heap. All of them hold *transports*,
which count their users and destroy themselves, by an idle timer or when closed,
once unused. *ICE* sessions exchange STUN requests and have one timer each.

### 1.3 What is hard

* **Work outside the lock.** An entry leaves the heap before its callback has the
  lock; `entry->id`, `tsx->state`, `mod_data`, `_delete_flag` and a transport's
  counter are read without it; users are called back without it.
* **Locks in two orders.** Dialog, then transaction (a call that sends);
  transaction, then dialog (a notification).
* **Counting.** `tsx_count`, `busy_ctr`, `ref_cnt` and the group lock's counter
  each decide alone when memory goes.
* **Two meanings of one timer** (timeout, destruction and transport error of a
  transaction; periodic check, nomination and completion of ICE).
* **Nested and partial failure.** A send fails from within a handler, or fails
  before there is a callback to come.
* **Crossing messages.** A CANCEL and a 200, two re-INVITEs, two ICE checks, role
  conflicts; lost, repeated and reordered requests.

`PROJECT.json` lists the hazards at their lines, with the properties that would
notice each going wrong.

## 2. The modules

| Module | Models | Builds on |
|---|---|---|
| `TsxStates` | the transaction's states and their order | - |
| `SipTransaction` | the transaction record; an operator per function | `TsxStates` |
| `TsxThreads` | one transaction shared by timer threads, readers, users, completions | `SipTransaction`; refines `TsxLifecycle` |
| `TsxLifecycle` | what the user of a transaction may rely on | `TsxStates` |
| `TsxPair` | client and server over an unreliable network | `SipTransaction` |
| `Dialog` | a call's dialog, its transactions, and the locks | - |
| `SdpNegotiator` | one negotiator, an operator per function | - |
| `InviteSession` | the two sessions of a call | `SdpNegotiator` |
| `Registration` | one registration shared by users and workers | - |
| `SipTransport` | one TCP transport with its manager | - |
| `TimerHeap` | the array, the table of ids, polls; refines `TimerService` | - |
| `TimerService` | what a timer heap promises: a set of pending entries | - |
| `IceSession` | two ICE sessions | - |
| `MCTsxThreads`, `MCTsxPair`, `MCTimerHeap`, `MCIce` | instances for TLC | |
| `SipTransactionProofs`, `TsxThreadsProofs` | lemmas and theorems | `TsxThreads` |
| `TsxPairProofs` | lemmas and theorems | `TsxPair`, `SipTransactionProofs` |
| `EndpointProofs` | lemmas and theorems on the endpoint's two services | `SipTransport`, `TimerHeap` |
| `RegistrationProofs`, `DialogProofs`, `InviteSessionProofs`, `IceSessionProofs` | lemmas and theorems | the module in the name |

Operators that stand for functions are *pure*: from the record before the call to
the record after, or to the set of records it may leave when the environment
decides. Operators whose comment says *Plausible fault* (or *bug*) are not part of
the model: each is a faulty version of the operator after it, and `PROJECT.json`
names the property that notices it.

## 3. How the models follow the code

### 3.1 Common conventions

A section under a lock is one step; what runs outside the lock is a step of its
own, and so is a wait for a lock where others may come first. `pj_assert` is a
no-op in a release build and modelled as nothing (`Dialog` only records where one
would fail); `PJ_ASSERT_RETURN` is an early return. Time is abstract except in
`TimerHeap`: a scheduled entry may be popped at any moment, and durations appear
only where the code's order of events rests on them. A step on freed memory has no
meaning, and the models stop there. Messages and descriptions are members of small
sets; headers, addresses, keys and logging are left out.

### 3.2 Transaction (`SipTransaction`, `TsxThreads`, `TsxPair`)

The record has a field for each variable the control depends on. `told` and
`terms` are what the callback has reported, `wire` what the last step gave to the
transport. `refs` is the group lock's counter; `Own(t)` is how many of those the
transaction itself accounts for: the layer's until `tsx_shutdown`, one per entry in
the heap, one per unanswered send.

`grp_lock_acquire` takes a reference of its own (`lock.c` 281-296), so the object
cannot be freed in the middle of a section. Sections under `mutex_b` alone only
cancel and arm the timeout entry, and commute with a handler. Steps of their own:
`Pop`, `TimerCallback` (reads and resets `entry->id`, tests the state),
`NotifyUser`, `PostFailure`, and the tests in `TerminateCall` and `SendCallback`.

A message is REQ, ACK or one of 100, 180, 200, 300: one of each class, and the
distinction between 100 and above that the code makes. A send on the attached
transport is done at once or answered later; a stateless send may be pending, done,
refused, fail, try another server, or switch from UDP to TCP. Which of these occur
is `Faults`. Two choices are deliberately wide: the status a send returns when the
transaction was terminated inside it, and whether a message still being written is
skipped. The user calls while it holds its reference and lets go after it was told
of the end; `on_tsx_state` is a notification, and a user that calls back is modelled
as calling right afterwards.

`TsxPair` keeps everything ever sent in a set from which it arrives any number of
times, in any order, or never.

### 3.3 Dialog

`dlg.sess` and `dlg.tsx` are the two counters, `tsx[t].att` whether `mod_data`
refers to the dialog, `own` who holds each lock and `th` what each thread waits
for. The mutex is recursive and each nested level adds one to the counter and takes
it off again: only the outermost is counted. A thread that does not have to wait
does its whole section in a step: `Request`, `Bye`, `Ack` (found by the table, with
a try-lock), `CancelRequest` then `Find` (found by the INVITE's transaction, whose
lock is waited for with the user agent's mutex in hand), `Event` then `OnTsxState`
(a handler and its notification), `TransportError` then `OnTsxState` (a notification
without the transaction's lock), `Answer` then `SendAnswer`, `Send`. `Leave` is
`pjsip_dlg_dec_lock()`: the last one out unlocks, locks again (`Relock`) and destroys
(`Destroy`). What the session decides on a notification (end the call, send a BYE)
is a choice; `InviteSession` says which. pjsua's test that the call is alive stands
for what keeps the dialog in existence while a user calls.

### 3.4 Invite session and negotiator

A handler, and a call of the user with the message it sends, is a step, as both
hold the dialog's lock. Messages are a set: any order. A request and its final
response arrive once, because the transactions absorb repetitions; a 200 to an
INVITE arrives again until it is acknowledged or given up (`"ack"` in `Faults`: the
ACK comes too late or never). A description is a number; the pair
`<<local, remote>>` is what a negotiation leaves in force. In `InviteSession` a
caller's BYE comes after the 200, so the callee's INVITE has its answer; the branch
that answers it with 487 is in `Dialog`.

### 3.5 Registration

`busy_ctr` is changed without the lock, so `SendEnter`, `SendLocked`, `SendLeave`
and `Check` (which reads `_delete_flag` after the counter was dropped) are separate.
The worker's paths are `Pop`, `RefreshEnter`, `Refresh` and, for a response,
`Report`, `CallTsxCb`, one of `Challenged`, `TooBrief`, `Forgotten`, `Final`, then
`Tell` and `Exit`. The user's calls may come in between from any thread of `Apps`;
a callback that calls back is one of them. The transaction is what
`TsxLifecycle` promises: one final status for a request that was sent.

### 3.6 Transport

`Release` and `Acquire` change the atomic counter and test it again under the
manager's lock in a second step, `IdleCallback` tests it and `DestroyTest` destroys
after. `Send` looks at `has_pending_connect` before the lock and `Queue` appends
under it; `ConnectComplete`, `Flush` and `Drain` are the socket's side. A shutdown
keeps the transport with a reference over its callbacks (`InitRef`, `InitUnref`).
Left out with the failing allocations: `tcp_start_read()` fails once connected
(`sip_transport_tcp.c` 1397-1401), and what was kept back is not flushed.

### 3.7 Timer heap

The functions of `timer.c` one by one over the array, the table of ids (negative:
next free id) and the free list. The loops of `reheap_up()` and `reheap_down()` are
the `Path` of the slots they pass, along which `Shift` moves the nodes. `Poll` pops under the lock, the callback runs
outside, `PollNext` goes on. The lock's reference of each entry goes with the poll
and is given back after the callback. The time of an entry that left the heap is
not kept. The unlocked test in `schedule_w_grp_lock` is a step before the insertion;
two threads that schedule *one* entry at once are excluded (section 6).

### 3.8 ICE

The timer is three steps, as three things happen without a common lock: a thread takes
the entry from the heap (`TimerPop`, `timer.c` 625), `on_timer()` reads what it is to do
(`TimerRead`, 1118), and acts with the lock held (`TimerRun`). `Workers` are the threads
of an end that poll; they are alike, so the model lets one of the free ones pop. Every
other callback is one step. `told` counts the calls of `on_ice_complete()`, up to two;
`late` remembers that the timer was scheduled while a thread had it in hand. A pair of
candidates is its component and rank and means the same path to both ends. The STUN
session is taken at its word: a request is handled once, and answered or timed out.
`env` fixes which paths are open and which one kind of fault a behaviour may meet.
Components above the highest of a remote candidate are dropped when the check list is
made (`comps`, 1705-1712), and packets for them fall on the floor (`Deaf`).
`pj_ice_sess_start_check()` may fail, without component 1 (2050) or with its periodic
timer running already (2107); `pj_ice_strans_start_ice()` then destroys the session
(`Stop`), which is deaf as well: its caller has the error, and no callback comes.
`is_nominating` is set and never reset: `pj_ice_sess_start_check()` sets it for
aggressive nomination and leaves it as it is otherwise. A check list is sorted but for
what requests add, which stands at its end (`Before`). The wait of the controlled end
for a nomination (`ICE_CONTROLLED_AGENT_WAIT_NOMINATION_TIMEOUT`, ten seconds) ends
only when nothing is under way at either end, but in a race; regular nomination
(`PJ_ICE_NOMINATED_CHECK_DELAY`) starts at any time.

## 4. What is checked

Every run says `CHECK_DEADLOCK FALSE`, as each system really stops: freed objects,
ended calls, no request left to send.

| Run | Asks | Bounds | States |
|---|---|---|---|
| `faults` | do references, memory and status survive every combination of faults? | client and server; a timer thread, a reader, a terminating user, a sender; all calls, all faults | 1,561,479 |
| `order_async` | are states, notifications, timers and ACKs in order when sends are late? | two timer threads, a reader, a sender; late sends, next server, switch, API error | 201,612 |
| `lifecycle` | do the threads implement the lifecycle, progress included, when sends fail? | one timer thread; failing sends, next, switch, API error; fairness | 25,023 |
| `pair` | do both ends agree and end over a network that loses, repeats, reorders? | answers 100, 180, 200, 300; late sends; fairness | 21,132 |
| `dialog` | are the counters exact, is the dialog freed once and in the end, who can wait for whom? | two workers, a user, the INVITE and two more transactions, either role, failing transports and sends; fairness | 47,850 |
| `registration` | is it freed once, is no refresh and no report lost? | a user, two workers; failed and refused sends; `tsx_cb` set or not; one retry; fairness | 355,285 |
| `invite` | do both ends agree on the description and on the end? | three INVITEs, ends with 200 and 603; late ACKs, no answers; fairness | 268,633 |
| `timer_heap` | does it implement a timer service; do table and array agree? | six entries, six schedules, a heap created for one that grows twice, two per poll, times 0 and 1 | 825,397 |
| `transport` | is the counter exact, is everything answered, does the transport go? | two users, a worker, the socket; refused, closed, error, expired; fairness | 91,140 |
| `ice` | is each user told once, do both succeed if they can, are roles opposite and nominations common? | two paths or two components, both nominations, every set of open paths; one kind of fault at a time; two threads an end; fairness | 626,112 |
| `v_unused`, `v_deadlock` | section 6 | as `transport`, `dialog` | |

**What a property leaves out** is written into it, each time because the code
really does otherwise:

* `pair`'s `BothEnd`: a server's answer queued behind a late send may be kept back
  for ever (`Withheld`), and its client then waits in PROCEEDING.
* `CallingEnds`: an INVITE that got a provisional response waits for the peer.
* `FreedUnwatched`, `DialogFreed`: a request that enters in the gap of
  `pjsip_dlg_dec_lock()` and an ACK that terminates a transaction just after it
  failed (`lost`); a transaction whose failure is reported after its end (`Leaked`);
  a callee whose own early request was answered 408 or 481 and whose INVITE is never
  answered (`Unanswered`); a deadlock. `NoCircularWait` exempts the waits for the
  INVITE transaction's lock, which `v_deadlock` is about.
* `OpTracked`, with a user's `tsx_cb`, which may overtake the operation being
  reported; `SentTold`, `DestroyedFreed` after a send refused before there was a
  transaction (`Stuck`).
* `invite`: a caller whose CANCEL crossed the 200 (`Crossed`); everything after an
  ACK that came too late (`lapsed`), with a callee's BYE that waits for it (`Waiting`).
  `CallerKnows`: users that end a call with 408 or 503, with which the callee's BYE
  does not wait (`Passing`; the run's users do not). `NoStuckOffer`: an offer in the
  200 to an INVITE without one that the user leaves unanswered (`LeftOpen`), as only
  `LOCAL_OFFER` is cancelled at the end of an INVITE (`sip_inv.c` 4733-4741): the
  negotiator stays in REMOTE_OFFER and every later re-INVITE is refused with 491.
* `Answered`, `Reaped`: a message queued after the failed connect was dealt with
  (`Stuck`), and one the flush drops without its callback (`"lost"`).
* `ice`: `Told`, per session: a start that fails and so needs no report (`STOPPED`), and
  a timer scheduled while a thread had it in hand (`late`), which may be acted on twice
  or never; and for both, when nothing is left that could go on, checks that a failed
  send has stopped for good (`Halted`). `NominatedByBoth` with a role conflict.
  `Success` needs an open path known to both; it leaves out failing sends, those on
  another pair included, and a second thread, and the controlled end's wait never runs
  out early in it, of which `config.h` warns.

**Faults are split over the transaction's runs.** `RefsAccounted`,
`FreedUnreferenced`, `FinalStatus` and `AckGiven` hold under every fault modelled.
`Armed` has an exception where errors come late, `Told` and `ForwardOnly` fail then:
the unlocked tests race. `Resent` needs the other half, as a retransmission that is
queued behind a late send can be forgotten. The split is itself a result: it says which
part of the environment each promise depends on, and section 5 proves each from
exactly that part.

**Why the bounds are enough.** Two workers make every overlap of two polls; the
reader's message and a popped entry are kept over any number of steps of the others, so
one of each suffices where `faults` has one. In `dialog` two workers and a user are
one thread per lock of the longest cycle, and two more transactions let one come in
while another ends. Three INVITEs are a call, a re-INVITE and one that crosses it.
In the heap six entries are the fewest for which a removed slot is filled by a node
that must move *up*, and a heap created for one grows at the second and at the fifth.
Two pairs make one that is better and one that is first. Counters are finite by
themselves: a pending send queues the next.

**Symmetry** is used in one place: `FirstAlike` lets only the first of the entries that are
neither scheduled nor called back be scheduled, as the others are alike.

**Fairness.** A thread inside a call finishes it; transports answer sends; a user
told of the end lets go (weak). A timer entry that is in the heap again and again is
popped (strong): the heap serves by time, and no handler postpones an entry for ever.
A mutex is given to those that wait for it again and again (strong, `Dialog`). In the
compositions the network delivers what is sent again and again, and users that must
act for an end to come do: in `TsxPair` they send and answer, in `SipTransport` they
send or release; in `InviteSession`, `Registration` and `Dialog` nobody has to call
anything. ICE's two ends keep running while they can: weak fairness of `Next`, written out with
`AtRest`, which is true in just those reachable states in which no step is possible.

**Refinements.** `TsxThreads` implements `TsxLifecycle`: the edges of a client and of
a server, findable exactly until DESTROYED, freeing last, each waiting state left.
`TimerHeap` implements `TimerService`: a set of pending entries from which polls take
the earliest that is due, each once per schedule.

## 5. What is proved

Each theorem holds for every value of the constants that the module's assumption
admits: any finite sets of threads, any number of transactions or INVITEs, a timer heap
of any size, and any set of faults. Section 4 says which run checks the same property on an instance.

| Module | Theorem | Statement |
|---|---|---|
| `TsxThreadsProofs` | `TypeCorrect` | `Spec => []TypeOK`; in particular the reference counter never becomes negative |
| | `RefsCorrect` | `Spec => []RefsAccounted` |
| | `FreedCorrect` | `Spec => []FreedUnreferenced` |
| | `FreedForGood` | once freed, no step that goes by the counter touches the transaction |
| | `StatusFinal` | `Spec => []FinalStatus` |
| | `Soundness` | `Spec => []TInv` (5.1) |
| | `TimersArmed` | `Spec => [](Armed \/ (LateErrors /\ tsx.state = TERMINATED))` |
| | `ArmedCorrect` | `~LateErrors`, then `Spec => []Armed` |
| | `ResentCorrect` | `"async" \notin Faults`, `"stop" \notin AppOps`, then `Spec => []Resent` |
| | `AckCorrect` | `Spec => AckGiven` |
| | `ToldCorrect` | no `"fail"`, no `"disc"`, no `"terminate"`, then `Spec => []Told` |
| | `StatesForward` | `Spec => Lifecycle!Init /\ [][Lifecycle!Next \/ Resurrected']` |
| | `LifecycleCorrect` | `~LateErrors`, no `"terminate"`, then `Spec => Lifecycle!Init /\ [][Lifecycle!Next]` |
| | `ForwardCorrect` | under the same hypotheses `Spec => ForwardOnly` |
| `TsxPairProofs` | `PairAgreement` | `Spec => []Agreement` |
| | `PairConfirmed` | `Spec => []ConfirmedRejected` |
| `EndpointProofs` | `RefsCorrect` | `Spec => []RefsAccounted` of the transport |
| | `WaitingListed` | a waiting user's message is on exactly one of the two lists |
| | `HeapSound` | `HeapSpec => []HeapIInv` (5.7) |
| | `HeapLocated` | `HeapSpec => []Located` |
| | `LocksHeld` | `HeapSpec => []LocksAccounted` |
| | `HeapServes` | `HeapSpec => ServiceSpec`: the timer heap implements `TimerService` |
| `RegistrationProofs` | `BusyCorrect` | `Spec => []BusyAccounted` |
| | `FreedCorrect` | `Spec => []FreedQuiet` |
| | `OpCorrect` | `Spec => []OpTracked` |
| | `RefreshKept` | `Spec => []NoLostRefresh` |
| `DialogProofs` | `CountsCorrect` | `Spec => []CountsAccounted` |
| | `FreedCorrect` | `Spec => []FreedUnwatched` |
| | `LocksOrdered` | `Spec => []NoCircularWait` |
| `InviteSessionProofs` | `GlareResolved` | `Spec => []NoGlare` |
| | `OwnOffersClosed` | `Spec => []OwnOffers`: an own open offer has its INVITE |
| | `OffersClosed` | `Spec => [](Alive => NoStuckOffer)`: while neither end is over and no ACK came too late |
| | `AgreementReached` | `Spec => []Agreement` |
| | `CallerSeesAnswer` | `Spec => []CallerKnows`, which asks `Codes \cap Passing = {}` |
| `IceSessionProofs` | `SessionsSound` | `Spec => []IInv` (5.6) |
| | `RolesSettled` | `Spec => []OneController` |
| | `PairsAgreed` | `Spec => []NominatedByBoth` |

**Assumptions.** The named assumptions of the modules: the sets of threads are
finite and disjoint, the names of locks and threads differ, the other constants are
subsets of what they should be. Finiteness is needed because each accounting counts
threads. `CallerKnows` itself asks for one more: no user answers or ends a call with
the code 408 or 503. The code takes these causes for the ACK that did not come and lets
the BYE pass (`sip_inv.c` 2960, 2961), so that with one of them from the user it may
overtake the 200.

Five theorems about the transaction's threads ask something of the environment, and
fail without it. `LateErrors` is that a transport may disconnect, or that a send may
fail after it was accepted: only then is `TRANSPORT_ERR_TIMER` scheduled
(`sip_transaction.c` 1995), in place of the timer that destroys a terminated
transaction, and only then does a thread act on a state it tested before it had the
lock (1101, 1131). A user that calls `pjsip_tsx_terminate()` is such a thread as well
(1613). `ToldCorrect` also excludes sends that fail at once, which end the transaction
within a handler that then reports the state it was going to. `ResentCorrect` excludes
late answers: what is queued behind a send (2118) may be replaced there. The hypotheses
hold in the runs that check the same properties, `order_async` and `lifecycle`.
`StatesForward` has none: it names the one step that is not of the lifecycle,
a destroyed transaction that such a thread leaves in TERMINATED.

The properties that are proved are seldom inductive. Each proof module defines an
`IInv` that is; all were checked by TLC on the run's instance before they were
proved. The proofs have a lemma per operator or action and combine them at the end.

### 5.1 Transaction

    IInv == TypeOK /\ Good(tsx) /\ RefsAccounted
            /\ (freed => tsx.refs = 0) /\ InHand

`Good(tsx)` ties the parts of the record together and `InHand` says that a
worker that popped has an entry, a reader that found has a message for this role,
and a terminating user still holds its reference.

1. `SipTransactionProofs`: for each operator, from timers up to `StateHandler`, a
   lemma `...Kept` says that the result is `Good` and that it changes `refs` exactly
   as it changes `Own` (`Kept(t, u)`). `Kept` is transitive, so that a handler's
   lemma follows from those of the operators it calls, in the order of the code.
2. `TsxThreadsProofs`: a step changes the number of holders by -1, 0 or +1
   (`HoldersChange`) and the counter by the same; a lemma per action, most of them
   instances of four shapes (a reference taken, given back, handed over,
   untouched). `freed` is set exactly when the counter reaches zero, and then
   `FreedAlone` gives that every term of the sum is zero.
3. `FreedCorrect` follows from `IInv` alone; `FreedForGood` from the guards of the
   actions, each of which needs a term of the sum to be positive.
4. `StatusFinal` needs one more invariant, `Ended(tsx)`: `FinalStatus`, and that the
   mark "destroy" of a pending send is set only in a transaction that is TERMINATED.
   Without the second part `send_msg_callback()` could destroy a transaction that
   still waits for its status. A send changes nothing of this for the worse
   (`Safe(t, u)`: a code stays final, the mark stays off), so that each handler's
   lemma has to show only that it sets the code before it sends or moves on.
5. The order of states, timers and notifications goes by

       TInv == Sound(tsx) /\ Saved(tsx) /\ Tame(tsx) /\ OneCall /\ Places

   `Sound`: a live transaction is in the hash table, has its user, who was told its
   state, and has at most one send out, marked by the flag; `Saved`: what it may have
   to repeat is kept; `Tame`: no error is posted unless errors come late; `OneCall`: a
   stateless send is answered by one thread; `Places`: threads are where the
   environment can have led them. `Moves(t, u)` says of an operator that it leaves
   the state or ends the transaction and tells the user if it does, with the timers it
   leaves; `Lands` what a handler leaves behind it, ended or not. Each action keeps
   `TInv` by the lemma of its handler, which also says where the state went: so
   `LifecycleCorrect` needs no induction of its own, and `Armed`, `Resent` and `Told`
   are one more conjunct each, followed through the same lemmas.

The two ends of a call (`TsxPairProofs`), for all faults, methods and answers:

    PairInv == Ends /\ Taken /\ Answered /\ Heard /\ Asked /\ Confirmed

`Ends` has both records `Good`, and for the server `Ended` and `InStep`: its user was
told the state it is in. This is what makes a final response the only one, since the
user gives one only as long as it was not told COMPLETED (`Taken`). The server saves
and sends no other (`Answered`), nor is another the client's status (`Heard`); the
client has an ACK only after a rejection it has recorded (`Asked`), and only an ACK
confirms the server (`Confirmed`). The lemmas follow the messages: a send of
messages of a set M (`Carries(t, u, M)`) gives the transport no others, changes the
code to that of an error at most, and fails only if it ended the transaction or sent
nothing. The last is what a rejection needs, whose ACK is sent before the
state changes: an ACK on the wire belongs to a client in COMPLETED or later.

### 5.2 Transport

    IInv == TypeOK /\ InPlace /\ Listed /\ RefsAccounted

`Share(th, l)` is what a thread at `l` has in the counter: its own reference if it is
a user, another while the callbacks of a shutdown run. `Balance` says that a step in
which one thread moves and the counter changes by the difference of its shares keeps
the sum; every action is an instance. `InPlace` is needed because a shutdown is
entered from four places and returns to where it came from: only a user that shuts
down from within its send still has a reference of its own. `Listed` is needed for
the steps in which the socket answers a user: the user is one that waits.

### 5.3 Registration

    IInv == TypeOK /\ BusyAccounted /\ FreedQuiet /\ OneRequest /\ OpKept /\ Refreshed

`BusyAccounted` counts a worker that sends from within its callback twice, and goes
by shares as above. `OneRequest` says that there is one request at most, to be sent,
out, or just answered, and that `has_tsx` is set meanwhile: so nobody finds the
registration free to be destroyed. `OpKept` says that `current_op` is that request's unless
a user's `tsx_cb` came in between. `Refreshed` says where a thread is when neither
the timer nor `has_tsx` is set but a refresh is still seen to; `NoLostRefresh`
says less of where, and is not inductive.

### 5.4 Dialog

    IInv == TypeOK /\ CountsAccounted /\ Locked /\ Known /\ Watched /\ Final

`Locked` ties `own` to the places of the threads, `Known` says that a thread reports
a transaction that exists, `Watched` that it is still counted, and `Final` that
while neither race was lost only one thread is on its way to destroy the dialog, with
both counters at zero. `LocksOrdered` does not need the counts: without the four
waits it exempts, a thread that waits for the dialog's lock holds at most one
transaction's, one that holds the dialog's waits for the user agent's, and who holds
that waits for nothing, so that there is no circle among any number of threads.

### 5.5 Invite session

    IInv == TypeOK /\ Calls /\ Callers /\ Offers /\ CallerKnows

`Calls` places each INVITE: INVITEs are numbered in the order they were sent, the one
that is pending is `invite_tsx`, an INVITE that travels is open at its sender and
unknown to its receiver, a provisional answer meets an INVITE that is open. `Glareless`
is the property of one session; it is kept because both ends refuse a second INVITE
with 491 or wait, and that needs to know where the first one is. `Callers` says
how far the caller has come when the callee moves on, and that a cause of 408 or 503
(`Passing`) means a missing ACK. `Offers` has for each session that an open offer
after the call was established belongs to an INVITE that was not rejected. There is a
lemma per helper (what it changes of the session, what it sends), one per
handler, and one per part of `IInv` and action.

`AgreementReached` has an invariant of its own, `Accord`, about the time in which no
ACK has lapsed and no end is DISCONNECTED. Of all INVITEs at most one is served then,
and its state ties the two negotiators: while it is unanswered (`Waits`) the server
has no description, or the caller's offer, or has made one in turn, or has answered;
once the caller has acknowledged it (`Acked`) both use the same, or will when
the ACK arrives. When none is served both use the same pair, which is
`<<d, d>>`. `Bears` says of each message what description it carries. What has lapsed or
is DISCONNECTED stays so (`Lasts`), so that only steps within that time count.
`OffersClosed` needs it too: that an offer of the other end's, or an answer not yet
delivered, has its INVITE follows only from where that INVITE is at both ends.

### 5.6 ICE

    IInv == World /\ Sessions /\ RolesOk /\ (\A m \in net : Shows(m, ...)) /\ (Calm => Nominated)

*Roles.* The end with the greater tie-breaker is `Correct` when it controls, the other
when it does not. One end is correct from the start, as it is in any initial
choice of roles, and none ever turns wrong: a request that meets a wrong end corrects
it or is answered 487 by a correct one, and a 487 shows its receiver what the sender
is. A success is sent to a correct end only (`Shows`), so that a wrong one has an empty
valid list (`RolesOk`) and cannot succeed.

*Nominations* (where roles do not conflict). The caller nominates; the callee marks a
check only for a request that says so, and by then the caller has marked its own. The
other direction is the hard one: the caller takes a pair for nominated when a *success*
comes for a check that is nominated, and that check may have been made twice, first
without the flag. `Nominates` is why the response is to the nominating request: of a
check not nominated at most one message is under way, and none if the check waits to be
made, or has succeeded and may be made again; so what is under way of a nominated check
has the flag. A STUN transaction that gives up takes its messages with it, or can only
remove some.

Each operator of a session keeps `Good`, and what it does is summed up in
`Goes(v, w, xs, vs)`: checks and marks only grow, by the pairs `xs` the peer nominates;
pairs become valid only from `vs`, whose response has come; what is sent are requests
for checks. `StepKept` turns this into the invariant of both ends. The early checks are
handled in a loop, a recursive function of the model, whose existence and effect are proved
by the least number that would be an exception.

### 5.7 Timer heap

    HeapIInv == Sound(h) /\ now \in 0 .. MaxTime /\ Polling /\ Scheduling /\ LocksAccounted

`Sound(g)` is about one heap: its slots are filled, the id of the entry in slot `s`
leads back to `s` (`Seated`), no entry is before its parent (`Order`), at least two
places are unused, the unused ids form a chain, and what is not pending has no id.
Every operation of the code breaks it and repairs it: `RemoveSound` and `ScheduleSound`
follow a heap from one to the other.

*The way.* `reheap_up()` and `reheap_down()` move nodes along a path. A path in which
every step goes down by some measure is a line (`PathLine`): each of its places has one
successor, none comes twice, it ends where there is no next, and every place but the
first has a predecessor. So moving the nodes along it (`ShiftFills`) fills the hole and
loses or doubles no entry, and the table follows. `UpFrom` and `DownFrom` say what the
hole must satisfy for the way up and the way down to restore the order; `remove_node()`
meets one of them, by the test that chooses between the two.

*The chain.* `Chained` gives each unused place its distance from the end, `max_size`.
Taking the first place off, putting one in front and doubling the table change the
ranks in an evident way (`ChainPop`, `ChainPush`, `ChainGrow`), so that the number of
free ids is exact and, as two places are always unused, never zero when one is taken.
`ChainPath` brings the ranks back to what `Located` says of the path from `free`.

*Those that use it.* `Scheduling` is what the test outside the lock must establish, and
holds because nobody else schedules the same entry (the schedule of one entry by two
threads at once is what the model excludes, and section 6 describes). `Polling` says
that a poll goes by a clock that was read before, so that what is due by it is due.
`LocksAccounted` is inductive. The refinement maps a poll's step to `Take` of the first
entry, which `FirstLemma` shows to be the earliest of all, not only of its branch.

The assumptions are that the entries and pollers are finite sets and that `None` is no
entry. The size of the heap (`Count`) may be zero.

### 5.8 Only model-checked

* **Liveness** and whatever needs fairness or `ENABLED`, which this prover does not
  do: the ends that must come, and the progress that is part of `TsxLifecycle`, whose
  safety half is `LifecycleCorrect`.
* The safety half of ICE's **`Told`**, that no report comes twice.

Every other safety property and every action property the passing runs check is a
theorem, some of them under the hypotheses this section names. The liveness properties
hold for the instances of section 4.

## 6. Disagreements between the code and its own words

Two runs show one each.

* `v_unused`: *Must have no user* (`sip_transport.c:1149`). The idle callback tests
  the counter without the manager's lock; who acquires the transport after the test
  holds one that is destroyed.
* `v_deadlock`: *Must acquire dialog first, to prevent deadlock*
  (`sip_dialog.c:1459`) and *it must lock the user agent's dialog table first, to
  prevent deadlock* (839). `pjsip_dlg_send_response()` takes the transaction's lock
  after the dialog's, a notification of that transaction the dialog's after its own.

Others were met while modelling. They have no run; where one bears on a property,
section 4 names the exemption.

* Transaction: the comment on timer I (3104) says the reverse of lines 3106-3112;
  *Send later if transport is still pending* (2013), but a message queued behind a
  send on the attached transport stays queued; *New state must be greater than
  previous state* (1171), but `pjsip_tsx_terminate` tests the state before the lock
  (1613); a transport error posted in TERMINATED replaces the timer that would
  destroy the transaction (1995) and is then ignored (1101); the assertions at 1222,
  2783, 2798 and 3176 can fail; `pjsip_tsx_stop_retransmit` leaves the mark that
  starts the retransmission again.
* Dialog: between 896 and 897 of `sip_dialog.c` a request may enter a dialog about
  to be destroyed, and the assertions at 744 and 747 fail; an ACK's
  `pjsip_tsx_terminate` racing a transport error; an error report overtaken by
  DESTROYED leaves `tsx_count` too high; a CANCEL waits for a transaction's lock with
  the user agent's mutex (`sip_ua_layer.c:543`); `pjsip_ua_find_dialog` locks the
  dialog after it let go of the table (*THIS MAY CAUSE RACE CONDITION!*, 488); a callee
  whose own early request gets 408 or 481 is DISCONNECTED and never answers the INVITE.
* Invite session: a CANCEL that crosses the 200 leaves the call up though its user
  hung up, while `pjsua.h:4550` says it *will hangup the call regardless of the state
  and role of the call*; a late 200 replaces the cached ACK (2906); an own offer that
  is cancelled before anything was negotiated, as by an ACK without the answer, follows
  a null `active_local_sdp` (`sdp_neg.c:1404`).
* Registration: the assertion that `current_op` is idle (1365) fails when `tsx_cb`
  sends; the counter is dropped before `_delete_flag` is read (1440), so two threads
  may destroy; EBUSY returns without that look (1361).
* Transport: `sip_transport_tcp.c` 1353 (a message queued after the list was
  emptied), 700 (an expired message loses its callback), 1475 (keep-alive armed again
  after shutdown).
* Timer heap: the test that an entry is not yet scheduled is made without the lock
  (499); two threads that pass it leave two slots with one id.
* ICE: *application will be notified about the connectivity check status in
  #pj_ice_sess_cb callback* (`ice_session.h:911`), but a thread that has taken the timer
  reads the id too late (1118), or resets it, after another has completed the session
  and scheduled the report, and the report is wiped out; in the other order two threads
  read the id of the report and the user is told twice. A check that cannot be sent
  makes `start_periodic_check()` return (1872-1877) with nothing scheduled: the session
  neither succeeds nor fails. With aggressive nomination each end stops at its first
  success, and the two may use different pairs, while `ice_test.c:619` says *Verify that
  both agents have agreed on the same pair*. A packet or an early check for a component that was dropped trips
  the assertion of `find_comp()` (563), and a start without a check for component 1 the
  one at 2051: both can happen, when the peer's answer has fewer candidates.

## 7. What is left, in order

1. **Two schedules of one entry.** The race of `timer.c` 499 as a run of its own, with
   what is left of the heap's promises after it.
2. **Retransmission times**: `1 << retransmit_count`, T1, T2 and the cap in 32 bits.
3. **`TsxLayer`**: the hash table and its mutex, stop and unload against a
   transaction's lock. **`GroupLock`**: chains and replace.
4. **`SessionTimer`**, **`Reliable`** (100rel) over `InviteSession`; **`Evsub`** over
   `Dialog`; the order of pjsua's mutex and the dialog's.
5. **STUN** transaction and **TURN** allocation under `IceSession`; the resolver; the
   jitter buffer as a pure algorithm against a list; the closing of an I/O key.

**Not modelled, and why.** Of the modelled parts: failing allocations, forking,
route sets, capabilities, UPDATE, PRACK, session timers, redirection, several
transports and factories, ICE gathering, keep-alives and destruction, negotiations
of media lines. Of the rest: parsing and printing of messages, codecs, devices and
signal processing, third-party code, sample applications and build scripts, which
are most of the repository's lines; their difficulty is not in their control.
