------------------------------- MODULE TimerHeap -------------------------------
(***************************************************************************)
(* The timer heap of pjlib: an array ordered as a binary heap by expiry    *)
(* time, and beside it the table that takes an entry's timer id to its     *)
(* slot, whose unused places are chained into a list of free ids by        *)
(* negative values.  Both start small and double when they fill.  What the *)
(* code does under the heap's lock is one step; the callbacks of a poll    *)
(* run without it, and the test of schedule_w_grp_lock() comes before it.  *)
(***************************************************************************)
EXTENDS Integers, FiniteSets, Functions

CONSTANTS Entries,       \* the timer entries
          Locked,        \* those scheduled with a group lock
          Pollers,       \* the threads that call pj_timer_heap_poll()
          Schedulers,    \* the threads that call pj_timer_heap_schedule()
          Count,         \* the size the heap is created with
          MaxTime,       \* bound of the clock
          MaxPoll,       \* max_entries_per_poll
          MaxScheduled   \* bound of the schedules of a behaviour

None == "none"

ASSUME HeapAssumption ==
    /\ IsFiniteSet(Entries) /\ Locked \subseteq Entries /\ None \notin Entries
    /\ IsFiniteSet(Pollers) /\ Pollers \cap Schedulers = {}
    /\ Count \in Nat /\ MaxTime \in Nat /\ MaxPoll \in Nat \ {0}
    /\ MaxScheduled \in Nat

VARIABLES h,       \* the heap, and the fields of its entries
          now,     \* the clock
          poll,    \* what each poller is doing
          todo,    \* what each scheduler is about to insert
          left     \* the schedules the bound still allows

heapVars == <<h, now, poll, todo, left>>

(* pj_timer_heap_create().  The entries are zeroed memory: their id 0 is   *)
(* one the heap never gives out.                                           *)
NewHeap == [heap |-> << >>, size |-> 0,
            ids  |-> [i \in 0 .. Count + 1 |-> -(i + 1)],
            free |-> 1,
            tid  |-> [e \in Entries |-> 0],
            time |-> [e \in Entries |-> 0],
            lock |-> {}, refs |-> 0]

Idle == [at |-> 0, count |-> 0, entry |-> None, ref |-> FALSE]
Nothing == [entry |-> None, expires |-> 0]

HeapInit == /\ h = NewHeap
            /\ now = 0
            /\ poll = [w \in Pollers |-> Idle]
            /\ todo = [s \in Schedulers |-> Nothing]
            /\ left = MaxScheduled

-----------------------------------------------------------------------------
(* The array and the table.                                                *)

MaxSize(g) == Cardinality(DOMAIN g.ids)
Parent(s) == IF s = 0 THEN 0 ELSE (s - 1) \div 2
Left(s) == s + s + 1
Slots(g) == 0 .. g.size - 1

(* The places that are reached from i, one leading to the next.            *)
Path(next, i) ==
    LET places == {i} \cup DOMAIN next \cup Range(next)
        path[p \in places] == {p} \cup (IF p \in DOMAIN next THEN path[next[p]] ELSE {})
    IN  path[i]

(* copy_node() along a path of slots: each takes what the next one held,   *)
(* the last one takes n, and the table follows.                            *)
Shift(g, next, slot, n) ==
    LET path    == Path(next, slot)
        node(s) == IF s \in DOMAIN next THEN g.heap[next[s]] ELSE n
    IN  [g EXCEPT !.heap = [s \in DOMAIN g.heap \cup path |->
                              IF s \in path THEN node(s) ELSE g.heap[s]],
                  !.ids  = [i \in DOMAIN g.ids |->
                              IF \E s \in path : g.tid[node(s)] = i
                              THEN CHOOSE s \in path : g.tid[node(s)] = i ELSE g.ids[i]]]

(* The way up passes the parents that expire later than n.                 *)
ReheapUp(g, n, slot) ==
    LET passed == {s \in 1 .. g.size : g.time[n] < g.time[g.heap[Parent(s)]]}
    IN  Shift(g, [s \in passed |-> Parent(s)], slot, n)

(* Plausible bug: the way down always looks at the left child.            *)
ReheapDown_left(g, n, slot) ==
    LET passed == {s \in Slots(g) : /\ Left(s) < g.size
                                    /\ g.time[g.heap[Left(s)]] < g.time[n]}
    IN  Shift(g, [s \in passed |-> Left(s)], slot, n)

(* The way down passes the earlier child as long as it is before n.        *)
ReheapDown(g, n, slot) ==
    LET child(s) == IF /\ Left(s) + 1 < g.size
                       /\ g.time[g.heap[Left(s) + 1]] < g.time[g.heap[Left(s)]]
                    THEN Left(s) + 1 ELSE Left(s)
        passed == {s \in Slots(g) : /\ Left(s) < g.size
                                    /\ g.time[g.heap[child(s)]] < g.time[n]}
    IN  Shift(g, [s \in passed |-> child(s)], slot, n)

PopFreelist(g, e) == [g EXCEPT !.tid[e] = g.free, !.free = -g.ids[g.free]]

(* Plausible bug: the entry keeps the id it has given back.                *)
PushFreelist_kept(g, e) == [g EXCEPT !.ids[g.tid[e]] = -g.free, !.free = g.tid[e],
                                     !.time[e] = 0]

(* The time of an entry that has left the heap is not read again.          *)
PushFreelist(g, e) == [g EXCEPT !.ids[g.tid[e]] = -g.free, !.free = g.tid[e],
                                !.tid[e] = -1, !.time[e] = 0]

(* The last node fills the hole and moves up or down from there.           *)
RemoveNode(g, slot) ==
    LET last == g.size - 1
        n    == g.heap[last]
        r    == [PushFreelist(g, g.heap[slot]) EXCEPT
                   !.size = last, !.heap = Restrict(@, 0 .. last - 1)]
    IN  IF slot = last THEN r
        ELSE IF slot = 0 \/ g.time[n] >= g.time[g.heap[Parent(slot)]]
             THEN ReheapDown(r, n, slot)
             ELSE ReheapUp(r, n, slot)

GrowHeap(g) ==
    LET m == MaxSize(g)
    IN  [g EXCEPT !.ids = [i \in 0 .. 2 * m - 1 |-> IF i < m THEN @[i] ELSE -(i + 1)]]

InsertNode(g, e) ==
    LET r == IF g.size + 2 >= MaxSize(g) THEN GrowHeap(g) ELSE g
    IN  [ReheapUp(r, e, r.size) EXCEPT !.size = @ + 1]

(* schedule_entry(), with the reference on the group lock.                 *)
ScheduleEntry(g, e, t) ==
    LET r == InsertNode([PopFreelist(g, e) EXCEPT !.time[e] = t], e)
    IN  IF e \in Locked THEN [r EXCEPT !.lock = @ \cup {e}, !.refs = @ + 1] ELSE r

(* cancel() finds the entry through its id; the test admits max_size.      *)
FoundBy(g, e) == /\ g.tid[e] >= 0 /\ g.tid[e] <= MaxSize(g)
                 /\ g.ids[g.tid[e]] >= 0
                 /\ g.heap[g.ids[g.tid[e]]] = e

(* Plausible bug: cancelling leaves the reference on the group lock.       *)
CancelTimer_leak(g, e) ==
    LET r == IF FoundBy(g, e) THEN RemoveNode(g, g.ids[g.tid[e]]) ELSE g
    IN  [r EXCEPT !.lock = @ \ {e}]

(* cancel_timer().                                                         *)
CancelTimer(g, e) ==
    LET r == IF FoundBy(g, e) THEN RemoveNode(g, g.ids[g.tid[e]]) ELSE g
    IN  IF e \in g.lock THEN [r EXCEPT !.lock = @ \ {e}, !.refs = @ - 1] ELSE r

-----------------------------------------------------------------------------
(* The operations.                                                         *)

Tick == now < MaxTime /\ now' = now + 1 /\ UNCHANGED <<h, poll, todo, left>>

(* schedule_w_grp_lock() before it has the lock: the entry is not          *)
(* scheduled, and the time is worked out.  Two threads that schedule the   *)
(* same entry at once are left out: both would pass the test.              *)
Schedule(s, e) == /\ todo[s] = Nothing /\ h.tid[e] < 1
                  /\ left > 0 /\ left' = left - 1
                  /\ \A x \in Schedulers : todo[x].entry # e
                  /\ \E t \in now .. MaxTime :
                       todo' = [todo EXCEPT ![s] = [entry |-> e, expires |-> t]]
                  /\ UNCHANGED <<h, now, poll>>

ScheduleLocked(s) == /\ todo[s] # Nothing
                     /\ h' = ScheduleEntry(h, todo[s].entry, todo[s].expires)
                     /\ todo' = [todo EXCEPT ![s] = Nothing]
                     /\ UNCHANGED <<now, poll, left>>

Cancel(e) == /\ FoundBy(h, e) \/ e \in h.lock
             /\ h' = CancelTimer(h, e)
             /\ UNCHANGED <<now, poll, todo, left>>

(* The first entry, if it is due at t and c were taken before it: off the  *)
(* heap, its reference to the group lock with the poll.                    *)
Hand(g, w, t, c) ==
    /\ g.size > 0 /\ g.time[g.heap[0]] <= t /\ c < MaxPoll
    /\ LET e == g.heap[0]
       IN  /\ h' = [RemoveNode(g, 0) EXCEPT !.lock = @ \ {e}]
           /\ poll' = [poll EXCEPT ![w] = [at |-> t, count |-> c + 1, entry |-> e,
                                           ref |-> e \in g.lock]]

(* pj_timer_heap_poll(): the clock is read once for all it takes.          *)
Poll(w) == poll[w] = Idle /\ Hand(h, w, now, 0) /\ UNCHANGED <<now, todo, left>>

(* The callback is over: its reference is given back, which nothing here   *)
(* reads before the poll has the lock again.                               *)
Released(w) == IF poll[w].ref THEN [h EXCEPT !.refs = @ - 1] ELSE h

PollNext(w) == /\ poll[w] # Idle
               /\ Hand(Released(w), w, poll[w].at, poll[w].count)
               /\ UNCHANGED <<now, todo, left>>

PollDone(w) == /\ poll[w] # Idle
               /\ \/ h.size = 0 \/ poll[w].count >= MaxPoll
                  \/ h.size > 0 /\ h.time[h.heap[0]] > poll[w].at
               /\ h' = Released(w)
               /\ poll' = [poll EXCEPT ![w] = Idle]
               /\ UNCHANGED <<now, todo, left>>

HeapNext == \/ Tick
            \/ \E s \in Schedulers : (\E e \in Entries : Schedule(s, e)) \/ ScheduleLocked(s)
            \/ \E e \in Entries : Cancel(e)
            \/ \E w \in Pollers : Poll(w) \/ PollNext(w) \/ PollDone(w)

HeapSpec == HeapInit /\ [][HeapNext]_heapVars

-----------------------------------------------------------------------------
(* Properties.                                                             *)

Pending(g) == {g.heap[s] : s \in Slots(g)}

(* The two halves of cancel() agree: an entry in the heap is found through *)
(* its id at its own slot, any other has no id, and no id reaches max_size,*)
(* which the range test of cancel() would let through.  Across all that    *)
(* growing and reuse did to it the chain of free ids goes through every    *)
(* unused place once, and never runs out before a schedule.                *)
Located ==
    LET unused == {i \in 1 .. MaxSize(h) - 1 : h.ids[i] < 0}
    IN  /\ \A s \in Slots(h) : /\ h.tid[h.heap[s]] \in 1 .. MaxSize(h) - 1
                               /\ h.ids[h.tid[h.heap[s]]] = s
        /\ \A e \in Entries \ Pending(h) : h.tid[e] \in {-1, 0}
        /\ h.free \in unused
        /\ Path([i \in unused |-> -h.ids[i]], h.free) = unused \cup {MaxSize(h)}
        /\ Cardinality(unused) = MaxSize(h) - 1 - h.size

(* The group locks are held once for each entry pending with one and once  *)
(* for each callback that runs for such an entry.                          *)
LocksAccounted ==
    /\ h.lock = Pending(h) \cap Locked
    /\ h.refs = Cardinality(h.lock) + Cardinality({w \in Pollers : poll[w].ref})

(* Whatever was scheduled, cancelled and rescheduled while callbacks ran,  *)
(* polls hand out each entry once per schedule, the earliest first and not *)
(* before its time.                                                        *)
Service == INSTANCE TimerService WITH
    pending <- [e \in Pending(h) |-> h.time[e]],
    running <- [w \in Pollers |-> {poll[w].entry} \ {None}]

ServiceSpec == Service!Spec

=============================================================================
