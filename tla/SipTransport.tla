------------------------------ MODULE SipTransport ------------------------------
(***************************************************************************)
(* A TCP transport and its manager: the reference counter with the idle    *)
(* timer that destroys an unused transport, the graceful shutdown, the     *)
(* messages kept back until the connection is made, and the keep-alive     *)
(* timer.  Users are what holds references (transactions, stateless        *)
(* sends); one thread runs the callbacks of the socket; workers poll the   *)
(* timer heap.  The counter is atomic and is changed without a lock; a     *)
(* section under the manager's or the transport's lock is one step, save   *)
(* where another thread can act on what it reads meanwhile.  Once the      *)
(* memory is gone nothing more is modelled.                                *)
(***************************************************************************)
EXTENDS Naturals, FiniteSets

CONSTANTS Users,      \* who takes references and sends
          Workers,    \* the threads that poll timers
          Io,         \* the thread that polls the socket
          Faults      \* of "refused", "closed", "error", "expired"

ASSUME TransportAssumption ==
    /\ IsFiniteSet(Users) /\ IsFiniteSet(Workers)
    /\ Users \cap Workers = {} /\ Io \notin Users \cup Workers
    /\ Faults \subseteq {"refused", "closed", "error", "expired"}

Threads == Users \cup Workers \cup {Io}

VARIABLES tp,      \* the transport
          heap,    \* its entries in the timer heap: "idle", "ka"
          pc,      \* where each thread is
          ret      \* where it goes on after a shutdown or a release

vars == <<tp, heap, pc, ret>>

(* An outgoing transport comes from an acquire, which holds its first      *)
(* reference; an incoming one is connected, and nobody's.                  *)
NewTransport(ref, connecting) ==
    [ref |-> ref, idle |-> FALSE, ka |-> ~connecting,
     reg |-> TRUE, shut |-> FALSE, dying |-> FALSE, freed |-> FALSE,
     connecting |-> connecting, failed |-> FALSE, eof |-> FALSE,
     delayed |-> {}, sending |-> {}]

Init == /\ \/ /\ tp = NewTransport(0, FALSE) /\ heap = {"ka"}
              /\ pc = [th \in Threads |-> "idle"]
           \/ /\ tp = NewTransport(1, TRUE) /\ heap = {}
              /\ \E u \in Users :
                   pc = [th \in Threads |-> IF th = u THEN "has" ELSE "idle"]
        /\ ret = [th \in Threads |-> "idle"]

Goto(th, l) == pc' = [pc EXCEPT ![th] = l]
Call(th, l, back) == Goto(th, l) /\ ret' = [ret EXCEPT ![th] = back]

(* Only an acquire keeps the manager's lock over the increment, and only   *)
(* the queueing of a message keeps the transport's over two steps.         *)
MgrUnlocked == \A u \in Users : pc[u] # "added"
Unlocked == \A u \in Users : pc[u] # "queueing"

-----------------------------------------------------------------------------
(* The reference counter.                                                  *)

(* pj_atomic_inc_and_get() made the counter 1: under the manager's lock,   *)
(* if it still is, the idle timer is cancelled.                            *)
Verify(th) ==
    /\ \/ pc[th] = "added" /\ Goto(th, "has")
       \/ pc[th] = "raised" /\ MgrUnlocked /\ Goto(th, "has")
       \/ pc[th] = "init_raised" /\ MgrUnlocked /\ Goto(th, "told")
    /\ IF tp.ref = 1 /\ tp.idle
       THEN tp' = [tp EXCEPT !.idle = FALSE] /\ heap' = heap \ {"idle"}
       ELSE UNCHANGED <<tp, heap>>
    /\ UNCHANGED ret

(* pjsip_transport_dec_ref(), to go on at back; the atomic part.           *)
DecRef(th, back) ==
    /\ tp' = [tp EXCEPT !.ref = @ - 1]
    /\ IF tp.ref = 1 THEN Call(th, "dropped", back) ELSE Goto(th, back) /\ UNCHANGED ret
    /\ UNCHANGED heap

(* Plausible bug: the timer is not started for a transport shut down.      *)
Dropped_shut(th) ==
    /\ pc[th] = "dropped" /\ MgrUnlocked
    /\ IF tp.ref = 0 /\ ~tp.dying /\ ~tp.shut
       THEN tp' = [tp EXCEPT !.idle = TRUE] /\ heap' = heap \cup {"idle"}
       ELSE UNCHANGED <<tp, heap>>
    /\ Goto(th, ret[th]) /\ UNCHANGED ret

(* ... which made it zero: if it still is, the idle timer is started.  A   *)
(* timer that is in the heap already is left as it is.                     *)
Dropped(th) ==
    /\ pc[th] = "dropped" /\ MgrUnlocked
    /\ IF tp.ref = 0 /\ ~tp.dying
       THEN tp' = [tp EXCEPT !.idle = TRUE] /\ heap' = heap \cup {"idle"}
       ELSE UNCHANGED <<tp, heap>>
    /\ Goto(th, ret[th]) /\ UNCHANGED ret

-----------------------------------------------------------------------------
(* tcp_init_shutdown(): nothing if it was begun; otherwise the reference   *)
(* that keeps the transport over the callbacks, the DISCONNECTED report,   *)
(* pjsip_transport_shutdown(), and the release.                            *)
InitShutdown(th, back) == IF tp.shut \/ tp.dying THEN Goto(th, back) /\ UNCHANGED ret
                          ELSE Call(th, "init", back)

InitRef(th) == /\ pc[th] = "init"
               /\ tp' = [tp EXCEPT !.ref = @ + 1]
               /\ Goto(th, IF tp.ref = 0 THEN "init_raised" ELSE "told")
               /\ UNCHANGED <<heap, ret>>

Shutdown(th) == /\ pc[th] = "told" /\ Unlocked /\ MgrUnlocked
                /\ IF tp.shut \/ tp.dying THEN UNCHANGED <<tp, heap>>
                   ELSE /\ tp' = [tp EXCEPT !.shut = TRUE, !.ka = FALSE]
                        /\ heap' = IF tp.ka THEN heap \ {"ka"} ELSE heap
                /\ Goto(th, "unref") /\ UNCHANGED ret

(* Plausible bug: the second test returns without the release.             *)
InitUnref_kept(th) == /\ pc[th] = "unref"
                      /\ Goto(th, ret[th]) /\ UNCHANGED <<tp, heap, ret>>

InitUnref(th) == pc[th] = "unref" /\ DecRef(th, ret[th])

Thread(th) == Verify(th) \/ Dropped(th) \/ InitRef(th) \/ Shutdown(th) \/ InitUnref(th)

-----------------------------------------------------------------------------
(* A user.                                                                 *)

(* pjsip_tpmgr_acquire_transport() finds it in the table.                  *)
Acquire(u) == /\ pc[u] = "idle" /\ MgrUnlocked
              /\ tp.reg /\ ~tp.shut
              /\ tp' = [tp EXCEPT !.ref = @ + 1]
              /\ Goto(u, IF tp.ref = 0 THEN "added" ELSE "has")
              /\ UNCHANGED <<heap, ret>>

(* pj_activesock_send(): done, under way, or failed at once.               *)
SendNow(u) ==
    \/ Goto(u, "done") /\ UNCHANGED <<tp, ret>>
    \/ Goto(u, "waiting") /\ tp' = [tp EXCEPT !.sending = @ \cup {u}] /\ UNCHANGED ret
    \/ "error" \in Faults /\ InitShutdown(u, "done") /\ UNCHANGED tp

(* tcp_send_msg(), for a user that holds a reference: while the connection *)
(* is being made, the test of that and the queueing are under the lock.    *)
Send(u) == /\ pc[u] = "has"
           /\ \/ tp.connecting /\ Unlocked /\ Goto(u, "queueing") /\ UNCHANGED <<tp, ret>>
              \/ ~tp.connecting /\ SendNow(u)
           /\ UNCHANGED heap

Queue(u) == /\ pc[u] = "queueing"
            /\ tp' = [tp EXCEPT !.delayed = @ \cup {u}]
            /\ Goto(u, "waiting")
            /\ UNCHANGED <<heap, ret>>

(* The user lets its reference go, at the latest when its send is over.    *)
Release(u) == pc[u] \in {"has", "done"} /\ DecRef(u, "idle")

-----------------------------------------------------------------------------
(* The socket.                                                             *)

IoIdle == pc[Io] = "idle" /\ \A u \in Users : pc[u] # "raised"

(* on_connect_complete().  That tcp_start_read() fails, and the messages   *)
(* kept back are not flushed, is left out with the other allocations.      *)
ConnectComplete ==
    /\ IoIdle /\ tp.connecting
    /\ \/ /\ tp' = [tp EXCEPT !.connecting = FALSE]
          /\ Goto(Io, "flush")
       \/ /\ "refused" \in Faults
          /\ tp' = [tp EXCEPT !.connecting = FALSE, !.failed = TRUE]
          /\ Goto(Io, "drain")
    /\ UNCHANGED <<heap, ret>>

(* on_data_sent() of u's message, here with success.                       *)
Sent(u, l) == pc' = [pc EXCEPT ![u] = "done", ![Io] = l]

(* ... and with an error: the callback, then the shutdown.                 *)
SendFailed(u, back) ==
    IF tp.shut \/ tp.dying THEN Sent(u, back) /\ UNCHANGED ret
    ELSE Sent(u, "init") /\ ret' = [ret EXCEPT ![Io] = back]

(* Plausible bug: the flush takes one message only.                        *)
Flush_one == /\ pc[Io] = "flush" /\ Unlocked
             /\ \/ \E u \in tp.delayed :
                     /\ tp' = [tp EXCEPT !.delayed = @ \ {u}, !.ka = TRUE]
                     /\ heap' = heap \cup {"ka"}
                     /\ Sent(u, "idle")
                \/ /\ tp.delayed = {}
                   /\ tp' = [tp EXCEPT !.ka = TRUE] /\ heap' = heap \cup {"ka"}
                   /\ Goto(Io, "idle")
             /\ UNCHANGED ret

(* tcp_flush_pending_tx(): a request that waited too long is taken off the *)
(* list and nobody is told.  Then the keep-alive timer is started.         *)
Flush == /\ pc[Io] = "flush" /\ Unlocked
         /\ \/ \E u \in tp.delayed :
                 /\ \/ /\ tp' = [tp EXCEPT !.delayed = @ \ {u}]
                       /\ \/ Sent(u, "flush") /\ UNCHANGED ret
                          \/ "error" \in Faults /\ SendFailed(u, "flush")
                          \/ "expired" \in Faults /\ UNCHANGED ret
                             /\ pc' = [pc EXCEPT ![u] = "lost"]
                    \/ /\ tp' = [tp EXCEPT !.delayed = @ \ {u}, !.sending = @ \cup {u}]
                       /\ UNCHANGED <<pc, ret>>
                 /\ UNCHANGED heap
            \/ /\ tp.delayed = {}
               /\ tp' = [tp EXCEPT !.ka = TRUE] /\ heap' = heap \cup {"ka"}
               /\ Goto(Io, "idle") /\ UNCHANGED ret

(* The messages of a connection that failed, without the lock.             *)
Drain == /\ pc[Io] = "drain"
         /\ \/ \E u \in tp.delayed :
                 /\ tp' = [tp EXCEPT !.delayed = @ \ {u}]
                 /\ SendFailed(u, "drain")
            \/ tp.delayed = {} /\ InitShutdown(Io, "idle") /\ UNCHANGED tp
         /\ UNCHANGED heap

DataSent == /\ IoIdle
            /\ \E u \in tp.sending :
                 /\ tp' = [tp EXCEPT !.sending = @ \ {u}]
                 /\ \/ Sent(u, "idle") /\ UNCHANGED ret
                    \/ "error" \in Faults /\ SendFailed(u, "idle")
            /\ UNCHANGED heap

Reading == IoIdle /\ ~tp.connecting /\ ~tp.failed /\ ~tp.eof

(* on_data_read(): the user of a message takes a reference for itself,     *)
(* without the manager's lock.                                             *)
Receive(u) == /\ Reading /\ pc[u] = "idle"
              /\ tp' = [tp EXCEPT !.ref = @ + 1]
              /\ Goto(u, IF tp.ref = 0 THEN "raised" ELSE "has")
              /\ UNCHANGED <<heap, ret>>

Closed == /\ "closed" \in Faults /\ Reading
          /\ tp' = [tp EXCEPT !.eof = TRUE]
          /\ InitShutdown(Io, "idle")
          /\ UNCHANGED heap

-----------------------------------------------------------------------------
(* The timers.                                                             *)

Pop(w, e) == /\ pc[w] = "idle" /\ e \in heap
             /\ heap' = heap \ {e}
             /\ Goto(w, IF e = "idle" THEN "idle_popped" ELSE "ka_popped")
             /\ UNCHANGED <<tp, ret>>

(* transport_idle_callback() clears the id without a lock ...              *)
IdleCallback(w) == /\ pc[w] = "idle_popped"
                   /\ tp' = [tp EXCEPT !.idle = FALSE]
                   /\ Goto(w, "test") /\ UNCHANGED <<heap, ret>>

(* ... and pjsip_transport_destroy() tests the counter without one.        *)
DestroyTest(w) == /\ pc[w] = "test"
                  /\ Goto(w, IF tp.ref = 0 THEN "destroy" ELSE "idle")
                  /\ UNCHANGED <<tp, heap, ret>>

(* destroy_transport() and tcp_destroy(): timers whose id is set are       *)
(* cancelled, what was kept back is reported as failed, and the socket is  *)
(* closed on what is under way.                                            *)
Destroy(w) == /\ pc[w] = "destroy" /\ Unlocked /\ MgrUnlocked
              /\ heap' = heap \ ((IF tp.idle THEN {"idle"} ELSE {})
                                 \cup (IF tp.ka THEN {"ka"} ELSE {}))
              /\ pc' = [th \in Threads |->
                          IF th = w THEN "idle"
                          ELSE IF th \in tp.delayed THEN "done" ELSE pc[th]]
              /\ tp' = [tp EXCEPT !.dying = TRUE, !.freed = TRUE, !.reg = FALSE,
                                  !.idle = FALSE, !.ka = FALSE, !.delayed = {}]
              /\ UNCHANGED ret

(* tcp_keep_alive_timer(): armed again after activity or a send, not after *)
(* a send that fails.                                                      *)
KeepAlive(w) ==
    /\ pc[w] = "ka_popped"
    /\ tp' = [tp EXCEPT !.ka = TRUE]
    /\ \/ heap' = heap \cup {"ka"} /\ Goto(w, "idle") /\ UNCHANGED ret
       \/ "error" \in Faults /\ UNCHANGED heap /\ InitShutdown(w, "idle")

-----------------------------------------------------------------------------
Worker(w) == \/ \E e \in {"idle", "ka"} : Pop(w, e)
             \/ IdleCallback(w) \/ DestroyTest(w) \/ Destroy(w) \/ KeepAlive(w)

Socket == ConnectComplete \/ Flush \/ Drain \/ DataSent

Step == \/ \E th \in Threads : Thread(th)
        \/ \E u \in Users : Acquire(u) \/ Send(u) \/ Queue(u) \/ Release(u) \/ Receive(u)
        \/ Socket \/ Closed
        \/ \E w \in Workers : Worker(w)

Next == ~tp.freed /\ Step

Spec == Init /\ [][Next]_vars

(* A thread in the code goes on, the network answers a connect and a send, *)
(* an idle timer is polled (it is due before the next keep-alive), and a   *)
(* user sends or lets go, and lets go after that.                          *)
Fairness == /\ \A th \in Threads : WF_vars(~tp.freed /\ Thread(th))
            /\ \A u \in Users : WF_vars(~tp.freed /\ (Send(u) \/ Queue(u) \/ Release(u)))
            /\ WF_vars(~tp.freed /\ Socket)
            /\ \A u \in Users : SF_vars(~tp.freed /\ DataSent /\ pc[u] # pc'[u])
            /\ SF_vars(~tp.freed /\ \E w \in Workers : Pop(w, "idle"))
            /\ \A w \in Workers : WF_vars(~tp.freed /\ pc[w] # "idle" /\ Worker(w))

LiveSpec == Spec /\ Fairness

-----------------------------------------------------------------------------
(* Properties.                                                             *)

Initiating == {"init", "init_raised", "told", "unref"}
Using == {"added", "raised", "has", "queueing", "waiting", "done", "lost"}

Holders == {u \in Users : \/ pc[u] \in Using
                          \/ pc[u] \in Initiating /\ ret[u] = "done"}
Keepers == {th \in Threads : pc[th] \in Initiating \ {"init"}}

(* The atomic counter, changed by many threads without a lock, is exactly  *)
(* the users that hold the transport and the threads that keep it over the *)
(* callbacks of a shutdown.                                                *)
RefsAccounted == tp.ref = Cardinality(Holders) + Cardinality(Keepers)

(* Queued by a sender that had seen the connect under way, after its       *)
(* failure was dealt with: nothing will take it off the list.              *)
Stuck == tp.failed /\ tp.delayed # {}

(* A message taken for sending reaches its callback, unless the flush      *)
(* dropped it as too old or it was queued behind a failed connect.         *)
Answered == \A u \in Users :
    pc[u] = "waiting" ~> pc[u] # "waiting" \/ tp.freed \/ Stuck

(* When the peer has closed, the transport goes once its users do: nothing *)
(* but a message without its callback keeps it.                            *)
Reaped == tp.eof ~> tp.freed \/ Stuck \/ \E u \in Users : pc[u] = "lost"

(* "Must have no user": whoever wants to keep the transport counts a       *)
(* reference "to prevent it from being destroyed".                         *)
FreedUnused == tp.freed => Holders = {} /\ heap = {}
=============================================================================
