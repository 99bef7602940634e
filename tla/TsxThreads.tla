----------------------------- MODULE TsxThreads -----------------------------
(***************************************************************************)
(* One SIP transaction shared by the threads of an endpoint:               *)
(*   Workers   poll the timer heap (pj_timer_heap_poll) and run            *)
(*             tsx_timer_callback();                                       *)
(*   Readers   look the transaction up in the hash table and hand it a     *)
(*             received message (mod_tsx_layer_on_rx_request/response);    *)
(*   Apps      are the transaction user's threads calling pjsip_tsx_*();   *)
(*   Senders   run the completions of sends: transport_callback() and      *)
(*             send_msg_callback().                                        *)
(* A section that holds the transaction's group lock is one step.  What    *)
(* the code does outside of it is a step of its own: taking an entry off   *)
(* the heap, reading entry->id, the unlocked tests of tsx->state, posting  *)
(* a transport error, the notification without the lock.                   *)
(***************************************************************************)
EXTENDS SipTransaction

CONSTANTS Workers, Readers, Apps, Senders,
          Roles, Invites, H200s,   \* the transactions of the run
          AppOps                   \* the calls the user makes

AppCalls == {"terminate", "set_timeout", "stop", "retransmit"}

ASSUME ThreadsAssumption ==
    /\ IsFiniteSet(Workers) /\ IsFiniteSet(Readers)
    /\ IsFiniteSet(Apps) /\ IsFiniteSet(Senders)
    /\ Workers \cap (Readers \cup Apps \cup Senders) = {}
    /\ Readers \cap (Apps \cup Senders) = {} /\ Apps \cap Senders = {}
    /\ Roles \subseteq {"UAC", "UAS"}
    /\ Invites \subseteq BOOLEAN /\ H200s \subseteq BOOLEAN
    /\ AppOps \subseteq AppCalls

VARIABLES tsx,    \* the transaction
          pc,     \* where each thread is
          ent,    \* the timer entry a worker took off the heap
          msg,    \* the message a reader carries
          held,   \* the user keeps its own reference on the group lock
          down,   \* the transport attached has disconnected
          freed   \* the reference counter reached zero

vars == <<tsx, pc, ent, msg, held, down, freed>>

Threads == Workers \cup Readers \cup Apps \cup Senders

Init == /\ tsx \in {[t EXCEPT !.refs = 2] : t \in NewTsxs(Roles, Invites, H200s)}
        /\ pc = [th \in Threads |-> "idle"]
        /\ ent = [w \in Workers |-> "none"]
        /\ msg = [r \in Readers |-> NoMsg]
        /\ held = TRUE
        /\ down = FALSE
        /\ freed = FALSE

(* The transaction becomes t; the last reference destroys it.              *)
Put(t) == tsx' = t /\ freed' = (freed \/ t.refs = 0)

Goto(th, l) == pc' = [pc EXCEPT ![th] = l]

(* A thread is back in its loop, with nothing in hand.                     *)
WorkerDone(w) == Goto(w, "idle") /\ ent' = [ent EXCEPT ![w] = "none"]
ReaderDone(r) == Goto(r, "idle") /\ msg' = [msg EXCEPT ![r] = NoMsg]

AddRef(t) == [t EXCEPT !.refs = @ + 1]
DecRef(t) == [t EXCEPT !.refs = @ - 1]

(* tsx_on_destroy() and the steps below clear the wire of the last step.   *)
Now == [tsx EXCEPT !.wire = {}]

-----------------------------------------------------------------------------
(* A worker.                                                               *)

(* pj_timer_heap_poll(): the entry leaves the heap; its reference on the   *)
(* group lock moves to the worker.                                         *)
Pop(w, e) == /\ pc[w] = "idle" /\ e \in tsx.heap
             /\ Put([Now EXCEPT !.heap = @ \ {e}])
             /\ ent' = [ent EXCEPT ![w] = e]
             /\ Goto(w, "popped")
             /\ UNCHANGED <<msg, held, down>>

(* tsx_timer_callback() reads and resets entry->id without a lock, and     *)
(* for a posted transport error it tests the state without one too.        *)
TimerCallback(w) ==
    LET t == [Now EXCEPT !.id[ent[w]] = TIMER_INACTIVE]
    IN  /\ pc[w] = "popped"
        /\ \/ /\ tsx.id[ent[w]] # TRANSPORT_ERR_TIMER
              /\ Put(t) /\ Goto(w, "dispatch") /\ UNCHANGED ent
           \/ /\ tsx.id[ent[w]] = TRANSPORT_ERR_TIMER
              /\ tsx.state < TERMINATED
              /\ Put(t) /\ Goto(w, "error") /\ UNCHANGED ent
           \/ /\ tsx.id[ent[w]] = TRANSPORT_ERR_TIMER
              /\ tsx.state >= TERMINATED
              /\ Put(DecRef(t)) /\ WorkerDone(w)
        /\ UNCHANGED <<msg, held, down>>

DispatchTimer(w) == /\ pc[w] = "dispatch"
                    /\ \E t \in StateHandler(Now, Timer(ent[w])) : Put(DecRef(t))
                    /\ WorkerDone(w)
                    /\ UNCHANGED <<msg, held, down>>

(* The locked part of the transport error, then the notification.          *)
TransportError(w) ==
    LET t == [Now EXCEPT !.tp = FALSE,
                         !.code = IF @ < 200 THEN UNAVAILABLE ELSE @]
    IN  /\ pc[w] = "error"
        /\ Put(SetStateNoNotify(t, TERMINATED))
        /\ Goto(w, "notify")
        /\ UNCHANGED <<ent, msg, held, down>>

NotifyUser(w) == /\ pc[w] = "notify"
                 /\ Put(DecRef(Notify(Now)))
                 /\ WorkerDone(w)
                 /\ UNCHANGED <<msg, held, down>>

-----------------------------------------------------------------------------
(* A reader.                                                               *)

(* What a peer may send: responses once the request is out, the request    *)
(* again at any time, an ACK once an INVITE has its final response.        *)
Incoming ==
    IF tsx.role = "UAC" THEN IF tsx.state = NULL THEN {} ELSE {180, 200, 300}
    ELSE {REQ} \cup
         (IF tsx.invite /\ tsx.state >= COMPLETED THEN {ACK} ELSE {})

(* Under the layer's mutex: found, and the state read without its lock.    *)
Find(r, m) == /\ pc[r] = "idle" /\ tsx.reg /\ tsx.state # TERMINATED
              /\ m \in Incoming
              /\ Put(AddRef(Now))
              /\ msg' = [msg EXCEPT ![r] = m]
              /\ Goto(r, "found")
              /\ UNCHANGED <<ent, held, down>>

(* pjsip_tsx_recv_msg().                                                   *)
Receive(r) == /\ pc[r] = "found"
              /\ \E t \in StateHandler(Now, Rx(msg[r])) : Put(DecRef(t))
              /\ ReaderDone(r)
              /\ UNCHANGED <<ent, held, down>>

-----------------------------------------------------------------------------
(* The user.  It may call as long as it holds its reference.               *)

UserStep(t) == /\ held
               /\ Put(t)
               /\ UNCHANGED <<pc, ent, msg, held, down>>

(* The user that created a UAS passes it the request.                      *)
FirstRequest == /\ tsx.role = "UAS" /\ tsx.told = NULL
                /\ \E t \in StateHandler(Now, Rx(REQ)) : UserStep(t)

(* pjsip_tsx_send_msg(): the request, or a response the user still owes.   *)
SendCall(m) == /\ \/ tsx.role = "UAC" /\ m = REQ /\ tsx.told = NULL
                  \/ tsx.role = "UAS" /\ m \in Responses
                     /\ tsx.told \in {TRYING, PROCEEDING, COMPLETED}
               /\ \E t \in StateHandler(Now, Tx(m)) : UserStep(t)

(* pjsip_tsx_retransmit_no_state(): 100rel sends its response again.       *)
RetransmitCall == /\ "retransmit" \in AppOps
                  /\ tsx.role = "UAS" /\ tsx.invite /\ tsx.told = PROCEEDING
                  /\ \E o \in SendMsg(Now, 180) : UserStep(o.t)

(* pjsip_tsx_stop_retransmit().                                            *)
StopRetransmitCall == /\ "stop" \in AppOps
                      /\ tsx.role = "UAC" /\ tsx.invite
                      /\ UserStep(CancelTimer(Now, "rt"))

(* pjsip_tsx_set_timeout(), under mutex_b only; once per armed timer.      *)
SetTimeoutCall == /\ "set_timeout" \in AppOps
                  /\ tsx.role = "UAC" /\ tsx.invite /\ tsx.wait # "user"
                  /\ tsx.told \in {CALLING, PROCEEDING}
                  /\ ~(tsx.code >= 200 /\ tsx.id["to"] # TIMER_INACTIVE)
                  /\ UserStep(ResetTimeout(Now, TIMEOUT_TIMER, "user"))

(* pjsip_tsx_terminate(): the state is tested before the lock is taken.    *)
TerminateCall(a) == /\ "terminate" \in AppOps /\ held
                    /\ pc[a] = "idle" /\ tsx.state < TERMINATED
                    /\ Goto(a, "terminate")
                    /\ UNCHANGED <<tsx, ent, msg, held, down, freed>>

TerminateLocked(a) == /\ pc[a] = "terminate"
                      /\ Put(Terminate(Now, UNAVAILABLE))
                      /\ Goto(a, "idle")
                      /\ UNCHANGED <<ent, msg, held, down>>

(* Told of the end, the user lets its reference go.                        *)
ReleaseHold == /\ held /\ tsx.told >= TERMINATED
               /\ \A a \in Apps : pc[a] = "idle"
               /\ held' = FALSE
               /\ Put(DecRef(Now))
               /\ UNCHANGED <<pc, ent, msg, down>>

-----------------------------------------------------------------------------
(* Completions of sends, and the transport.                                *)

(* transport_callback(): the flag is cleared under the lock; the error is  *)
(* posted after it was released.                                           *)
TransportCallback(s) ==
    LET t == [Drop(Now, {"transport"}) EXCEPT !.out = @ - 1]
    IN  /\ pc[s] = "idle" /\ tsx.out > 0
        /\ \/ Put(DecRef(t)) /\ Goto(s, "idle")
           \/ "fail" \in Faults /\ Put(t) /\ Goto(s, "failed")
        /\ UNCHANGED <<ent, msg, held, down>>

PostFailure(s) == /\ pc[s] = "failed"
                  /\ Put(DecRef(PostTransportError(Now)))
                  /\ Goto(s, "idle")
                  /\ UNCHANGED <<ent, msg, held, down>>

(* send_msg_callback() tests the transmit data's mod_data before it takes  *)
(* the lock, and holds no reference between the two.  If the transaction   *)
(* was freed in between, what it does is undefined and not modelled.       *)
SendCallback(s) == /\ pc[s] = "idle" /\ tsx.tx /\ ~freed
                   /\ \A x \in Senders : pc[x] \notin {"sent_ok", "sent_error", "sent_next"}
                   /\ \/ Goto(s, "sent_ok")
                      \/ "fail" \in Faults /\ Goto(s, "sent_error")
                      \/ "next" \in Faults /\ tsx.role = "UAC" /\ Goto(s, "sent_next")
                   /\ UNCHANGED <<tsx, ent, msg, held, down, freed>>

SendCallbackLocked(s) ==
    /\ ~freed
    /\ \/ pc[s] = "sent_ok"  /\ \E t \in SentOk(Now) : Put(t)
       \/ pc[s] = "sent_error" /\ Put(SentError(Now))
       \/ pc[s] = "sent_next"  /\ Put(SentNext(Now))
    /\ Goto(s, "idle")
    /\ UNCHANGED <<ent, msg, held, down>>

(* tsx_tp_state_callback() with PJSIP_TP_STATE_DISCONNECTED.               *)
Disconnect == /\ "disc" \in Faults /\ tsx.tp /\ ~down /\ ~freed
              /\ down' = TRUE
              /\ Put(PostTransportError(Now))
              /\ UNCHANGED <<pc, ent, msg, held>>

-----------------------------------------------------------------------------
Worker(w) == \/ \E e \in Entries : Pop(w, e)
             \/ TimerCallback(w)
             \/ DispatchTimer(w)
             \/ TransportError(w)
             \/ NotifyUser(w)

Reader(r) == (\E m \in Msgs : Find(r, m)) \/ Receive(r)

App(a) == TerminateCall(a) \/ TerminateLocked(a)

User == \/ FirstRequest
        \/ \E m \in Msgs : SendCall(m)
        \/ RetransmitCall
        \/ StopRetransmitCall
        \/ SetTimeoutCall
        \/ ReleaseHold

Sender(s) == \/ TransportCallback(s)
             \/ PostFailure(s)
             \/ SendCallback(s)
             \/ SendCallbackLocked(s)

Next == \/ \E w \in Workers : Worker(w)
        \/ \E r \in Readers : Reader(r)
        \/ \E a \in Apps : App(a)
        \/ User
        \/ \E s \in Senders : Sender(s)
        \/ Disconnect

Spec == Init /\ [][Next]_vars

(* The heap hands out entries in the order of their times and a            *)
(* retransmission is always armed later than the last, so an entry that is *)
(* there again and again is popped.  A thread inside a call finishes it, a *)
(* send is answered, and a user told of the end lets go.                   *)
Fairness == /\ \A e \in Entries : SF_vars(\E w \in Workers : Pop(w, e))
            /\ \A w \in Workers : WF_vars(TimerCallback(w) \/ DispatchTimer(w)
                                          \/ TransportError(w) \/ NotifyUser(w))
            /\ \A r \in Readers : WF_vars(Receive(r))
            /\ \A a \in Apps : WF_vars(TerminateLocked(a))
            /\ \A x \in Senders : WF_vars(Sender(x))
            /\ WF_vars(ReleaseHold)

LiveSpec == Spec /\ Fairness

-----------------------------------------------------------------------------
(* Properties.                                                             *)

Holding == {"popped", "dispatch", "error", "notify", "found", "failed"}

Calling == {"sent_ok", "sent_error", "sent_next"}

Holders == {th \in Threads : pc[th] \in Holding}

(* Every variable has its type; the reference counter is never negative.   *)
TypeOK == /\ tsx \in Transactions
          /\ pc \in [Threads -> {"idle", "terminate"} \cup Calling \cup Holding]
          /\ ent \in [Workers -> Entries \cup {"none"}]
          /\ msg \in [Readers -> Msgs \cup {NoMsg}]
          /\ held \in BOOLEAN /\ down \in BOOLEAN /\ freed \in BOOLEAN

(* The references on the group lock are exactly the transaction's own, the *)
(* user's, and one for each thread that popped an entry, found the         *)
(* transaction or is posting a transport error.                            *)
RefsAccounted == tsx.refs = Own(tsx) + One(held) + Cardinality(Holders)

(* tsx_on_destroy() frees the pool only when nothing can reach the         *)
(* transaction any more: not the hash table, the heap, the transport's     *)
(* pending sends, nor a thread that holds a reference.                     *)
FreedUnreferenced ==
    freed => /\ ~tsx.live /\ ~tsx.reg /\ ~held
             /\ tsx.heap = {} /\ tsx.out = 0
             /\ Holders = {}

(* Whatever ended the transaction, the user that reads status_code finds   *)
(* a final one from COMPLETED on.                                          *)
FinalStatus == tsx.state >= COMPLETED => tsx.code >= 200

Handled(e) == \/ e \in tsx.heap
              \/ \E w \in Workers : /\ ent[w] = e
                                    /\ pc[w] \in {"popped", "dispatch", "error"}

Timed == \/ tsx.state \in {CALLING, COMPLETED, CONFIRMED, TERMINATED}
         \/ tsx.state = PROCEEDING /\ tsx.role = "UAC" /\ ~tsx.invite

(* In the states that only a timer is sure to end, the timeout timer is in *)
(* the heap or a worker is about to run it.                                *)
Armed == Timed => Handled("to")

(* An INVITE client waiting for its first response and an INVITE server    *)
(* waiting for the ACK repeat their message over an unreliable transport:  *)
(* the retransmit timer runs, or a pending send will start it.             *)
Resent == /\ tsx.invite /\ ~tsx.reliable
          /\ \/ tsx.role = "UAC" /\ tsx.state = CALLING
             \/ tsx.role = "UAS" /\ tsx.state = COMPLETED
          => Handled("rt") \/ {"transport", "resched"} \subseteq tsx.flags

(* tsx_set_state() never moves a transaction back (its first assertion).   *)
ForwardOnly == [][tsx'.state >= tsx.state]_vars

(* on_tsx_state() reports TERMINATED once, since a dialog counts its       *)
(* transactions down on that call, and the state it told last is the state *)
(* the transaction is in, except while a worker is between the two.        *)
Told == /\ tsx.terms <= 1
        /\ \/ ~tsx.user \/ \E w \in Workers : pc[w] = "notify"
           \/ tsx.told = tsx.state

(* An INVITE client enters COMPLETED with its ACK given to the transport   *)
(* or queued behind a send that is pending.                                *)
AckGiven ==
    [][tsx.invite /\ tsx.role = "UAC"
       /\ tsx.state < COMPLETED /\ tsx'.state = COMPLETED
       => ACK \in tsx'.wire \/ {"transport", "send"} \subseteq tsx'.flags]_vars

(* A request that was sent ends: a non-INVITE always, and an INVITE unless *)
(* a provisional response took its timeout away.                           *)
CallingEnds == tsx.state = CALLING ~>
                   freed \/ (tsx.invite /\ tsx.state = PROCEEDING)

(* The threads implement the lifecycle the user relies on.                 *)
Lifecycle == INSTANCE TsxLifecycle WITH
    role <- tsx.role, state <- tsx.state, reg <- tsx.reg

LifecycleSpec == Lifecycle!Spec
=============================================================================
