--------------------------- MODULE SipTransaction ---------------------------
(***************************************************************************)
(* The transaction object of pjsip (sip_transaction.c): one record per     *)
(* transaction, and one operator per function that changes it.  Every      *)
(* operator is pure: it takes the transaction before the call and returns  *)
(* the transaction after it, or the set of transactions it may leave when  *)
(* the outcome depends on the transport.  TsxThreads and TsxPair turn them *)
(* into steps.                                                             *)
(*                                                                         *)
(* Time is abstract: a timer in the heap may fire at any moment.  A        *)
(* message is REQ, ACK or the status code of a response.                   *)
(***************************************************************************)
EXTENDS TsxStates, FiniteSets

CONSTANT Faults     \* which transport outcomes the environment produces

FaultKinds == {"async",    \* a send may complete later
               "fail",     \* a send may fail
               "next",     \* a request may have another server to try
               "api",      \* the stateless send may refuse the message
               "switch",   \* a large request may go over TCP instead of UDP
               "disc"}     \* the transport may disconnect

ASSUME FaultsAssumption == Faults \subseteq FaultKinds

(* The ids a timer entry carries.                                          *)
TIMER_INACTIVE      == 0
RETRANSMIT_TIMER    == 1
TIMEOUT_TIMER       == 2
TRANSPORT_ERR_TIMER == 3

Entries == {"rt", "to"}          \* retransmit_timer and timeout_timer

NoMsg == 0
REQ   == 1
ACK   == 2

Responses   == {100, 180, 200, 300}
TIMEOUT     == 408               \* PJSIP_SC_TSX_TIMEOUT
UNAVAILABLE == 503               \* PJSIP_SC_TSX_TRANSPORT_ERROR, 502 included
Codes       == {0, TIMEOUT, UNAVAILABLE} \cup Responses
Msgs        == {REQ, ACK} \cup Responses

Flags == {"transport", "resched", "send", "destroy", "resolved"}

(* What the timeout timer was last armed with: nothing, zero, T4, timer D, *)
(* 64*T1, or the value the application gave.                               *)
Waits == {"none", "zero", "T4", "TD", "64T1", "user"}

Transactions ==
    [role     : {"UAC", "UAS"},
     invite   : BOOLEAN,          \* method.id = PJSIP_INVITE_METHOD
     reliable : BOOLEAN,          \* is_reliable
     h200     : BOOLEAN,          \* handle_200resp
     state    : NULL .. DESTROYED,
     code     : Codes,            \* status_code
     last     : Msgs \cup {NoMsg},\* last_tx
     flags    : SUBSET Flags,     \* transport_flag
     tp       : BOOLEAN,          \* transport # NULL
     tx       : BOOLEAN,          \* pending_tx # NULL: a stateless send is out
     out      : Nat,              \* sends the transport has not answered yet
     heap     : SUBSET Entries,   \* entries in the timer heap
     id       : [Entries -> 0 .. 3],
     wait     : Waits,
     refs     : Nat,              \* reference counter of grp_lock
     live     : BOOLEAN,          \* ~terminating
     reg      : BOOLEAN,          \* found in the hash table
     user     : BOOLEAN,          \* tsx_user # NULL
     told     : NULL .. DESTROYED,\* state at the last on_tsx_state()
     terms    : 0 .. 2,           \* how often on_tsx_state() saw TERMINATED
     wire     : SUBSET Msgs]      \* messages this step gave to the transport

One(b) == IF b THEN 1 ELSE 0

(* The references a transaction holds on itself: the one of the layer,     *)
(* dropped once by tsx_shutdown(), one per entry in the timer heap, and    *)
(* one per send the transport has not answered.                            *)
Own(t) == One(t.live) + One("rt" \in t.heap) + One("to" \in t.heap) + t.out

(* tsx_create(), pjsip_tsx_create_uac2() and pjsip_tsx_create_uas2() up to *)
(* the registration: a UAC keeps its request and has no transport yet, a   *)
(* UAS usually keeps the transport the request came from.                  *)
NewTsx(role, invite, reliable, h200, tp) ==
    [role |-> role, invite |-> invite, reliable |-> reliable, h200 |-> h200,
     state |-> NULL, code |-> 0,
     last  |-> IF role = "UAC" THEN REQ ELSE NoMsg,
     flags |-> {}, tp |-> tp, tx |-> FALSE, out |-> 0,
     heap  |-> {}, id |-> [e \in Entries |-> TIMER_INACTIVE],
     wait  |-> "none", refs |-> 1, live |-> TRUE, reg |-> TRUE,
     user  |-> TRUE, told |-> NULL, terms |-> 0, wire |-> {}]

NewTsxs(roles, invites, h200s) ==
    {t \in {NewTsx(r, i, rel, h, tp) : r \in roles, i \in invites,
                rel \in BOOLEAN, h \in h200s, tp \in BOOLEAN} :
        t.role = "UAC" => ~t.tp /\ t.h200}

-----------------------------------------------------------------------------
(* Timers.  An entry in the heap holds one reference on the group lock;    *)
(* scheduling an entry that is in the heap is refused, and cancelling one  *)
(* that is not in the heap still resets its id.                            *)

(* Plausible fault: cancelling forgets to give the reference back.         *)
CancelTimer_leak(t, e) == [t EXCEPT !.heap = @ \ {e}, !.id[e] = TIMER_INACTIVE]

CancelTimer(t, e) ==
    [t EXCEPT !.refs  = IF e \in t.heap THEN @ - 1 ELSE @,
              !.heap  = @ \ {e},
              !.id[e] = TIMER_INACTIVE]

ScheduleTimer(t, e, i, w) ==
    IF e \in t.heap THEN t
    ELSE [t EXCEPT !.refs  = @ + 1,
                   !.heap  = @ \cup {e},
                   !.id[e] = i,
                   !.wait  = IF e = "to" THEN w ELSE @]

(* Plausible fault: the timer is armed first and cancelled afterwards.      *)
ResetTimeout_swapped(t, i, w) == CancelTimer(ScheduleTimer(t, "to", i, w), "to")

(* The cancel and schedule pair that every section under mutex_b makes.    *)
ResetTimeout(t, i, w) == ScheduleTimer(CancelTimer(t, "to"), "to", i, w)

(* What transport_callback() and tsx_tp_state_callback() do about a dead   *)
(* transport: the error is posted through the timeout timer.               *)
PostTransportError(t) == ResetTimeout(t, TRANSPORT_ERR_TIMER, "zero")

Retransmission(t) == ScheduleTimer(t, "rt", RETRANSMIT_TIMER, "none")

(* Plausible fault: nothing marks the retransmission that has to wait.      *)
StartRetransmission_lost(t) ==
    IF "transport" \in t.flags THEN t ELSE Retransmission(t)

(* Timer A/E/G, or the mark that makes send_msg_callback() start it.       *)
StartRetransmission(t) ==
    IF "transport" \in t.flags
    THEN [t EXCEPT !.flags = @ \cup {"resched"}]
    ELSE Retransmission(t)

Drop(t, fs) == [t EXCEPT !.flags = @ \ fs]

-----------------------------------------------------------------------------
(* Shutdown and state changes.                                             *)

(* Plausible fault: the creator's reference is released on every call.     *)
Shutdown_again(t) ==
    LET c == CancelTimer(CancelTimer(t, "to"), "rt")
    IN  [c EXCEPT !.tp = FALSE, !.last = NoMsg,
                  !.live = FALSE, !.refs = @ - 1,
                  !.flags = @ \ {"resched", "send"}]

(* tsx_shutdown().                                                         *)
Shutdown(t) ==
    LET c == CancelTimer(CancelTimer(t, "to"), "rt")
        busy == "transport" \in t.flags
    IN  [c EXCEPT !.tp    = FALSE,
                  !.last  = NoMsg,
                  !.flags = (@ \ {"resched", "send"})
                            \cup (IF busy THEN {"destroy"} ELSE {}),
                  !.user  = @ /\ ~busy,
                  !.refs  = IF t.live THEN @ - 1 ELSE @,
                  !.live  = FALSE]

(* The on_tsx_state() callback: the user reads the state of that moment.   *)
Notify(t) ==
    IF ~t.user THEN t
    ELSE [t EXCEPT !.told  = t.state,
                   !.terms = IF t.state = TERMINATED /\ @ < 2 THEN @ + 1 ELSE @]

(* The TERMINATED branch of tsx_set_state(): forget the outstanding send   *)
(* and arm the timer that will destroy the transaction.                    *)
EnterTerminated(t) ==
    ResetTimeout([t EXCEPT !.tx = @ /\ "transport" \notin t.flags,
                           !.flags = @ \ {"transport"}],
                 TIMEOUT_TIMER, "zero")

(* Plausible fault: the key stays in the hash table.                       *)
EnterDestroyed_registered(t) == Shutdown(t)

(* The DESTROYED branch: unregister, then shut down.                       *)
EnterDestroyed(t) == Shutdown([t EXCEPT !.reg = FALSE])

(* tsx_set_state().                                                        *)
SetState(t, s) ==
    LET n == Notify([t EXCEPT !.state = s])
    IN  CASE s = TERMINATED -> EnterTerminated(n)
          [] s = DESTROYED  -> EnterDestroyed(n)
          [] OTHER          -> n

(* tsx_set_state_no_notify().                                              *)
SetStateNoNotify(t, s) ==
    [SetState([t EXCEPT !.user = FALSE], s) EXCEPT !.user = t.user]

Terminate(t, c) == SetState([t EXCEPT !.code = c], TERMINATED)

-----------------------------------------------------------------------------
(* Sending.  An outcome is the transaction afterwards and whether          *)
(* tsx_send_msg() returned success.                                        *)

Outcome(t, ok) == [t |-> t, ok |-> ok]

Emit(t, m) == [t EXCEPT !.wire = @ \cup {m}]

(* pjsip_transport_send() on the transaction's transport: done at once, or *)
(* answered later by transport_callback(), which holds a reference.        *)
SendOnTransport(t, m) ==
    {Outcome(Emit(t, m), TRUE)} \cup
    (IF "async" \in Faults
     THEN {Outcome(Emit([t EXCEPT !.flags = @ \cup {"transport"},
                                  !.out   = @ + 1,
                                  !.refs  = @ + 1], m), TRUE)}
     ELSE {})

(* A send error after the server was resolved is permanent.                *)
PermanentError(t) ==
    Outcome(Terminate([t EXCEPT !.tp = FALSE], UNAVAILABLE), FALSE)

(* tsx_send_msg() from within send_msg_callback(): the transport has just  *)
(* been attached and the server is resolved.                               *)
SendQueued(t) ==
    IF t.last = NoMsg THEN {t}
    ELSE {o.t : o \in SendOnTransport(t, t.last)} \cup
         (IF "fail" \in Faults THEN {PermanentError(t).t} ELSE {})

(* send_msg_callback() with sent > 0: the transport found is attached (and *)
(* may be dead already), the message queued meanwhile is sent, and the     *)
(* retransmission that waited is started.                                  *)
Found(t) ==
    LET rels == IF "switch" \in Faults /\ t.role = "UAC"
                THEN {TRUE, t.reliable} ELSE {t.reliable}
    IN  {[t EXCEPT !.tp = TRUE, !.reliable = rel] : rel \in rels}

Attached(t) ==
    {[a EXCEPT !.tx = FALSE,
               !.flags = (@ \ {"transport"}) \cup {"resolved"}] :
        a \in Found(t) \cup (IF "disc" \notin Faults THEN {}
                             ELSE {PostTransportError(f) : f \in Found(t)})}

StartWaiting(t) ==
    IF "resched" \notin t.flags THEN t
    ELSE IF t.reliable THEN Drop(t, {"resched"})
    ELSE Retransmission(Drop(t, {"resched"}))

SentOk(t) ==
    UNION {IF "destroy" \in a.flags THEN {SetState(a, DESTROYED)}
           ELSE {StartWaiting(b) : b \in IF "send" \notin a.flags THEN {a}
                                         ELSE SendQueued(Drop(a, {"send"}))} :
              a \in Attached(t)}

(* Plausible fault: the status code is not set before terminating.          *)
SentError_nocode(t) ==
    LET a == [t EXCEPT !.tx = FALSE, !.flags = @ \ {"transport"}]
    IN  IF a.state < TERMINATED THEN SetState(a, TERMINATED) ELSE a

(* send_msg_callback() with sent <= 0 when no server is left.              *)
SentError(t) ==
    LET a == [t EXCEPT !.tx = FALSE, !.code = UNAVAILABLE,
                       !.flags = (@ \ {"transport"}) \cup {"resolved"}]
    IN  IF a.state < TERMINATED THEN SetState(a, TERMINATED)
        ELSE IF "destroy" \in a.flags THEN SetState(a, DESTROYED)
        ELSE a

(* send_msg_callback() with sent <= 0 and another server to try.           *)
SentNext(t) ==
    IF "destroy" \in t.flags THEN SentError(t)
    ELSE LET a == [t EXCEPT !.tx = TRUE]
         IN  IF a.id["to"] # TIMER_INACTIVE
             THEN ResetTimeout(a, TIMEOUT_TIMER, "64T1") ELSE a

(* pjsip_endpt_send_request_stateless() or pjsip_endpt_send_response():    *)
(* resolve the server, find a transport, send; the callback may come from  *)
(* within the call.  A refused message leaves the pending flag set.  If    *)
(* the callback terminated the transaction, the status is transport_err,   *)
(* which SentError sets and a permanent error leaves at an old value.      *)
Status(q) == IF q.state = TERMINATED THEN BOOLEAN ELSE {TRUE}

SendStateless(t, m) ==
    LET p == Emit([t EXCEPT !.flags = @ \cup {"transport"}, !.tx = TRUE], m)
        Tries == {p} \cup (IF "next" \in Faults /\ t.role = "UAC"
                           THEN {SentNext(p)} ELSE {})
        Sent  == Tries \cup UNION {SentOk(r) : r \in Tries}
        Lost  == SentError(p)
    IN  (UNION {{Outcome(q, ok) : ok \in Status(q)} : q \in Sent}) \cup
        (IF "fail" \in Faults THEN {Outcome(Lost, Lost.state # TERMINATED)}
         ELSE {}) \cup
        (IF "api" \in Faults /\ t.role = "UAC"
         THEN {Outcome([t EXCEPT !.flags = @ \cup {"transport"}], FALSE)}
         ELSE {})

(* tsx_send_msg().  A message whose earlier transmission is still under    *)
(* way (possible once TERMINATED has cleared the flag) is skipped.         *)
SendMsg(t, m) ==
    IF "transport" \in t.flags
    THEN {Outcome([t EXCEPT !.flags = @ \cup {"send"}], TRUE)}
    ELSE (IF t.out > 0 \/ t.state >= TERMINATED THEN {Outcome(t, TRUE)}
          ELSE {}) \cup
         (IF t.tp
          THEN SendOnTransport(t, m) \cup
               (IF "fail" \notin Faults THEN {}
                ELSE IF "resolved" \in t.flags THEN {PermanentError(t)}
                ELSE SendStateless([t EXCEPT !.tp = FALSE], m))
          ELSE IF "resolved" \in t.flags THEN {PermanentError(t)}
          ELSE SendStateless(t, m))

(* tsx_retransmit(): with resched the timer is started before the send,    *)
(* and nothing is done when another thread has started it already.         *)
Retransmit(t, resched) ==
    IF (resched /\ "rt" \in t.heap) \/ t.last = NoMsg THEN {t}
    ELSE LET a == IF resched THEN StartRetransmission(t) ELSE t
         IN  {o.t : o \in SendMsg(a, a.last)}

-----------------------------------------------------------------------------
(* The state handlers.  An event is a message to send (TX), a message      *)
(* received (RX), or a timer entry that fired (TIMER).                     *)

Tx(m)    == [type |-> "TX",    msg |-> m,     entry |-> "none"]
Rx(m)    == [type |-> "RX",    msg |-> m,     entry |-> "none"]
Timer(e) == [type |-> "TIMER", msg |-> NoMsg, entry |-> e]

Class(c) == c \div 100

(* tsx_on_state_null(): timer B or F, timer A or E, then CALLING.          *)
Started(t) ==
    LET b == ResetTimeout(t, TIMEOUT_TIMER, "64T1")
    IN  SetState(IF b.reliable THEN b ELSE StartRetransmission(b), CALLING)

OnStateNull(t, ev) ==
    CASE t.role = "UAS" -> {SetState(t, TRYING)}
      [] t.role = "UAC" /\ ev.type = "TX" ->
             {IF o.ok THEN Started(o.t) ELSE o.t :
                o \in SendMsg([t EXCEPT !.last = ev.msg], ev.msg)}
      [] OTHER -> {t}

(* The final-response branch of tsx_on_state_proceeding_uac(): for an      *)
(* INVITE the ACK goes out before the state changes; a failed send returns *)
(* early.                                                                  *)
Linger(t) == IF t.reliable THEN "zero" ELSE IF t.invite THEN "TD" ELSE "T4"

RejectedDone(t, m) ==
    LET n == SetState(t, COMPLETED)
    IN  ResetTimeout([n EXCEPT !.last = m], TIMEOUT_TIMER, Linger(n))

(* Plausible fault: no ACK goes out.                                       *)
Rejected_silent(t) ==
    LET c == CancelTimer(CancelTimer(t, "rt"), "to")
    IN  {RejectedDone(c, IF t.invite THEN ACK ELSE c.last)}

Rejected(t) ==
    LET c == CancelTimer(CancelTimer(t, "rt"), "to")
    IN  IF t.invite
        THEN {IF o.ok THEN RejectedDone(o.t, ACK) ELSE o.t : o \in SendMsg(c, ACK)}
        ELSE {RejectedDone(c, c.last)}

(* tsx_on_state_proceeding_uac().                                          *)
OnStateProceedingUac(t, ev) ==
    CASE ev.type = "TIMER" /\ ev.entry = "rt" -> Retransmit(t, TRUE)
      [] ev.type = "TIMER" /\ ev.entry = "to" -> {Terminate(t, TIMEOUT)}
      [] ev.type = "RX" /\ Class(ev.msg) = 1 ->
             {SetState([t EXCEPT !.code = ev.msg], PROCEEDING)}
      [] ev.type = "RX" /\ Class(ev.msg) = 2 ->
             LET a == CancelTimer([t EXCEPT !.code = ev.msg], "to")
                 b == ScheduleTimer(a, "to", TIMEOUT_TIMER,
                                    IF a.reliable THEN "zero" ELSE "T4")
             IN  IF t.invite THEN {SetState(a, TERMINATED)}
                 ELSE {SetState(CancelTimer(b, "rt"), COMPLETED)}
      [] ev.type = "RX" /\ Class(ev.msg) > 2 ->
             Rejected([t EXCEPT !.code = ev.msg])
      [] OTHER -> {t}

(* tsx_on_state_calling().                                                 *)
OnStateCalling(t, ev) ==
    CASE ev.type = "TIMER" /\ ev.entry = "rt" -> Retransmit(t, TRUE)
      [] ev.type = "TIMER" /\ ev.entry = "to" ->
             {Terminate(Drop(CancelTimer(t, "rt"), {"resched"}), TIMEOUT)}
      [] ev.type = "RX" ->
             LET c == CancelTimer(t, "rt")
                 d == CASE ev.msg >= 200 -> IF c.id["to"] # TIMER_INACTIVE
                                            THEN CancelTimer(c, "to") ELSE c
                        [] ev.msg < 200 /\ c.invite -> CancelTimer(c, "to")
                        [] OTHER -> IF c.reliable THEN c ELSE Retransmission(c)
             IN  OnStateProceedingUac(Drop(d, {"resched"}), ev)
      [] OTHER -> {t}

(* After a response was sent in tsx_on_state_proceeding_uas(): by class,   *)
(* save it, start the timers and change the state.                         *)
Provisional(t, m) ==
    LET n == SetState([t EXCEPT !.last = m], PROCEEDING)
    IN  IF n.invite /\ n.code > 100
        THEN StartRetransmission(CancelTimer(n, "rt")) ELSE n

FinalWait(t) == IF t.invite \/ ~t.reliable THEN "64T1" ELSE "zero"

Accepted(t, m) ==
    LET c == CancelTimer(t, "rt")
        r == IF c.invite THEN StartRetransmission(c) ELSE c
    IN  IF c.invite /\ ~c.h200 THEN SetState(c, TERMINATED)
        ELSE SetState(ResetTimeout([r EXCEPT !.last = m],
                                   TIMEOUT_TIMER, FinalWait(r)), COMPLETED)

Refused(t, m) ==
    LET c == CancelTimer(t, "rt")
        r == ResetTimeout([c EXCEPT !.last = m], TIMEOUT_TIMER, FinalWait(c))
    IN  SetState(IF r.invite /\ ~r.reliable
                 THEN StartRetransmission(r) ELSE r, COMPLETED)

(* By status_code, which a nested send failure may have overwritten.       *)
Responded(t, m) == CASE Class(t.code) = 1 -> Provisional(t, m)
                     [] Class(t.code) = 2 -> Accepted(t, m)
                     [] OTHER             -> Refused(t, m)

(* The saved response is dropped unless the user sends that very message.  *)
Respond(t, m) ==
    {IF o.ok THEN Responded(o.t, m) ELSE o.t :
        o \in UNION {SendMsg([t EXCEPT !.code = m, !.last = l], m) :
                        l \in {NoMsg} \cup ({t.last} \cap {m})}}

(* tsx_on_state_proceeding_uas().                                          *)
OnStateProceedingUas(t, ev) ==
    CASE ev.type = "RX" ->
             IF t.last = NoMsg THEN {t} ELSE {o.t : o \in SendMsg(t, t.last)}
      [] ev.type = "TX" -> Respond(t, ev.msg)
      [] ev.type = "TIMER" /\ ev.entry = "rt" -> Retransmit(t, TRUE)
      [] ev.type = "TIMER" /\ ev.entry = "to" -> {Terminate(t, TIMEOUT)}

(* tsx_on_state_trying(): a request retransmitted before any response is   *)
(* ignored.                                                                *)
OnStateTrying(t, ev) ==
    IF ev.type = "TX" THEN OnStateProceedingUas(t, ev) ELSE {t}

(* Plausible faults: any request counts as the ACK, and a response is still  *)
(* accepted from the user.                                                 *)
OnStateCompletedUas_anyack(t, ev) ==
    CASE ev.type = "RX" -> {SetState(CancelTimer(t, "rt"), CONFIRMED)}
      [] ev.type = "TIMER" -> {Terminate(t, TIMEOUT)}
      [] OTHER -> {t}

OnStateCompletedUas_answers(t, ev) ==
    CASE ev.type = "TX" -> OnStateProceedingUas(t, ev)
      [] ev.type = "TIMER" /\ ev.entry = "to" -> {Terminate(t, TIMEOUT)}
      [] OTHER -> {t}

(* tsx_on_state_completed_uas(): timer I is set to T4 on a reliable        *)
(* transport and to zero on an unreliable one.                             *)
OnStateCompletedUas(t, ev) ==
    CASE ev.type = "RX" /\ ev.msg # ACK -> Retransmit(t, FALSE)
      [] ev.type = "RX" /\ ev.msg = ACK /\ t.invite ->
             LET c == Drop(CancelTimer(t, "rt"), {"resched"})
                 w == IF c.reliable THEN "T4" ELSE "zero"
             IN  {SetState(ResetTimeout(c, TIMEOUT_TIMER, w), CONFIRMED)}
      [] ev.type = "TIMER" /\ ev.entry = "rt" -> Retransmit(t, TRUE)
      [] ev.type = "TIMER" /\ ev.entry = "to" ->
             {IF t.invite THEN Terminate(t, TIMEOUT)
              ELSE SetState(t, TERMINATED)}
      [] OTHER -> {t}

(* Plausible fault: a very late provisional response is processed.           *)
OnStateCompletedUac_late(t, ev) ==
    CASE ev.type = "TIMER" -> {SetState(t, TERMINATED)}
      [] ev.type = "RX" -> OnStateProceedingUac(t, ev)
      [] OTHER -> {t}

(* tsx_on_state_completed_uac(): a final response sent again is answered   *)
(* with the saved ACK; any timer event ends the transaction.               *)
OnStateCompletedUac(t, ev) ==
    CASE ev.type = "TIMER" -> {SetState(t, TERMINATED)}
      [] ev.type = "RX" /\ t.invite /\ ev.msg >= 200 -> Retransmit(t, FALSE)
      [] OTHER -> {t}

(* tsx_on_state_confirmed(): an overlapped retransmit timer is ignored.    *)
OnStateConfirmed(t, ev) ==
    IF ev.type = "TIMER" /\ ev.entry = "to" THEN {SetState(t, TERMINATED)}
    ELSE {t}

(* Plausible fault: the timer terminates the transaction once more.         *)
OnStateTerminated_again(t, ev) ==
    IF ev.type = "TIMER" THEN {SetState(t, TERMINATED)} ELSE {t}

(* tsx_on_state_terminated(): any timer destroys the transaction.          *)
OnStateTerminated(t, ev) ==
    IF ev.type = "TIMER" THEN {SetState(t, DESTROYED)} ELSE {t}

(* state_handler, through tsx_state_handler_uac[] and _uas[].              *)
StateHandler(t, ev) ==
    CASE t.state = NULL       -> OnStateNull(t, ev)
      [] t.state = CALLING    -> OnStateCalling(t, ev)
      [] t.state = TRYING     -> OnStateTrying(t, ev)
      [] t.state = PROCEEDING -> IF t.role = "UAC"
                                 THEN OnStateProceedingUac(t, ev)
                                 ELSE OnStateProceedingUas(t, ev)
      [] t.state = COMPLETED  -> IF t.role = "UAC"
                                 THEN OnStateCompletedUac(t, ev)
                                 ELSE OnStateCompletedUas(t, ev)
      [] t.state = CONFIRMED  -> OnStateConfirmed(t, ev)
      [] t.state = TERMINATED -> OnStateTerminated(t, ev)
      [] t.state = DESTROYED  -> {t}     \* tsx_on_state_destroyed()
=============================================================================
