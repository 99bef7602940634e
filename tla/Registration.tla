---------------------------- MODULE Registration ----------------------------
(***************************************************************************)
(* A client registration (sip_reg.c) shared by the threads of a program:   *)
(*   Apps     call pjsip_regc_register(), _unregister(), _send(),          *)
(*            _set_delay_before_refresh() and _destroy(), from a thread of *)
(*            their own or from a callback that a worker is making;        *)
(*   Workers  run the refresh timer and the callback of the transaction.   *)
(* A section under regc->lock is one step.  busy_ctr is an atomic counter  *)
(* changed outside of the lock, and _delete_flag is read outside of it.    *)
(*                                                                         *)
(* The transaction is what TsxLifecycle promises: once sent it reports one *)
(* final status; a report made from within the send call is one made right *)
(* after it.  Left out: the transport that is kept open, the headers, and  *)
(* a registrar that grants an expiration of zero.                          *)
(***************************************************************************)
EXTENDS Naturals, FiniteSets

CONSTANTS Apps, Workers,
          Faults,        \* what may go wrong in the run
          TsxCbs,        \* whether the user may set, or not set, regc->tsx_cb
          MaxTries       \* how often a registrar turns one request back

FaultKinds == {"failed",     \* a send fails and still reports a status
               "refused"}    \* a send fails before there is a transaction

ASSUME RegistrationAssumption ==
    /\ IsFiniteSet(Apps) /\ IsFiniteSet(Workers) /\ Apps \cap Workers = {}
    /\ Faults \subseteq FaultKinds /\ TsxCbs \subseteq BOOLEAN /\ MaxTries \in Nat

Ops == {"IDLE", "REGISTERING", "UNREGISTERING"}      \* current_op

VARIABLES regc,    \* the registration
          pc,      \* where each thread is
          req,     \* the request a thread is about to send
          out,     \* the operation of the transaction that is out, or IDLE
          bound,   \* the last operation that ended has registered
          told,    \* the user was told of the end of the last request
          gone     \* the user has called pjsip_regc_destroy()

vars == <<regc, pc, req, out, bound, told, gone>>

Threads == Apps \cup Workers

New(cb) == [has |-> FALSE,      \* has_tsx
            op |-> "IDLE",      \* current_op
            busy |-> 0,         \* busy_ctr
            del |-> FALSE,      \* _delete_flag, and cb = NULL
            auto |-> FALSE,     \* auto_reg
            id |-> FALSE,       \* timer.id # 0
            heap |-> FALSE,     \* the timer is scheduled
            tsx_cb |-> cb,
            tries |-> 0,        \* how often the request was turned back
            freed |-> FALSE]

Init == /\ regc \in {New(cb) : cb \in TsxCbs}
        /\ pc = [t \in Threads |-> "idle"]
        /\ req = [t \in Threads |-> "IDLE"]
        /\ out = "IDLE" /\ bound = FALSE /\ told = FALSE /\ gone = FALSE

Goto(t, l) == pc' = [pc EXCEPT ![t] = l]

(* What a thread does to a registration that was freed is undefined: the   *)
(* model stops that thread.                                                *)
At(t, l) == pc[t] = l /\ ~regc.freed

-----------------------------------------------------------------------------
(* What the sections do to the registration.                               *)

(* Plausible fault: the section of the callback is not counted.            *)
Enter_uncounted(r) == r

(* pj_atomic_inc(regc->busy_ctr).                                          *)
Enter(r) == [r EXCEPT !.busy = @ + 1]

(* pj_atomic_dec_and_get(regc->busy_ctr).                                  *)
Leave(r) == [r EXCEPT !.busy = @ - 1]

CancelTimer(r) == IF r.id THEN [r EXCEPT !.heap = FALSE, !.id = FALSE] ELSE r

(* Plausible fault: the check forgets that a request may be out.           *)
Destroy_early(r) ==
    IF r.busy # 0 THEN [r EXCEPT !.del = TRUE]
    ELSE [CancelTimer(r) EXCEPT !.freed = TRUE]

(* pjsip_regc_destroy().                                                   *)
Destroy(r) == IF r.has \/ r.busy # 0 THEN [r EXCEPT !.del = TRUE]
              ELSE [CancelTimer(r) EXCEPT !.freed = TRUE]

(* schedule_registration().                                                *)
Schedule(r) == IF r.auto THEN [r EXCEPT !.heap = TRUE, !.id = TRUE] ELSE r

(* Plausible fault: the timer is cancelled and not scheduled again.        *)
Delayed_cancelled(r) == CancelTimer(r)

(* pjsip_regc_set_delay_before_refresh() with another delay.               *)
Delayed(r) == IF r.id THEN Schedule(CancelTimer(r)) ELSE r

(* pjsip_regc_register() and pjsip_regc_unregister() build the request.    *)
Register(r, autoreg) == [CancelTimer(r) EXCEPT !.auto = autoreg]
Unregister(r) == CancelTimer(r)

(* Plausible fault: the operation of the request before is kept.           *)
Begin_kept(r, o) == [r EXCEPT !.has = TRUE]

(* pjsip_regc_send() when no transaction is pending.                       *)
Begin(r, o) == [r EXCEPT !.has = TRUE, !.op = o]

Idle(r) == [r EXCEPT !.op = "IDLE"]
Over(r) == [Idle(r) EXCEPT !.tries = 0]
Reported(r) == [r EXCEPT !.has = FALSE]

-----------------------------------------------------------------------------
(* The user.                                                               *)

RegisterCall(a, autoreg) ==
    /\ At(a, "idle") /\ ~gone
    /\ regc' = Register(regc, autoreg)
    /\ req' = [req EXCEPT ![a] = "REGISTERING"]
    /\ Goto(a, "send")
    /\ UNCHANGED <<out, bound, told, gone>>

UnregisterCall(a) ==
    /\ At(a, "idle") /\ ~gone
    /\ regc' = Unregister(regc)
    /\ req' = [req EXCEPT ![a] = "UNREGISTERING"]
    /\ Goto(a, "send")
    /\ UNCHANGED <<out, bound, told, gone>>

SetDelayCall(a) ==
    /\ At(a, "idle") /\ ~gone
    /\ regc' = Delayed(regc)
    /\ UNCHANGED <<pc, req, out, bound, told, gone>>

DestroyCall(a) ==
    /\ At(a, "idle") /\ ~gone
    /\ regc' = Destroy(regc)
    /\ gone' = TRUE /\ bound' = FALSE /\ told' = FALSE
    /\ UNCHANGED <<pc, req, out>>

-----------------------------------------------------------------------------
(* pjsip_regc_send(), by the user or by the refresh timer.                 *)

SendEnter(t) == /\ At(t, "send")
                /\ regc' = Enter(regc)
                /\ Goto(t, "lock")
                /\ UNCHANGED <<req, out, bound, told, gone>>

SendLocked(t) ==
    /\ At(t, "lock")
    /\ \/ regc.has /\ Goto(t, "busy") /\ UNCHANGED regc
       \/ ~regc.has /\ Goto(t, "transmit") /\ regc' = Begin([regc EXCEPT !.tries = 0], req[t])
    /\ UNCHANGED <<req, out, bound, told, gone>>

(* PJSIP_EBUSY: the counter is dropped without a look at _delete_flag.     *)
SendBusy(t) == /\ At(t, "busy")
               /\ regc' = Leave(regc)
               /\ req' = [req EXCEPT ![t] = "IDLE"]
               /\ Goto(t, IF t \in Apps THEN "idle" ELSE "tell")
               /\ UNCHANGED <<out, bound, told, gone>>

(* What pjsip_endpt_send_request() makes of a request, and where the       *)
(* thread goes on.  A refused request leaves has_tsx set.                  *)
Sending(t, o, sent, unsent) ==
    \/ out' = o /\ Goto(t, sent)
    \/ "failed" \in Faults /\ out' = o /\ Goto(t, unsent)
    \/ "refused" \in Faults /\ UNCHANGED out /\ Goto(t, unsent)

Transmit(t) == /\ At(t, "transmit")
               /\ Sending(t, req[t], "sent", "unsent")
               /\ told' = FALSE
               /\ req' = [req EXCEPT ![t] = "IDLE"]
               /\ UNCHANGED <<regc, bound, gone>>

(* The refresh timer has counted itself, so that only a user finds the     *)
(* counter at zero here.                                                   *)
SendLeave(t) ==
    /\ At(t, "sent") \/ At(t, "unsent")
    /\ regc' = Leave(regc)
    /\ Goto(t, IF t \in Workers
               THEN IF pc[t] = "sent" THEN "exit" ELSE "tell"
               ELSE IF regc.busy = 1 THEN "check" ELSE "idle")
    /\ UNCHANGED <<req, out, bound, told, gone>>

(* The last one out destroys the registration if the user has asked.       *)
Check(t) == /\ At(t, "check")
            /\ regc' = IF regc.del THEN Destroy(regc) ELSE regc
            /\ Goto(t, "idle")
            /\ UNCHANGED <<req, out, bound, told, gone>>

-----------------------------------------------------------------------------
(* regc_refresh_timer_cb().                                                *)

Pop(w) == /\ At(w, "idle") /\ regc.heap
          /\ regc' = [regc EXCEPT !.heap = FALSE]
          /\ Goto(w, "popped")
          /\ UNCHANGED <<req, out, bound, told, gone>>

RefreshEnter(w) == /\ At(w, "popped")
                   /\ regc' = [Enter(regc) EXCEPT !.id = FALSE]
                   /\ Goto(w, "refresh")
                   /\ UNCHANGED <<req, out, bound, told, gone>>

Refresh(w) == /\ At(w, "refresh")
              /\ regc' = Enter(Register(regc, TRUE))
              /\ req' = [req EXCEPT ![w] = "REGISTERING"]
              /\ Goto(w, "lock")
              /\ UNCHANGED <<out, bound, told, gone>>

-----------------------------------------------------------------------------
(* regc_tsx_callback().                                                    *)

Report(w) == /\ At(w, "idle") /\ out # "IDLE"
             /\ out' = "IDLE"
             /\ regc' = Enter(regc)
             /\ Goto(w, "report")
             /\ UNCHANGED <<req, bound, told, gone>>

CallsTsxCb == regc.tsx_cb /\ ~regc.del /\ regc.op = "REGISTERING"

(* The section begins: has_tsx is reset, and the user's tsx_cb is called   *)
(* without the lock before the response is handled.                        *)
CallTsxCb(w) ==
    /\ At(w, "report") /\ CallsTsxCb
    /\ regc' = Reported(regc)
    /\ Goto(w, "tsx_cb")
    /\ UNCHANGED <<req, out, bound, told, gone>>

(* The registration as the rest of the section finds it.                   *)
Handles(w, r) ==
    \/ /\ At(w, "report") /\ r = Reported(regc)
       /\ ~CallsTsxCb
    \/ At(w, "tsx_cb") /\ r = regc

(* The request is sent again from within the section, which holds the      *)
(* (recursive) lock all the time; a transaction begun by tsx_cb hinders it.*)
Resend(w, r, o) ==
    IF r.has
    THEN regc' = r /\ Goto(w, "tell") /\ UNCHANGED <<out, told>>
    ELSE /\ regc' = Begin([r EXCEPT !.tries = @ + 1], o)
         /\ Sending(w, o, "exit", "tell")
         /\ told' = FALSE

(* Plausible fault: the user does not hear that there are no credentials.  *)
Challenged_silent(w, r) ==
    /\ Handles(w, r)
    /\ \/ r.tries < MaxTries /\ Resend(w, Idle(r), r.op) /\ UNCHANGED bound
       \/ /\ regc' = Idle(r) /\ bound' = FALSE /\ Goto(w, "exit")
          /\ UNCHANGED <<out, told>>
    /\ UNCHANGED <<req, gone>>

(* 401 or 407, even if the user has gone; without fresh credentials the    *)
(* operation fails.                                                        *)
Challenged(w, r) ==
    /\ Handles(w, r)
    /\ \/ r.tries < MaxTries /\ Resend(w, Idle(r), r.op) /\ UNCHANGED bound
       \/ /\ regc' = Over(r) /\ bound' = FALSE /\ Goto(w, "tell")
          /\ UNCHANGED <<out, told>>
    /\ UNCHANGED <<req, gone>>

(* 423 to a registration asks for a longer expiration and sends again.     *)
TooBrief(w, r) ==
    /\ Handles(w, r) /\ ~r.del /\ r.op = "REGISTERING" /\ r.tries < MaxTries
    /\ Resend(w, Register(Idle(r), r.auto), "REGISTERING")
    /\ UNCHANGED <<req, bound, gone>>

(* The user has gone: nothing but the operation is reset.                  *)
Forgotten(w, r) ==
    /\ Handles(w, r) /\ r.del
    /\ regc' = Over(r)
    /\ Goto(w, "exit")
    /\ UNCHANGED <<req, out, bound, told, gone>>

(* A final status that ends the operation: a success, or a failure, which  *)
(* a 423 that was met already is, too.                                     *)
Final(w, r, success) ==
    LET granted == success /\ r.op = "REGISTERING"
    IN  /\ Handles(w, r) /\ ~r.del
        /\ regc' = Over(IF granted THEN Schedule(r) ELSE r)
        /\ bound' = granted
        /\ Goto(w, "tell")
        /\ UNCHANGED <<req, out, told, gone>>

(* call_callback(): the user is told, without the lock, unless regc->cb is *)
(* NULL.                                                                   *)
Tell(w) == /\ At(w, "tell")
           /\ told' = (told \/ ~regc.del)
           /\ Goto(w, "exit")
           /\ UNCHANGED <<regc, req, out, bound, gone>>

(* Plausible fault: the last one out does not look at _delete_flag.        *)
Exit_unchecked(w) == /\ At(w, "exit")
                     /\ regc' = Leave(regc)
                     /\ Goto(w, "idle")
                     /\ UNCHANGED <<req, out, bound, told, gone>>

Exit(w) == /\ At(w, "exit")
           /\ regc' = Leave(regc)
           /\ Goto(w, IF regc.busy = 1 THEN "check" ELSE "idle")
           /\ UNCHANGED <<req, out, bound, told, gone>>

-----------------------------------------------------------------------------
Calls(a) == \/ \E autoreg \in BOOLEAN : RegisterCall(a, autoreg)
            \/ UnregisterCall(a) \/ SetDelayCall(a) \/ DestroyCall(a)

Sends(t) == \/ SendEnter(t) \/ SendLocked(t) \/ SendBusy(t)
            \/ Transmit(t) \/ SendLeave(t) \/ Check(t)

Handle(w) == \E r \in {regc, Reported(regc)} :
                \/ Challenged(w, r) \/ TooBrief(w, r) \/ Forgotten(w, r)
                \/ \E success \in BOOLEAN : Final(w, r, success)

Works(w) == \/ Pop(w) \/ RefreshEnter(w) \/ Refresh(w)
            \/ Report(w) \/ CallTsxCb(w) \/ Handle(w)
            \/ Tell(w) \/ Exit(w)

Next == \/ \E a \in Apps : Calls(a)
        \/ \E t \in Threads : Sends(t)
        \/ \E w \in Workers : Works(w)

Spec == Init /\ [][Next]_vars

(* Threads run; the transaction reports; nobody has to call anything.      *)
Fairness == /\ \A a \in Apps : WF_vars(Sends(a))
            /\ \A w \in Workers : WF_vars(Sends(w) \/ Works(w))

LiveSpec == Spec /\ Fairness

-----------------------------------------------------------------------------
(* Sections a thread has counted itself for in busy_ctr.                   *)
Inside == {"lock", "busy", "transmit", "sent", "unsent",
           "refresh", "report", "tsx_cb", "tell", "exit"}

Insiders == {t \in Threads : pc[t] \in Inside}

(* A refresh is counted by the timer callback and by pjsip_regc_send().    *)
Refreshers == {w \in Workers : pc[w] \in {"lock", "busy", "transmit", "sent", "unsent"}}

(* busy_ctr counts the threads that are inside, twice a refresh that is    *)
(* sending ("Temporarily increase busy flag to prevent regc from being     *)
(* deleted").                                                              *)
BusyAccounted == regc.busy = Cardinality(Insiders) + Cardinality(Refreshers)

(* A registration that was freed has no transaction out and no thread      *)
(* that was counted inside: not even a callback that calls destroy.        *)
FreedQuiet == regc.freed => out = "IDLE" /\ ~regc.has /\ Insiders = {}

(* A transaction that is out is the one pending, and its response will be  *)
(* taken for an answer to what it asked; and, as pjsip_regc_send()         *)
(* asserts, none is pending only when no operation is.  A user's tsx_cb,   *)
(* called in between, may send and so overtake both.                       *)
OpTracked ==
    /\ out # "IDLE" => regc.has /\ (regc.tsx_cb \/ regc.op = out)
    /\ ~regc.tsx_cb /\ ~regc.has /\ (\E t \in Threads : pc[t] = "lock") => regc.op = "IDLE"

Underway == regc.has \/ \E t \in Threads : pc[t] \notin {"idle", "check"}

(* What is registered with auto_reg is refreshed: the timer is scheduled,  *)
(* or a request is on its way.                                             *)
NoLostRefresh ==
    bound /\ regc.auto /\ ~regc.del /\ ~regc.freed => regc.heap \/ Underway

(* A request was refused, and its end will never be reported.              *)
Stuck == regc.has /\ out = "IDLE" /\ \A t \in Threads : pc[t] = "idle"

(* The user hears of the end of each request unless it destroys the        *)
(* registration, even if it is challenged or turned back.                  *)
SentTold == (out # "IDLE" /\ ~told) ~> (told \/ gone \/ Stuck)

(* A registration that was destroyed by its one user is freed, unless a    *)
(* request was refused.                                                    *)
DestroyedFreed == gone ~> (regc.freed \/ Stuck)
=============================================================================
