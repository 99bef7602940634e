------------------------------- MODULE Dialog -------------------------------
(***************************************************************************)
(* One dialog that carries a call (sip_dialog.c), its transactions, and    *)
(* the three kinds of locks that threads take for it: the mutex of the     *)
(* user agent layer (sip_ua_layer.c), the dialog's, and the transactions'. *)
(* A step ends where its thread may have to wait for a lock that others    *)
(* hold; what a thread does under the dialog's lock without waiting is one *)
(* step.  The dialog is freed when nothing counts on it any more.          *)
(*                                                                         *)
(* The dialog's mutex is recursive: of the levels at which one thread      *)
(* holds it only the outermost is counted here.  Left out: what the        *)
(* messages carry (InviteSession), forking, pjsip_ua_find_dialog(), and    *)
(* the lock of a transaction that only its creator knows yet.              *)
(***************************************************************************)
EXTENDS Naturals, FiniteSets

CONSTANTS Workers,    \* the threads that poll timers and sockets
          Users,      \* the threads of the application
          Inv,        \* the transaction of the initial INVITE
          Extra,      \* bound: the transactions that may follow
          Roles,      \* of this end in the initial INVITE
          Faults,     \* what may go wrong in the run
          None

FaultKinds == {"error",      \* a transport fails after the message was queued
               "unsent"}     \* a request cannot be sent

ASSUME DialogAssumption == /\ Inv \notin Extra /\ IsFiniteSet(Extra)
                           /\ {"ua", "dlg"} \cap ({Inv} \cup Extra) = {}
                           /\ IsFiniteSet(Workers) /\ IsFiniteSet(Users)
                           /\ Workers \cap Users = {} /\ None \notin Workers \cup Users
                           /\ Roles \subseteq {"client", "server"}
                           /\ Faults \subseteq FaultKinds

Threads == Workers \cup Users
Tsxs == {Inv} \cup Extra
Locks == {"ua", "dlg"} \cup Tsxs

VARIABLES dlg,     \* the dialog
          tsx,     \* its transactions
          own,     \* who holds each lock
          th       \* where each thread is, and for which transaction

vars == <<dlg, tsx, own, th>>

(* "open" has no final response; the INVITE that a server has answered is  *)
(* "accepted" or "rejected", any other transaction "completed".            *)
TsxStates == {"none", "open", "accepted", "rejected", "completed", "confirmed",
              "terminated", "destroyed"}

(* Where a thread waits: for the INVITE's lock, for the dialog's, or for   *)
(* the user agent's; one that "failed" an assertion is not followed.       *)
Points == {"idle", "find", "cancel", "ack", "answer",
           "event", "report", "gap", "destroy", "failed"}

Idle == [at |-> "idle", t |-> None]

TypeOK ==
    /\ dlg \in [sess : Nat, tsx : Nat, call : BOOLEAN, reg : BOOLEAN, freed : BOOLEAN,
                lost : SUBSET {"gap", "terminate"}]
    /\ tsx \in [Tsxs -> [st : TsxStates, att : BOOLEAN, server : BOOLEAN]]
    /\ own \in [Locks -> Threads \cup {None}]
    /\ th \in [Threads -> [at : Points, t : Tsxs \cup {None}]]

(* The initial INVITE was sent, or has arrived: the call is one session.   *)
Init ==
    /\ dlg = [sess |-> 1, tsx |-> 1, call |-> TRUE, reg |-> TRUE, freed |-> FALSE,
              lost |-> {}]
    /\ \E r \in Roles :
         tsx = [t \in Tsxs |-> IF t = Inv
                               THEN [st |-> "open", att |-> TRUE, server |-> r = "server"]
                               ELSE [st |-> "none", att |-> FALSE, server |-> FALSE]]
    /\ own = [l \in Locks |-> None]
    /\ th = [x \in Threads |-> Idle]

-----------------------------------------------------------------------------
Free(l) == own[l] = None
Fresh == {t \in Extra : tsx[t].st = "none"}

Client == [st |-> "open", att |-> TRUE, server |-> FALSE]

Ended(d) == [d EXCEPT !.call = FALSE, !.sess = @ - 1]

Goes(x, at, t) == th' = [th EXCEPT ![x] = [at |-> at, t |-> t]]

(* pjsip_dlg_inc_lock(), once the mutex is free.  A thread that gets it    *)
(* while another is in the gap of pjsip_dlg_dec_lock() is noted.           *)
Entered(d) == [d EXCEPT !.sess = @ + 1,
                        !.lost = IF \E x \in Threads : th[x].at = "gap"
                                 THEN @ \cup {"gap"} ELSE @]

(* Plausible fault: the transactions are not waited for.                   *)
Leave_unwatched(x, d, held) ==
    LET last == d.sess = 1
    IN  /\ dlg' = [d EXCEPT !.sess = @ - 1]
        /\ own' = [l \in Locks |-> IF l = "dlg" \/ (~last /\ own[l] = x) THEN None ELSE own[l]]
        /\ IF last THEN Goes(x, "gap", held) ELSE th' = [th EXCEPT ![x] = Idle]

(* pjsip_dlg_dec_lock(): the last one lets go of the mutex before it takes *)
(* it again to destroy the dialog.  Otherwise the thread is done.          *)
Leave(x, d, held) ==
    LET last == d.sess = 1 /\ d.tsx = 0
    IN  /\ dlg' = [d EXCEPT !.sess = @ - 1]
        /\ own' = [l \in Locks |-> IF l = "dlg" \/ (~last /\ own[l] = x) THEN None ELSE own[l]]
        /\ IF last THEN Goes(x, "gap", held) ELSE th' = [th EXCEPT ![x] = Idle]

(* The thread keeps the dialog's lock and waits for the INVITE's.          *)
Waits(x, d, at) ==
    /\ dlg' = d
    /\ own' = [l \in Locks |-> IF l = "dlg" THEN x ELSE IF own[l] = x THEN None ELSE own[l]]
    /\ Goes(x, at, Inv)

-----------------------------------------------------------------------------
(* Requests of the other end.  pjsip_dlg_on_rx_request() creates the       *)
(* transaction, and its usages answer at once.                             *)

Serve(t) == [tsx EXCEPT ![t] = [st |-> "completed", att |-> TRUE, server |-> TRUE]]

(* Plausible fault: a request waits for the dialog with the user agent's   *)
(* mutex in its hand.                                                      *)
Request_blocking(w) ==
    \E t \in Fresh :
        /\ th[w].at = "idle" /\ dlg.reg /\ Free("ua")
        /\ IF Free("dlg")
           THEN /\ tsx' = Serve(t)
                /\ LET d == [Entered(dlg) EXCEPT !.tsx = @ + 1] IN Leave(w, d, None)
           ELSE /\ own' = [own EXCEPT !["ua"] = w]
                /\ Goes(w, "report", t)
                /\ UNCHANGED <<dlg, tsx>>

(* mod_ua_on_rx_request(): with the user agent's mutex the dialog's is     *)
(* only tried, and all is tried again later.                               *)
Request(w) ==
    \E t \in Fresh :
        /\ th[w].at = "idle" /\ dlg.reg /\ Free("ua") /\ Free("dlg")
        /\ tsx' = Serve(t)
        /\ LET d == [Entered(dlg) EXCEPT !.tsx = @ + 1] IN Leave(w, d, None)

(* A BYE ends the call; one that comes before the answer has the INVITE    *)
(* answered with 487.                                                      *)
Bye(w) ==
    \E t \in Fresh :
        /\ th[w].at = "idle" /\ dlg.reg /\ Free("ua") /\ Free("dlg") /\ dlg.call
        /\ tsx' = Serve(t)
        /\ LET d == [Ended(Entered(dlg)) EXCEPT !.tsx = @ + 1]
           IN  IF tsx[Inv].server /\ tsx[Inv].st = "open"
               THEN Waits(w, d, "cancel") ELSE Leave(w, d, None)

(* mod_inv_on_rx_request(): an ACK ends the INVITE that was accepted.      *)
Ack(w) ==
    /\ th[w].at = "idle" /\ dlg.reg /\ Free("ua") /\ Free("dlg")
    /\ tsx[Inv].server /\ tsx[Inv].st = "accepted" /\ tsx[Inv].att
    /\ Waits(w, Entered(dlg), "ack")
    /\ UNCHANGED tsx

(* A CANCEL finds its dialog by the INVITE's transaction, whose lock is    *)
(* waited for with the user agent's mutex (find_dlg_set_for_msg()).        *)
CancelRequest(w) ==
    /\ th[w].at = "idle" /\ Free("ua") /\ Fresh # {}
    /\ tsx[Inv].server /\ tsx[Inv].st # "destroyed"
    /\ own' = [own EXCEPT !["ua"] = w]
    /\ Goes(w, "find", Inv)
    /\ UNCHANGED <<dlg, tsx>>

(* With no dialog it is answered with 481; with one that is locked the     *)
(* search begins again.                                                    *)
Find(w) ==
    /\ th[w].at = "find" /\ Free(Inv)
    /\ IF tsx[Inv].att /\ Free("dlg")
       THEN \E t \in Fresh :
              /\ tsx' = Serve(t)
              /\ LET d == [Entered(dlg) EXCEPT !.tsx = @ + 1]
                 IN  IF dlg.call THEN Waits(w, d, "cancel") ELSE Leave(w, d, None)
       ELSE /\ own' = [own EXCEPT !["ua"] = None]
            /\ th' = [th EXCEPT ![w] = Idle]
            /\ UNCHANGED <<dlg, tsx>>

(* inv_respond_incoming_cancel(), and an early BYE: 487 ends the INVITE    *)
(* and, with it, the call.                                                 *)
RespondCancel(w) ==
    /\ th[w].at = "cancel" /\ Free(Inv)
    /\ IF tsx[Inv].st = "open"
       THEN /\ tsx' = [tsx EXCEPT ![Inv].st = "rejected"]
            /\ Leave(w, IF dlg.call THEN Ended(dlg) ELSE dlg, None)
       ELSE /\ UNCHANGED tsx
            /\ Leave(w, dlg, None)

(* pjsip_tsx_terminate(), which has looked at the state before it had the  *)
(* lock, and its notification.                                             *)
AckTerminate(w) ==
    /\ th[w].at = "ack" /\ Free(Inv)
    /\ tsx' = [tsx EXCEPT ![Inv].st = "terminated", ![Inv].att = FALSE]
    /\ LET d == IF tsx[Inv].att THEN [dlg EXCEPT !.tsx = @ - 1] ELSE dlg
       IN  Leave(w, IF tsx[Inv].st = "accepted" THEN d
                    ELSE [d EXCEPT !.lost = @ \cup {"terminate"}], None)

-----------------------------------------------------------------------------
(* Responses and timers.                                                   *)

(* The states that a message or a timer brings a transaction to.           *)
Onward(t) ==
    CASE tsx[t].st = "open" -> IF tsx[t].server THEN {} ELSE {"completed", "terminated"}
      [] tsx[t].st = "rejected" -> {"confirmed", "terminated"}
      [] tsx[t].st \in {"accepted", "completed", "confirmed"} -> {"terminated"}
      [] tsx[t].st = "terminated" -> {"destroyed"}
      [] OTHER -> {}

(* The state handler of a transaction, up to its notification, which finds *)
(* the dialog if it is still attached.  A response takes the same way a    *)
(* first time before (mod_ua_on_rx_response()), and changes nothing here.  *)
Event(w, t) ==
    /\ th[w].at = "idle" /\ Free(t)
    /\ \E s \in Onward(t) : tsx' = [tsx EXCEPT ![t].st = s]
    /\ IF tsx[t].att THEN /\ own' = [own EXCEPT ![t] = w]
                          /\ Goes(w, "event", t)
                     ELSE UNCHANGED <<own, th>>
    /\ UNCHANGED dlg

(* tsx_timer_callback() of a transport error, which notifies without the   *)
(* transaction's lock: "otherwise we'll get a deadlock".                   *)
TransportError(w, t) ==
    /\ "error" \in Faults
    /\ th[w].at = "idle" /\ Free(t)
    /\ tsx[t].st \notin {"none", "terminated", "destroyed"}
    /\ tsx' = [tsx EXCEPT ![t].st = "terminated"]
    /\ IF tsx[t].att THEN Goes(w, "report", t) ELSE UNCHANGED th
    /\ UNCHANGED <<dlg, own>>

(* Plausible fault: whether the dialog is still attached is not asked.     *)
Detached_unasked(d, t) ==
    IF tsx[t].st = "terminated" /\ d.tsx > 0 THEN [d EXCEPT !.tsx = @ - 1] ELSE d

(* A transaction that is terminated leaves the dialog, once.               *)
Detached(d, t) ==
    IF tsx[t].st = "terminated" /\ tsx[t].att THEN [d EXCEPT !.tsx = @ - 1] ELSE d

(* pjsip_dlg_on_tsx_state(): the INVITE, or a request of this end, may     *)
(* have the invite session end the call, send a BYE, or both; then the     *)
(* transaction is detached.                                                *)
OnTsxState(w) ==
    LET t == th[w].t
        d == Detached(Entered(dlg), t)
        seen == IF tsx[t].st = "terminated" THEN [tsx EXCEPT ![t].att = FALSE] ELSE tsx
        acts == dlg.call /\ (t = Inv \/ ~tsx[t].server)
    IN  /\ th[w].at \in {"event", "report"} /\ Free("dlg") /\ ~dlg.freed
        /\ \E over \in BOOLEAN, B \in {{}} \cup {{b} : b \in Fresh} :
             /\ over \/ B # {} => acts
             /\ tsx' = [b \in Tsxs |-> IF b \in B THEN Client ELSE seen[b]]
             /\ LET n == [d EXCEPT !.tsx = @ + Cardinality(B)]
                IN  Leave(w, IF over THEN Ended(n) ELSE n, t)

-----------------------------------------------------------------------------
(* The end of pjsip_dlg_dec_lock().                                        *)

(* unregister_and_destroy_dialog() asserts that nothing came in between.   *)
Relock(x) ==
    /\ th[x].at = "gap" /\ Free("dlg") /\ ~dlg.freed
    /\ own' = [own EXCEPT !["dlg"] = x]
    /\ Goes(x, IF dlg.sess = 0 /\ dlg.tsx = 0 THEN "destroy" ELSE "failed", th[x].t)
    /\ UNCHANGED <<dlg, tsx>>

Destroy(x) ==
    /\ th[x].at = "destroy" /\ Free("ua")
    /\ dlg' = [dlg EXCEPT !.reg = FALSE, !.freed = TRUE]
    /\ own' = [l \in Locks |-> IF own[l] = x THEN None ELSE own[l]]
    /\ th' = [th EXCEPT ![x] = Idle]
    /\ UNCHANGED tsx

-----------------------------------------------------------------------------
(* The users, who take the dialog's lock while the call is known to live   *)
(* (pjsua's acquire_call()).                                               *)

(* pjsip_dlg_send_response(): the dialog's lock, then the INVITE's.        *)
Answer(u) ==
    /\ th[u].at = "idle" /\ dlg.call /\ Free("dlg")
    /\ tsx[Inv].server /\ tsx[Inv].st = "open" /\ tsx[Inv].att
    /\ Waits(u, Entered(dlg), "answer")
    /\ UNCHANGED tsx

SendAnswer(u) ==
    /\ th[u].at = "answer" /\ Free(Inv)
    /\ \/ /\ tsx[Inv].st = "open"
          /\ tsx' = [tsx EXCEPT ![Inv].st = "accepted"]
          /\ Leave(u, dlg, None)
       \/ /\ tsx[Inv].st = "open"
          /\ tsx' = [tsx EXCEPT ![Inv].st = "rejected"]
          /\ Leave(u, Ended(dlg), None)
       \/ /\ tsx[Inv].st # "open"
          /\ Leave(u, dlg, None)
          /\ UNCHANGED tsx

(* Plausible fault: a request that could not be sent is counted for ever.  *)
Send_kept(u) ==
    \E t \in Fresh :
        /\ th[u].at = "idle" /\ dlg.call /\ Free("dlg")
        /\ \/ tsx' = [tsx EXCEPT ![t] = Client]
           \/ "unsent" \in Faults /\ tsx' = [tsx EXCEPT ![t].st = "terminated"]
        /\ Leave(u, [Entered(dlg) EXCEPT !.tsx = @ + 1], None)

(* pjsip_dlg_send_request(): a transaction that cannot send is terminated, *)
(* and has left the dialog when the call returns.                          *)
Send(u) ==
    \E t \in Fresh :
        /\ th[u].at = "idle" /\ dlg.call /\ Free("dlg")
        /\ \/ /\ tsx' = [tsx EXCEPT ![t] = Client]
              /\ Leave(u, [Entered(dlg) EXCEPT !.tsx = @ + 1], None)
           \/ /\ "unsent" \in Faults
              /\ tsx' = [tsx EXCEPT ![t].st = "terminated"]
              /\ Leave(u, Entered(dlg), None)

-----------------------------------------------------------------------------
Work(w) == \/ Request(w) \/ Bye(w) \/ Ack(w) \/ CancelRequest(w)
           \/ \E t \in Tsxs : Event(w, t) \/ TransportError(w, t)

(* What a thread goes on with, once the lock is free.                      *)
GoesOn(x) == \/ Find(x) \/ RespondCancel(x) \/ AckTerminate(x)
             \/ OnTsxState(x) \/ Relock(x) \/ Destroy(x) \/ SendAnswer(x)

Next == \/ \E w \in Workers : Work(w)
        \/ \E u \in Users : Answer(u) \/ Send(u)
        \/ \E x \in Threads : GoesOn(x)

Spec == Init /\ [][Next]_vars

(* Mutexes are given to those that wait, and the workers serve every timer *)
(* that is due, whatever else they have to do.  Nobody has to send.        *)
Fairness == /\ \A x \in Threads : SF_vars(GoesOn(x))
            /\ \A t \in Tsxs : SF_vars(\E w \in Workers : Event(w, t))

LiveSpec == Spec /\ Fairness

-----------------------------------------------------------------------------
Holders == {x \in Threads : th[x].at \in {"cancel", "ack", "answer"}}

(* The session count is the call and the threads inside, the transaction   *)
(* count the transactions that have the dialog to notify.                  *)
CountsAccounted ==
    /\ dlg.sess = (IF dlg.call THEN 1 ELSE 0) + Cardinality(Holders)
    /\ dlg.tsx = Cardinality({t \in Tsxs : tsx[t].att})

(* "Number of sessions must be zero", "MUST not have pending transactions":*)
(* a dialog is destroyed when nothing is left that could reach it, and     *)
(* nobody waits for its lock, unless one of the two races was lost: a      *)
(* request that came in the gap of pjsip_dlg_dec_lock(), and an ACK that   *)
(* terminates a transaction which has just failed.                         *)
FreedUnwatched ==
    dlg.lost = {} =>
    /\ \A x \in Threads : th[x].at # "failed"
    /\ dlg.freed => /\ ~dlg.reg /\ \A t \in Tsxs : ~tsx[t].att
                    /\ \A x \in Threads : th[x].at \in {"idle", "find"}

(* The locks that a thread waits for.                                      *)
Wanted(x) ==
    CASE th[x].at \in {"find", "cancel", "ack", "answer"} -> {Inv}
      [] th[x].at \in {"event", "report", "gap"} -> {"dlg"}
      [] th[x].at = "destroy" -> {"ua"}
      [] OTHER -> {}

(* Threads of which each waits for another.                                *)
Stuck(S) == S # {} /\ \A x \in S : \E l \in Wanted(x) : own[l] \in S

(* No threads wait for each other, but for those that take the lock of the *)
(* INVITE's transaction after the dialog's or the user agent's.            *)
NoCircularWait ==
    \A S \in SUBSET Threads :
        Stuck(S) => \E x \in S : th[x].at \in {"find", "cancel", "ack", "answer"}

(* "it must lock the user agent's dialog table first, to prevent deadlock",*)
(* "Must acquire dialog first, to prevent deadlock": no threads wait for   *)
(* each other.                                                             *)
NoDeadlock == \A S \in SUBSET Threads : ~Stuck(S)

(* A transaction whose failure was reported after its end never leaves.    *)
Leaked == \E t \in Tsxs : tsx[t].att /\ tsx[t].st = "destroyed"

(* A callee's session that failed before the answer: the INVITE gets none. *)
Unanswered == tsx[Inv].server /\ tsx[Inv].st = "open"

(* The dialog of a call that has ended is freed, unless a race was lost,   *)
(* threads wait for each other, or a transaction does not leave.           *)
DialogFreed == (~dlg.call /\ ~Unanswered)
               ~> (dlg.freed \/ dlg.lost # {} \/ ~NoDeadlock \/ Leaked)

=============================================================================
